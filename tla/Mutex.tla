-------------------------------- MODULE Mutex --------------------------------
(***************************************************************************)
(* What ShmLock promises: a lock with at most one owner, released by its    *)
(* owner only.                                                              *)
(***************************************************************************)
CONSTANT Procs

VARIABLE owners     \* the processes between lock() and unlock()

MutexInit == owners = {}

Acquire(p) == owners = {} /\ owners' = {p}

Release(p) == owners = {p} /\ owners' = {}

MutexNext == \E p \in Procs : Acquire(p) \/ Release(p)

MutexSpec == MutexInit /\ [][MutexNext]_owners
=============================================================================
