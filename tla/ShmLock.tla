-------------------------------- MODULE ShmLock --------------------------------
(***************************************************************************)
(* The futex mutex of include/safe-shm/shm_lock.hpp: a uint32_t in a named   *)
(* shared-memory file, 0 = free and 1 = taken.  Each process (or thread with *)
(* a ShmLock of its own) opens the name and keeps what it opened mapped,     *)
(* even after somebody unlinked the name; a later open then creates a new    *)
(* file.  One shared-memory access or one futex call per step.              *)
(***************************************************************************)
EXTENDS Naturals

CONSTANTS Procs,         \* users of the lock's name
          MaxFiles,      \* bound on the files created under the name
          MaxCrashes,    \* bound on the processes that die
          DestroyAlone   \* TRUE: callers use destroy() only when nobody else
                         \* has the lock or opens it; FALSE: whenever they are
                         \* done with it, as ~DblBufLoader() does

ASSUME ShmLockAssumption ==
  MaxFiles \in Nat /\ MaxCrashes \in Nat /\ DestroyAlone \in BOOLEAN

VARIABLES
  pc,      \* per process: "closed", "open", "slow" (before the exchange of
           \* the slow path), "futex" (before FUTEX_WAIT), "sleep", "cs" (owns
           \* the lock), "waking" (before FUTEX_WAKE), "unlink" (in destroy())
  map,     \* the file a process has mapped, 0 if none
  lock,    \* the word in each file
  name,    \* the file the name stands for, 0 if none
  files,   \* files created so far
  crashes  \* processes that died so far

vars == <<pc, map, lock, name, files, crashes>>

Files == 1 .. MaxFiles

Init ==
  /\ pc = [p \in Procs |-> "closed"]
  /\ map = [p \in Procs |-> 0]
  /\ lock = [f \in Files |-> 0]
  /\ name = 0 /\ files = 0
  /\ crashes = 0

Word(p) == lock[map[p]]

Goto(p, label) == pc' = [pc EXCEPT ![p] = label]

-----------------------------------------------------------------------------
(* Construction and destruction.                                            *)

\* The constructor opens the name, or creates a zero-filled file under it.
Open(p) ==
  /\ pc[p] = "closed"
  /\ DestroyAlone => \A q \in Procs : pc[q] # "unlink"
  /\ \/ /\ name # 0
        /\ map' = [map EXCEPT ![p] = name]
        /\ UNCHANGED <<name, files>>
     \/ /\ name = 0 /\ files < MaxFiles
        /\ map' = [map EXCEPT ![p] = files + 1]
        /\ name' = files + 1 /\ files' = files + 1
  /\ Goto(p, "open")
  /\ UNCHANGED <<lock, crashes>>

\* The ShmLock goes out of scope without destroy().
Close(p) ==
  /\ pc[p] = "open"
  /\ map' = [map EXCEPT ![p] = 0]
  /\ Goto(p, "closed")
  /\ UNCHANGED <<lock, name, files, crashes>>

\* destroy(): "Ensure unlocked before removing the backing file".
Destroy(p) ==
  /\ pc[p] = "open"
  /\ DestroyAlone => \A q \in Procs \ {p} : map[q] = 0
  /\ lock' = [lock EXCEPT ![map[p]] = 0]
  /\ Goto(p, "unlink")
  /\ UNCHANGED <<map, name, files, crashes>>

\* shm_.destroy() at the end of destroy(): the name goes, mappings stay.
Unlink(p) ==
  /\ pc[p] = "unlink"
  /\ name' = 0
  /\ map' = [map EXCEPT ![p] = 0]
  /\ Goto(p, "closed")
  /\ UNCHANGED <<lock, files, crashes>>

-----------------------------------------------------------------------------
(* lock() and unlock().                                                     *)

\* Mutant: fetch_add(1) instead of exchange(1).
ExchangeAdds(p, otherwise) ==
  /\ lock' = [lock EXCEPT ![map[p]] = @ + 1]
  /\ Goto(p, IF Word(p) = 0 THEN "cs" ELSE otherwise)

\* exchange(1): a process that finds 0 has the lock.
Exchange(p, otherwise) ==
  /\ lock' = [lock EXCEPT ![map[p]] = 1]
  /\ Goto(p, IF Word(p) = 0 THEN "cs" ELSE otherwise)

\* The fast path of lock().
LockFast(p) ==
  /\ pc[p] = "open"
  /\ Exchange(p, "slow")
  /\ UNCHANGED <<map, name, files, crashes>>

\* The condition of the slow path's loop.
LockSlow(p) ==
  /\ pc[p] = "slow"
  /\ Exchange(p, "futex")
  /\ UNCHANGED <<map, name, files, crashes>>

\* Mutant: the sleep does not depend on the word.
FutexWaitBlind(p) ==
  /\ pc[p] = "futex"
  /\ Goto(p, "sleep")
  /\ UNCHANGED <<map, lock, name, files, crashes>>

\* Mutant: a waiter that finds the lock released takes it for its own.
FutexWaitTakes(p) ==
  /\ pc[p] = "futex"
  /\ Goto(p, IF Word(p) = 1 THEN "sleep" ELSE "cs")
  /\ UNCHANGED <<map, lock, name, files, crashes>>

\* FUTEX_WAIT(1): asleep if the word is still 1, otherwise EAGAIN.
FutexWait(p) ==
  /\ pc[p] = "futex"
  /\ Goto(p, IF Word(p) = 1 THEN "sleep" ELSE "slow")
  /\ UNCHANGED <<map, lock, name, files, crashes>>

\* FUTEX_WAIT may also return because of a signal.
Interrupted(p) ==
  /\ pc[p] = "sleep"
  /\ Goto(p, "slow")
  /\ UNCHANGED <<map, lock, name, files, crashes>>

\* Mutant: unlock() without futex_wake.
UnlockSilently(p) ==
  /\ pc[p] = "cs"
  /\ lock' = [lock EXCEPT ![map[p]] = 0]
  /\ Goto(p, "open")
  /\ UNCHANGED <<map, name, files, crashes>>

\* unlock() stores 0 ...
Unlock(p) ==
  /\ pc[p] = "cs"
  /\ lock' = [lock EXCEPT ![map[p]] = 0]
  /\ Goto(p, "waking")
  /\ UNCHANGED <<map, name, files, crashes>>

\* Those in FUTEX_WAIT on the file p has mapped.
Sleepers(p) == {q \in Procs : pc[q] = "sleep" /\ map[q] = map[p]}

\* ... and wakes one sleeper, if there is one.
FutexWake(p) ==
  /\ pc[p] = "waking"
  /\ \/ /\ Sleepers(p) = {}
        /\ Goto(p, "open")
     \/ \E q \in Sleepers(p) :
          pc' = [pc EXCEPT ![p] = "open", ![q] = "slow"]
  /\ UNCHANGED <<map, lock, name, files, crashes>>

\* A process dies, or is killed, inside a call or between two; the word stays
\* as it left it.  It may be started again.
Crash(p) ==
  /\ pc[p] # "closed" /\ crashes < MaxCrashes
  /\ crashes' = crashes + 1
  /\ map' = [map EXCEPT ![p] = 0]
  /\ Goto(p, "closed")
  /\ UNCHANGED <<lock, name, files>>

-----------------------------------------------------------------------------
\* What a process inside a call, or inside its critical section, does next.
Step(p) ==
  \/ LockSlow(p) \/ FutexWait(p) \/ Unlock(p) \/ FutexWake(p) \/ Unlink(p)

Environment(p) ==
  \/ Open(p) \/ Close(p) \/ Destroy(p) \/ LockFast(p) \/ Interrupted(p)
  \/ Crash(p)

Next == \E p \in Procs : Step(p) \/ Environment(p)

Spec == Init /\ [][Next]_vars

\* Processes keep running inside their calls and leave their critical sections.
FairSpec == Spec /\ \A p \in Procs : WF_vars(Step(p))

-----------------------------------------------------------------------------
(* Properties.                                                              *)

\* The type invariant: an open ShmLock maps one of the files created so far,
\* a closed one none, and the word of a file is 0 or 1.
TypeOK ==
  /\ pc \in [Procs -> {"closed", "open", "slow", "futex", "sleep", "cs",
                       "waking", "unlink"}]
  /\ files \in 0 .. MaxFiles
  /\ name \in 0 .. files
  /\ map \in [Procs -> 0 .. files]
  /\ \A p \in Procs : map[p] = 0 <=> pc[p] = "closed"
  /\ lock \in [Files -> {0, 1}]
  /\ crashes \in 0 .. MaxCrashes

\* "Cross-process mutex": no two users of the name are between lock() and
\* unlock() at the same time.
MutualExclusion ==
  \A p, q \in Procs : pc[p] = "cs" /\ pc[q] = "cs" => p = q

\* unlock() wakes one sleeper only, and a sleeper may lose the lock to someone
\* who was awake.  Still, a free lock with a sleeper always has somebody on
\* the way who will take it or wake a sleeper.
NoLostWakeup ==
  \A p \in Procs :
    pc[p] = "sleep" /\ Word(p) = 0 /\ crashes = 0 =>
      \E q \in Procs : /\ map[q] = map[p]
                       /\ pc[q] \in {"waking", "slow", "futex"}

\* What a death can do to the waiters: the owner died and the word stays 1, or
\* the process that was to wake a sleeper, or had been woken, died on the way.
Orphaned(p) ==
  /\ crashes > 0 /\ Word(p) = 1
  /\ \A q \in Procs : ~(map[q] = map[p] /\ pc[q] = "cs")
Deserted(p) ==
  /\ crashes > 0 /\ Word(p) = 0 /\ pc[p] = "sleep"
  /\ \A q \in Procs : map[q] = map[p] => pc[q] \notin {"waking", "slow", "futex"}

\* The lock never becomes useless: while p is in the slow path of lock(),
\* somebody gets the lock again and again (not necessarily p: lock() is not
\* fair), unless p itself dies or a death has left the word taken or the
\* sleepers without a wakeup.
LockProgress ==
  \A p \in Procs :
    pc[p] \in {"slow", "futex", "sleep"}
      ~> \/ \E q \in Procs : pc[q] = "cs"
         \/ pc[p] = "closed" \/ Orphaned(p) \/ Deserted(p)

-----------------------------------------------------------------------------
\* The inductive invariant, when destroy() is left to the last user: all users
\* have mapped the file the name stands for, the owner's word is 1, and a user
\* in destroy() is alone.
LockInv ==
  /\ TypeOK
  /\ MutualExclusion
  /\ \A p \in Procs : pc[p] = "cs" => Word(p) = 1
  /\ \A p \in Procs : map[p] \in {0, name}
  /\ \A p, q \in Procs : pc[p] = "unlink" /\ q # p => pc[q] = "closed"

Owners == {p \in Procs : pc[p] = "cs"}

M == INSTANCE Mutex WITH owners <- Owners

\* lock() and unlock() are the atomic operations of a mutex, whatever happens
\* in the futex calls, to other users and to the file.
IsMutex == M!MutexSpec
=============================================================================
