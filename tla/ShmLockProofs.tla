----------------------------- MODULE ShmLockProofs -----------------------------
(***************************************************************************)
(* Proofs about ShmLock for any number of users, files and crashes.         *)
(***************************************************************************)
EXTENDS ShmLock, TLAPS

USE ShmLockAssumption

-----------------------------------------------------------------------------
(* Mutual exclusion.                                                        *)

\* Every step keeps LockInv.
LEMMA StepLock ==
  ASSUME DestroyAlone, LockInv, [Next]_vars
  PROVE  LockInv'
<1> USE DEF LockInv, TypeOK, MutualExclusion, Word, Goto, Files
<1>1. ASSUME NEW p \in Procs, Open(p) PROVE LockInv'
  <2> USE <1>1 DEF Open
  <2>1. CASE name # 0
    BY <2>1
  <2>2. CASE name = 0
    <3>1. \A q \in Procs : pc[q] = "closed" /\ map[q] = 0
      BY <2>2
    <3>2. files + 1 \in Files /\ files' = files + 1 /\ name' = files + 1
      BY <2>2
    <3>3. map' = [map EXCEPT ![p] = files + 1] BY <2>2
    <3>4. TypeOK' BY <3>1, <3>2, <3>3
    <3> QED BY <3>1, <3>2, <3>3, <3>4
  <2> QED BY <2>1, <2>2
<1>2. ASSUME NEW p \in Procs, Close(p) PROVE LockInv' BY <1>2 DEF Close
<1>3. ASSUME NEW p \in Procs, Destroy(p) PROVE LockInv' BY <1>3 DEF Destroy
<1>4. ASSUME NEW p \in Procs, Unlink(p) PROVE LockInv' BY <1>4 DEF Unlink
<1>5. ASSUME NEW p \in Procs, LockFast(p) PROVE LockInv'
  BY <1>5 DEF LockFast, Exchange
<1>6. ASSUME NEW p \in Procs, LockSlow(p) PROVE LockInv'
  BY <1>6 DEF LockSlow, Exchange
<1>7. ASSUME NEW p \in Procs, FutexWait(p) PROVE LockInv' BY <1>7 DEF FutexWait
<1>8. ASSUME NEW p \in Procs, Interrupted(p) PROVE LockInv'
  BY <1>8 DEF Interrupted
<1>9. ASSUME NEW p \in Procs, Unlock(p) PROVE LockInv' BY <1>9 DEF Unlock
<1>10. ASSUME NEW p \in Procs, FutexWake(p) PROVE LockInv'
  <2> USE <1>10 DEF FutexWake, Sleepers
  <2>1. CASE pc' = [pc EXCEPT ![p] = "open"]
    BY <2>1
  <2>2. ASSUME NEW q \in Sleepers(p), pc' = [pc EXCEPT ![p] = "open", ![q] = "slow"]
        PROVE  LockInv'
    <3>1. pc'[q] = "slow" /\ pc[q] = "sleep" /\ pc'[p] = "open" /\ q \in Procs
      BY <2>2
    <3>2. \A z \in Procs \ {p, q} : pc'[z] = pc[z]
      BY <2>2
    <3>3. TypeOK' BY <2>2, <3>1, <3>2
    <3>4. \A z \in Procs : /\ pc'[z] \in {"cs", "unlink"} => pc'[z] = pc[z]
                           /\ pc[z] = "closed" => pc'[z] = "closed"
      BY <3>1, <3>2
    <3>5. MutualExclusion' BY <3>4
    <3>6. (\A z \in Procs : pc[z] = "cs" => Word(z) = 1)' BY <3>4
    <3>7. (\A z \in Procs : map[z] \in {0, name})' OBVIOUS
    <3>8. (\A z, y \in Procs : pc[z] = "unlink" /\ y # z => pc[y] = "closed")'
      BY <3>4
    <3> QED BY <3>3, <3>5, <3>6, <3>7, <3>8
  <2> QED BY <2>1, <2>2
<1>11. ASSUME NEW p \in Procs, Crash(p) PROVE LockInv' BY <1>11 DEF Crash
<1>12. CASE UNCHANGED vars BY <1>12 DEF vars
<1> QED
  BY <1>1, <1>2, <1>3, <1>4, <1>5, <1>6, <1>7, <1>8, <1>9, <1>10, <1>11, <1>12
  DEF Next, Step, Environment

\* LockInv always holds, if destroy() is left to the last user.
THEOREM LockInvariance ==
  ASSUME DestroyAlone
  PROVE  Spec => []LockInv
<1>1. Init => LockInv
  BY DEF Init, LockInv, TypeOK, MutualExclusion, Word, Files
<1> QED BY <1>1, StepLock, PTL DEF Spec

\* The type invariant holds of every state.
THEOREM TypeCorrect ==
  ASSUME DestroyAlone
  PROVE  Spec => []TypeOK
<1>1. LockInv => TypeOK BY DEF LockInv
<1> QED BY <1>1, LockInvariance, PTL

-----------------------------------------------------------------------------
(* Wakeups.                                                                 *)

\* Every step keeps NoLostWakeup: the word turns 0 only under a user that will
\* call FUTEX_WAKE next, and nobody goes to sleep over a 0.
LEMMA StepWakeup ==
  ASSUME DestroyAlone, LockInv, LockInv', NoLostWakeup, [Next]_vars
  PROVE  NoLostWakeup'
<1> USE DEF LockInv, TypeOK, NoLostWakeup, Word, Goto, Files
<1>1. ASSUME NEW p \in Procs, Open(p) PROVE NoLostWakeup'
  <2>1. \A q \in Procs \ {p} : pc'[q] = pc[q] /\ map'[q] = map[q]
    BY <1>1 DEF Open
  <2>2. pc[p] = "closed" /\ pc'[p] = "open" /\ lock' = lock /\ crashes' = crashes
    BY <1>1 DEF Open
  <2>3. SUFFICES ASSUME NEW q \in Procs,
                        pc'[q] = "sleep", Word(q)' = 0, crashes' = 0
                 PROVE  \E z \in Procs : /\ map'[z] = map'[q]
                                         /\ pc'[z] \in {"waking", "slow", "futex"}
    BY DEF NoLostWakeup
  <2>4. q # p /\ pc[q] = "sleep" /\ Word(q) = 0 /\ crashes = 0
    BY <2>1, <2>2, <2>3
  <2>5. PICK z \in Procs : map[z] = map[q] /\ pc[z] \in {"waking", "slow", "futex"}
    BY <2>4
  <2>6. z # p BY <2>2, <2>5
  <2> QED BY <2>1, <2>4, <2>5, <2>6
<1>2. ASSUME NEW p \in Procs, Close(p) PROVE NoLostWakeup' BY <1>2 DEF Close
<1>3. ASSUME NEW p \in Procs, Destroy(p) PROVE NoLostWakeup'
  <2>1. \A q \in Procs : pc'[q] # "sleep" BY <1>3 DEF Destroy
  <2> QED BY <2>1
<1>4. ASSUME NEW p \in Procs, Unlink(p) PROVE NoLostWakeup' BY <1>4 DEF Unlink
<1>5. ASSUME NEW p \in Procs, LockFast(p) PROVE NoLostWakeup'
  BY <1>5 DEF LockFast, Exchange
<1>6. ASSUME NEW p \in Procs, LockSlow(p) PROVE NoLostWakeup'
  BY <1>6 DEF LockSlow, Exchange
<1>7. ASSUME NEW p \in Procs, FutexWait(p) PROVE NoLostWakeup'
  BY <1>7 DEF FutexWait
<1>8. ASSUME NEW p \in Procs, Interrupted(p) PROVE NoLostWakeup'
  BY <1>8 DEF Interrupted
<1>9. ASSUME NEW p \in Procs, Unlock(p) PROVE NoLostWakeup' BY <1>9 DEF Unlock
<1>10. ASSUME NEW p \in Procs, FutexWake(p) PROVE NoLostWakeup'
  BY <1>10 DEF FutexWake, Sleepers
<1>11. ASSUME NEW p \in Procs, Crash(p) PROVE NoLostWakeup' BY <1>11 DEF Crash
<1>12. CASE UNCHANGED vars BY <1>12 DEF vars
<1> QED
  BY <1>1, <1>2, <1>3, <1>4, <1>5, <1>6, <1>7, <1>8, <1>9, <1>10, <1>11, <1>12
  DEF Next, Step, Environment

\* A sleeper on a free lock always has somebody awake on the way.
THEOREM Wakeups ==
  ASSUME DestroyAlone
  PROVE  Spec => []NoLostWakeup
<1>1. Init => NoLostWakeup BY DEF Init, NoLostWakeup
<1>2. LockInv /\ LockInv' /\ NoLostWakeup /\ [Next]_vars => NoLostWakeup'
  BY StepWakeup
<1> QED BY <1>1, <1>2, LockInvariance, PTL DEF Spec

-----------------------------------------------------------------------------
(* Refinement of the abstract mutex.                                        *)

\* A step that leaves the set of processes in "cs" alone is a stutter.
LEMMA SameOwners ==
  ASSUME \A p \in Procs : pc'[p] = "cs" <=> pc[p] = "cs"
  PROVE  UNCHANGED Owners
BY DEF Owners

\* Every step is an acquisition, a release or neither.
LEMMA StepMutex ==
  ASSUME DestroyAlone, LockInv, [Next]_vars
  PROVE  [M!MutexNext]_Owners
<1> USE DEF LockInv, TypeOK, Word, Goto, Files
<1>1. ASSUME NEW p \in Procs, NEW l \in {"slow", "futex"},
             pc[p] \in {"open", "slow"}, Exchange(p, l)
      PROVE  [M!MutexNext]_Owners
  <2> USE <1>1 DEF Exchange
  <2>1. CASE Word(p) = 0
    <3>1. Owners = {} BY <2>1 DEF Owners
    <3>2. Owners' = {p} BY <2>1, <3>1 DEF Owners
    <3> QED BY <3>1, <3>2 DEF M!MutexNext, M!Acquire
  <2>2. CASE Word(p) # 0
    BY <2>2, SameOwners
  <2> QED BY <2>1, <2>2
<1>2. ASSUME NEW p \in Procs, LockFast(p) \/ LockSlow(p)
      PROVE  [M!MutexNext]_Owners
  BY <1>1, <1>2 DEF LockFast, LockSlow
<1>3. ASSUME NEW p \in Procs, Unlock(p) \/ (Crash(p) /\ pc[p] = "cs")
      PROVE  [M!MutexNext]_Owners
  <2>1. Owners = {p} BY <1>3 DEF Unlock, Owners, MutualExclusion
  <2>2. Owners' = {} BY <1>3, <2>1 DEF Unlock, Crash, Owners
  <2> QED BY <2>1, <2>2 DEF M!MutexNext, M!Release
<1>4. ASSUME NEW p \in Procs,
             \/ Open(p) \/ Close(p) \/ Destroy(p) \/ Unlink(p) \/ FutexWait(p)
             \/ Interrupted(p) \/ (Crash(p) /\ pc[p] # "cs")
      PROVE  [M!MutexNext]_Owners
  <2>1. \A q \in Procs : pc'[q] = "cs" <=> pc[q] = "cs"
    BY <1>4 DEF Open, Close, Destroy, Unlink, FutexWait, Interrupted, Crash
  <2> QED BY <2>1, SameOwners
<1>5. ASSUME NEW p \in Procs, FutexWake(p) PROVE [M!MutexNext]_Owners
  <2>1. \A q \in Procs : pc'[q] = "cs" <=> pc[q] = "cs"
    BY <1>5 DEF FutexWake, Sleepers
  <2> QED BY <2>1, SameOwners
<1>6. CASE UNCHANGED vars BY <1>6, SameOwners DEF vars
<1> QED
  BY <1>2, <1>3, <1>4, <1>5, <1>6 DEF Next, Step, Environment

\* ShmLock is a mutex, if destroy() is left to the last user.
THEOREM Refinement ==
  ASSUME DestroyAlone
  PROVE  Spec => IsMutex
<1>1. Init => M!MutexInit BY DEF Init, M!MutexInit, Owners
<1>2. LockInv /\ [Next]_vars => [M!MutexNext]_Owners BY StepMutex
<1> QED BY <1>1, <1>2, LockInvariance, PTL DEF Spec, IsMutex, M!MutexSpec
=============================================================================
