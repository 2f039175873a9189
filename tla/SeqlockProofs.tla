----------------------------- MODULE SeqlockProofs -----------------------------
(***************************************************************************)
(* Proofs about Seqlock for any readers, payload, counter width and bounds. *)
(***************************************************************************)
EXTENDS Seqlock, SeqArith, TLAPS

USE SeqlockAssumption

\* The sequence of a store alternates between even and odd.
LEMMA Parity ==
  ASSUME NEW v \in Nat, Even(v)
  PROVE  ~Even(v + 1) /\ Even(v + 2)
BY ParityStep DEF Even

\* Two counts less than SeqMod apart that the code finds equal are equal.
LEMMA SeqInjective ==
  ASSUME NEW x \in Nat, NEW y \in Nat, x <= y, y - x < SeqMod, Seq(x) = Seq(y)
  PROVE  x = y
BY ModInjective DEF Seq

-----------------------------------------------------------------------------
(* The inductive invariant.                                                 *)

\* Zero-filled memory satisfies it.
LEMMA InitInv == Init => SeqlockInv
<1> SUFFICES ASSUME Init PROVE SeqlockInv
  OBVIOUS
<1>1. Zero \in Buffer BY DEF Zero, Buffer, StoreIds
<1>2. TypeOK
  <2>1. \A r \in Readers : rbefore[r] = 0 /\ rafter[r] = NoVer /\ rlast[r] = 0
    BY DEF Init
  <2>2. spoiled \in BOOLEAN BY DEF Init
  <2> QED BY <1>1, <2>1, <2>2 DEF Init, TypeOK, StoreIds, NoVer
<1>3. WriterInv BY DEF Init, WriterInv, Zero, Even
<1>4. ReaderInv BY DEF Init, ReaderInv
<1> QED BY <1>2, <1>3, <1>4 DEF SeqlockInv

\* A larger sequence is still an upper bound of what readers hold.
LEMMA Growth ==
  ASSUME TypeOK, ver' = ver + 1, UNCHANGED <<rbefore, rafter, rlast>>
  PROVE  \A r \in Readers :
           rbefore'[r] <= ver' /\ rafter'[r] <= ver' /\ rlast'[r] <= ver'
<1> SUFFICES ASSUME NEW r \in Readers
             PROVE  rbefore[r] <= ver' /\ rafter[r] <= ver' /\ rlast[r] <= ver'
  OBVIOUS
<1>1. ver \in Int /\ rbefore[r] \in Int /\ rafter[r] \in Int /\ rlast[r] \in Int
  BY DEF TypeOK, NoVer
<1>2. rbefore[r] <= ver /\ rafter[r] <= ver /\ rlast[r] <= ver
  BY DEF TypeOK
<1> QED BY <1>1, <1>2

\* Every step keeps SeqlockInv.
LEMMA StepInv ==
  ASSUME InOrder, SeqlockInv, [Next]_vars
  PROVE  SeqlockInv'
<1> USE DEF SeqlockInv
<1>1. ASSUME StoreBegin PROVE SeqlockInv'
  <2> USE <1>1 DEF StoreBegin, rvars, rlocals
  <2>1. TypeOK' BY DEF TypeOK, StoreIds, Buffer
  <2>2. WriterInv' BY DEF TypeOK, WriterInv, Even, StoreIds, Buffer
  <2>3. ReaderInv' BY DEF ReaderInv, Uniform
  <2> QED BY <2>1, <2>2, <2>3
<1>2. ASSUME StoreOdd PROVE SeqlockInv'
  <2> USE <1>2 DEF StoreOdd, OddStored, wvars, rvars, rlocals
  <2>0. wcur \in Nat /\ ver = wcur /\ (~spoiled => Even(ver) /\ ~Even(ver'))
    BY Parity DEF TypeOK, WriterInv
  <2>1. TypeOK'
    <3>1. ver' = ver + 1 /\ ver' \in 0 .. 2 * nstore /\ wcur \in 0 .. ver'
      BY <2>0 DEF TypeOK, WriterInv, StoreIds
    <3> QED BY <3>1, Growth DEF TypeOK
  <2>2. WriterInv' BY <2>0 DEF WriterInv
  <2>3. \A r \in Readers : rpc[r] = "copy" /\ ~spoiled => rbefore[r] # ver'
    BY <2>0 DEF ReaderInv
  <2>4. ReaderInv' BY <2>3 DEF ReaderInv, Uniform
  <2> QED BY <2>1, <2>2, <2>4
<1>3. ASSUME NEW w \in Words, StoreWord(w) PROVE SeqlockInv'
  <2> USE <1>3 DEF StoreWord, OddStored, rvars, rlocals
  <2>0. ver = wcur + 1 /\ (~spoiled => ~Even(ver))
    BY Parity DEF TypeOK, WriterInv
  <2>1. TypeOK' BY DEF TypeOK, StoreIds, Buffer
  <2>2. WriterInv' BY <2>0 DEF TypeOK, WriterInv, Buffer, StoreIds
  <2>3. ReaderInv' BY DEF ReaderInv, Uniform
  <2> QED BY <2>1, <2>2, <2>3
<1>4. ASSUME StoreEven PROVE SeqlockInv'
  <2> USE <1>4 DEF StoreEven, OddStored, rvars, rlocals
  <2>0. /\ wcur \in Nat /\ ver = wcur + 1 /\ ver' = ver + 1
        /\ ~spoiled => Even(ver')
    BY Parity DEF TypeOK, WriterInv
  <2>1. TypeOK'
    <3>1. ver' \in 0 .. 2 * nstore /\ wcur \in 0 .. ver' /\ ver \in Nat
      BY <2>0 DEF TypeOK, WriterInv, StoreIds
    <3>2. committed' \in 0 .. nstore' BY DEF TypeOK, StoreIds
    <3> QED BY <2>0, <3>1, <3>2, Growth DEF TypeOK
  <2>2. WriterInv' BY <2>0 DEF TypeOK, WriterInv
  <2>3. \A r \in Readers : rbefore[r] # ver'
    BY <2>0 DEF TypeOK
  <2>4. ReaderInv' BY <2>3 DEF ReaderInv, Uniform
  <2> QED BY <2>1, <2>2, <2>4
<1>5. ASSUME Wake PROVE SeqlockInv'
  <2> USE <1>5 DEF Wake
  <2>1. TypeOK' BY DEF TypeOK
  <2>2. WriterInv' BY DEF WriterInv
  <2>3. ReaderInv' BY DEF TypeOK, ReaderInv, Uniform
  <2> QED BY <2>1, <2>2, <2>3
<1>6. ASSUME Crash PROVE SeqlockInv'
  <2> USE <1>6 DEF Crash, OddStored, rvars, rlocals
  <2>1. TypeOK' BY DEF TypeOK
  <2>2. WriterInv' BY Parity DEF TypeOK, WriterInv
  <2>3. ReaderInv' BY DEF ReaderInv, Uniform
  <2> QED BY <2>1, <2>2, <2>3
<1>7. ASSUME Restart PROVE SeqlockInv'
  <2> USE <1>7 DEF Restart, rvars, rlocals
  <2>1. TypeOK' BY DEF TypeOK
  <2>2. WriterInv' BY DEF WriterInv
  <2>3. ReaderInv' BY DEF ReaderInv, Uniform
  <2> QED BY <2>1, <2>2, <2>3
\* The readers change nothing the writer's invariant is about.
<1>8. ASSUME UNCHANGED <<ver, data, wvars>> PROVE WriterInv'
  BY <1>8 DEF WriterInv, wvars
<1>9. ASSUME NEW r \in Readers, NEW pc \in {"idle", "spin"}, Goto(r, pc),
             UNCHANGED <<ver, data, wvars, out>>,
             rlast' \in [Readers -> Nat], \A q \in Readers : rlast'[q] <= ver,
             rop' \in [Readers -> {"load", "block", "timed"}]
      PROVE  SeqlockInv'
  <2> USE <1>9 DEF Goto
  <2>1. TypeOK' BY DEF TypeOK, wvars, Buffer, StoreIds, Zero, NoVer
  <2>2. ReaderInv' BY DEF TypeOK, ReaderInv, Uniform, wvars
  <2> QED BY <1>8, <2>1, <2>2
<1>10. ASSUME NEW r \in Readers,
              Load(r) \/ LoadBlocking(r) \/ Sequence(r) PROVE SeqlockInv'
  <2> USE <1>10 DEF Load, LoadBlocking, Call, Sequence, rlocals
  <2>1. TypeOK' BY DEF TypeOK, wvars
  <2>2. ReaderInv' BY DEF TypeOK, ReaderInv, Uniform, wvars
  <2> QED BY <1>8, <2>1, <2>2
<1>11. ASSUME NEW r \in Readers, ReadBefore(r) PROVE SeqlockInv'
  <2> USE <1>11 DEF ReadBefore
  <2>1. TypeOK' BY DEF TypeOK, wvars
  <2>2. ReaderInv' BY DEF TypeOK, ReaderInv, Uniform, wvars, Admits
  <2> QED BY <1>8, <2>1, <2>2
<1>12. ASSUME NEW r \in Readers, NEW w \in Words, CopyWord(r, w)
       PROVE SeqlockInv'
  <2> USE <1>12 DEF CopyWord
  <2>1. TypeOK' BY DEF TypeOK, wvars, Buffer
  <2>2. Even(ver) /\ ~spoiled => data[w] = committed
    BY Parity DEF TypeOK, WriterInv
  <2>3. ReaderInv' BY <2>2 DEF TypeOK, ReaderInv, Uniform, wvars, Buffer
  <2> QED BY <1>8, <2>1, <2>3
<1>13. ASSUME NEW r \in Readers, ReadAfter(r) PROVE SeqlockInv'
  <2> USE <1>13 DEF ReadAfter
  <2>1. TypeOK' BY DEF TypeOK, wvars
  <2>2. ReaderInv' BY DEF TypeOK, ReaderInv, Uniform, wvars
  <2> QED BY <1>8, <2>1, <2>2
<1>14. ASSUME NEW r \in Readers, Return(r) PROVE SeqlockInv'
  <2> USE <1>14 DEF Return
  <2>1. TypeOK' BY DEF TypeOK, wvars, Goto, Buffer, StoreIds, Zero, NoVer
  <2>2. ReaderInv' BY DEF TypeOK, ReaderInv, Uniform, wvars, Goto
  <2> QED BY <1>8, <2>1, <2>2
<1>15. ASSUME NEW r \in Readers, Retry(r) \/ Timeout(r) \/ Interrupted(r)
       PROVE SeqlockInv'
  BY <1>9, <1>15 DEF Retry, Timeout, Interrupted, TypeOK
<1>16. ASSUME NEW r \in Readers, FutexWait(r) PROVE SeqlockInv'
  <2>1. CASE Seq(ver) = Seq(rbefore[r])
    <3>1. TypeOK' BY <1>16, <2>1 DEF FutexWait, TypeOK, wvars
    <3>2. ReaderInv'
      BY <1>16, <2>1 DEF FutexWait, TypeOK, ReaderInv, Uniform, wvars
    <3>3. UNCHANGED <<ver, data, wvars>> BY <1>16 DEF FutexWait
    <3> QED BY <1>8, <3>1, <3>2, <3>3
  <2>2. CASE Seq(ver) # Seq(rbefore[r])
    BY <1>9, <1>16, <2>2 DEF FutexWait, TypeOK
  <2> QED BY <2>1, <2>2
<1>17. ASSUME UNCHANGED vars PROVE SeqlockInv'
  BY <1>17 DEF vars, wvars, rvars, rlocals, TypeOK, WriterInv, ReaderInv, Uniform
<1> QED
  BY <1>1, <1>2, <1>3, <1>4, <1>5, <1>6, <1>7, <1>10, <1>11, <1>12, <1>13,
     <1>14, <1>15, <1>16, <1>17
  DEF Next, WriterStep, ReaderStep, Environment

\* SeqlockInv always holds.
THEOREM Invariance ==
  ASSUME InOrder
  PROVE  Spec => []SeqlockInv
BY InitInv, StepInv, PTL DEF Spec

\* The type invariant holds of every state.
THEOREM TypeCorrect ==
  ASSUME InOrder
  PROVE  Spec => []TypeOK
<1>1. SeqlockInv => TypeOK BY DEF SeqlockInv
<1> QED BY <1>1, Invariance, PTL

\* A load never accepts a torn copy: ReadBefore to ReadAfter with an unchanged
\* sequence leaves no room for a word of another store.
THEOREM Consistency ==
  ASSUME InOrder
  PROVE  Spec => []ConsistentSnapshot
<1>1. SeqlockInv => ConsistentSnapshot
  <2> SUFFICES ASSUME SeqlockInv, NEW r \in Readers, Accepts(r),
                      rafter[r] - rbefore[r] < SeqMod, ~spoiled
               PROVE  Uniform(rbuf[r])
    BY DEF ConsistentSnapshot
  <2>1. rafter[r] \in Nat /\ rbefore[r] \in Nat /\ rafter[r] >= rbefore[r]
    BY DEF SeqlockInv, TypeOK, ReaderInv, Accepts, Complete
  <2>2. rafter[r] = rbefore[r] BY <2>1, SeqInjective DEF Accepts
  <2> QED BY <2>2 DEF SeqlockInv, ReaderInv, Accepts, Complete
<1> QED BY <1>1, Invariance, PTL

-----------------------------------------------------------------------------
(* Wakeups.  Nothing here depends on the order of the payload's accesses or  *)
(* on how the writer restarts.                                              *)

\* The part of the type invariant that the argument needs.
SleepInv ==
  /\ rpc \in [Readers -> {"idle", "spin", "copy", "wait", "sleep"}]
  /\ rbefore \in [Readers -> Int]
  /\ ver \in Int /\ wcur \in Int /\ crashes \in Nat
  /\ wpc = "down" => crashes > 0
  /\ NoLostWakeup

\* Every step keeps SleepInv: only FUTEX_WAIT puts a reader to sleep, after
\* comparing the sequence, and a store changes the sequence before it wakes.
LEMMA StepSleep == SleepInv /\ [Next]_vars => SleepInv'
<1> SUFFICES ASSUME SleepInv, [Next]_vars PROVE SleepInv'
  OBVIOUS
<1> USE DEF SleepInv, NoLostWakeup
<1>1. CASE StoreBegin BY <1>1 DEF StoreBegin, rvars, rlocals
<1>2. CASE StoreOdd BY <1>2 DEF StoreOdd, wvars, rvars, rlocals
<1>3. ASSUME NEW w \in Words, StoreWord(w) PROVE SleepInv'
  BY <1>3 DEF StoreWord, rvars, rlocals
<1>4. CASE StoreEven BY <1>4 DEF StoreEven, rvars, rlocals
<1>5. CASE Wake BY <1>5 DEF Wake
<1>6. CASE Crash BY <1>6 DEF Crash, rvars, rlocals
<1>7. CASE Restart BY <1>7 DEF Restart, rvars, rlocals
<1>8. ASSUME NEW r \in Readers, Load(r) \/ LoadBlocking(r) \/ Sequence(r)
      PROVE SleepInv'
  BY <1>8 DEF Load, LoadBlocking, Call, Sequence, wvars, rlocals
<1>9. ASSUME NEW r \in Readers, ReadBefore(r) PROVE SleepInv'
  BY <1>9 DEF ReadBefore, wvars
<1>10. ASSUME NEW r \in Readers, NEW w \in Words, CopyWord(r, w)
       PROVE SleepInv'
  BY <1>10 DEF CopyWord, wvars
<1>11. ASSUME NEW r \in Readers, ReadAfter(r) PROVE SleepInv'
  BY <1>11 DEF ReadAfter, wvars
<1>12. ASSUME NEW r \in Readers,
              Return(r) \/ Retry(r) \/ Timeout(r) \/ Interrupted(r)
       PROVE SleepInv'
  BY <1>12 DEF Return, Retry, Timeout, Interrupted, Goto, wvars
<1>13. ASSUME NEW r \in Readers, FutexWait(r) PROVE SleepInv'
  BY <1>13 DEF FutexWait, Goto, wvars
<1>14. CASE UNCHANGED vars BY <1>14 DEF vars, wvars, rvars, rlocals
<1> QED
  BY <1>1, <1>2, <1>3, <1>4, <1>5, <1>6, <1>7, <1>8, <1>9, <1>10, <1>11,
     <1>12, <1>13, <1>14
  DEF Next, WriterStep, ReaderStep, Environment

\* No reader sleeps through a store that has returned, on x86-64 or ARM64.
THEOREM Wakeups == Spec => []NoLostWakeup
<1>1. Init => SleepInv BY DEF Init, SleepInv, NoLostWakeup
<1>2. SleepInv => NoLostWakeup BY DEF SleepInv
<1> QED BY <1>1, <1>2, StepSleep, PTL DEF Spec

-----------------------------------------------------------------------------
(* Refinement: the seqlock is an atomic register.                           *)

\* The buffer reader r's latest linearized load returns.
Taken(r) == IF Accepts(r) THEN rbuf[r] ELSE out[r]

\* A step that changes no reader's linearized result leaves regOut alone.
LEMMA Frame ==
  ASSUME \A r \in Readers : Taken(r)' = Taken(r)
  PROVE  UNCHANGED regOut
<1>1. \A r \in Readers : Value(Taken(r))' = Value(Taken(r))
  BY DEF Value, Uniform
<1> QED BY <1>1 DEF regOut, Taken

\* A buffer whose words all hold store k has value k.
LEMMA ValueUniform ==
  ASSUME NEW b, NEW k, \A w \in Words : b[w] = k
  PROVE  Value(b) = k
<1>1. (CHOOSE w \in Words : TRUE) \in Words OBVIOUS
<1> QED BY <1>1 DEF Value, Uniform

\* Every step of the seqlock is a step of the register or none, unless the
\* parity is inverted or the sequence has come round under the reader.
LEMMA StepRefines ==
  ASSUME InOrder, SeqlockInv, [Next]_vars, ~spoiled',
         \A r \in Readers : ~WrappedRead(r)
  PROVE  [R!RegNext]_(R!regVars)
<1> USE DEF SeqlockInv
\* Steps that leave the results and the committed store alone.
<1>1. ASSUME UNCHANGED committed, \A r \in Readers : Taken(r)' = Taken(r)
      PROVE  UNCHANGED (R!regVars)
  BY <1>1, Frame DEF R!regVars
<1>2. ASSUME UNCHANGED rvars PROVE \A r \in Readers : Taken(r)' = Taken(r)
  BY <1>2 DEF rvars, rlocals, Taken, Accepts, Complete
<1>3. CASE StoreEven
  <2>1. committed' \in (committed + 1) .. MaxStores
    BY <1>3 DEF StoreEven, TypeOK, WriterInv, StoreIds
  <2>2. UNCHANGED regOut BY <1>2, <1>3, Frame DEF StoreEven
  <2> QED BY <2>1, <2>2 DEF R!RegNext, R!Write
<1>4. CASE StoreBegin \/ StoreOdd \/ (\E w \in Words : StoreWord(w))
             \/ Crash \/ Restart
  BY <1>1, <1>2, <1>4
  DEF StoreBegin, StoreOdd, StoreWord, Crash, Restart, wvars
<1>5. CASE Wake
  <2>1. \A r \in Readers : Taken(r)' = Taken(r)
    BY <1>5 DEF Wake, TypeOK, Taken, Accepts, Complete
  <2> QED BY <1>1, <1>5, <2>1 DEF Wake
<1>6. ASSUME NEW r \in Readers, ReadAfter(r)
      PROVE  [R!RegNext]_(R!regVars)
  <2> USE <1>6 DEF ReadAfter
  <2>1. \A q \in Readers \ {r} : Taken(q)' = Taken(q)
    BY DEF TypeOK, Taken, Accepts, Complete
  <2>2. ~Accepts(r) BY DEF Accepts, Complete
  <2>3. CASE Accepts(r)'
    <3>1. /\ rafter'[r] = ver /\ rbefore[r] \in Nat /\ ver \in Nat
          /\ rbefore[r] <= ver /\ ver - rbefore[r] < SeqMod
      BY DEF TypeOK, WrappedRead, NoVer
    <3>2. Seq(rbefore[r]) = Seq(ver) BY <2>3, <3>1 DEF Accepts
    <3>3. rbefore[r] = ver BY <3>1, <3>2, SeqInjective
    <3>4. \A w \in Words : rbuf[r][w] = committed
      BY <3>3 DEF TypeOK, ReaderInv, wvars
    <3>5. Value(Taken(r))' = committed
      <4>1. Taken(r)' = rbuf[r] BY <2>3 DEF Taken
      <4> QED BY <3>4, <4>1, ValueUniform DEF Value, Uniform
    <3>6. regOut' = [regOut EXCEPT ![r] = committed]
      <4>1. \A q \in Readers \ {r} : Value(Taken(q))' = Value(Taken(q))
        BY <2>1 DEF Value, Uniform
      <4> QED BY <3>5, <4>1 DEF regOut, Taken
    <3>7. UNCHANGED committed BY DEF wvars
    <3> QED BY <3>6, <3>7 DEF R!RegNext, R!Read
  <2>4. CASE ~Accepts(r)'
    <3>1. Taken(r)' = Taken(r) BY <2>2, <2>4 DEF Taken
    <3> QED BY <1>1, <2>1, <3>1 DEF wvars
  <2> QED BY <2>3, <2>4
<1>7. ASSUME NEW r \in Readers, Return(r) PROVE [R!RegNext]_(R!regVars)
  <2> USE <1>7 DEF Return, Goto
  <2>1. \A q \in Readers : Taken(q)' = Taken(q)
    BY DEF TypeOK, Taken, Accepts, Complete
  <2> QED BY <1>1, <2>1 DEF wvars
<1>8. ASSUME NEW r \in Readers,
             \/ Load(r) \/ LoadBlocking(r) \/ Sequence(r) \/ ReadBefore(r)
             \/ (\E w \in Words : CopyWord(r, w))
             \/ Retry(r) \/ FutexWait(r) \/ Timeout(r) \/ Interrupted(r)
      PROVE  [R!RegNext]_(R!regVars)
  <2>1. UNCHANGED committed /\ UNCHANGED out
    BY <1>8 DEF Load, LoadBlocking, Call, Sequence, ReadBefore, CopyWord, Retry,
                FutexWait, Timeout, Interrupted, wvars
  <2>2. Taken(r)' = Taken(r)
    BY <1>8, <2>1
    DEF Load, LoadBlocking, Call, Sequence, ReadBefore, CopyWord, Retry, FutexWait,
        Timeout, Interrupted, Goto, wvars, rlocals, TypeOK, ReaderInv, Taken,
        Accepts, Complete
  <2>3. \A q \in Readers \ {r} : Taken(q)' = Taken(q)
    BY <1>8, <2>1
    DEF Load, LoadBlocking, Call, Sequence, ReadBefore, CopyWord, Retry, FutexWait,
        Timeout, Interrupted, Goto, wvars, rlocals, TypeOK, Taken,
        Accepts, Complete
  <2> QED BY <1>1, <2>1, <2>2, <2>3
<1>9. CASE UNCHANGED vars
  BY <1>1, <1>2, <1>9 DEF vars, wvars
<1> QED
  BY <1>3, <1>4, <1>5, <1>6, <1>7, <1>8, <1>9
  DEF Next, WriterStep, ReaderStep, Environment

\* A seqlock in program order is an atomic register: loads are untorn, fresh and
\* ordered, except where AtomicRegister says so.
THEOREM Refinement ==
  ASSUME InOrder
  PROVE  Spec => AtomicRegister
<1>1. Init => R!RegInit
  <2> SUFFICES ASSUME Init PROVE R!RegInit
    OBVIOUS
  <2>0. Value(Zero) = 0 BY ValueUniform DEF Zero
  <2>1. \A r \in Readers : Value(Taken(r)) = 0
    BY <2>0 DEF Init, Taken, Accepts, Complete
  <2> QED BY <2>1 DEF Init, R!RegInit, regOut, Taken
<1>2. SeqlockInv /\ [Next]_vars =>
        [R!RegNext \/ spoiled' \/ \E r \in Readers : WrappedRead(r)]_(R!regVars)
  BY StepRefines
<1> QED BY <1>1, <1>2, Invariance, PTL DEF Spec, AtomicRegister
=============================================================================
