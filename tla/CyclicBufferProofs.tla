--------------------------- MODULE CyclicBufferProofs ---------------------------
(***************************************************************************)
(* Proofs about CyclicBuffer for any readers, element size, capacity,       *)
(* counter width and bounds.                                                *)
(***************************************************************************)
EXTENDS CyclicBuffer, SeqArith, TLAPS

USE CyclicAssumption

\* The slot of an element is one of the buffer's slots.
LEMMA SlotRange ==
  ASSUME NEW k \in Nat \ {0}
  PROVE  Slot(k) \in Slots
BY DEF Slot, Slots

\* Initially nothing is written and nobody reads.
LEMMA InitInv == Init => CyclicInv
<1> SUFFICES ASSUME Init PROVE CyclicInv
  OBVIOUS
<1>1. TypeOK BY DEF Init, TypeOK, Elements, Buffer, Lives, Zero
<1>2. SlotInv BY DEF Init, SlotInv, Zero
<1>3. WriterInv BY DEF Init, WriterInv, Dirty, Zero, Even
<1>4. ReaderInv BY DEF Init, ReaderInv
<1> QED BY <1>1, <1>2, <1>3, <1>4 DEF CyclicInv

-----------------------------------------------------------------------------
(* The writer's steps.                                                      *)

\* insert(), crashes and restarts keep CyclicInv.
LEMMA WriterKeepsInv ==
  ASSUME CyclicInv, InsertBegin \/ WriterStep \/ Crash \/ Restart
  PROVE  CyclicInv'
<1> USE DEF CyclicInv
<1>0. /\ total \in Nat /\ Current \in Slots
      /\ \A r \in Readers : rpc[r] \in {"spin", "copy"} =>
           rwant[r] \in 1 .. total /\ From(r) \in Slots
  BY SlotRange DEF TypeOK, Elements, Current, From
<1>1. ASSUME InsertBegin PROVE CyclicInv'
  <2> USE <1>1 DEF InsertBegin, rvars, rcall, faults
  <2>1. TypeOK' BY DEF TypeOK, Elements
  <2>2. SlotInv' BY DEF SlotInv
  <2>3. WriterInv' BY DEF WriterInv, Dirty, Current
  <2>4. ReaderInv' BY DEF ReaderInv, Now, From
  <2> QED BY <2>1, <2>2, <2>3, <2>4
<1>2. ASSUME InsertOdd PROVE CyclicInv'
  <2> USE <1>2 DEF InsertOdd, rvars, rcall, faults
  <2>0. /\ Current \notin spoiled => Even(sver[Current]) /\ ~Even(sver'[Current])
        /\ sver[Current] \in Nat /\ sver'[Current] = sver[Current] + 1
    BY <1>0, ParityStep DEF TypeOK, WriterInv, Dirty, Even
  <2>1. TypeOK' BY <1>0, <2>0 DEF TypeOK
  <2>2. SlotInv' BY DEF SlotInv
  <2>3. WriterInv'
    <3>1. Current' = Current BY DEF Current
    <3>2. \A s \in Slots : s # Current => sver'[s] = sver[s]
      BY DEF TypeOK
    <3> QED BY <2>0, <3>1, <3>2 DEF WriterInv, Dirty
  <2>4. ReaderInv'
    <3> SUFFICES ASSUME NEW r \in Readers, rpc[r] = "copy"
                 PROVE  /\ Even(rbefore[r]) /\ rbefore[r] <= Now(r)'
                        /\ rbefore[r] = Now(r)' /\ From(r) \notin spoiled =>
                             \A w \in Words \ rleft[r] :
                               /\ rbuf[r][w] = sdata[From(r)][w]
                               /\ rlife[r][w] = slife[From(r)][w]
      BY DEF ReaderInv, From
    <3>1. Even(rbefore[r]) /\ rbefore[r] <= Now(r) /\ rbefore[r] \in Nat
      BY DEF ReaderInv, TypeOK
    <3>2. CASE From(r) = Current
      <4>1. Now(r)' = Now(r) + 1 /\ Now(r) \in Nat
        BY <2>0, <3>2 DEF Now, From
      <4> QED BY <3>1, <4>1
    <3>3. CASE From(r) # Current
      <4>1. Now(r)' = Now(r) BY <1>0, <3>3 DEF Now, From, TypeOK
      <4> QED BY <3>1, <4>1 DEF ReaderInv
    <3> QED BY <3>2, <3>3
  <2> QED BY <2>1, <2>2, <2>3, <2>4
<1>3. ASSUME NEW w \in Words, InsertWord(w) PROVE CyclicInv'
  <2> USE <1>3 DEF InsertWord, rvars, rcall, faults
  <2>0. /\ Current \notin spoiled => ~Even(sver[Current])
        /\ \A s \in Slots, x \in Words :
             /\ sdata'[s][x] = IF s = Current /\ x = w THEN total + 1 ELSE sdata[s][x]
             /\ slife'[s][x] = IF s = Current /\ x = w THEN crashes ELSE slife[s][x]
    BY <1>0 DEF TypeOK, WriterInv, Dirty, Buffer, Lives
  <2>1. TypeOK'
    <3>1. sdata' \in [Slots -> Buffer]
      BY <1>0 DEF TypeOK, Elements, Buffer
    <3>2. slife' \in [Slots -> Lives]
      BY <1>0 DEF TypeOK, Lives
    <3> QED BY <3>1, <3>2 DEF TypeOK
  <2>2. SlotInv'
    <3>1. \A s \in Slots, x \in Words :
            sdata'[s][x] <= total + 1 /\ (sdata'[s][x] > 0 => Slot(sdata'[s][x]) = s)
      BY <1>0, <2>0 DEF SlotInv, Current
    <3>2. \A k \in 1 .. total, x \in Words : sdata'[Slot(k)][x] >= k
      BY <1>0, <2>0, SlotRange DEF SlotInv
    <3> QED BY <3>1, <3>2 DEF SlotInv
  <2>3. WriterInv' BY <1>0, <2>0 DEF WriterInv, Dirty, Current
  <2>4. ReaderInv'
    <3> SUFFICES ASSUME NEW r \in Readers, rpc[r] = "copy"
                 PROVE  /\ Even(rbefore[r]) /\ rbefore[r] <= Now(r)'
                        /\ rbefore[r] = Now(r)' /\ From(r) \notin spoiled =>
                             \A x \in Words \ rleft[r] :
                               /\ rbuf[r][x] = sdata'[From(r)][x]
                               /\ rlife[r][x] = slife'[From(r)][x]
      BY DEF ReaderInv, From
    <3>1. Even(rbefore[r]) /\ rbefore[r] <= Now(r) /\ Now(r)' = Now(r)
      BY DEF ReaderInv, Now, From
    <3>2. CASE From(r) = Current
      BY <2>0, <3>1, <3>2 DEF Now
    <3>3. CASE From(r) # Current
      BY <1>0, <2>0, <3>1, <3>3 DEF ReaderInv
    <3> QED BY <3>2, <3>3
  <2> QED BY <2>1, <2>2, <2>3, <2>4
<1>4. ASSUME InsertEven PROVE CyclicInv'
  <2> USE <1>4 DEF InsertEven, rvars, rcall, faults
  <2>0. /\ Current \notin spoiled => ~Even(sver[Current]) /\ Even(sver'[Current])
        /\ sver[Current] \in Nat /\ sver'[Current] = sver[Current] + 1
    BY <1>0, ParityStep DEF TypeOK, WriterInv, Dirty, Even
  <2>1. TypeOK' BY <1>0, <2>0 DEF TypeOK
  <2>2. SlotInv' BY DEF SlotInv
  <2>3. WriterInv'
    <3>1. Current' = Current BY DEF Current
    <3>2. \A s \in Slots : s # Current => sver'[s] = sver[s]
      BY DEF TypeOK
    <3> QED BY <2>0, <3>1, <3>2 DEF WriterInv, Dirty
  <2>4. ReaderInv'
    <3> SUFFICES ASSUME NEW r \in Readers, rpc[r] = "copy"
                 PROVE  /\ Even(rbefore[r]) /\ rbefore[r] <= Now(r)'
                        /\ rbefore[r] = Now(r)' /\ From(r) \notin spoiled =>
                             \A w \in Words \ rleft[r] :
                               /\ rbuf[r][w] = sdata[From(r)][w]
                               /\ rlife[r][w] = slife[From(r)][w]
      BY DEF ReaderInv, From
    <3>1. Even(rbefore[r]) /\ rbefore[r] <= Now(r) /\ rbefore[r] \in Nat
      BY DEF ReaderInv, TypeOK
    <3>2. CASE From(r) = Current
      <4>1. Now(r)' = Now(r) + 1 /\ Now(r) \in Nat
        BY <2>0, <3>2 DEF Now, From
      <4> QED BY <3>1, <4>1
    <3>3. CASE From(r) # Current
      <4>1. Now(r)' = Now(r) BY <1>0, <3>3 DEF Now, From, TypeOK
      <4> QED BY <3>1, <4>1 DEF ReaderInv
    <3> QED BY <3>2, <3>3
  <2> QED BY <2>1, <2>2, <2>3, <2>4
<1>5. ASSUME Publish PROVE CyclicInv'
  <2> USE <1>5 DEF Publish, rvars, rcall, faults
  <2>1. TypeOK' BY DEF TypeOK, Elements
  <2>2. SlotInv'
    <3>1. \A k \in 1 .. total + 1, w \in Words : sdata[Slot(k)][w] >= k
      <4>1. \A w \in Words : sdata[Slot(total + 1)][w] >= total + 1
        BY <1>0 DEF WriterInv, Current
      <4> QED BY <1>0, <4>1 DEF SlotInv
    <3>2. \A s \in Slots, w \in Words : sdata[s][w] <= total + 1 + 1
      BY <1>0 DEF SlotInv, TypeOK, Buffer, Elements
    <3> QED BY <3>1, <3>2 DEF SlotInv
  <2>3. WriterInv' BY DEF WriterInv, Dirty
  <2>4. ReaderInv' BY DEF ReaderInv, Now, From
  <2> QED BY <2>1, <2>2, <2>3, <2>4
<1>6. ASSUME Wake PROVE CyclicInv'
  <2> USE <1>6 DEF Wake, rcall, faults
  <2>1. TypeOK' BY DEF TypeOK
  <2>2. SlotInv' BY DEF SlotInv
  <2>3. WriterInv' BY DEF WriterInv, Dirty, Current
  <2>4. ReaderInv' BY DEF TypeOK, ReaderInv, Now, From
  <2> QED BY <2>1, <2>2, <2>3, <2>4
<1>7. ASSUME Crash PROVE CyclicInv'
  <2> USE <1>7 DEF Crash, rvars, rcall
  <2>1. TypeOK' BY DEF TypeOK
  <2>2. SlotInv' BY DEF SlotInv
  <2>3. WriterInv' BY DEF WriterInv, Dirty, Current
  <2>4. ReaderInv' BY DEF ReaderInv, Now, From
  <2> QED BY <2>1, <2>2, <2>3, <2>4
<1>8. ASSUME Restart PROVE CyclicInv'
  <2> USE <1>8 DEF Restart, rvars, rcall
  <2>1. TypeOK' BY <1>0 DEF TypeOK
  <2>2. SlotInv' BY DEF SlotInv
  \* The slot the writer died in is clean, or spoiled from now on.
  <2>3. WriterInv' BY <1>0 DEF WriterInv, Dirty, Current
  <2>4. ReaderInv' BY DEF ReaderInv, Now, From
  <2> QED BY <2>1, <2>2, <2>3, <2>4
<1> QED BY <1>1, <1>2, <1>3, <1>4, <1>5, <1>6, <1>7, <1>8 DEF WriterStep

-----------------------------------------------------------------------------
(* The readers' steps.                                                      *)

\* Readers change nothing the slots' invariants are about.
LEMMA ReadersOnlyRead ==
  ASSUME CyclicInv, UNCHANGED wvars
  PROVE  SlotInv' /\ WriterInv'
BY DEF CyclicInv, SlotInv, WriterInv, Dirty, Current, wvars

\* Calls and the steps of readers keep CyclicInv.
LEMMA ReaderKeepsInv ==
  ASSUME CyclicInv, NEW r \in Readers,
         \/ ReaderStep(r) \/ GetLatest(r) \/ Get(r) \/ TryGet(r)
         \/ WaitForWrite(r) \/ TotalWrites(r) \/ Timeout(r) \/ Interrupted(r)
  PROVE  CyclicInv'
<1> USE DEF CyclicInv
<1>1. UNCHANGED wvars
  BY DEF ReaderStep, GetLatest, Get, TryGet, WaitForWrite, TotalWrites, Timeout,
         Interrupted, Call, Empty, Locate, ReadBefore, CopyWord, Return, Retry,
         GiveUp, Changed, Unchanged, FutexWait
<1>2. SUFFICES TypeOK' /\ ReaderInv'
  BY <1>1, ReadersOnlyRead
<1>0. total \in Nat /\ Available \in 0 .. N /\ Available <= total
  BY DEF TypeOK, Elements, Available
<1>3. ASSUME Done(r), rlast' \in [Readers -> Elements], out' \in [Readers -> Buffer]
      PROVE  TypeOK' /\ ReaderInv'
  <2> USE <1>1, <1>3 DEF Done, wvars
  <2>1. TypeOK' BY DEF TypeOK, Elements, Buffer, Lives, Zero
  <2>2. ReaderInv' BY DEF TypeOK, ReaderInv, Now, From
  <2> QED BY <2>1, <2>2
<1>4. ASSUME NEW op \in {"latest", "get", "try", "wait", "timed"},
             NEW i \in 0 .. N, Call(r, op, i)
      PROVE  TypeOK' /\ ReaderInv'
  <2> USE <1>4 DEF Call, wvars
  <2>1. TypeOK' BY DEF TypeOK
  <2>2. ReaderInv' BY DEF TypeOK, ReaderInv, Now, From
  <2> QED BY <2>1, <2>2
<1>5. CASE GetLatest(r) \/ Get(r) \/ TryGet(r) \/ WaitForWrite(r)
  BY <1>0, <1>4, <1>5 DEF GetLatest, Get, TryGet, WaitForWrite
<1>6. CASE TotalWrites(r)
  <2>1. TypeOK' BY <1>6 DEF TotalWrites, TypeOK, wvars, rcall
  <2>2. ReaderInv' BY <1>6 DEF TotalWrites, ReaderInv, Now, From, wvars, rcall
  <2> QED BY <2>1, <2>2
<1>7. CASE Empty(r) \/ Return(r)
  <2>0. Zero \in Buffer /\ rbuf[r] \in Buffer
    BY DEF TypeOK, Buffer, Elements, Zero
  <2>1. Done(r) /\ rlast' = rlast /\ out' \in [Readers -> Buffer]
    BY <1>7, <2>0 DEF Empty, Return, Result, TypeOK
  <2> QED BY <1>3, <2>1 DEF TypeOK
<1>8. CASE GiveUp(r) \/ Changed(r) \/ Timeout(r)
  BY <1>3, <1>8 DEF GiveUp, Changed, Timeout, TypeOK
<1>9. CASE Locate(r)
  <2>0. rindex[r] \in Nat BY DEF TypeOK
  <2>1. total - rindex[r] \in 1 .. total /\ total - rindex[r] \in Elements
    BY <1>0, <1>9, <2>0 DEF Locate, TypeOK, Elements
  <2>2. TypeOK' BY <1>9, <2>1 DEF Locate, TypeOK, wvars
  <2>3. ReaderInv' BY <1>9 DEF Locate, TypeOK, ReaderInv, Now, From, wvars
  <2> QED BY <2>2, <2>3
<1>10. CASE ReadBefore(r)
  <2> USE <1>10 DEF ReadBefore, wvars, rcall
  <2>0. Now(r) \in Nat
    BY SlotRange DEF TypeOK, Now, From
  <2>1. TypeOK' BY <2>0 DEF TypeOK
  <2>2. ReaderInv' BY <2>0 DEF TypeOK, ReaderInv, Now, From
  <2> QED BY <2>1, <2>2
<1>11. CASE \E w \in Words : CopyWord(r, w)
  <2> PICK w \in Words : CopyWord(r, w) BY <1>11
  <2> USE DEF CopyWord, wvars, rcall
  <2>0. From(r) \in Slots
    BY SlotRange DEF TypeOK, From
  <2>1. TypeOK'
    <3>1. rbuf' \in [Readers -> Buffer] BY <2>0 DEF TypeOK, Buffer
    <3>2. rlife' \in [Readers -> Lives] BY <2>0 DEF TypeOK, Lives
    <3> QED BY <3>1, <3>2 DEF TypeOK
  <2>2. ReaderInv' BY <2>0 DEF TypeOK, ReaderInv, Now, From, Buffer, Lives
  <2> QED BY <2>1, <2>2
<1>12. CASE Retry(r)
  <2> USE <1>12 DEF Retry, wvars, rcall
  <2>1. TypeOK' BY DEF TypeOK, Failed, Copied, Buffer, Lives, Elements, Zero
  <2>2. ReaderInv' BY DEF TypeOK, ReaderInv, Now, From
  <2> QED BY <2>1, <2>2
<1>13. CASE Unchanged(r) \/ FutexWait(r) \/ Interrupted(r)
  <2> USE <1>13 DEF Unchanged, FutexWait, Interrupted, wvars, rcall
  <2>1. TypeOK' BY DEF TypeOK
  <2>2. ReaderInv' BY DEF TypeOK, ReaderInv, Now, From
  <2> QED BY <2>1, <2>2
<1> QED
  BY <1>5, <1>6, <1>7, <1>8, <1>9, <1>10, <1>11, <1>12, <1>13 DEF ReaderStep

-----------------------------------------------------------------------------
\* CyclicInv always holds.
THEOREM Invariance == Spec => []CyclicInv
<1>1. CyclicInv /\ [Next]_vars => CyclicInv'
  <2> SUFFICES ASSUME CyclicInv, [Next]_vars PROVE CyclicInv'
    OBVIOUS
  <2>1. CASE UNCHANGED vars
    <3>1. TypeOK' /\ ReaderInv'
      BY <2>1 DEF vars, wvars, rvars, rcall, CyclicInv, TypeOK, ReaderInv, Now, From
    <3> QED BY <2>1, <3>1, ReadersOnlyRead DEF vars, CyclicInv
  <2> QED BY <2>1, WriterKeepsInv, ReaderKeepsInv DEF Next, Environment
<1> QED BY <1>1, InitInv, PTL DEF Spec

\* The type invariant holds of every state.
THEOREM TypeCorrect == Spec => []TypeOK
<1>1. CyclicInv => TypeOK BY DEF CyclicInv
<1> QED BY <1>1, Invariance, PTL

\* What get_latest(), get() and try_get() return, whatever the writer does
\* between the load of total_writes and the read of the slot.
THEOREM Reads == Spec => []ReadsElement
<1>1. CyclicInv => ReadsElement
  <2> SUFFICES ASSUME CyclicInv, NEW r \in Readers, Accepts(r), NotWrapped(r),
                      From(r) \notin spoiled
               PROVE  \E e \in rwant[r] .. total + 1 :
                        /\ rbuf[r] = [w \in Words |-> e]
                        /\ \A w1, w2 \in Words : rlife[r][w1] = rlife[r][w2]
                        /\ Slot(e) = Slot(rwant[r])
    BY DEF ReadsElement
  <2> USE DEF CyclicInv
  <2>1. rpc[r] = "copy" /\ rleft[r] = {} BY DEF Accepts, Copied
  <2>2. rwant[r] \in 1 .. total /\ total \in Nat /\ From(r) \in Slots
    BY <2>1, SlotRange DEF TypeOK, From, Elements
  <2>3. Now(r) \in Nat /\ rbefore[r] \in Nat /\ rbefore[r] <= Now(r)
    BY <2>1, <2>2 DEF TypeOK, ReaderInv, Now
  <2>4. rbefore[r] = Now(r)
    BY <2>3, ModInjective DEF Accepts, NotWrapped, Seq
  <2>5. ~Dirty(From(r))
    BY <2>1, <2>2, <2>4 DEF ReaderInv, WriterInv, Now
  <2>6. \A w \in Words : rbuf[r][w] = sdata[From(r)][w]
    BY <2>1, <2>4 DEF ReaderInv
  <2>7. PICK v \in Words : TRUE OBVIOUS
  <2> DEFINE e == sdata[From(r)][v]
  <2>8. \A w \in Words : rbuf[r][w] = e
    BY <2>2, <2>5, <2>6 DEF WriterInv
  <2>9. e \in Nat /\ e >= rwant[r] /\ e <= total + 1
    BY <2>2 DEF SlotInv, TypeOK, Buffer, Elements, From
  <2>10. Slot(e) = From(r)
    BY <2>2, <2>9 DEF SlotInv
  <2>11. rbuf[r] = [w \in Words |-> e]
    BY <2>8 DEF TypeOK, Buffer
  <2>12. \A w1, w2 \in Words : rlife[r][w1] = rlife[r][w2]
    BY <2>1, <2>2, <2>4, <2>5 DEF ReaderInv, WriterInv
  <2> QED BY <2>2, <2>9, <2>10, <2>11, <2>12 DEF From
<1> QED BY <1>1, Invariance, PTL

-----------------------------------------------------------------------------
\* No waiter sleeps through an insert() that has returned.
THEOREM Wakeups == Spec => []NoLostWakeup
<1>1. Init => NoLostWakeup BY DEF Init, NoLostWakeup
<1>2. TypeOK /\ NoLostWakeup /\ [Next]_vars => NoLostWakeup'
  <2> SUFFICES ASSUME TypeOK, NoLostWakeup, [Next]_vars PROVE NoLostWakeup'
    OBVIOUS
  <2> USE DEF TypeOK, NoLostWakeup
  <2>1. CASE InsertBegin \/ Crash \/ Restart \/ (WriterStep /\ ~Wake)
    BY <2>1 DEF InsertBegin, Crash, Restart, WriterStep, InsertOdd, InsertWord,
                InsertEven, Publish, faults
  <2>2. CASE Wake BY <2>2 DEF Wake
  <2>3. ASSUME NEW r \in Readers,
               \/ GetLatest(r) \/ Get(r) \/ TryGet(r) \/ WaitForWrite(r)
               \/ TotalWrites(r)
        PROVE  NoLostWakeup'
    BY <2>3 DEF GetLatest, Get, TryGet, WaitForWrite, Call, TotalWrites, wvars
  <2>4. ASSUME NEW r \in Readers,
               \/ Empty(r) \/ Return(r) \/ GiveUp(r) \/ Changed(r) \/ Timeout(r)
        PROVE  NoLostWakeup'
    BY <2>4 DEF Empty, Return, GiveUp, Changed, Timeout, Done, wvars
  <2>5. ASSUME NEW r \in Readers,
               \/ Locate(r) \/ ReadBefore(r) \/ (\E w \in Words : CopyWord(r, w))
               \/ Retry(r) \/ Unchanged(r) \/ Interrupted(r)
        PROVE  NoLostWakeup'
    BY <2>5 DEF Locate, ReadBefore, CopyWord, Retry, Unchanged, Interrupted, wvars
  \* The only step that puts a reader to sleep compares the futex word first.
  <2>6. ASSUME NEW r \in Readers, FutexWait(r) PROVE NoLostWakeup'
    BY <2>6 DEF FutexWait, wvars
  <2>7. CASE UNCHANGED vars BY <2>7 DEF vars, wvars, rvars
  <2> QED
    BY <2>1, <2>2, <2>3, <2>4, <2>5, <2>6, <2>7 DEF Next, ReaderStep, Environment
<1> QED BY <1>1, <1>2, TypeCorrect, PTL DEF Spec

-----------------------------------------------------------------------------
(* Attempts fail only when the reader has been lapped.                      *)

\* A published element whose slot is written next is N elements behind.
LEMMA SameSlot ==
  ASSUME TypeOK, NEW k \in 1 .. total, Slot(k) = Current
  PROVE  k + N <= total + 1
<1>1. total \in Nat /\ k - 1 \in Nat /\ k - 1 < total
  BY DEF TypeOK, Elements
<1>2. (k - 1) % N = total % N
  BY <1>1 DEF Slot, Current
<1>3. ASSUME total - (k - 1) < N PROVE FALSE
  <2>1. k - 1 = total BY <1>1, <1>2, <1>3, ModInjective
  <2> QED BY <1>1, <2>1
<1> QED BY <1>1, <1>3

\* An element N behind the one inserted next is in its slot.
LEMMA SlotBehind ==
  ASSUME TypeOK, NEW k \in 1 .. total, k + N = total + 1
  PROVE  Slot(k) = Current
<1>1. total \in Nat /\ total = (k - 1) + N /\ k - 1 \in Nat
  BY DEF TypeOK, Elements
<1>2. ((k - 1) + N) % N = (k - 1) % N
  <2>1. N \in Nat /\ N > 0 BY CyclicAssumption
  <2> QED BY <1>1, <2>1, ModPeriod
<1> QED BY <1>1, <1>2 DEF Slot, Current

\* Begun is total or total + 1.
LEMMA BegunRange == TypeOK => Begun \in {total, total + 1} /\ total \in Nat
BY DEF Begun, TypeOK, Elements

\* A failed attempt of a reader whose slot is not spoiled: it has been lapped.
LEMMA FailedIsLapped ==
  ASSUME CyclicInv, LapInv
  PROVE  FailsOnlyIfLapped
<1> SUFFICES ASSUME NEW r \in Readers, rpc[r] \in {"spin", "copy"},
                    From(r) \notin spoiled, Failed(r), rtries[r] = 0
             PROVE  Begun >= rwant[r] + N
  <2>1. SUFFICES ASSUME NEW r \in Readers, rpc[r] \in {"spin", "copy"},
                        From(r) \notin spoiled, Failed(r) \/ rtries[r] > 0
                 PROVE  Begun >= rwant[r] + N
    BY DEF FailsOnlyIfLapped
  <2>2. CASE rtries[r] > 0 BY <2>1, <2>2 DEF LapInv
  <2>3. CASE ~(rtries[r] > 0)
    <3>1. rtries[r] = 0 BY <2>3 DEF CyclicInv, TypeOK
    <3> QED BY <2>1, <2>3, <3>1
  <2> QED BY <2>2, <2>3
<1>1. rwant[r] \in 1 .. total /\ total \in Nat /\ From(r) \in Slots
  BY SlotRange DEF CyclicInv, TypeOK, Elements, From
<1>2. CASE rpc[r] = "spin" /\ ~Even(Now(r))
  <2>1. From(r) = Current /\ ~Even(sver[Current])
    BY <1>1, <1>2 DEF CyclicInv, WriterInv, Dirty, Now
  <2>2. rwant[r] + N <= total + 1
    BY <1>1, <2>1, SameSlot DEF CyclicInv, From
  <2>3. Begun = total + 1 BY <2>1 DEF Begun
  <2> QED BY <1>1, <2>2, <2>3
<1>3. CASE Copied(r) /\ ~Accepts(r)
  <2>1. rpc[r] = "copy" /\ rbefore[r] # Now(r)
    BY <1>3 DEF Copied, Accepts
  <2> QED BY <2>1 DEF LapInv
<1> QED BY <1>2, <1>3 DEF Failed

\* A reader that has been lapped stays so, whatever the writer does, and becomes
\* so when the writer changes the sequence of its slot.
LEMMA WriterKeepsLap ==
  ASSUME CyclicInv, CyclicInv', LapInv,
         InsertBegin \/ WriterStep \/ Crash \/ Restart
  PROVE  LapInv'
<1>0. TypeOK /\ TypeOK' BY DEF CyclicInv
<1>1. /\ total' \in {total, total + 1} /\ total \in Nat
      /\ spoiled \subseteq spoiled'
      /\ UNCHANGED <<rwant, rtries, rbefore>>
      /\ \A r \in Readers : /\ rpc'[r] \in {"spin", "copy"} <=> rpc[r] \in {"spin", "copy"}
                            /\ rpc'[r] = "copy" <=> rpc[r] = "copy"
  BY <1>0 DEF InsertBegin, WriterStep, InsertOdd, InsertWord, InsertEven, Publish,
              Wake, Crash, Restart, rvars, rcall, faults, TypeOK, Elements
<1>2. Begun \in {total, total + 1} /\ Begun' \in {total', total' + 1}
  BY <1>0, BegunRange DEF Begun
\* Once it has begun, the next element stays begun.
<1>3. ASSUME Current \notin spoiled', total' = total, Begun = total + 1
      PROVE  Begun' = total + 1
  <2>1. Current' = Current /\ Current \in Slots
    BY <1>1, <1>3, SlotRange DEF Current
  <2>2. Begun' = IF ~Even(sver'[Current]) \/ (\E w \in Words : sdata'[Current][w] = total + 1)
                 THEN total + 1 ELSE total
    BY <1>3, <2>1 DEF Begun
  <2>3. ~Even(sver[Current]) \/ (\E w \in Words : sdata[Current][w] = total + 1)
    BY <1>1, <1>3 DEF Begun
  <2>4. CASE sver' = sver /\ sdata' = sdata BY <2>2, <2>3, <2>4
  <2>5. CASE InsertOdd
    <3>1. sver[Current] \in Nat /\ sver'[Current] = sver[Current] + 1
      BY <2>1, <2>5, <1>0 DEF InsertOdd, TypeOK
    <3>2. Even(sver[Current])
      BY <1>1, <1>3, <2>1, <2>5 DEF InsertOdd, CyclicInv, WriterInv, Dirty
    <3>3. ~Even(sver'[Current]) BY <3>1, <3>2, ParityStep DEF Even
    <3> QED BY <2>2, <3>3
  <2>6. ASSUME NEW w \in Words, InsertWord(w) PROVE Begun' = total + 1
    <3>1. sdata'[Current][w] = total + 1
      BY <2>1, <2>6, <1>0 DEF InsertWord, TypeOK, Buffer
    <3> QED BY <2>2, <3>1
  <2>7. CASE InsertEven
    <3>1. \A w \in Words : sdata'[Current][w] = total + 1
      BY <2>7 DEF InsertEven, CyclicInv, WriterInv
    <3> QED BY <2>2, <3>1
  <2>8. CASE Publish BY <2>8, <1>1, <1>3 DEF Publish
  <2> QED
    BY <2>4, <2>5, <2>6, <2>7, <2>8
    DEF WriterStep, InsertBegin, Wake, Crash, Restart
<1>4. ASSUME NEW r \in Readers, rpc[r] \in {"spin", "copy"}, From(r) \notin spoiled',
             Begun >= rwant[r] + N
      PROVE  Begun' >= rwant[r] + N
  <2>1. rwant[r] \in 1 .. total BY <1>0, <1>4 DEF TypeOK
  <2>2. CASE rwant[r] + N <= total BY <1>1, <1>2, <2>1, <2>2
  <2>3. CASE rwant[r] + N = total + 1
    <3>1. Current \notin spoiled' BY <1>0, <1>4, <2>1, <2>3, SlotBehind DEF From
    <3>2. CASE total' = total
      <4>1. Begun = total + 1 BY <1>1, <1>2, <1>4, <2>3
      <4>2. Begun' = total + 1 BY <1>3, <3>1, <3>2, <4>1
      <4> QED BY <2>3, <4>2, <1>1
    <3>3. CASE total' = total + 1 BY <1>1, <1>2, <2>3, <3>3
    <3> QED BY <1>1, <3>2, <3>3
  <2> QED BY <1>1, <1>2, <1>4, <2>1, <2>2, <2>3
\* The sequence of the reader's slot changes: the writer is in that slot.
<1>5. ASSUME NEW r \in Readers, rpc[r] = "copy", From(r) \notin spoiled',
             Now(r)' # Now(r)
      PROVE  Begun' >= rwant[r] + N
  <2>1. rwant[r] \in 1 .. total /\ From(r) \in Slots
    BY <1>0, <1>5, SlotRange DEF TypeOK, Elements, From
  <2>2. InsertOdd \/ InsertEven
    BY <1>5, <1>1 DEF WriterStep, InsertBegin, InsertWord, Publish, Wake, Crash,
                      Restart, Now, From
  <2>3. From(r) = Current /\ total' = total /\ Current' = Current
    BY <1>0, <1>1, <1>5, <2>1, <2>2
    DEF InsertOdd, InsertEven, Now, From, TypeOK, Current
  <2>4. rwant[r] + N <= total + 1 BY <1>0, <2>1, <2>3, SameSlot DEF From
  <2>5. CASE InsertOdd
    <3>1. sver[Current] \in Nat /\ sver'[Current] = sver[Current] + 1
      BY <2>1, <2>3, <2>5, <1>0 DEF InsertOdd, TypeOK
    <3>2. Even(sver[Current])
      BY <1>1, <1>5, <2>1, <2>3, <2>5 DEF InsertOdd, CyclicInv, WriterInv, Dirty
    <3>3. ~Even(sver'[Current]) BY <3>1, <3>2, ParityStep DEF Even
    <3>4. Begun' = total + 1 BY <2>3, <3>3 DEF Begun
    <3> QED BY <1>1, <2>1, <2>4, <3>4
  <2>6. CASE InsertEven
    <3>1. \A w \in Words : sdata'[Current][w] = total + 1
      BY <2>6 DEF InsertEven, CyclicInv, WriterInv
    <3>2. Begun' = total + 1 BY <2>3, <3>1 DEF Begun
    <3> QED BY <1>1, <2>1, <2>4, <3>2
  <2> QED BY <2>2, <2>5, <2>6
<1>6. ASSUME NEW r \in Readers PROVE From(r)' = From(r)
  BY <1>1 DEF From
<1>7. SUFFICES ASSUME NEW r \in Readers, rpc[r] \in {"spin", "copy"},
                      From(r) \notin spoiled',
                      rtries[r] > 0 \/ (rpc[r] = "copy" /\ rbefore[r] # Now(r)')
               PROVE  Begun' >= rwant[r] + N
  BY <1>1, <1>6 DEF LapInv
<1>8. CASE rtries[r] > 0 \/ (rpc[r] = "copy" /\ rbefore[r] # Now(r))
  BY <1>1, <1>4, <1>7, <1>8 DEF LapInv
<1>9. CASE rpc[r] = "copy" /\ rbefore[r] # Now(r)' /\ rbefore[r] = Now(r)
  BY <1>5, <1>7, <1>9
<1> QED BY <1>7, <1>8, <1>9

\* A reader's own steps: a retry follows a failed attempt.
LEMMA ReaderKeepsLap ==
  ASSUME CyclicInv, LapInv, NEW r \in Readers,
         \/ ReaderStep(r) \/ GetLatest(r) \/ Get(r) \/ TryGet(r)
         \/ WaitForWrite(r) \/ TotalWrites(r) \/ Timeout(r) \/ Interrupted(r)
  PROVE  LapInv'
<1>0. TypeOK BY DEF CyclicInv
<1>1. UNCHANGED wvars
  BY DEF ReaderStep, GetLatest, Get, TryGet, WaitForWrite, TotalWrites, Timeout,
         Interrupted, Call, Empty, Locate, ReadBefore, CopyWord, Return, Retry,
         GiveUp, Changed, Unchanged, FutexWait
<1>2. Begun' = Begun BY <1>1 DEF Begun, Current, wvars
<1>3. CASE Done(r)
  BY <1>0, <1>1, <1>2, <1>3 DEF Done, LapInv, TypeOK, From, Now, wvars
<1>4. CASE GetLatest(r) \/ Get(r) \/ TryGet(r) \/ WaitForWrite(r)
  BY <1>0, <1>1, <1>2, <1>4
  DEF GetLatest, Get, TryGet, WaitForWrite, Call, LapInv, TypeOK, From, Now, wvars
<1>5. CASE TotalWrites(r) \/ (\E w \in Words : CopyWord(r, w))
  BY <1>0, <1>1, <1>2, <1>5
  DEF TotalWrites, CopyWord, rcall, LapInv, TypeOK, From, Now, wvars
<1>6. CASE Locate(r) \/ Unchanged(r) \/ FutexWait(r) \/ Interrupted(r)
  BY <1>0, <1>1, <1>2, <1>6
  DEF Locate, Unchanged, FutexWait, Interrupted, rcall, LapInv, TypeOK, From, Now, wvars
<1>7. CASE ReadBefore(r)
  BY <1>0, <1>1, <1>2, <1>7 DEF ReadBefore, rcall, LapInv, TypeOK, From, Now, wvars
<1>8. CASE Retry(r)
  <2>1. rpc[r] \in {"spin", "copy"} /\ Failed(r)
    BY <1>8 DEF Retry, Failed, Copied
  <2>2. From(r) \notin spoiled => Begun >= rwant[r] + N
    BY <2>1, FailedIsLapped DEF FailsOnlyIfLapped
  <2> QED
    BY <1>0, <1>1, <1>2, <1>8, <2>2 DEF Retry, rcall, LapInv, TypeOK, From, Now, wvars
<1> QED
  BY <1>3, <1>4, <1>5, <1>6, <1>7, <1>8
  DEF ReaderStep, Empty, Return, GiveUp, Changed, Timeout

\* try_get() returns nullopt, and get() tries again, only when the writer has
\* begun the element that replaces the one asked for.
THEOREM Lapped == Spec => []FailsOnlyIfLapped
<1>1. Init => LapInv BY DEF Init, LapInv
<1>2. CyclicInv /\ CyclicInv' /\ LapInv /\ [Next]_vars => LapInv'
  <2> SUFFICES ASSUME CyclicInv, CyclicInv', LapInv, [Next]_vars PROVE LapInv'
    OBVIOUS
  <2>1. CASE UNCHANGED vars
    BY <2>1 DEF vars, wvars, rvars, rcall, LapInv, From, Now, Begun, Current
  <2> QED BY <2>1, WriterKeepsLap, ReaderKeepsLap DEF Next, Environment
<1>3. CyclicInv /\ LapInv => FailsOnlyIfLapped BY FailedIsLapped
<1> QED BY <1>1, <1>2, <1>3, Invariance, PTL DEF Spec

-----------------------------------------------------------------------------
(* Successive reads of the latest element.                                  *)

\* What a reader has returned is at most the element being inserted; a reader of
\* index 0 wants an element at most one older than that, and the words it copies
\* are no older than the element it wants.
LatestInv ==
  \A r \in Readers :
    /\ \A w \in Words : out[r][w] <= total + 1
    /\ rpc[r] \in {"spin", "copy"} /\ rindex[r] = 0 =>
         \A w \in Words : out[r][w] <= rwant[r] + 1
    /\ rpc[r] = "copy" => \A w \in Words \ rleft[r] :
                            rbuf[r][w] >= rwant[r] /\ rbuf[r][w] <= total + 1

\* Steps of the writer, its death and its restart.
LEMMA WriterKeepsLatest ==
  ASSUME CyclicInv, LatestInv, InsertBegin \/ WriterStep \/ Crash \/ Restart
  PROVE  LatestInv'
<1>0. TypeOK BY DEF CyclicInv
<1>1. /\ total' \in {total, total + 1} /\ total \in Nat
      /\ UNCHANGED <<rindex, rwant, rleft, rbuf, out>>
      /\ \A r \in Readers : /\ rpc'[r] \in {"spin", "copy"} => rpc[r] \in {"spin", "copy"}
                            /\ rpc'[r] = "copy" => rpc[r] = "copy"
  BY <1>0 DEF InsertBegin, WriterStep, InsertOdd, InsertWord, InsertEven, Publish,
              Wake, Crash, Restart, rvars, rcall, faults, TypeOK, Elements
<1>2. \A r \in Readers, w \in Words : out[r][w] \in Nat /\ rbuf[r][w] \in Nat
  BY <1>0 DEF TypeOK, Buffer, Elements
<1>3. ASSUME NEW n \in Nat, n <= total + 1 PROVE n <= total' + 1
  <2>1. CASE total' = total BY <1>3, <2>1
  <2>2. CASE total' = total + 1 BY <1>1, <1>3, <2>2
  <2> QED BY <1>1, <2>1, <2>2
<1> QED BY <1>1, <1>2, <1>3 DEF LatestInv

\* A call of index 0 that loads total_writes wants the latest element, and the
\* slot of an element never holds an older one.
LEMMA ReaderKeepsLatest ==
  ASSUME CyclicInv, LatestInv, NEW r \in Readers,
         \/ ReaderStep(r) \/ GetLatest(r) \/ Get(r) \/ TryGet(r)
         \/ WaitForWrite(r) \/ TotalWrites(r) \/ Timeout(r) \/ Interrupted(r)
  PROVE  LatestInv' /\ \A q \in Readers, w \in Words : out'[q][w] >= out[q][w] - 1
<1>0. TypeOK BY DEF CyclicInv
<1>1. total' = total /\ total \in Nat
  BY <1>0 DEF ReaderStep, GetLatest, Get, TryGet, WaitForWrite, TotalWrites, Timeout,
         Interrupted, Call, Empty, Locate, ReadBefore, CopyWord, Return, Retry,
         GiveUp, Changed, Unchanged, FutexWait, wvars, TypeOK, Elements
<1>2. \A q \in Readers, w \in Words : out[q][w] \in Nat /\ rbuf[q][w] \in Nat
  BY <1>0 DEF TypeOK, Buffer, Elements
\* The call ends with result b, which is not older than the last one less one.
<1>3. ASSUME Done(r), NEW b, out' = [out EXCEPT ![r] = b],
             \A w \in Words : b[w] \in Nat /\ b[w] <= total + 1 /\ b[w] >= out[r][w] - 1
      PROVE  LatestInv' /\ \A q \in Readers, w \in Words : out'[q][w] >= out[q][w] - 1
  <2>1. \A q \in Readers : out'[q] = (IF q = r THEN b ELSE out[q])
    BY <1>0, <1>3 DEF TypeOK
  <2>2. \A q \in Readers, w \in Words : out'[q][w] >= out[q][w] - 1
    BY <1>2, <1>3, <2>1
  <2>3. rpc'[r] = "idle" BY <1>0, <1>3 DEF Done, TypeOK
  <2>4. \A q \in Readers : q # r =>
          /\ rpc'[q] = rpc[q] /\ rindex'[q] = rindex[q] /\ rwant'[q] = rwant[q]
          /\ rleft'[q] = rleft[q] /\ rbuf'[q] = rbuf[q]
    BY <1>0, <1>3 DEF Done, TypeOK
  <2>5. LatestInv' BY <1>1, <1>3, <2>1, <2>3, <2>4 DEF LatestInv
  <2> QED BY <2>2, <2>5
<1>4. \A w \in Words : out[r][w] \in Nat /\ out[r][w] <= total + 1 /\ out[r][w] >= out[r][w] - 1
  BY <1>2 DEF LatestInv
<1>5. out = [out EXCEPT ![r] = out[r]] BY <1>0 DEF TypeOK
<1>6. CASE Done(r) /\ out' = out BY <1>3, <1>4, <1>5, <1>6
<1>7. CASE Empty(r)
  <2> DEFINE b == IF rindex[r] = 0 /\ rop[r] = "latest" THEN Zero ELSE out[r]
  <2>1. Done(r) /\ out' = [out EXCEPT ![r] = b] BY <1>7 DEF Empty, Result
  <2>2. rindex[r] = 0 => total = 0 BY <1>1, <1>7 DEF Empty, Available
  <2>3. ASSUME NEW w \in Words
        PROVE  b[w] \in Nat /\ b[w] <= total + 1 /\ b[w] >= out[r][w] - 1
    <3>1. CASE b = out[r] BY <1>4, <3>1
    <3>2. CASE b = Zero /\ total = 0
      <4>1. b[w] = 0 BY <3>2 DEF Zero
      <4> QED BY <1>4, <3>2, <4>1
    <3> QED BY <2>2, <3>1, <3>2
  <2> HIDE DEF b
  <2> QED BY <1>3, <2>1, <2>3
<1>8. CASE Return(r)
  <2> DEFINE b == IF rindex[r] = 0 THEN rbuf[r] ELSE out[r]
  <2>1. Done(r) /\ out' = [out EXCEPT ![r] = b] /\ rpc[r] = "copy" /\ rleft[r] = {}
    BY <1>8 DEF Return, Result, Accepts, Copied
  <2>2. rwant[r] \in Nat BY <1>0 DEF TypeOK, Elements
  <2>3. ASSUME NEW w \in Words
        PROVE  b[w] \in Nat /\ b[w] <= total + 1 /\ b[w] >= out[r][w] - 1
    <3>1. CASE rindex[r] = 0
      <4>1. b[w] = rbuf[r][w] BY <3>1
      <4>2. rbuf[r][w] >= rwant[r] /\ rbuf[r][w] <= total + 1 /\ out[r][w] <= rwant[r] + 1
        BY <2>1, <3>1 DEF LatestInv
      <4> QED BY <1>2, <2>2, <4>1, <4>2
    <3>2. CASE rindex[r] # 0 BY <1>4, <3>2
    <3> QED BY <3>1, <3>2
  <2> HIDE DEF b
  <2> QED BY <1>3, <2>1, <2>3
\* The other steps return nothing.
<1>9. ASSUME out' = out,
             \A q \in Readers : q # r =>
               /\ rpc'[q] = rpc[q] /\ rindex'[q] = rindex[q] /\ rwant'[q] = rwant[q]
               /\ rleft'[q] = rleft[q] /\ rbuf'[q] = rbuf[q],
             rpc'[r] \in {"spin", "copy"} /\ rindex'[r] = 0 =>
               \A w \in Words : out[r][w] <= rwant'[r] + 1,
             rpc'[r] = "copy" => \A w \in Words \ rleft'[r] :
               rbuf'[r][w] >= rwant'[r] /\ rbuf'[r][w] <= total + 1
      PROVE  LatestInv' /\ \A q \in Readers, w \in Words : out'[q][w] >= out[q][w] - 1
  <2>1. LatestInv' BY <1>1, <1>9 DEF LatestInv
  <2>2. \A q \in Readers, w \in Words : out'[q][w] >= out[q][w] - 1 BY <1>2, <1>9
  <2> QED BY <2>1, <2>2
<1>10. CASE GetLatest(r) \/ Get(r) \/ TryGet(r) \/ WaitForWrite(r)
  <2>1. PICK op, i : Call(r, op, i) BY <1>10 DEF GetLatest, Get, TryGet, WaitForWrite
  <2>2. rpc'[r] = "total" BY <1>0, <2>1 DEF Call, TypeOK
  <2> QED BY <1>0, <1>9, <2>1, <2>2 DEF Call, TypeOK
<1>11. CASE TotalWrites(r)
  BY <1>0, <1>9, <1>11 DEF TotalWrites, rcall, LatestInv, TypeOK
<1>12. CASE Locate(r)
  <2>1. rindex[r] = 0 => rwant'[r] = total BY <1>0, <1>1, <1>12 DEF Locate, TypeOK
  <2>2. \A w \in Words : out[r][w] <= total + 1 BY DEF LatestInv
  <2>3. rpc'[r] = "spin" BY <1>0, <1>12 DEF Locate, TypeOK
  <2> QED BY <1>0, <1>9, <1>12, <2>1, <2>2, <2>3 DEF Locate, TypeOK
<1>13. CASE Unchanged(r) \/ FutexWait(r) \/ Interrupted(r)
  <2>1. rpc'[r] \notin {"spin", "copy"} BY <1>0, <1>13 DEF Unchanged, FutexWait, Interrupted, TypeOK
  <2> QED BY <1>0, <1>9, <1>13, <2>1 DEF Unchanged, FutexWait, Interrupted, rcall, TypeOK
<1>14. CASE ReadBefore(r)
  <2>1. rpc[r] = "spin" /\ rleft'[r] = Words BY <1>0, <1>14 DEF ReadBefore, TypeOK
  <2> QED BY <1>0, <1>9, <1>14, <2>1 DEF ReadBefore, rcall, LatestInv, TypeOK
<1>15. CASE Retry(r)
  <2>1. rpc[r] \in {"spin", "copy"} /\ rpc'[r] = "spin"
    BY <1>0, <1>15 DEF Retry, Failed, Copied, TypeOK
  <2> QED BY <1>0, <1>9, <1>15, <2>1 DEF Retry, rcall, LatestInv, TypeOK
<1>16. ASSUME NEW v \in Words, CopyWord(r, v)
       PROVE  LatestInv' /\ \A q \in Readers, w \in Words : out'[q][w] >= out[q][w] - 1
  <2>0. rpc[r] = "copy" /\ rwant[r] \in 1 .. total /\ From(r) \in Slots
    BY <1>0, <1>16, SlotRange DEF CopyWord, TypeOK, From
  <2>1. sdata[From(r)][v] >= rwant[r] /\ sdata[From(r)][v] <= total + 1
    BY <2>0 DEF CyclicInv, SlotInv, From
  <2>2. \A w \in Words : rbuf'[r][w] = (IF w = v THEN sdata[From(r)][v] ELSE rbuf[r][w])
    BY <1>0, <1>16 DEF CopyWord, TypeOK, Buffer
  <2>3. rleft'[r] = rleft[r] \ {v} BY <1>0, <1>16 DEF CopyWord, TypeOK
  <2>4. \A w \in Words \ rleft'[r] : rbuf'[r][w] >= rwant[r] /\ rbuf'[r][w] <= total + 1
    BY <2>0, <2>1, <2>2, <2>3 DEF LatestInv
  <2> QED BY <1>0, <1>9, <1>16, <2>0, <2>4 DEF CopyWord, rcall, LatestInv, TypeOK
<1> QED
  BY <1>6, <1>7, <1>8, <1>10, <1>11, <1>12, <1>13, <1>14, <1>15, <1>16
  DEF ReaderStep, GiveUp, Changed, Timeout

\* Successive reads of the latest element go back by at most one element, for
\* any capacity and counter width, also across crashes of the writer.
THEOREM Monotonic == Spec => LatestAlmostMonotonic
<1> DEFINE Step == \A r \in Readers, w \in Words : out'[r][w] >= out[r][w] - 1
<1>1. Init => LatestInv
  <2> SUFFICES ASSUME Init PROVE LatestInv
    OBVIOUS
  <2>1. ASSUME NEW r \in Readers, NEW w \in Words PROVE out[r][w] <= total + 1
    <3>1. out[r][w] = 0 /\ total = 0 BY DEF Init, Zero
    <3> QED BY <3>1
  <2>2. \A r \in Readers : rpc[r] \notin {"spin", "copy"} BY DEF Init
  <2> QED BY <2>1, <2>2 DEF LatestInv
<1>2. CyclicInv /\ LatestInv /\ [Next]_vars => LatestInv' /\ [Step]_vars
  <2> SUFFICES ASSUME CyclicInv, LatestInv, [Next]_vars PROVE LatestInv' /\ [Step]_vars
    OBVIOUS
  <2>1. CASE UNCHANGED vars
    BY <2>1 DEF vars, wvars, rvars, rcall, LatestInv
  <2>2. CASE InsertBegin \/ WriterStep \/ Crash \/ Restart
    <3>1. out' = out
      BY <2>2 DEF InsertBegin, WriterStep, InsertOdd, InsertWord, InsertEven, Publish, Wake,
                  Crash, Restart, rvars
    <3>2. \A r \in Readers, w \in Words : out[r][w] \in Nat
      BY DEF CyclicInv, TypeOK, Buffer, Elements
    <3>3. Step BY <3>1, <3>2
    <3> QED BY <2>2, <3>3, WriterKeepsLatest
  <2> QED BY <2>1, <2>2, ReaderKeepsLatest DEF Next, Environment
<1> QED BY <1>1, <1>2, Invariance, PTL DEF Spec, LatestAlmostMonotonic
=============================================================================
