----------------------------- MODULE CyclicBuffer -----------------------------
(***************************************************************************)
(* The cyclic buffer of include/safe-shm/cyclic_buffer.hpp:                  *)
(*                                                                         *)
(*   [ uint64_t total_writes ] [ seq, data ] [ seq, data ] ... N slots       *)
(*                                                                         *)
(* One writer inserts, any number of readers read by reverse index (0 is the *)
(* latest element).  The k-th insert (k = 1, 2, ...) writes the number k into *)
(* every word of slot (k - 1) mod N; an element is known by its number.  A    *)
(* reader first loads total_writes, derives the element it wants and its     *)
(* slot, and then reads whatever the slot holds by then under the slot's     *)
(* own sequence.  Accesses happen in program order (x86-64).                 *)
(*                                                                         *)
(* An insert that dies and the one that replaces it have the same number, so *)
(* every word also remembers the life of the writer that wrote it.           *)
(***************************************************************************)
EXTENDS Integers

CONSTANTS Readers,      \* reader objects
          Words,        \* words of an element
          N,            \* capacity
          SeqMod,       \* 2^32: slot sequences and futex words are uint32_t
          MaxWrites,    \* bound on the inserts
          MaxRetries,   \* try_get's max_retries (4 by default)
          MaxCrashes    \* bound on the writer's crashes

ASSUME CyclicAssumption ==
  /\ Words # {}
  /\ N \in Nat \ {0}
  /\ SeqMod \in Nat \ {0}
  /\ MaxWrites \in Nat
  /\ MaxRetries \in Nat
  /\ MaxCrashes \in Nat

VARIABLES
  total,      \* total_writes
  sver,       \* per slot: its sequence, before truncation to 32 bits
  sdata,      \* per slot: word -> number of the element it belongs to
  slife,      \* history, per slot: word -> crashes before it was written
  wpc,        \* the writer: "idle", "begin" (insert() has loaded total_writes
              \* and the slot's sequence), "copy" (odd sequence stored),
              \* "publish" (even sequence stored), "wake" (total stored) or
              \* "down" (its process has died)
  wleft,      \* words memcpy has not written yet
  crashes,    \* crashes of the writer so far
  spoiled,    \* history: the slots a restarted writer found odd
  rpc,        \* a reader: "idle", "total" (before the load of total_writes),
              \* "spin" (at the head of the slot's retry loop), "copy",
              \* "wait" (before FUTEX_WAIT) or "sleep"
  rop,        \* the call: "latest", "get", "try", "wait" or "timed"
  rindex,     \* its reverse_index
  rwant,      \* the element that index meant when total_writes was loaded
  rtries,     \* failed attempts of try_read_slot
  rbefore,    \* the local before
  rleft,      \* words memcpy has not read yet
  rbuf,       \* the local result
  rlife,      \* history: the lives that wrote the words of rbuf
  rlast,      \* the caller's last_seen
  out         \* history: what the last read of reverse index 0 returned

faults == <<crashes, spoiled>>
wvars == <<total, sver, sdata, slife, wpc, wleft, crashes, spoiled>>
rcall == <<rop, rindex, rwant>>
rvars == <<rpc, rcall, rtries, rbefore, rleft, rbuf, rlife, rlast, out>>
vars  == <<wvars, rvars>>

-----------------------------------------------------------------------------
Slots == 0 .. N - 1

\* The slot of element k: (k - 1) & (N - 1), N being a power of two.
Slot(k) == (k - 1) % N

Seq(v)  == v % SeqMod
Even(v) == v % 2 = 0

\* Mutant: the number of the next slot instead of the minimum.
AvailableWraps == total % N

\* available(): min(total_writes, N).
Available == IF total < N THEN total ELSE N

Zero == [w \in Words |-> 0]

Init ==
  /\ total = 0
  /\ sver = [s \in Slots |-> 0]
  /\ sdata = [s \in Slots |-> Zero] /\ slife = [s \in Slots |-> Zero]
  /\ wpc = "idle" /\ wleft = {}
  /\ crashes = 0 /\ spoiled = {}
  /\ rpc = [r \in Readers |-> "idle"]
  /\ rop = [r \in Readers |-> "latest"]
  /\ rindex = [r \in Readers |-> 0]
  /\ rwant = [r \in Readers |-> 0]
  /\ rtries = [r \in Readers |-> 0]
  /\ rbefore = [r \in Readers |-> 0]
  /\ rleft = [r \in Readers |-> {}]
  /\ rbuf = [r \in Readers |-> Zero] /\ rlife = [r \in Readers |-> Zero]
  /\ rlast = [r \in Readers |-> 0]
  /\ out = [r \in Readers |-> Zero]

-----------------------------------------------------------------------------
(* The writer: insert().  The element being inserted is total + 1.          *)

Current == Slot(total + 1)

InsertBegin ==
  /\ wpc = "idle" /\ total < MaxWrites
  /\ wpc' = "begin"
  /\ UNCHANGED <<total, sver, sdata, slife, wleft, faults, rvars>>

\* store(cur + 1, release) into the slot's sequence.
InsertOdd ==
  /\ wpc = "begin"
  /\ sver' = [sver EXCEPT ![Current] = @ + 1]
  /\ wpc' = "copy" /\ wleft' = Words
  /\ UNCHANGED <<total, sdata, slife, faults, rvars>>

InsertWord(w) ==
  /\ wpc = "copy" /\ w \in wleft
  /\ sdata' = [sdata EXCEPT ![Current][w] = total + 1]
  /\ slife' = [slife EXCEPT ![Current][w] = crashes]
  /\ wleft' = wleft \ {w}
  /\ UNCHANGED <<total, sver, wpc, faults, rvars>>

\* store(cur + 2, release).
InsertEven ==
  /\ wpc = "copy" /\ wleft = {}
  /\ sver' = [sver EXCEPT ![Current] = @ + 1]
  /\ wpc' = "publish"
  /\ UNCHANGED <<total, sdata, slife, wleft, faults, rvars>>

\* total_writes.store(writes + 1, release).
Publish ==
  /\ wpc = "publish"
  /\ total' = total + 1
  /\ wpc' = "wake"
  /\ UNCHANGED <<sver, sdata, slife, wleft, faults, rvars>>

\* Mutant: FUTEX_WAKE is missing.
WakeNobody ==
  /\ wpc = "wake"
  /\ wpc' = "idle"
  /\ UNCHANGED <<total, sver, sdata, slife, wleft, faults, rvars>>

\* FUTEX_WAKE, INT_MAX on the low half of total_writes: the sleepers of
\* wait_for_write() load total_writes again.
Wake ==
  /\ wpc = "wake"
  /\ wpc' = "idle"
  /\ rpc' = [r \in Readers |-> IF rpc[r] = "sleep" THEN "total" ELSE rpc[r]]
  /\ UNCHANGED <<total, sver, sdata, slife, wleft, faults, rcall, rtries, rbefore,
                 rleft, rbuf, rlife, rlast, out>>

\* The writer's process dies anywhere in insert() or between two calls.
Crash ==
  /\ wpc # "down" /\ crashes < MaxCrashes
  /\ wpc' = "down" /\ wleft' = {} /\ crashes' = crashes + 1
  /\ UNCHANGED <<total, sver, sdata, slife, spoiled, rvars>>

\* The constructor of a new writer opens the region and changes nothing in it.
\* If the slot it will write next was left odd, its sequence is even from now
\* on while it is written, and odd while it is not.
Restart ==
  /\ wpc = "down" /\ wpc' = "idle"
  /\ spoiled' = IF Even(sver[Current]) THEN spoiled ELSE spoiled \cup {Current}
  /\ UNCHANGED <<total, sver, sdata, slife, wleft, crashes, rvars>>

-----------------------------------------------------------------------------
(* A reader.                                                                *)

Call(r, op, i) ==
  /\ rpc[r] = "idle"
  /\ rpc' = [rpc EXCEPT ![r] = "total"]
  /\ rop' = [rop EXCEPT ![r] = op]
  /\ rindex' = [rindex EXCEPT ![r] = i]
  /\ UNCHANGED <<wvars, rwant, rtries, rbefore, rleft, rbuf, rlife, rlast, out>>

GetLatest(r) == Call(r, "latest", 0)

\* "UB if reverse_index >= available()": callers check available() first.
Get(r) == \E i \in 0 .. Available - 1 : Call(r, "get", i)

TryGet(r) == \E i \in 0 .. N : Call(r, "try", i)

WaitForWrite(r) == \E op \in {"wait", "timed"} : Call(r, op, 0)

\* total_writes(), kept as the last_seen of a later wait_for_write().
TotalWrites(r) ==
  /\ rpc[r] = "idle"
  /\ rlast' = [rlast EXCEPT ![r] = total]
  /\ UNCHANGED <<wvars, rpc, rcall, rtries, rbefore, rleft, rbuf, rlife, out>>

Waiting(r) == rop[r] \in {"wait", "timed"}

\* The call ends, and its locals with it.
Done(r) ==
  /\ rpc' = [rpc EXCEPT ![r] = "idle"]
  /\ rop' = [rop EXCEPT ![r] = "latest"]
  /\ rindex' = [rindex EXCEPT ![r] = 0]
  /\ rwant' = [rwant EXCEPT ![r] = 0]
  /\ rtries' = [rtries EXCEPT ![r] = 0]
  /\ rbefore' = [rbefore EXCEPT ![r] = 0]
  /\ rleft' = [rleft EXCEPT ![r] = {}]
  /\ rbuf' = [rbuf EXCEPT ![r] = Zero]
  /\ rlife' = [rlife EXCEPT ![r] = Zero]

\* A read of reverse index 0, by whichever call, is a read of the latest.
Result(r, b) == out' = [out EXCEPT ![r] = IF rindex[r] = 0 THEN b ELSE @]

\* get_latest() of an empty buffer returns T{}, and try_get() of an index that
\* is not available returns nullopt.
Empty(r) ==
  /\ rpc[r] = "total" /\ ~Waiting(r)
  /\ rindex[r] >= Available
  /\ Done(r)
  /\ Result(r, IF rop[r] = "latest" THEN Zero ELSE out[r])
  /\ UNCHANGED <<wvars, rlast>>

\* The load of total_writes: which element, hence which slot.
Locate(r) ==
  /\ rpc[r] = "total" /\ ~Waiting(r)
  /\ rindex[r] < Available
  /\ rwant' = [rwant EXCEPT ![r] = total - rindex[r]]
  /\ rpc' = [rpc EXCEPT ![r] = "spin"]
  /\ UNCHANGED <<wvars, rop, rindex, rtries, rbefore, rleft, rbuf, rlife, rlast, out>>

\* Mutant: (writes - reverse_index) & (N - 1), off by one.
FromNext(r) == Slot(rwant[r] + 1)

\* The slot reader r's call reads, and its sequence now.
From(r) == Slot(rwant[r])
Now(r)  == sver[From(r)]

\* before is even: start to copy.
ReadBefore(r) ==
  /\ rpc[r] = "spin" /\ Even(Now(r))
  /\ rbefore' = [rbefore EXCEPT ![r] = Now(r)]
  /\ rleft' = [rleft EXCEPT ![r] = Words]
  /\ rpc' = [rpc EXCEPT ![r] = "copy"]
  /\ UNCHANGED <<wvars, rcall, rtries, rbuf, rlife, rlast, out>>

CopyWord(r, w) ==
  /\ rpc[r] = "copy" /\ w \in rleft[r]
  /\ rbuf' = [rbuf EXCEPT ![r][w] = sdata[From(r)][w]]
  /\ rlife' = [rlife EXCEPT ![r][w] = slife[From(r)][w]]
  /\ rleft' = [rleft EXCEPT ![r] = @ \ {w}]
  /\ UNCHANGED <<wvars, rpc, rcall, rtries, rbefore, rlast, out>>

\* The load of after, about to be compared with before.
Copied(r)  == rpc[r] = "copy" /\ rleft[r] = {}
Accepts(r) == Copied(r) /\ Seq(rbefore[r]) = Seq(Now(r))

Return(r) ==
  /\ Accepts(r)
  /\ Done(r)
  /\ Result(r, rbuf[r])
  /\ UNCHANGED <<wvars, rlast>>

\* The attempt fails, because before is odd or after differs from it.
\* read_slot() tries for ever, try_read_slot() gives up after MaxRetries + 1
\* attempts.
Failed(r) == \/ rpc[r] = "spin" /\ ~Even(Now(r))
             \/ Copied(r) /\ ~Accepts(r)

\* Mutants: one attempt too many, and attempts that are not counted.
RetryOnceMore(r) ==
  /\ Failed(r)
  /\ rop[r] = "try" => rtries[r] <= MaxRetries
  /\ rpc' = [rpc EXCEPT ![r] = "spin"]
  /\ rtries' = [rtries EXCEPT ![r] = IF rop[r] = "try" THEN @ + 1 ELSE @]
  /\ rbefore' = [rbefore EXCEPT ![r] = 0]
  /\ rbuf' = [rbuf EXCEPT ![r] = Zero]
  /\ rlife' = [rlife EXCEPT ![r] = Zero]
  /\ UNCHANGED <<wvars, rcall, rleft, rlast, out>>

RetryUncounted(r) ==
  /\ Failed(r)
  /\ rpc' = [rpc EXCEPT ![r] = "spin"]
  /\ rbefore' = [rbefore EXCEPT ![r] = 0]
  /\ rbuf' = [rbuf EXCEPT ![r] = Zero]
  /\ rlife' = [rlife EXCEPT ![r] = Zero]
  /\ UNCHANGED <<wvars, rcall, rtries, rleft, rlast, out>>

Retry(r) ==
  /\ Failed(r)
  /\ rop[r] = "try" => rtries[r] < MaxRetries
  /\ rpc' = [rpc EXCEPT ![r] = "spin"]
  /\ rtries' = [rtries EXCEPT ![r] = IF rop[r] = "try" THEN @ + 1 ELSE @]
  /\ rbefore' = [rbefore EXCEPT ![r] = 0]
  /\ rbuf' = [rbuf EXCEPT ![r] = Zero]
  /\ rlife' = [rlife EXCEPT ![r] = Zero]
  /\ UNCHANGED <<wvars, rcall, rleft, rlast, out>>

GiveUp(r) ==
  /\ Failed(r)
  /\ rop[r] = "try" /\ rtries[r] = MaxRetries
  /\ Done(r)
  /\ UNCHANGED <<wvars, rlast, out>>

\* wait_for_write(): return if total_writes differs from last_seen (all 64
\* bits), otherwise sleep.
Changed(r) ==
  /\ rpc[r] = "total" /\ Waiting(r) /\ total # rlast[r]
  /\ Done(r)
  /\ rlast' = [rlast EXCEPT ![r] = total]
  /\ UNCHANGED <<wvars, out>>

Unchanged(r) ==
  /\ rpc[r] = "total" /\ Waiting(r) /\ total = rlast[r]
  /\ rpc' = [rpc EXCEPT ![r] = "wait"]
  /\ UNCHANGED <<wvars, rcall, rtries, rbefore, rleft, rbuf, rlife, rlast, out>>

\* Mutant: the sleep does not depend on total_writes.
FutexWaitBlind(r) ==
  /\ rpc[r] = "wait"
  /\ rpc' = [rpc EXCEPT ![r] = "sleep"]
  /\ UNCHANGED <<wvars, rcall, rtries, rbefore, rleft, rbuf, rlife, rlast, out>>

\* FUTEX_WAIT compares the low 32 bits with those of last_seen.
FutexWait(r) ==
  /\ rpc[r] = "wait"
  /\ rpc' = [rpc EXCEPT ![r] =
               IF Seq(total) = Seq(rlast[r]) THEN "sleep" ELSE "total"]
  /\ UNCHANGED <<wvars, rcall, rtries, rbefore, rleft, rbuf, rlife, rlast, out>>

\* ETIMEDOUT: nullopt.
Timeout(r) ==
  /\ rpc[r] = "sleep" /\ rop[r] = "timed"
  /\ Done(r)
  /\ UNCHANGED <<wvars, rlast, out>>

\* EINTR: around the loop.
Interrupted(r) ==
  /\ rpc[r] = "sleep"
  /\ rpc' = [rpc EXCEPT ![r] = "total"]
  /\ UNCHANGED <<wvars, rcall, rtries, rbefore, rleft, rbuf, rlife, rlast, out>>

-----------------------------------------------------------------------------
WriterStep ==
  \/ InsertOdd \/ (\E w \in Words : InsertWord(w)) \/ InsertEven
  \/ Publish \/ Wake

ReaderStep(r) ==
  \/ Empty(r) \/ Locate(r)
  \/ ReadBefore(r) \/ (\E w \in Words : CopyWord(r, w))
  \/ Return(r) \/ Retry(r) \/ GiveUp(r)
  \/ Changed(r) \/ Unchanged(r) \/ FutexWait(r)

Environment ==
  \/ InsertBegin \/ Crash \/ Restart
  \/ \E r \in Readers :
       \/ GetLatest(r) \/ Get(r) \/ TryGet(r) \/ WaitForWrite(r)
       \/ TotalWrites(r) \/ Timeout(r) \/ Interrupted(r)

Next == WriterStep \/ (\E r \in Readers : ReaderStep(r)) \/ Environment

Spec == Init /\ [][Next]_vars

\* Readers keep running inside their calls.  The writer may stop anywhere.
FairSpec == Spec /\ \A r \in Readers : WF_vars(ReaderStep(r))

-----------------------------------------------------------------------------
(* Properties.                                                              *)

Elements == 0 .. MaxWrites
Buffer   == [Words -> Elements]
Lives    == [Words -> 0 .. MaxCrashes]

\* The type invariant: slots hold elements made so far, a reader wants an
\* element that was published, and try_get stays within its retries.
TypeOK ==
  /\ total \in Elements
  /\ sver \in [Slots -> Nat]
  /\ sdata \in [Slots -> Buffer] /\ slife \in [Slots -> Lives]
  /\ wpc \in {"idle", "begin", "copy", "publish", "wake", "down"}
  /\ wpc \in {"begin", "copy", "publish"} => total < MaxWrites
  /\ wleft \in SUBSET Words
  /\ crashes \in 0 .. MaxCrashes /\ (wpc = "down" => crashes > 0)
  /\ spoiled \in SUBSET Slots
  /\ rpc \in [Readers -> {"idle", "total", "spin", "copy", "wait", "sleep"}]
  /\ rop \in [Readers -> {"latest", "get", "try", "wait", "timed"}]
  /\ rindex \in [Readers -> 0 .. N]
  /\ rwant \in [Readers -> Elements]
  /\ \A r \in Readers : rpc[r] \in {"spin", "copy"} => rwant[r] \in 1 .. total
  /\ rtries \in [Readers -> 0 .. MaxRetries]
  /\ rbefore \in [Readers -> Nat]
  /\ rleft \in [Readers -> SUBSET Words]
  /\ rbuf \in [Readers -> Buffer] /\ rlife \in [Readers -> Lives]
  /\ rlast \in [Readers -> Elements]
  /\ out \in [Readers -> Buffer]

\* Did fewer than 2^31 inserts hit the slot during reader r's attempt?
NotWrapped(r) == Now(r) - rbefore[r] < SeqMod

\* What a read returns: one element, untorn and written by one call of insert(),
\* never older than the one the caller asked for, of the same slot, and at most
\* the element being inserted.
\* In particular it is the element asked for unless the writer has lapped the
\* reader (begun element want + N) since the load of total_writes.  A writer
\* that dies inside insert() and is started again spoils this for one slot, the
\* one it died in, and for no other.
ReadsElement ==
  \A r \in Readers : Accepts(r) /\ NotWrapped(r) /\ From(r) \notin spoiled =>
    \E e \in rwant[r] .. total + 1 :
      /\ rbuf[r] = [w \in Words |-> e]
      /\ \A w1, w2 \in Words : rlife[r][w1] = rlife[r][w2]
      /\ Slot(e) = Slot(rwant[r])

\* Once insert() has returned, whoever still sleeps in wait_for_write() has
\* seen the present total_writes, up to the 32 bits the futex compares.  (A
\* writer that dies between the store of total_writes and FUTEX_WAKE does leave
\* readers asleep, until the next insert.)
NoLostWakeup ==
  \A r \in Readers :
    rpc[r] = "sleep" /\ wpc = "idle" /\ crashes = 0 => Seq(total) = Seq(rlast[r])

\* try_get() is wait-free: it returns even if the writer stops for ever in the
\* middle of an insert, and whatever the writer does meanwhile.
TryGetReturns ==
  \A r \in Readers : rpc[r] # "idle" /\ rop[r] = "try" ~> rpc[r] = "idle"

\* The read of reader r never ends: a writer died in its slot.
Stuck(r) == /\ rpc[r] = "spin"
            /\ From(r) \in spoiled \/ (wpc = "down" /\ ~Even(Now(r)))

\* Reader r sleeps through an insert: its writer died before FUTEX_WAKE.
Unwoken(r) == crashes > 0 /\ rpc[r] = "sleep" /\ Seq(total) # Seq(rlast[r])

\* If insert() never stops half way, get_latest(), get() and a wait_for_write()
\* that has missed a write return.  The futex compares 32 bits only, so 2^32
\* inserts since last_seen may put a waiter to sleep again; and a writer that
\* dies may leave a slot odd, or readers asleep.
ReadersReturn ==
  WF_vars(WriterStep) =>
    \A r \in Readers :
      (rpc[r] # "idle" /\ (Waiting(r) => total # rlast[r]))
        ~> (\/ rpc[r] = "idle" \/ Stuck(r) \/ Unwoken(r)
            \/ Waiting(r) /\ total - rlast[r] >= SeqMod)

\* The last element whose odd sequence has been stored, in the life of this
\* writer or of one before it.
Begun == IF ~Even(sver[Current]) \/ (\E w \in Words : sdata[Current][w] = total + 1)
         THEN total + 1 ELSE total

\* An attempt fails only if the writer has lapped the reader: it has begun the
\* element that replaces the one asked for, since total_writes was loaded.  So
\* try_get() returns nullopt for an available element only when the element is
\* gone or going, however slow the reader, and also after a crash, except in the
\* slot that the crash has spoiled.
FailsOnlyIfLapped ==
  \A r \in Readers :
    /\ rpc[r] \in {"spin", "copy"} /\ From(r) \notin spoiled
    /\ Failed(r) \/ rtries[r] > 0
    => Begun >= rwant[r] + N

\* One reader's successive get_latest(), get(0) and try_get(0) go back by at most
\* one element, and do so: a lapped reader may return the element that is just
\* being inserted, and the next read the one before it.  This needs neither the
\* sequences nor a writer that stays alive: what a slot holds is never older than
\* an element published in it.  LatestMonotonic is the stronger claim.
LatestAlmostMonotonic ==
  [][\A r \in Readers, w \in Words : out'[r][w] >= out[r][w] - 1]_vars

\* "Values must be monotonically non-decreasing (we only read latest)", which is
\* what the concurrent test of test/cyclic_buffer_test.cpp checks of successive
\* try_get(0).  They are not: insert() stores the slot's even sequence before it
\* stores total_writes.
LatestMonotonic ==
  [][\A r \in Readers, w \in Words : out'[r][w] >= out[r][w]]_vars

-----------------------------------------------------------------------------
(* The inductive invariant behind ReadsElement.                             *)

\* Slot s is being overwritten, or was when the writer died.
Dirty(s) == s = Current /\ (wpc = "copy" \/ (wpc = "down" /\ ~Even(sver[s])))

\* A slot's words are elements of that slot, and no older than any published
\* element of the slot.
SlotInv ==
  /\ \A s \in Slots, w \in Words :
       /\ sdata[s][w] <= total + 1
       /\ sdata[s][w] > 0 => Slot(sdata[s][w]) = s
  /\ \A k \in 1 .. total, w \in Words : sdata[Slot(k)][w] >= k

\* The sequence of a slot that is not spoiled is odd exactly while insert()
\* copies into it; otherwise its words agree.  What insert() has copied is the
\* element total + 1.
WriterInv ==
  /\ \A s \in Slots \ spoiled : Even(sver[s]) <=> ~Dirty(s)
  /\ \A s \in Slots \ spoiled : ~Dirty(s) =>
       \A w1, w2 \in Words : /\ sdata[s][w1] = sdata[s][w2]
                             /\ slife[s][w1] = slife[s][w2]
  /\ wpc = "copy" => \A w \in Words \ wleft : /\ sdata[Current][w] = total + 1
                                               /\ slife[Current][w] = crashes
  /\ wpc = "publish" => \A w \in Words : sdata[Current][w] = total + 1

\* The words a reader has copied are elements it may return, and those its slot
\* has, as long as the slot's sequence is the one the attempt started from.
ReaderInv ==
  \A r \in Readers : rpc[r] = "copy" =>
    /\ Even(rbefore[r]) /\ rbefore[r] <= Now(r)
    /\ rbefore[r] = Now(r) /\ From(r) \notin spoiled =>
         \A w \in Words \ rleft[r] : /\ rbuf[r][w] = sdata[From(r)][w]
                                     /\ rlife[r][w] = slife[From(r)][w]

CyclicInv == TypeOK /\ SlotInv /\ WriterInv /\ ReaderInv

\* What FailsOnlyIfLapped needs besides: a reader that has failed before, or
\* whose slot has a new sequence, has been lapped.
LapInv ==
  \A r \in Readers :
    /\ rpc[r] \notin {"spin", "copy"} => rtries[r] = 0
    /\ /\ rpc[r] \in {"spin", "copy"} /\ From(r) \notin spoiled
       /\ rtries[r] > 0 \/ (rpc[r] = "copy" /\ rbefore[r] # Now(r))
       => Begun >= rwant[r] + N
=============================================================================
