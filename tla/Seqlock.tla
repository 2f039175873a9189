-------------------------------- MODULE Seqlock --------------------------------
(***************************************************************************)
(* The seqlock of include/safe-shm/seqlock.hpp: one writer, any number of   *)
(* readers, in processes that map the same shared-memory region             *)
(*                                                                         *)
(*        [ uint32_t sequence ] [ T data ]                                  *)
(*                                                                         *)
(* store() and the loads run interleaved, one shared-memory access per     *)
(* step.  The payload is a set of words copied by memcpy in any order; the  *)
(* k-th call of store() writes the number k into every word, so that a copy *)
(* is torn exactly when two of its words differ.                            *)
(*                                                                         *)
(* `ver' counts the increments of the sequence; the code only ever sees     *)
(* Seq(ver), its low bits, and every comparison below is on what it sees.   *)
(* The classes SeqlockWriter and SeqlockReader and the combined class       *)
(* Seqlock have the same code and are the same processes here.              *)
(***************************************************************************)
EXTENDS Integers

CONSTANTS Readers,       \* reader objects
          Words,         \* words of the payload T
          SeqMod,        \* 2^32: the sequence is a uint32_t
          MaxStores,     \* bound on the calls of store()
          MaxCrashes,    \* bound on the writer's crashes
          InOrder        \* TRUE: accesses happen in program order (x86-64);
                         \* FALSE: only acquire and release order them (ARM64)

ASSUME SeqlockAssumption ==
  /\ Words # {}
  /\ SeqMod \in Nat /\ SeqMod > 1 /\ SeqMod % 2 = 0
  /\ MaxStores \in Nat
  /\ MaxCrashes \in Nat
  /\ InOrder \in BOOLEAN

VARIABLES
  ver,        \* the sequence, before truncation to 32 bits
  data,       \* the payload in shared memory: word -> number of its store
  wpc,        \* the writer: "idle", "copy" (in store(), before the even
              \* store), "wake" (before FUTEX_WAKE) or "down" (crashed)
  wcur,       \* store()'s local cur
  wleft,      \* words memcpy has not written yet
  nstore,     \* calls of store() so far, the number of the current one
  committed,  \* history: the number of the last store whose even store is done
  crashes,    \* crashes of the writer so far
  spoiled,    \* history: has a writer started over an odd sequence?
  rpc,        \* a reader: "idle", "spin" (at the head of the retry loop),
              \* "copy", "wait" (before FUTEX_WAIT) or "sleep" (in the kernel)
  rop,        \* the call: "load", "block" (load_blocking) or "timed" (with
              \* a timeout)
  rbefore,    \* the local before / cur
  rafter,     \* the local after, or NoVer
  rleft,      \* words memcpy has not read yet
  rbuf,       \* the local result
  rlast,      \* the caller's last_seq
  out         \* history: what the latest call that had a result returned

wvars == <<wpc, wcur, wleft, nstore, committed, crashes, spoiled>>
rlocals == <<rpc, rop, rbefore, rafter, rleft, rbuf>>
rvars == <<rlocals, rlast, out>>
vars  == <<ver, data, wvars, rvars>>

-----------------------------------------------------------------------------
\* cur + 1 and cur + 2 wrap, because uint32_t arithmetic does.
Seq(v) == v % SeqMod

\* (before & 1u) == 0.  SeqMod is even: truncation keeps the parity.
Even(v) == v % 2 = 0

NoVer == -1
Zero  == [w \in Words |-> 0]

Blocking(r) == rop[r] \in {"block", "timed"}

\* shm_open and ftruncate give zero-filled memory.
Init ==
  /\ ver = 0
  /\ data = Zero
  /\ wpc = "idle" /\ wcur = 0 /\ wleft = {}
  /\ nstore = 0 /\ committed = 0 /\ crashes = 0 /\ spoiled = FALSE
  /\ rpc = [r \in Readers |-> "idle"]
  /\ rop = [r \in Readers |-> "load"]
  /\ rbefore = [r \in Readers |-> 0]
  /\ rafter = [r \in Readers |-> NoVer]
  /\ rleft = [r \in Readers |-> {}]
  /\ rbuf = [r \in Readers |-> Zero]
  /\ rlast = [r \in Readers |-> 0]
  /\ out = [r \in Readers |-> Zero]

-----------------------------------------------------------------------------
(* The writer: store().                                                     *)

OddStored == ver # wcur

\* The relaxed load of the sequence.
StoreBegin ==
  /\ wpc = "idle" /\ nstore < MaxStores
  /\ wpc' = "copy" /\ wcur' = ver /\ wleft' = Words /\ nstore' = nstore + 1
  /\ UNCHANGED <<ver, data, committed, crashes, spoiled, rvars>>

\* store(cur + 1, release).
StoreOdd ==
  /\ wpc = "copy" /\ ~OddStored
  /\ ver' = wcur + 1
  /\ UNCHANGED <<data, wvars, rvars>>

\* One word of memcpy.  A release store does not keep later stores behind it,
\* so without InOrder words may reach memory before the odd sequence.
StoreWord(w) ==
  /\ wpc = "copy" /\ w \in wleft
  /\ InOrder => OddStored
  /\ data' = [data EXCEPT ![w] = nstore]
  /\ wleft' = wleft \ {w}
  /\ UNCHANGED <<ver, wpc, wcur, nstore, committed, crashes, spoiled, rvars>>

\* Mutant: the sequence is incremented by two instead of set to cur + 2.
StoreEvenAddsTwo ==
  /\ wpc = "copy" /\ OddStored /\ wleft = {}
  /\ ver' = ver + 2
  /\ committed' = nstore
  /\ wpc' = "wake"
  /\ UNCHANGED <<data, wcur, wleft, nstore, crashes, spoiled, rvars>>

\* store(cur + 2, release): after every earlier store, on any machine.
StoreEven ==
  /\ wpc = "copy" /\ OddStored /\ wleft = {}
  /\ ver' = wcur + 2
  /\ committed' = nstore
  /\ wpc' = "wake"
  /\ UNCHANGED <<data, wcur, wleft, nstore, crashes, spoiled, rvars>>

\* FUTEX_WAKE, INT_MAX: everyone asleep in FUTEX_WAIT returns 0 from it and
\* goes around the loop of load_blocking again.
Wake ==
  /\ wpc = "wake"
  /\ wpc' = "idle" /\ wcur' = 0
  /\ rpc' = [r \in Readers |-> IF rpc[r] = "sleep" THEN "spin" ELSE rpc[r]]
  /\ rbefore' = [r \in Readers |-> IF rpc[r] = "sleep" THEN 0 ELSE rbefore[r]]
  /\ UNCHANGED <<ver, data, wleft, nstore, committed, crashes, spoiled,
                 rop, rafter, rleft, rbuf, rlast, out>>

\* The writer's process dies anywhere in store() or between two calls.  The
\* stores of a dead process are a prefix of its program.
Crash ==
  /\ wpc # "down" /\ crashes < MaxCrashes
  /\ (wpc = "copy" /\ wleft # Words) => OddStored
  /\ wpc' = "down" /\ wcur' = 0 /\ wleft' = {} /\ crashes' = crashes + 1
  /\ UNCHANGED <<ver, data, nstore, committed, spoiled, rvars>>

\* The constructor of a new writer opens the region and neither looks at the
\* sequence nor changes it: where the old writer left it odd, the parity of
\* "stable" and "write in progress" is inverted from here on.
Restart ==
  /\ wpc = "down"
  /\ wpc' = "idle"
  /\ spoiled' = (spoiled \/ ~Even(ver))
  /\ UNCHANGED <<ver, data, wcur, wleft, nstore, committed, crashes, rvars>>

-----------------------------------------------------------------------------
(* A reader: load(), load_blocking(last_seq[, timeout]) and sequence().     *)

\* Reader r's call is at pc with the locals cleared (`before', `after' and
\* `result' are dead there).
Goto(r, pc) ==
  /\ rpc' = [rpc EXCEPT ![r] = pc]
  /\ rbefore' = [rbefore EXCEPT ![r] = 0]
  /\ rafter' = [rafter EXCEPT ![r] = NoVer]
  /\ rleft' = [rleft EXCEPT ![r] = {}]
  /\ rbuf' = [rbuf EXCEPT ![r] = Zero]

Call(r, op) ==
  /\ rpc[r] = "idle"
  /\ rpc' = [rpc EXCEPT ![r] = "spin"]
  /\ rop' = [rop EXCEPT ![r] = op]
  /\ UNCHANGED <<ver, data, wvars, rbefore, rafter, rleft, rbuf, rlast, out>>

Load(r) == Call(r, "load")

LoadBlocking(r) == \E op \in {"block", "timed"} : Call(r, op)

\* sequence(); the caller keeps it as the last_seq of its next load_blocking.
Sequence(r) ==
  /\ rpc[r] = "idle"
  /\ rlast' = [rlast EXCEPT ![r] = ver]
  /\ UNCHANGED <<ver, data, wvars, rlocals, out>>

\* Mutant: the test of the low bit is missing.
AdmitsOdd(r, v) == Blocking(r) => Seq(v) # Seq(rlast[r])

\* May the attempt that saw sequence v start to copy?
Admits(r, v) == Even(v) /\ (Blocking(r) => Seq(v) # Seq(rlast[r]))

\* before = load(acquire).  load() spins on an odd sequence; load_blocking()
\* goes to sleep when there is nothing new.
ReadBefore(r) ==
  /\ rpc[r] = "spin"
  /\ Blocking(r) \/ Admits(r, ver)
  /\ rpc' = [rpc EXCEPT ![r] = IF Admits(r, ver) THEN "copy" ELSE "wait"]
  /\ rbefore' = [rbefore EXCEPT ![r] = ver]
  /\ rleft' = [rleft EXCEPT ![r] = IF Admits(r, ver) THEN Words ELSE {}]
  /\ UNCHANGED <<ver, data, wvars, rop, rafter, rbuf, rlast, out>>

\* One word of memcpy.
CopyWord(r, w) ==
  /\ rpc[r] = "copy" /\ w \in rleft[r]
  /\ rbuf' = [rbuf EXCEPT ![r][w] = data[w]]
  /\ rleft' = [rleft EXCEPT ![r] = @ \ {w}]
  /\ UNCHANGED <<ver, data, wvars, rpc, rop, rbefore, rafter, rlast, out>>

\* after = load(acquire).  An acquire load does not wait for earlier loads,
\* so without InOrder words may be read after it.
ReadAfter(r) ==
  /\ rpc[r] = "copy" /\ rafter[r] = NoVer
  /\ InOrder => rleft[r] = {}
  /\ rafter' = [rafter EXCEPT ![r] = ver]
  /\ UNCHANGED <<ver, data, wvars, rpc, rop, rbefore, rleft, rbuf, rlast, out>>

\* Both the copy and `after' are there.
Complete(r) == rpc[r] = "copy" /\ rleft[r] = {} /\ rafter[r] # NoVer

\* Mutant: the comparison is missing.
AcceptsAlways(r) == Complete(r)

\* before == after
Accepts(r) == Complete(r) /\ Seq(rbefore[r]) = Seq(rafter[r])

\* The call returns result; load_blocking also updates last_seq.
Return(r) ==
  /\ Accepts(r)
  /\ out' = [out EXCEPT ![r] = rbuf[r]]
  /\ rlast' = [rlast EXCEPT ![r] = IF Blocking(r) THEN rbefore[r] ELSE @]
  /\ Goto(r, "idle")
  /\ rop' = [rop EXCEPT ![r] = "load"]
  /\ UNCHANGED <<ver, data, wvars>>

\* Mutant: before is loaded once, outside the retry loop.
RetryKeepsBefore(r) ==
  /\ Complete(r) /\ ~Accepts(r)
  /\ rleft' = [rleft EXCEPT ![r] = Words]
  /\ rafter' = [rafter EXCEPT ![r] = NoVer]
  /\ UNCHANGED <<ver, data, wvars, rpc, rop, rbefore, rbuf, rlast, out>>

\* The sequence moved during the copy: the result is dropped.
Retry(r) ==
  /\ Complete(r) /\ ~Accepts(r)
  /\ Goto(r, "spin")
  /\ UNCHANGED <<ver, data, wvars, rop, rlast, out>>

\* Mutant: the sleep does not depend on the sequence.
FutexWaitBlind(r) ==
  /\ rpc[r] = "wait"
  /\ rpc' = [rpc EXCEPT ![r] = "sleep"]
  /\ UNCHANGED <<ver, data, wvars, rop, rbefore, rafter, rleft, rbuf, rlast, out>>

\* FUTEX_WAIT: the kernel compares the sequence with cur and either queues the
\* caller or returns EAGAIN.
FutexWait(r) ==
  /\ rpc[r] = "wait"
  /\ IF Seq(ver) = Seq(rbefore[r])
     THEN /\ rpc' = [rpc EXCEPT ![r] = "sleep"]
          /\ UNCHANGED <<rbefore, rafter, rleft, rbuf>>
     ELSE Goto(r, "spin")
  /\ UNCHANGED <<ver, data, wvars, rop, rlast, out>>

\* FUTEX_WAIT returns ETIMEDOUT; load_blocking returns nullopt.
Timeout(r) ==
  /\ rpc[r] = "sleep" /\ rop[r] = "timed"
  /\ Goto(r, "idle")
  /\ rop' = [rop EXCEPT ![r] = "load"]
  /\ UNCHANGED <<ver, data, wvars, rlast, out>>

\* FUTEX_WAIT returns EINTR; load_blocking goes around its loop.
Interrupted(r) ==
  /\ rpc[r] = "sleep"
  /\ Goto(r, "spin")
  /\ UNCHANGED <<ver, data, wvars, rop, rlast, out>>

-----------------------------------------------------------------------------
\* What a process inside a call does next, by itself.
WriterStep == StoreOdd \/ (\E w \in Words : StoreWord(w)) \/ StoreEven \/ Wake

ReaderStep(r) ==
  \/ ReadBefore(r)
  \/ \E w \in Words : CopyWord(r, w)
  \/ ReadAfter(r)
  \/ Return(r)
  \/ Retry(r)
  \/ FutexWait(r)

\* What callers and the environment decide.
Environment ==
  \/ StoreBegin
  \/ Crash
  \/ Restart
  \/ \E r \in Readers : \/ Load(r) \/ LoadBlocking(r) \/ Sequence(r)
                        \/ Timeout(r) \/ Interrupted(r)

Next == WriterStep \/ (\E r \in Readers : ReaderStep(r)) \/ Environment

Spec == Init /\ [][Next]_vars

\* A process inside a call keeps running; nothing makes callers call, and
\* nothing makes a timeout or a signal arrive.
FairSpec == Spec /\ WF_vars(WriterStep)
                 /\ \A r \in Readers : WF_vars(ReaderStep(r))

-----------------------------------------------------------------------------
(* Properties.                                                              *)

StoreIds == 0 .. MaxStores
Buffer   == [Words -> StoreIds]

\* The type invariant: the counters stay within the stores made so far (each
\* store adds two to the sequence) and every local within its domain.
TypeOK ==
  /\ ver \in 0 .. 2 * nstore
  /\ data \in Buffer
  /\ wpc \in {"idle", "copy", "wake", "down"}
  /\ wcur \in 0 .. ver
  /\ wleft \in SUBSET Words
  /\ nstore \in StoreIds /\ committed \in 0 .. nstore
  /\ crashes \in 0 .. MaxCrashes /\ spoiled \in BOOLEAN
  /\ rpc \in [Readers -> {"idle", "spin", "copy", "wait", "sleep"}]
  /\ rop \in [Readers -> {"load", "block", "timed"}]
  /\ rbefore \in [Readers -> Nat] /\ \A r \in Readers : rbefore[r] <= ver
  /\ rafter \in [Readers -> Nat \cup {NoVer}]
  /\ \A r \in Readers : rafter[r] <= ver
  /\ rleft \in [Readers -> SUBSET Words]
  /\ rbuf \in [Readers -> Buffer]
  /\ rlast \in [Readers -> Nat] /\ \A r \in Readers : rlast[r] <= ver
  /\ out \in [Readers -> Buffer]

Uniform(b) == \A w1, w2 \in Words : b[w1] = b[w2]

\* "Returns a local copy of the data, guaranteed consistent": when a reader's
\* check before == after succeeds, every word of its copy comes from the same
\* store, whatever stores, crashes and restarts ran in between.  Two cases are
\* excepted: 2^31 whole stores during a single attempt, which the 32-bit
\* counter cannot tell from none, and a writer that has started over an odd
\* sequence, whose stores run under an even one.
ConsistentSnapshot ==
  \A r \in Readers :
    Accepts(r) /\ rafter[r] - rbefore[r] < SeqMod /\ ~spoiled
      => Uniform(rbuf[r])

\* A reader is never left asleep on a sequence that has moved on: once store()
\* has returned, whoever is still in FUTEX_WAIT waits on the current sequence.
\* (A writer that dies between its even store and FUTEX_WAKE does leave
\* readers asleep, until the next store.)
NoLostWakeup ==
  \A r \in Readers :
    rpc[r] = "sleep" /\ wpc = "idle" /\ crashes = 0
      => Seq(ver) = Seq(rbefore[r])

\* The sequence is odd and no store() is under way: a writer died inside
\* store(), or another one has started over that sequence since.
LeftOdd == wpc \in {"idle", "down"} /\ ~Even(ver)

\* Once stores cease, load() returns: a reader spins only while a store is
\* under way, and retries only because one was.  The one thing that keeps it
\* spinning for ever is a sequence left odd by a writer that died in store().
LoadReturns ==
  \A r \in Readers : rpc[r] # "idle" /\ rop[r] = "load"
                        ~> (rpc[r] = "idle" \/ LeftOdd)

\* Reader r sleeps through a store: its writer died before FUTEX_WAKE.
Unwoken(r) == crashes > 0 /\ rpc[r] = "sleep" /\ Seq(ver) # Seq(rbefore[r])

\* The sequence has come round since reader r's last_seq.
WrappedSince(r) == ver - rlast[r] >= SeqMod

\* load_blocking() returns when there is a completed store the caller has not
\* seen, wherever in its loop or in the kernel it was when the store happened.
\* Only these keep it from that: a crash between the odd and the even store, a
\* crash between the even store and FUTEX_WAKE, and 2^31 stores since the
\* caller's last_seq, which make the new sequence look like the old one.
BlockedReaderReturns ==
  \A r \in Readers :
    rpc[r] # "idle" /\ Blocking(r) /\ wpc = "idle" /\ ver # rlast[r]
      ~> (rpc[r] = "idle" \/ LeftOdd \/ Unwoken(r) \/ WrappedSince(r))

-----------------------------------------------------------------------------
(* The inductive invariant, for accesses in program order.                  *)

\* The payload is the last completed store's, except for the words that the
\* current store() has written, and then the sequence is odd.
WriterInv ==
  /\ wpc = "copy" =>
       /\ ver \in {wcur, wcur + 1}
       /\ ver = wcur => wleft = Words
       /\ wcur + 2 <= 2 * nstore /\ committed < nstore
  /\ ~spoiled =>
       /\ wpc = "copy" =>
            /\ Even(wcur)
            /\ \A w \in Words :
                 data[w] = IF w \in wleft THEN committed ELSE nstore
       /\ wpc # "copy" /\ Even(ver) => \A w \in Words : data[w] = committed
       /\ wpc \in {"idle", "wake"} => Even(ver)

\* As long as the sequence is the one an attempt started from, the words it
\* has copied are the last completed store's.
ReaderInv ==
  \A r \in Readers :
    /\ rpc[r] # "copy" => rafter[r] = NoVer
    /\ rpc[r] = "copy" => Even(rbefore[r])
    /\ rpc[r] = "copy" /\ rafter[r] = NoVer /\ rbefore[r] = ver /\ ~spoiled =>
         \A w \in Words \ rleft[r] : rbuf[r][w] = committed
    /\ rafter[r] # NoVer =>
         /\ rleft[r] = {} /\ rafter[r] >= rbefore[r]
         /\ rafter[r] = rbefore[r] /\ ~spoiled => Uniform(rbuf[r])

SeqlockInv == TypeOK /\ WriterInv /\ ReaderInv

-----------------------------------------------------------------------------
(* The seqlock implements an atomic register.  A store takes effect at its  *)
(* even store, a load at the read of `after' that makes it accept.          *)

Torn == -1
Value(b) == IF Uniform(b) THEN b[CHOOSE w \in Words : TRUE] ELSE Torn

regOut == [r \in Readers |-> Value(IF Accepts(r) THEN rbuf[r] ELSE out[r])]

R == INSTANCE Register WITH reg <- committed, out <- regOut

\* Reader r's copy is accepted although the sequence has come round under it.
WrappedRead(r) ==
  /\ rafter[r] = NoVer /\ rafter'[r] # NoVer
  /\ rafter'[r] - rbefore[r] >= SeqMod

\* Every execution of the seqlock is one of the atomic register: a load returns
\* the latest completed store at one instant of the call, so no load is torn,
\* stale or older than what an earlier load of any reader returned.  The same
\* two exceptions: an attempt during which the 32-bit sequence came round, and
\* everything after a writer has started over an odd sequence.
AtomicRegister ==
  /\ R!RegInit
  /\ [][R!RegNext \/ spoiled' \/ \E r \in Readers : WrappedRead(r)]_(R!regVars)
=============================================================================
