--------------------------- MODULE ProducerConsumer ---------------------------
(***************************************************************************)
(* ProducerConsumer<T> of include/safe-shm/producer_consumer.hpp and its twin  *)
(* in the Python binding, src/bindings/nanobind_image_shm.cpp: one shared T    *)
(* and two named semaphores.                                                 *)
(*                                                                         *)
(*   produce / store   wait(sem_write)  copy in          post(sem_read)        *)
(*   consume / load    wait(sem_read)   callback / copy  post(sem_write)       *)
(*                                                                         *)
(* All use the class or all use the binding (the variable binding): the two   *)
(* name their semaphores differently.  Producers and consumers are processes; *)
(* with the binding, those in Threads are threads of one interpreter that     *)
(* share one ProducerConsumer object.  The binding does not give up the       *)
(* interpreter lock, so such a thread holds it from the call to the return,   *)
(* while it waits for a semaphore too.  The k-th item has the number k in     *)
(* every word.                                                              *)
(***************************************************************************)
EXTENDS Naturals

CONSTANTS Producers, Consumers,
          Threads,     \* those that would share an interpreter
          Words,       \* words of T
          MaxItems,    \* bound on the calls of produce() and store()
          MaxLosses    \* bound on the exceptions and crashes inside a call

ASSUME PCAssumption ==
  /\ Producers \cap Consumers = {}
  /\ Threads \subseteq Producers \cup Consumers
  /\ Words # {}
  /\ MaxItems \in Nat /\ MaxLosses \in Nat

VARIABLES
  binding,  \* do all use the Python binding?  (otherwise the C++ class)
  semRead, semWrite,  \* the semaphores' values
  shm,      \* the shared T
  pc,       \* "idle", "call" (the call is made, the interpreter lock not taken
            \* yet), "wait" (in wait() of the semaphore), "copy" (between the
            \* wait and the post) or "dead"
  left,     \* words not copied yet
  gil,      \* the holder of the interpreter lock: {} or {a}
  image,    \* image_ of the Python object
  buf,      \* what a consumer's callback, or load(), has read
  sent,     \* items produced, counted at post(sem_read)
  got,      \* history: items consumed, counted at post(sem_write)
  last,     \* history: the last item each consumer consumed
  calls,    \* calls of produce() and store() so far
  losses    \* exceptions and crashes so far

Actors == Producers \cup Consumers

sems  == <<semRead, semWrite>>
hist  == <<got, last>>
vars  == <<binding, sems, shm, pc, left, gil, image, buf, sent, hist, calls, losses>>

\* The threads of the interpreter.
Interp == IF binding THEN Threads ELSE {}

Zero == [w \in Words |-> 0]

Goto(a, label) == pc' = [pc EXCEPT ![a] = label]

Init ==
  /\ binding \in BOOLEAN
  /\ semRead = 0 /\ semWrite = 1
  /\ shm = Zero
  /\ pc = [a \in Actors |-> "idle"]
  /\ left = [a \in Actors |-> {}]
  /\ gil = {}
  /\ image = Zero
  /\ buf = [c \in Consumers |-> Zero]
  /\ sent = 0 /\ got = 0 /\ last = [c \in Consumers |-> 0]
  /\ calls = 0 /\ losses = 0

-----------------------------------------------------------------------------
(* Calls.  In a thread of the interpreter the call starts when the thread has *)
(* the interpreter lock, and gives it back when it returns.                  *)

Call(a) ==
  /\ pc[a] = "idle"
  /\ a \in Producers => calls < MaxItems
  /\ calls' = IF a \in Producers THEN calls + 1 ELSE calls
  /\ Goto(a, "call")
  /\ UNCHANGED <<binding, sems, shm, left, gil, image, buf, sent, hist, losses>>

\* Mutant: the interpreter lock is not taken.
EnterUnlocked(a) ==
  /\ pc[a] = "call"
  /\ UNCHANGED gil
  /\ Goto(a, "wait")
  /\ UNCHANGED <<binding, sems, shm, left, image, buf, sent, hist, calls, losses>>

Enter(a) ==
  /\ pc[a] = "call"
  /\ \/ a \notin Interp /\ UNCHANGED gil
     \/ a \in Interp /\ gil = {} /\ gil' = {a}
  /\ Goto(a, "wait")
  /\ UNCHANGED <<binding, sems, shm, left, image, buf, sent, hist, calls, losses>>

Return(a) == Goto(a, "idle") /\ gil' = gil \ {a}

-----------------------------------------------------------------------------
(* produce(), store().                                                      *)

ProduceWait(p) ==
  /\ pc[p] = "wait" /\ semWrite > 0
  /\ semWrite' = semWrite - 1
  /\ left' = [left EXCEPT ![p] = Words]
  /\ Goto(p, "copy")
  /\ UNCHANGED <<binding, semRead, shm, gil, image, buf, sent, hist, calls, losses>>

\* One word of get() = data.
ProduceWord(p, w) ==
  /\ pc[p] = "copy" /\ w \in left[p]
  /\ shm' = [shm EXCEPT ![w] = sent + 1]
  /\ left' = [left EXCEPT ![p] = @ \ {w}]
  /\ UNCHANGED <<binding, sems, pc, gil, image, buf, sent, hist, calls, losses>>

\* Mutant: both semaphores are posted.
ProducePostBoth(p) ==
  /\ pc[p] = "copy" /\ left[p] = {}
  /\ semRead' = semRead + 1 /\ semWrite' = semWrite + 1
  /\ sent' = sent + 1
  /\ Return(p)
  /\ UNCHANGED <<binding, shm, left, image, buf, hist, calls, losses>>

ProducePost(p) ==
  /\ pc[p] = "copy" /\ left[p] = {}
  /\ semRead' = semRead + 1
  /\ sent' = sent + 1
  /\ Return(p)
  /\ UNCHANGED <<binding, semWrite, shm, left, image, buf, hist, calls, losses>>

-----------------------------------------------------------------------------
(* consume(), load().                                                       *)

ConsumeWait(c) ==
  /\ pc[c] = "wait" /\ semRead > 0
  /\ semRead' = semRead - 1
  /\ left' = [left EXCEPT ![c] = Words]
  /\ Goto(c, "copy")
  /\ UNCHANGED <<binding, semWrite, shm, gil, image, buf, sent, hist, calls, losses>>

\* The callback reads the shared T in place; load() copies it to image_.
ConsumeWord(c, w) ==
  /\ pc[c] = "copy" /\ w \in left[c]
  /\ buf' = [buf EXCEPT ![c][w] = shm[w]]
  /\ image' = IF c \in Interp THEN [image EXCEPT ![w] = shm[w]] ELSE image
  /\ left' = [left EXCEPT ![c] = @ \ {w}]
  /\ UNCHANGED <<binding, sems, shm, pc, gil, sent, hist, calls, losses>>

\* The number of an item, or Torn if its words are not of one item.
Torn     == 0
Value(b) == IF \A w1, w2 \in Words : b[w1] = b[w2]
            THEN b[CHOOSE w \in Words : TRUE] ELSE Torn

\* Mutants: sem_write is posted before the data is read, and not at all.
ConsumePostEarly(c) ==
  /\ pc[c] = "copy" /\ left[c] # {}
  /\ semWrite' = semWrite + 1
  /\ got' = got + 1
  /\ last' = [last EXCEPT ![c] = Value(buf[c])]
  /\ Return(c)
  /\ left' = [left EXCEPT ![c] = {}]
  /\ buf' = [buf EXCEPT ![c] = Zero]
  /\ UNCHANGED <<binding, semRead, shm, image, sent, calls, losses>>

ConsumePostMissing(c) ==
  /\ pc[c] = "copy" /\ left[c] = {}
  /\ got' = got + 1
  /\ last' = [last EXCEPT ![c] = Value(buf[c])]
  /\ Return(c)
  /\ buf' = [buf EXCEPT ![c] = Zero]
  /\ UNCHANGED <<binding, sems, shm, left, image, sent, calls, losses>>

ConsumePost(c) ==
  /\ pc[c] = "copy" /\ left[c] = {}
  /\ semWrite' = semWrite + 1
  /\ got' = got + 1
  /\ last' = [last EXCEPT ![c] = Value(buf[c])]
  /\ Return(c)
  /\ buf' = [buf EXCEPT ![c] = Zero]
  /\ UNCHANGED <<binding, semRead, shm, left, image, sent, calls, losses>>

\* The callback throws: the exception leaves consume() before the post.  load()
\* has no callback.
CallbackThrows(c) ==
  /\ pc[c] = "copy" /\ ~binding /\ losses < MaxLosses
  /\ losses' = losses + 1
  /\ Return(c)
  /\ left' = [left EXCEPT ![c] = {}]
  /\ buf' = [buf EXCEPT ![c] = Zero]
  /\ UNCHANGED <<binding, sems, shm, image, sent, hist, calls>>

\* A process dies, with all its threads; the semaphores and the data stay as
\* they are.
Crash(a) ==
  LET dying == IF a \in Interp THEN Interp ELSE {a}
  IN  /\ pc[a] \in {"call", "wait", "copy"} /\ losses < MaxLosses
      /\ losses' = losses + 1
      /\ pc' = [b \in Actors |-> IF b \in dying THEN "dead" ELSE pc[b]]
      /\ left' = [b \in Actors |-> IF b \in dying THEN {} ELSE left[b]]
      /\ buf' = [c \in Consumers |-> IF c \in dying THEN Zero ELSE buf[c]]
      /\ gil' = gil \ dying
      /\ UNCHANGED <<binding, sems, shm, image, sent, hist, calls>>

-----------------------------------------------------------------------------
ProduceStep(p) ==
  \/ ProduceWait(p) \/ (\E w \in Words : ProduceWord(p, w)) \/ ProducePost(p)

ConsumeStep(c) ==
  \/ ConsumeWait(c) \/ (\E w \in Words : ConsumeWord(c, w)) \/ ConsumePost(c)

Step(a) ==
  \/ Enter(a)
  \/ a \in Producers /\ ProduceStep(a)
  \/ a \in Consumers /\ ConsumeStep(a)

Environment ==
  \/ \E a \in Actors : Call(a) \/ Crash(a)
  \/ \E c \in Consumers : CallbackThrows(c)

Next == (\E a \in Actors : Step(a)) \/ Environment

Spec == Init /\ [][Next]_vars

\* Processes and threads keep running inside their calls, except where they
\* wait for a semaphore or for the interpreter lock.
FairSpec == Spec /\ \A a \in Actors : WF_vars(Step(a))

-----------------------------------------------------------------------------
(* Properties.                                                              *)

Inside == {a \in Actors : pc[a] = "copy"}

\* There is one token: in one of the semaphores, or with the one process that
\* is between its wait and its post.  It is lost, for good, only by an exception
\* or a crash in between, and never doubled: nobody else touches the shared T.
OneToken ==
  /\ semRead + semWrite <= 1
  /\ \A a, b \in Inside : a = b
  /\ Inside # {} => semRead = 0 /\ semWrite = 0
  /\ losses = 0 => semRead + semWrite = 1 \/ Inside # {}

C == INSTANCE Channel

\* Items are received whole, in the order they were sent, each by one consumer,
\* and none is overwritten before it is received.
IsChannel == C!ChannelSpec

\* An exception or a crash has taken the token.
Lost == losses > 0 /\ semRead = 0 /\ semWrite = 0 /\ Inside = {}

\* A thread waits for its semaphore with the interpreter lock, and another one
\* for the interpreter lock.
InterpreterBlocked == \E a, b \in Interp : pc[a] = "wait" /\ pc[b] = "call"

\* When a producer and a consumer have both made their calls, a consumer gets an
\* item.  What can prevent it: one of them dies, the token is lost, or threads of
\* one interpreter block each other for ever.
Handover ==
  \A p \in Producers, c \in Consumers :
    pc[p] \in {"call", "wait"} /\ pc[c] \in {"call", "wait"}
      ~> \/ \E d \in Consumers : pc[d] = "copy"
         \/ pc[p] = "dead" \/ pc[c] = "dead" \/ Lost
         \/ []InterpreterBlocked

\* The threads that load into the shared image_.
Loaders == Consumers \cap Interp

\* The image is the latest item that a thread of the interpreter has loaded.
HoldsLatest ==
  \E k \in {0} \cup {last[c] : c \in Loaders} :
    (\A c \in Loaders : last[c] <= k) /\ image = [w \in Words |-> k]

\* load() returns the object's only image_, which the next load() of any thread
\* overwrites under whoever still has it.  A thread that looks at it, and so has
\* the interpreter lock, always sees one whole item: not the one its own load()
\* returned, but the latest that any thread of the interpreter has loaded.
ImageWhole == gil = {} /\ (\E a \in Interp : pc[a] # "dead") => HoldsLatest

-----------------------------------------------------------------------------
(* The inductive invariant behind OneToken and IsChannel.                   *)

Types ==
  /\ semRead \in Nat /\ semWrite \in Nat
  /\ shm \in [Words -> Nat]
  /\ pc \in [Actors -> {"idle", "call", "wait", "copy", "dead"}]
  /\ left \in [Actors -> SUBSET Words]
  /\ buf \in [Consumers -> [Words -> Nat]]
  /\ sent \in Nat /\ got \in Nat /\ last \in [Consumers -> Nat]
  /\ losses \in Nat

\* With the token in sem_write, or with a producer, everything sent has been
\* received, and what the producer has copied is the next item.
WriteSide ==
  /\ semWrite = 1 => sent = got
  /\ \A p \in Producers : pc[p] = "copy" =>
       sent = got /\ \A w \in Words \ left[p] : shm[w] = sent + 1

\* With the token in sem_read, or with a consumer, the shared T is the one item
\* that has not been received, and what the consumer has read is part of it.
ReadSide ==
  /\ semRead = 1 => sent = got + 1 /\ \A w \in Words : shm[w] = sent
  /\ \A c \in Consumers : pc[c] = "copy" =>
       /\ sent = got + 1 /\ \A w \in Words : shm[w] = sent
       /\ \A w \in Words \ left[c] : buf[c][w] = sent

PCInv == Types /\ OneToken /\ WriteSide /\ ReadSide
=============================================================================
