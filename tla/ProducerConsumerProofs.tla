------------------------ MODULE ProducerConsumerProofs ------------------------
(***************************************************************************)
(* Proofs about ProducerConsumer for any producers, consumers, threads,     *)
(* words and bounds.                                                        *)
(***************************************************************************)
EXTENDS ProducerConsumer, TLAPS

USE PCAssumption

\* The constructor puts the token into sem_write.
LEMMA InitInv == Init => PCInv
BY DEF Init, PCInv, Types, OneToken, Inside, WriteSide, ReadSide, Actors, Zero

\* Steps that touch neither a semaphore nor the data, and neither bring anybody
\* between a wait and a post nor take him away.
LEMMA QuietStep ==
  ASSUME PCInv,
         UNCHANGED <<semRead, semWrite, shm, left, buf, sent, got, last>>,
         losses' \in Nat, losses' >= losses,
         pc' \in [Actors -> {"idle", "call", "wait", "copy", "dead"}],
         \A a \in Actors : pc'[a] = "copy" <=> pc[a] = "copy"
  PROVE  PCInv'
<1> USE DEF PCInv
<1>1. Types' BY DEF Types
<1>2. Inside' = Inside BY DEF Inside
<1>3. OneToken' BY <1>2 DEF OneToken, Types
<1>4. WriteSide' BY DEF WriteSide, Actors
<1>5. ReadSide' BY DEF ReadSide, Actors
<1> QED BY <1>1, <1>3, <1>4, <1>5

\* A wait takes the token out of its semaphore.
LEMMA WaitKeepsInv ==
  ASSUME PCInv, NEW a \in Actors,
         \/ a \in Producers /\ ProduceWait(a)
         \/ a \in Consumers /\ ConsumeWait(a)
  PROVE  PCInv'
<1> USE DEF PCInv
<1>0. /\ pc[a] = "wait" /\ pc' = [pc EXCEPT ![a] = "copy"]
      /\ left' = [left EXCEPT ![a] = Words]
      /\ UNCHANGED <<shm, buf, sent, got, last, losses>>
      /\ \/ a \in Producers /\ semWrite > 0 /\ semWrite' = semWrite - 1 /\ semRead' = semRead
         \/ a \in Consumers /\ semRead > 0 /\ semRead' = semRead - 1 /\ semWrite' = semWrite
  BY DEF ProduceWait, ConsumeWait, Goto, hist
<1>1. Inside = {} /\ semRead + semWrite = 1
  BY <1>0 DEF OneToken, Types
<1>2. semRead' = 0 /\ semWrite' = 0
  <2>1. semRead \in Nat /\ semWrite \in Nat BY DEF Types
  <2>2. CASE semWrite > 0 /\ semWrite' = semWrite - 1 /\ semRead' = semRead
    BY <1>1, <2>1, <2>2
  <2>3. CASE semRead > 0 /\ semRead' = semRead - 1 /\ semWrite' = semWrite
    BY <1>1, <2>1, <2>3
  <2> QED BY <1>0, <2>2, <2>3
<1>3. Types' BY <1>0, <1>2 DEF Types
<1>4. Inside' = {a} BY <1>0, <1>1 DEF Inside, Types
<1>5. OneToken' BY <1>2, <1>4 DEF OneToken
<1>6. \A b \in Actors : pc'[b] = "copy" => b = a
  BY <1>4 DEF Inside
<1>7. WriteSide'
  BY <1>0, <1>1, <1>2, <1>6 DEF WriteSide, Types, Actors
<1>8. ReadSide'
  BY <1>0, <1>1, <1>2, <1>6 DEF ReadSide, Types, Actors
<1> QED BY <1>3, <1>5, <1>7, <1>8

\* Whoever is between a wait and a post is alone there.
LEMMA Alone ==
  ASSUME PCInv, NEW a \in Actors, pc[a] = "copy"
  PROVE  /\ Inside = {a} /\ semRead = 0 /\ semWrite = 0
         /\ \A b \in Actors : pc[b] = "copy" => b = a
BY DEF PCInv, OneToken, Inside

\* A word of the item is written.
LEMMA ProduceWordKeepsInv ==
  ASSUME PCInv, NEW p \in Producers, NEW w \in Words, ProduceWord(p, w)
  PROVE  PCInv'
<1> USE DEF PCInv, ProduceWord, hist, sems
<1>0. p \in Actors /\ \A c \in Consumers : c \in Actors /\ c # p
  BY DEF Actors
<1>1. /\ Inside = {p} /\ semRead = 0 /\ semWrite = 0
      /\ \A b \in Actors : pc[b] = "copy" => b = p
  BY <1>0, Alone
<1>2. Types' BY <1>0 DEF Types
<1>3. Inside' = Inside BY DEF Inside
<1>4. OneToken' BY <1>1, <1>3 DEF OneToken
<1>5. sent = got /\ \A x \in Words \ left[p] : shm[x] = sent + 1
  BY DEF WriteSide
<1>6. \A x \in Words \ left'[p] : shm'[x] = sent + 1
  BY <1>0, <1>5 DEF Types
<1>7. WriteSide' BY <1>0, <1>1, <1>5, <1>6 DEF WriteSide, Actors
<1>8. ReadSide' BY <1>0, <1>1 DEF ReadSide
<1> QED BY <1>2, <1>4, <1>7, <1>8

\* A word of the item is read.
LEMMA ConsumeWordKeepsInv ==
  ASSUME PCInv, NEW c \in Consumers, NEW w \in Words, ConsumeWord(c, w)
  PROVE  PCInv'
<1> USE DEF PCInv, ConsumeWord, hist, sems
<1>0. c \in Actors /\ \A p \in Producers : p \in Actors /\ p # c
  BY DEF Actors
<1>1. /\ Inside = {c} /\ semRead = 0 /\ semWrite = 0
      /\ \A b \in Actors : pc[b] = "copy" => b = c
  BY <1>0, Alone
<1>2. Types' BY <1>0 DEF Types
<1>3. Inside' = Inside BY DEF Inside
<1>4. OneToken' BY <1>1, <1>3 DEF OneToken
<1>5. /\ sent = got + 1 /\ \A x \in Words : shm[x] = sent
      /\ \A x \in Words \ left[c] : buf[c][x] = sent
  BY DEF ReadSide
<1>6. \A x \in Words \ left'[c] : buf'[c][x] = sent
  BY <1>0, <1>5 DEF Types
<1>7. ReadSide' BY <1>0, <1>1, <1>5, <1>6 DEF ReadSide, Actors
<1>8. WriteSide' BY <1>0, <1>1 DEF WriteSide
<1> QED BY <1>2, <1>4, <1>7, <1>8

\* post(sem_read): the item is sent.
LEMMA ProducePostKeepsInv ==
  ASSUME PCInv, NEW p \in Producers, ProducePost(p)
  PROVE  PCInv' /\ sent = got
<1> USE DEF PCInv, ProducePost, Return, Goto, hist
<1>0. p \in Actors BY DEF Actors
<1>1. /\ Inside = {p} /\ semRead = 0 /\ semWrite = 0
      /\ \A b \in Actors : pc[b] = "copy" => b = p
  BY <1>0, Alone
<1>2. semRead' = 1 /\ semWrite' = 0 BY <1>1 DEF Types
<1>3. Types'
  <2>1. pc' \in [Actors -> {"idle", "call", "wait", "copy", "dead"}] BY DEF Types
  <2>2. semRead' \in Nat /\ semWrite' \in Nat BY <1>2
  <2> QED BY <2>1, <2>2 DEF Types
<1>4. Inside' = {} BY <1>1 DEF Inside, Types
<1>5. OneToken' BY <1>2, <1>4 DEF OneToken
<1>6. sent = got /\ \A x \in Words : shm[x] = sent + 1
  BY DEF WriteSide
<1>7. \A b \in Actors : pc'[b] # "copy" BY <1>4 DEF Inside
<1>8. WriteSide' BY <1>2, <1>7 DEF WriteSide, Actors
<1>9. ReadSide' BY <1>6, <1>7 DEF ReadSide, Actors
<1> QED BY <1>3, <1>5, <1>6, <1>8, <1>9

\* post(sem_write): the item has been received, whole.
LEMMA ConsumePostKeepsInv ==
  ASSUME PCInv, NEW c \in Consumers, ConsumePost(c)
  PROVE  PCInv' /\ sent = got + 1 /\ Value(buf[c]) = sent
<1> USE DEF PCInv, ConsumePost, Return, Goto
<1>0. c \in Actors BY DEF Actors
<1>1. /\ Inside = {c} /\ semRead = 0 /\ semWrite = 0
      /\ \A b \in Actors : pc[b] = "copy" => b = c
  BY <1>0, Alone
<1>2. semRead' = 0 /\ semWrite' = 1 BY <1>1 DEF Types
<1>3. sent = got + 1 /\ \A x \in Words : buf[c][x] = sent
  BY DEF ReadSide
<1>4. Value(buf[c]) = sent
  <2>1. (CHOOSE w \in Words : TRUE) \in Words OBVIOUS
  <2> QED BY <1>3, <2>1 DEF Value
<1>5. Types'
  <2>1. pc' \in [Actors -> {"idle", "call", "wait", "copy", "dead"}] BY DEF Types
  <2>2. semRead' \in Nat /\ semWrite' \in Nat BY <1>2
  <2>3. last' \in [Consumers -> Nat] BY <1>4 DEF Types
  <2>4. buf' \in [Consumers -> [Words -> Nat]] BY DEF Types, Zero
  <2> QED BY <2>1, <2>2, <2>3, <2>4 DEF Types
<1>6. Inside' = {} BY <1>1 DEF Inside, Types
<1>7. OneToken' BY <1>2, <1>6 DEF OneToken
<1>8. \A b \in Actors : pc'[b] # "copy" BY <1>6 DEF Inside
<1>9. WriteSide' BY <1>3, <1>8 DEF WriteSide, Actors, Types
<1>10. ReadSide' BY <1>2, <1>8 DEF ReadSide, Actors
<1> QED BY <1>3, <1>4, <1>5, <1>7, <1>9, <1>10

\* An exception or a crash takes the token away or leaves it where it is.
LEMMA LossKeepsInv ==
  ASSUME PCInv, NEW a \in Actors, Crash(a) \/ (a \in Consumers /\ CallbackThrows(a))
  PROVE  PCInv'
<1> USE DEF PCInv
<1>0. /\ UNCHANGED <<semRead, semWrite, shm, sent, got, last>>
      /\ losses' = losses + 1
      /\ pc' \in [Actors -> {"idle", "call", "wait", "copy", "dead"}]
      /\ left' \in [Actors -> SUBSET Words]
      /\ buf' \in [Consumers -> [Words -> Nat]]
      /\ \A b \in Actors : pc'[b] = "copy" =>
           /\ pc[b] = "copy" /\ left'[b] = left[b]
           /\ b \in Consumers => buf'[b] = buf[b]
  <2>1. CASE Crash(a)
    BY <2>1 DEF Crash, Types, sems, hist, Zero, Actors
  <2>2. CASE CallbackThrows(a)
    BY <2>2 DEF CallbackThrows, Return, Goto, Types, sems, hist, Zero, Actors
  <2> QED BY <2>1, <2>2
<1>1. Types' BY <1>0 DEF Types
<1>2. Inside' \subseteq Inside BY <1>0 DEF Inside
<1>3. OneToken' BY <1>0, <1>2 DEF OneToken, Types
<1>4. WriteSide' BY <1>0 DEF WriteSide, Actors
<1>5. ReadSide' BY <1>0 DEF ReadSide, Actors
<1> QED BY <1>1, <1>3, <1>4, <1>5

\* Calls and their entry into the interpreter.
LEMMA CallKeepsInv ==
  ASSUME PCInv, NEW a \in Actors, Call(a) \/ Enter(a)
  PROVE  PCInv'
<1>1. /\ UNCHANGED <<semRead, semWrite, shm, left, buf, sent, got, last, losses>>
      /\ pc' \in [Actors -> {"idle", "call", "wait", "copy", "dead"}]
      /\ \A b \in Actors : pc'[b] = "copy" <=> pc[b] = "copy"
  BY DEF Call, Enter, Goto, sems, hist, PCInv, Types
<1> QED BY <1>1, QuietStep DEF PCInv, Types

-----------------------------------------------------------------------------
\* PCInv always holds.
THEOREM Invariance == Spec => []PCInv
<1>1. PCInv /\ [Next]_vars => PCInv'
  <2> SUFFICES ASSUME PCInv, [Next]_vars PROVE PCInv'
    OBVIOUS
  <2>1. CASE UNCHANGED vars
    BY <2>1, QuietStep DEF vars, sems, hist, PCInv, Types
  <2>2. ASSUME NEW a \in Actors, Step(a) PROVE PCInv'
    BY <2>2, CallKeepsInv, WaitKeepsInv, ProduceWordKeepsInv, ConsumeWordKeepsInv,
       ProducePostKeepsInv, ConsumePostKeepsInv
    DEF Step, ProduceStep, ConsumeStep
  <2>3. CASE Environment
    BY <2>3, CallKeepsInv, LossKeepsInv DEF Environment, Actors
  <2> QED BY <2>1, <2>2, <2>3 DEF Next
<1> QED BY <1>1, InitInv, PTL DEF Spec

\* There is never more than one token, and it is lost only by an exception or a
\* crash between a wait and a post.
THEOREM Token == Spec => []OneToken
<1>1. PCInv => OneToken BY DEF PCInv
<1> QED BY <1>1, Invariance, PTL

\* The semaphores and the shared T implement a one-place channel, for any
\* producers and consumers and whatever exceptions and crashes.
THEOREM Refinement == Spec => IsChannel
<1>1. Init => C!ChannelInit BY DEF Init, C!ChannelInit
<1>2. PCInv /\ [Next]_vars => [C!ChannelNext]_(C!cvars)
  <2> SUFFICES ASSUME PCInv, [Next]_vars
               PROVE  C!ChannelNext \/ UNCHANGED <<sent, got, last>>
    BY DEF C!cvars
  <2>1. CASE UNCHANGED vars BY <2>1 DEF vars, hist
  <2>2. ASSUME NEW p \in Producers, ProducePost(p) PROVE C!ChannelNext
    BY <2>2, ProducePostKeepsInv DEF ProducePost, hist, C!ChannelNext, C!Send
  <2>3. ASSUME NEW c \in Consumers, ConsumePost(c) PROVE C!ChannelNext
    <3>1. sent = got + 1 /\ Value(buf[c]) = sent /\ got \in Nat
      BY <2>3, ConsumePostKeepsInv DEF PCInv, Types
    <3>2. C!Receive(c)
      BY <2>3, <3>1 DEF ConsumePost, C!Receive
    <3> QED BY <3>2 DEF C!ChannelNext
  <2>4. ASSUME NEW a \in Actors, Call(a) \/ Crash(a) \/ Enter(a)
        PROVE  UNCHANGED <<sent, got, last>>
    BY <2>4 DEF Call, Crash, Enter, hist
  <2>5. ASSUME NEW c \in Consumers, CallbackThrows(c)
        PROVE  UNCHANGED <<sent, got, last>>
    BY <2>5 DEF CallbackThrows, hist
  <2>6. ASSUME NEW p \in Producers,
               ProduceWait(p) \/ (\E w \in Words : ProduceWord(p, w))
        PROVE  UNCHANGED <<sent, got, last>>
    BY <2>6 DEF ProduceWait, ProduceWord, hist
  <2>7. ASSUME NEW c \in Consumers,
               ConsumeWait(c) \/ (\E w \in Words : ConsumeWord(c, w))
        PROVE  UNCHANGED <<sent, got, last>>
    BY <2>7 DEF ConsumeWait, ConsumeWord, hist
  <2> QED
    BY <2>1, <2>2, <2>3, <2>4, <2>5, <2>6, <2>7
    DEF Next, Step, ProduceStep, ConsumeStep, Environment
<1> QED BY <1>1, <1>2, Invariance, PTL DEF Spec, IsChannel, C!ChannelSpec

-----------------------------------------------------------------------------
(* The image that load() returns in the Python class.                       *)

\* A thread has the interpreter lock from its entry to its return.  Unless the
\* interpreter has died, the image is the latest item loaded, or the one thread
\* inside load() has copied the words of the latest item that it has read.
ImageInv ==
  /\ image \in [Words -> Nat]
  /\ \A c \in Loaders : last[c] <= sent
  /\ gil \subseteq Interp /\ \A a, b \in gil : a = b
  /\ \A a \in Interp : a \in gil <=> pc[a] \in {"wait", "copy"}
  /\ \/ \A a \in Interp : pc[a] = "dead"
     \/ \E c \in Loaders : pc[c] = "copy" /\ \A w \in Words \ left[c] : image[w] = sent
     \/ (\A c \in Loaders : pc[c] # "copy") /\ HoldsLatest

\* Who shares an interpreter does not change.
LEMMA InterpFixed ==
  ASSUME [Next]_vars
  PROVE  Interp' = Interp /\ Loaders' = Loaders
<1>1. UNCHANGED binding
  BY DEF Next, Step, ProduceStep, ConsumeStep, Environment, Call, Enter, ProduceWait, ProduceWord,
         ProducePost, ConsumeWait, ConsumeWord, ConsumePost, CallbackThrows, Crash, vars
<1> QED BY <1>1 DEF Interp, Loaders

\* Where neither the image nor what the threads have loaded changes.
LEMMA LatestStays ==
  ASSUME HoldsLatest, UNCHANGED image, Loaders' = Loaders,
         \A c \in Loaders : last'[c] = last[c]
  PROVE  HoldsLatest'
BY DEF HoldsLatest

\* Steps of others, that let the threads and their image be.
LEMMA OthersKeepImage ==
  ASSUME PCInv, ImageInv, [Next]_vars, UNCHANGED image, sent' \in Nat, sent' >= sent,
         gil' = gil,
         \A a \in Interp : pc'[a] = pc[a],
         \A c \in Loaders : last'[c] = last[c],
         \A c \in Loaders : pc[c] = "copy" => left'[c] = left[c] /\ sent' = sent
  PROVE  ImageInv'
<1>0. /\ sent \in Nat /\ \A c \in Loaders : last[c] \in Nat /\ last[c] <= sent
      /\ Interp' = Interp /\ Loaders' = Loaders /\ Loaders \subseteq Interp
  BY InterpFixed DEF PCInv, Types, ImageInv, Loaders
<1>1. \A c \in Loaders : last'[c] <= sent' BY <1>0
<1>2. CASE \A a \in Interp : pc[a] = "dead"
  BY <1>0, <1>1, <1>2 DEF ImageInv
<1>3. ASSUME NEW c \in Loaders, pc[c] = "copy", \A w \in Words \ left[c] : image[w] = sent
      PROVE  ImageInv'
  <2>1. pc'[c] = "copy" /\ \A w \in Words \ left'[c] : image'[w] = sent'
    BY <1>0, <1>3
  <2> QED BY <1>0, <1>1, <1>3, <2>1 DEF ImageInv
<1>4. CASE (\A c \in Loaders : pc[c] # "copy") /\ HoldsLatest
  <2>1. HoldsLatest' BY <1>0, <1>4, LatestStays
  <2> QED BY <1>0, <1>1, <1>4, <2>1 DEF ImageInv
<1> QED BY <1>2, <1>3, <1>4 DEF ImageInv

\* Every step preserves the invariant of the image.
LEMMA StepImage ==
  ASSUME PCInv, ImageInv, [Next]_vars
  PROVE  ImageInv'
<1>0. /\ Interp \subseteq Actors /\ Producers \subseteq Actors /\ Consumers \subseteq Actors
      /\ pc \in [Actors -> {"idle", "call", "wait", "copy", "dead"}]
      /\ left \in [Actors -> SUBSET Words] /\ sent \in Nat /\ last \in [Consumers -> Nat]
      /\ Loaders = Consumers \cap Interp
      /\ \A c \in Loaders : last[c] \in Nat /\ last[c] <= sent
  BY DEF PCInv, Types, ImageInv, Actors, Interp, Loaders
<1>i. Interp' = Interp /\ Loaders' = Loaders BY InterpFixed
<1>1. CASE UNCHANGED vars
  BY <1>0, <1>1, OthersKeepImage DEF vars, hist
<1>2. ASSUME NEW a \in Actors, Call(a) PROVE ImageInv'
  <2>1. HoldsLatest => HoldsLatest' BY <1>i, <1>2, LatestStays DEF Call, hist
  <2> QED BY <1>0, <1>i, <1>2, <2>1 DEF Call, Goto, ImageInv, hist
<1>3. ASSUME NEW a \in Actors, Enter(a) PROVE ImageInv'
  <2>1. HoldsLatest => HoldsLatest' BY <1>i, <1>3, LatestStays DEF Enter, hist
  <2>2. CASE a \notin Interp
    BY <1>0, <1>3, <2>2, OthersKeepImage DEF Enter, Goto, hist
  <2>3. CASE a \in Interp
    BY <1>0, <1>i, <1>3, <2>1, <2>3 DEF Enter, Goto, ImageInv, hist
  <2> QED BY <2>2, <2>3
<1>4. ASSUME NEW p \in Producers, ProduceWait(p) PROVE ImageInv'
  <2>1. HoldsLatest => HoldsLatest' BY <1>i, <1>4, LatestStays DEF ProduceWait, hist
  <2> QED BY <1>0, <1>i, <1>4, <2>1 DEF ProduceWait, Goto, ImageInv, hist
<1>5. ASSUME NEW p \in Producers, NEW w \in Words, ProduceWord(p, w) PROVE ImageInv'
  BY <1>0, <1>5, OthersKeepImage DEF ProduceWord, hist
<1>6. ASSUME NEW p \in Producers, ProducePost(p) PROVE ImageInv'
  <2>1. \A c \in Loaders : pc[c] # "copy" BY <1>0, <1>6, Alone DEF ProducePost
  <2>2. CASE p \notin Interp
    BY <1>0, <1>6, <2>1, <2>2, OthersKeepImage DEF ProducePost, Return, Goto, ImageInv, hist
  <2>3. CASE p \in Interp
    <3>1. HoldsLatest BY <1>6, <2>1, <2>3 DEF ImageInv, ProducePost
    <3>2. HoldsLatest' BY <1>i, <1>6, <3>1, LatestStays DEF ProducePost, hist
    <3>3. \A c \in Loaders : last'[c] <= sent' BY <1>0, <1>6 DEF ProducePost, hist
    <3> QED BY <1>0, <1>i, <1>6, <2>1, <2>3, <3>2, <3>3 DEF ProducePost, Return, Goto, ImageInv
  <2> QED BY <2>2, <2>3
<1>7. ASSUME NEW c \in Consumers, ConsumeWait(c) PROVE ImageInv'
  <2>1. CASE c \notin Interp
    BY <1>0, <1>7, <2>1, OthersKeepImage DEF ConsumeWait, Goto, hist
  <2>2. CASE c \in Interp
    BY <1>0, <1>i, <1>7, <2>2 DEF ConsumeWait, Goto, ImageInv, hist
  <2> QED BY <2>1, <2>2
<1>8. ASSUME NEW c \in Consumers, NEW w \in Words, ConsumeWord(c, w) PROVE ImageInv'
  <2>1. CASE c \notin Interp
    BY <1>0, <1>8, <2>1, OthersKeepImage DEF ConsumeWord, hist
  <2>2. CASE c \in Interp
    <3>1. shm[w] = sent BY <1>8 DEF ConsumeWord, PCInv, ReadSide
    <3>2. \A x \in Words \ left[c] : image[x] = sent
      BY <1>0, <1>8, <2>2, Alone DEF ConsumeWord, ImageInv
    <3>3. \A x \in Words \ left'[c] : image'[x] = sent
      BY <1>0, <1>8, <2>2, <3>1, <3>2 DEF ConsumeWord, ImageInv
    <3> QED BY <1>0, <1>i, <1>8, <2>2, <3>1, <3>3 DEF ConsumeWord, ImageInv, hist
  <2> QED BY <2>1, <2>2
<1>9. ASSUME NEW c \in Consumers, ConsumePost(c) PROVE ImageInv'
  <2>0. last' = [last EXCEPT ![c] = sent] BY <1>9, ConsumePostKeepsInv DEF ConsumePost
  <2>1. CASE c \notin Interp
    BY <1>0, <1>9, <2>0, <2>1, OthersKeepImage DEF ConsumePost, Return, Goto, ImageInv
  <2>2. CASE c \in Interp
    <3>1. \A x \in Words : image[x] = sent
      BY <1>0, <1>9, <2>2, Alone DEF ConsumePost, ImageInv
    <3>2. image' = [x \in Words |-> sent] BY <1>9, <3>1 DEF ImageInv, ConsumePost
    <3>3. \A d \in Loaders : pc'[d] # "copy"
      BY <1>0, <1>9, Alone DEF ConsumePost, Return, Goto
    <3>4. last'[c] = sent /\ \A d \in Loaders : last'[d] <= sent BY <1>0, <2>0
    <3>5. HoldsLatest' BY <1>0, <1>i, <2>2, <3>2, <3>4 DEF HoldsLatest
    <3> QED BY <1>0, <1>i, <1>9, <2>2, <3>3, <3>4, <3>5 DEF ConsumePost, Return, Goto, ImageInv
  <2> QED BY <2>1, <2>2
<1>10. ASSUME NEW c \in Consumers, CallbackThrows(c) PROVE ImageInv'
  <2>1. Interp = {} BY <1>10 DEF CallbackThrows, Interp
  <2> QED BY <1>0, <1>i, <1>10, <2>1 DEF CallbackThrows, Return, ImageInv
<1>11. ASSUME NEW a \in Actors, Crash(a) PROVE ImageInv'
  <2>1. CASE a \in Interp
    <3>1. /\ \A b \in Interp : pc'[b] = "dead"
          /\ gil' = gil \ Interp /\ UNCHANGED <<image, sent, last>>
      BY <1>0, <1>11, <2>1 DEF Crash, hist
    <3>2. gil' = {} BY <3>1 DEF ImageInv
    <3> QED BY <1>i, <3>1, <3>2 DEF ImageInv
  <2>2. CASE a \notin Interp
    <3>1. /\ UNCHANGED <<image, sent, last>> /\ gil' = gil \ {a}
          /\ \A b \in Interp : pc'[b] = pc[b] /\ left'[b] = left[b]
      BY <1>0, <1>11, <2>2 DEF Crash, hist
    <3>2. gil' = gil BY <2>2, <3>1 DEF ImageInv
    <3> QED BY <1>0, <3>1, <3>2, OthersKeepImage
  <2> QED BY <2>1, <2>2
<1> QED
  BY <1>1, <1>2, <1>3, <1>4, <1>5, <1>6, <1>7, <1>8, <1>9, <1>10, <1>11
  DEF Next, Step, ProduceStep, ConsumeStep, Environment

\* Whoever looks at the image of load() with the interpreter lock sees one whole
\* item, the latest that any thread of the interpreter has loaded, for any
\* threads, processes, exceptions and crashes.
THEOREM Image == Spec => []ImageWhole
<1>1. Init => ImageInv
  BY DEF Init, ImageInv, HoldsLatest, Zero, Actors, Interp, Loaders
<1>2. ImageInv => ImageWhole
  BY DEF ImageInv, ImageWhole, Loaders
<1> QED BY <1>1, <1>2, StepImage, Invariance, PTL DEF Spec
=============================================================================
