-------------------------- MODULE ShmLifecycleProofs --------------------------
(***************************************************************************)
(* Proofs about ShmLifecycle for any processes, times, widths and bounds.    *)
(***************************************************************************)
EXTENDS ShmLifecycle, TLAPS

USE LifecycleAssumption

-----------------------------------------------------------------------------
(* The inductive invariant.                                                 *)

\* The constructor stores the magic first.
MagicFirst ==
  \A p \in Pids : wpc[p] \notin {"out", "magic"} => hdr[wmap[p]].magic

\* A segment that is not disputed has one owner at most; the header names it
\* once it has stored its pid, and the time it is about to store is no earlier
\* than the heartbeat.
SoleOwner ==
  \A p \in Pids : wmap[p] # 0 /\ wmap[p] \notin disputed =>
    /\ \A q \in Pids : wmap[q] = wmap[p] => q = p
    /\ wpc[p] \in {"clock", "beat", "ready", "tick"} => hdr[wmap[p]].pid = p
    /\ wpc[p] \in {"beat", "tick"} => hdr[wmap[p]].heartbeat <= wclock[p]

\* A segment without an owner got its last heartbeat before its owner went.
Abandoned ==
  \A f \in Files : (\A p \in Pids : wmap[p] # f) => hdr[f].heartbeat <= lastSeen[f]

\* What a call has found out about the owner that has had the segment to itself
\* since it began.
CallInv ==
  /\ rpc \in {"clock", "beat"} => stale > 0
  /\ steady # 0 =>
       /\ rpc # "idle"
       /\ wmap[steady] = rmap /\ \A p \in Pids : wmap[p] = rmap => p = steady
       /\ Constructed(steady)
       /\ rpc = "kill" /\ rmap \notin disputed => rpid = steady

LifecycleInv ==
  /\ TypeOK /\ MagicFirst /\ SoleOwner /\ Abandoned /\ CallInv
  /\ DeathIsNoticed /\ LifeIsNoticed

-----------------------------------------------------------------------------
(* Types.                                                                   *)

Header == [magic : BOOLEAN, pid : Pids \cup {0}, heartbeat : 0 .. now]

\* A process with a segment is a writer, and the segment exists.
LEMMA Mapped ==
  ASSUME TypeOK, NEW p \in Pids, wpc[p] # "out"
  PROVE  wmap[p] \in Files /\ hdr[wmap[p]] \in Header /\ proc[p] = "writer"
<1>1. wmap[p] \in 0 .. files /\ files \in 0 .. MaxFiles BY DEF TypeOK
<1>2. wmap[p] # 0 /\ proc[p] = "writer" BY DEF TypeOK
<1>3. wmap[p] \in Files BY <1>1, <1>2 DEF Files
<1>4. hdr \in [Files -> Header] BY DEF TypeOK, Header
<1> QED BY <1>2, <1>3, <1>4

\* What a store into the header does.
LEMMA StoreEffect ==
  ASSUME TypeOK, NEW p \in Pids, wmap[p] \in Files, NEW h \in Header, Store(p, h),
         h.pid # 0 \/ h.heartbeat > 0 => h.magic
  PROVE  /\ hdr' \in [Files -> Header]
         /\ \A f \in Files : hdr'[f] = IF f = wmap[p] THEN h ELSE hdr[f]
         /\ \A f \in Files : hdr'[f].pid # 0 \/ hdr'[f].heartbeat > 0 => hdr'[f].magic
<1>1. hdr \in [Files -> Header] BY DEF TypeOK, Header
<1>2. \A f \in Files : hdr'[f] = IF f = wmap[p] THEN h ELSE hdr[f]
  BY <1>1 DEF Store
<1>3. hdr' \in [Files -> Header] BY <1>1 DEF Store
<1> QED BY <1>2, <1>3 DEF TypeOK

\* The steps of the constructor and of update_heartbeat().
LEMMA WriterStepType ==
  ASSUME TypeOK, MagicFirst, NEW p \in Pids, WriterStep(p)
  PROVE  TypeOK' /\ MagicFirst'
<1> USE DEF At
<1>0. wmap[p] \in Files /\ hdr[wmap[p]] \in Header /\ proc[p] = "writer"
  BY Mapped DEF WriterStep, SetMagic, SetPid, BeatClock, BeatStore
<1>1. wclock \in [Pids -> 0 .. now] /\ now \in Nat /\ hdr \in [Files -> Header]
  BY DEF TypeOK, Header
<1>2. ASSUME NEW h \in Header, Store(p, h), h.pid # 0 \/ h.heartbeat > 0 => h.magic,
             h.magic, wclock' \in [Pids -> 0 .. now], wpc[p] # "out",
             \E to \in {"pid", "clock", "ready"} : wpc' = [wpc EXCEPT ![p] = to]
      PROVE  TypeOK' /\ MagicFirst'
  <2>1. /\ hdr' \in [Files -> Header]
        /\ \A f \in Files : hdr'[f] = IF f = wmap[p] THEN h ELSE hdr[f]
        /\ \A f \in Files : hdr'[f].pid # 0 \/ hdr'[f].heartbeat > 0 => hdr'[f].magic
    BY <1>0, <1>2, StoreEffect
  <2>2. /\ UNCHANGED <<now, proc, spawns, name, files, wmap, rlocals, history>>
    BY <1>2 DEF Store
  <2>3. TypeOK'
    BY <1>0, <1>2, <2>1, <2>2 DEF TypeOK, rlocals, history, Header
  <2>4. MagicFirst'
    <3> SUFFICES ASSUME NEW q \in Pids, wpc'[q] \notin {"out", "magic"}
                 PROVE  hdr'[wmap'[q]].magic
      BY DEF MagicFirst
    <3>1. CASE wmap[q] = wmap[p] BY <1>0, <1>2, <2>1, <2>2, <3>1
    <3>2. CASE wmap[q] # wmap[p]
      <4>1. q # p /\ wpc[q] \notin {"out", "magic"} BY <1>2, <3>2 DEF TypeOK
      <4>2. wmap[q] \in Files /\ hdr[wmap[q]].magic BY <4>1, Mapped DEF MagicFirst
      <4> QED BY <2>1, <2>2, <3>2, <4>2
    <3> QED BY <3>1, <3>2
  <2> QED BY <2>3, <2>4
<1>3. CASE SetMagic(p)
  <2> DEFINE h == [hdr[wmap[p]] EXCEPT !.magic = TRUE]
  <2>1. h \in Header /\ h.magic BY <1>0 DEF Header
  <2> QED BY <1>1, <1>2, <1>3, <2>1 DEF SetMagic
<1>4. CASE SetPid(p)
  <2> DEFINE h == [hdr[wmap[p]] EXCEPT !.pid = p]
  <2>1. h \in Header /\ h.magic
    BY <1>0, <1>4 DEF Header, MagicFirst, SetPid
  <2> QED BY <1>1, <1>2, <1>4, <2>1 DEF SetPid
<1>5. CASE BeatStore(p)
  <2> DEFINE h == [hdr[wmap[p]] EXCEPT !.heartbeat = wclock[p]]
  <2>1. h \in Header /\ h.magic
    BY <1>0, <1>1, <1>5 DEF Header, MagicFirst, BeatStore
  <2>2. wclock' \in [Pids -> 0 .. now] BY <1>1, <1>5 DEF BeatStore
  <2> QED BY <1>2, <1>5, <2>1, <2>2 DEF BeatStore
<1>6. CASE BeatClock(p)
  <2>1. wclock' \in [Pids -> 0 .. now] BY <1>1, <1>6 DEF BeatClock
  <2>2. wpc' \in [Pids -> {"out", "magic", "pid", "clock", "beat", "ready", "tick"}]
        /\ wpc[p] # "out" /\ wpc[p] # "magic" /\ wpc'[p] # "out"
        /\ \A q \in Pids \ {p} : wpc'[q] = wpc[q]
    BY <1>6 DEF BeatClock, TypeOK
  <2>3. UNCHANGED <<now, proc, spawns, name, files, hdr, wmap, rlocals, history>>
    BY <1>6 DEF BeatClock
  <2>4. TypeOK' BY <1>0, <2>1, <2>2, <2>3 DEF TypeOK, rlocals, history
  <2> QED BY <2>2, <2>3, <2>4 DEF MagicFirst
<1> QED BY <1>3, <1>4, <1>5, <1>6 DEF WriterStep

\* An open gives a segment that exists from then on.
LEMMA OpenType ==
  ASSUME TypeOK, NEW f \in Files, Opens(f)
  PROVE  files' \in 0 .. MaxFiles /\ files' >= files /\ name' \in 0 .. files'
         /\ f \in 1 .. files'
<1>1. files \in 0 .. MaxFiles /\ name \in 0 .. files /\ f \in Nat /\ f >= 1
  BY DEF TypeOK, Files
<1>2. CASE name # 0 /\ f = name /\ UNCHANGED <<name, files>> BY <1>1, <1>2
<1>3. CASE name = 0 /\ files < MaxFiles /\ f = files + 1 /\ name' = f /\ files' = f
  BY <1>1, <1>3
<1> QED BY <1>2, <1>3 DEF Opens

\* A process goes.
LEMMA GoneType ==
  ASSUME TypeOK, NEW p \in Pids, Gone(p), UNCHANGED <<now, files>>
  PROVE  /\ wpc' \in [Pids -> {"out", "magic", "pid", "clock", "beat", "ready", "tick"}]
         /\ wmap' \in [Pids -> 0 .. files] /\ wclock' \in [Pids -> 0 .. now]
         /\ lastSeen' \in [Files -> 0 .. now] /\ steady' \in Pids \cup {0}
         /\ wpc'[p] = "out" /\ wmap'[p] = 0
         /\ \A q \in Pids \ {p} : wpc'[q] = wpc[q] /\ wmap'[q] = wmap[q]
<1>1. now \in Nat /\ files \in Nat BY DEF TypeOK
<1>2. lastSeen' \in [Files -> 0 .. now] BY <1>1 DEF TypeOK, Gone
<1> QED BY <1>1, <1>2 DEF TypeOK, Gone

\* Every step preserves the types and the order of the constructor's stores.
LEMMA StepType ==
  ASSUME TypeOK, MagicFirst, [Next]_vars
  PROVE  TypeOK' /\ MagicFirst'
<1> USE DEF wvars, rlocals, history, machine
<1>0. now \in Nat /\ files \in Nat /\ MaxTime \in Nat BY DEF TypeOK
<1>1. CASE UNCHANGED vars BY <1>1 DEF vars, TypeOK, MagicFirst
<1>2. CASE Tick
  <2>1. now' = now + 1 /\ now' \in Boot .. MaxTime BY <1>2 DEF Tick, TypeOK
  <2>2. 0 .. now \subseteq 0 .. now' BY <1>0, <2>1
  <2>3. hdr \in [Files -> [magic : BOOLEAN, pid : Pids \cup {0}, heartbeat : 0 .. now']]
    BY <2>2 DEF TypeOK
  <2>4. wclock \in [Pids -> 0 .. now'] /\ lastSeen \in [Files -> 0 .. now']
    BY <2>2 DEF TypeOK
  <2>5. TypeOK' BY <1>2, <2>1, <2>2, <2>3, <2>4 DEF Tick, TypeOK
  <2> QED BY <1>2, <2>5 DEF Tick, MagicFirst
<1>3. CASE ShmRemove BY <1>0, <1>3 DEF ShmRemove, TypeOK, MagicFirst
<1>4. CASE Attach
  <2>1. PICK f \in Files : Opens(f) /\ rmap' = f BY <1>4 DEF Attach
  <2>2. files' \in 0 .. MaxFiles /\ files' >= files /\ name' \in 0 .. files'
        /\ f \in 1 .. files'
    BY <2>1, OpenType
  <2>3. wmap \in [Pids -> 0 .. files'] BY <1>0, <2>2 DEF TypeOK
  <2>4. TypeOK' BY <1>4, <2>1, <2>2, <2>3 DEF Attach, TypeOK
  <2> QED BY <1>4, <2>4 DEF Attach, MagicFirst
<1>5. CASE IsWriterAlive
  <2>1. steady' \in Pids \cup {0}
    <3>1. CASE \E p \in Pids : Owners(rmap) = {p} /\ Constructed(p)
      <4>1. \E p \in Pids : wmap[p] = rmap BY <3>1 DEF Owners
      <4> QED BY <1>5, <3>1, <4>1 DEF IsWriterAlive
    <3> QED BY <1>5, <3>1 DEF IsWriterAlive
  <2>2. stale' \in {0, MaxStale} BY <1>5 DEF IsWriterAlive
  <2>3. TypeOK' BY <1>5, <2>1, <2>2 DEF IsWriterAlive, TypeOK
  <2> QED BY <1>5, <2>3 DEF IsWriterAlive, MagicFirst
<1>6. CASE Used
  <2>1. rnow' \in 0 .. now /\ rbeat' \in 0 .. now BY <1>0, <1>6 DEF Used
  <2>2. TypeOK' BY <1>6, <2>1 DEF Used, TypeOK
  <2> QED BY <1>6, <2>2 DEF Used, MagicFirst
<1>7. CASE ReaderStep
  <2>1. CASE ReadMagic BY <2>1 DEF ReadMagic, Verdict, TypeOK, MagicFirst
  <2>2. CASE ReadPid
    <3>1. rpid' \in Pids \cup {0} BY <2>2 DEF ReadPid, TypeOK, Files
    <3> QED BY <2>2, <3>1 DEF ReadPid, TypeOK, MagicFirst
  <2>3. CASE Kill BY <2>3 DEF Kill, Verdict, TypeOK, MagicFirst
  <2>4. CASE ReadClock BY <1>0, <2>4 DEF ReadClock, TypeOK, MagicFirst
  <2>5. CASE ReadBeat
    <3>1. rbeat' \in 0 .. now BY <2>5 DEF ReadBeat, TypeOK, Files
    <3>2. verdict' \in BOOLEAN BY <2>5 DEF ReadBeat, Verdict
    <3> QED BY <2>5, <3>1, <3>2 DEF ReadBeat, Verdict, TypeOK, MagicFirst
  <2> QED BY <1>7, <2>1, <2>2, <2>3, <2>4, <2>5 DEF ReaderStep
<1>8. ASSUME NEW p \in Pids, Spawn(p) PROVE TypeOK' /\ MagicFirst'
  BY <1>8 DEF Spawn, TypeOK, MagicFirst
<1>9. ASSUME NEW p \in Pids, Exit(p) \/ Destruct(p) PROVE TypeOK' /\ MagicFirst'
  <2>1. Gone(p) /\ UNCHANGED <<now, spawns, files, hdr, rlocals, disputed>>
        /\ name' \in {name, 0}
    BY <1>9 DEF Exit, Destruct
  <2>2. /\ wpc' \in [Pids -> {"out", "magic", "pid", "clock", "beat", "ready", "tick"}]
        /\ wmap' \in [Pids -> 0 .. files] /\ wclock' \in [Pids -> 0 .. now]
        /\ lastSeen' \in [Files -> 0 .. now] /\ steady' \in Pids \cup {0}
        /\ wpc'[p] = "out" /\ wmap'[p] = 0
        /\ \A q \in Pids \ {p} : wpc'[q] = wpc[q] /\ wmap'[q] = wmap[q]
    BY <2>1, GoneType
  <2>3. proc' \in [Pids -> {"none", "writer", "other"}]
        /\ \A q \in Pids \ {p} : proc'[q] = proc[q]
    BY <1>9 DEF Exit, Destruct, TypeOK
  <2>4. TypeOK' BY <1>0, <2>1, <2>2, <2>3 DEF TypeOK
  <2> QED BY <2>1, <2>2, <2>4 DEF MagicFirst
<1>10. ASSUME NEW p \in Pids, Construct(p) PROVE TypeOK' /\ MagicFirst'
  <2>1. PICK f \in Files :
          /\ Opens(f) /\ wmap' = [wmap EXCEPT ![p] = f]
          /\ steady' = IF f = rmap THEN 0 ELSE steady
          /\ disputed' = IF Owners(f) = {} THEN disputed \ {f} ELSE disputed \cup {f}
          /\ lastSeen' = [lastSeen EXCEPT ![f] = 0]
    BY <1>10 DEF Construct
  <2>2. files' \in 0 .. MaxFiles /\ files' >= files /\ name' \in 0 .. files'
        /\ f \in 1 .. files'
    BY <2>1, OpenType
  <2>3. wmap' \in [Pids -> 0 .. files'] BY <1>0, <2>1, <2>2 DEF TypeOK
  <2>4. lastSeen' \in [Files -> 0 .. now] BY <1>0, <2>1 DEF TypeOK
  <2>5. rmap \in 0 .. files' BY <1>0, <2>2 DEF TypeOK
  <2>6. TypeOK'
    BY <1>10, <2>1, <2>2, <2>3, <2>4, <2>5 DEF Construct, At, TypeOK
  <2> QED BY <1>10, <2>1, <2>6 DEF Construct, At, MagicFirst, TypeOK
<1> QED
  BY <1>1, <1>2, <1>3, <1>4, <1>5, <1>6, <1>7, <1>8, <1>9, <1>10, WriterStepType
  DEF Next

-----------------------------------------------------------------------------
(* Owners.                                                                  *)

\* The only owner of f is p, and nobody owns f, said of the mappings.
LEMMA OwnersOf ==
  ASSUME NEW f, NEW p \in Pids
  PROVE  /\ Owners(f) = {p} <=> wmap[p] = f /\ \A q \in Pids : wmap[q] = f => q = p
         /\ Owners(f) = {} <=> \A q \in Pids : wmap[q] # f
BY DEF Owners

\* What a step does to the mappings and the history.
Quiet ==
  /\ UNCHANGED <<wmap, disputed, lastSeen>>
  /\ \A p \in Pids : wpc'[p] = wpc[p] /\ wclock'[p] = wclock[p]

\* A step of nobody who owns a segment.
LEMMA QuietOwners ==
  ASSUME TypeOK, SoleOwner, Abandoned, Quiet, UNCHANGED hdr
  PROVE  SoleOwner' /\ Abandoned'
BY DEF SoleOwner, Abandoned, Quiet

\* A process goes: nobody else is concerned, except that the segment it leaves
\* alone now has its last owner's time.
LEMMA GoneOwners ==
  ASSUME TypeOK, SoleOwner, Abandoned, NEW p \in Pids, Gone(p), UNCHANGED <<hdr, disputed>>
  PROVE  SoleOwner' /\ Abandoned'
<1>1. /\ wpc'[p] = "out" /\ wmap'[p] = 0
      /\ \A q \in Pids \ {p} : wpc'[q] = wpc[q] /\ wmap'[q] = wmap[q] /\ wclock'[q] = wclock[q]
  BY DEF Gone, TypeOK
<1>2. SoleOwner'
  <2> SUFFICES ASSUME NEW q \in Pids, wmap'[q] # 0, wmap'[q] \notin disputed
               PROVE  /\ \A r \in Pids : wmap'[r] = wmap'[q] => r = q
                      /\ wpc'[q] \in {"clock", "beat", "ready", "tick"} => hdr[wmap'[q]].pid = q
                      /\ wpc'[q] \in {"beat", "tick"} => hdr[wmap'[q]].heartbeat <= wclock'[q]
    BY DEF SoleOwner
  <2>1. q # p /\ wmap'[q] = wmap[q] /\ wpc'[q] = wpc[q] /\ wclock'[q] = wclock[q]
    BY <1>1
  <2>2. \A r \in Pids : wmap[r] = wmap[q] => r = q BY <2>1 DEF SoleOwner
  <2>3. \A r \in Pids : wmap'[r] = wmap'[q] => r = q BY <1>1, <2>1, <2>2
  <2> QED BY <2>1, <2>3 DEF SoleOwner
<1>3. ASSUME NEW f \in Files, \A q \in Pids : wmap'[q] # f
      PROVE  hdr'[f].heartbeat <= lastSeen'[f]
  <2>1. hdr[f].heartbeat \in 0 .. now BY DEF TypeOK
  <2>2. CASE wmap[p] = f
    <3>1. \A q \in Pids : wmap[q] = f => q = p BY <1>1, <1>3
    <3>2. Owners(f) = {p} BY <2>2, <3>1, OwnersOf
    <3>3. lastSeen'[f] = now BY <3>2 DEF Gone
    <3> QED BY <2>1, <3>3
  <2>3. CASE wmap[p] # f
    <3>1. \A q \in Pids : wmap[q] # f BY <1>1, <1>3, <2>3
    <3>2. Owners(f) # {p} BY <2>3, OwnersOf
    <3>3. lastSeen'[f] = lastSeen[f] BY <3>2 DEF Gone
    <3> QED BY <3>1, <3>3 DEF Abandoned
  <2> QED BY <2>2, <2>3
<1> QED BY <1>2, <1>3 DEF Abandoned

\* The constructor opens f: it is disputed from then on exactly if it has another
\* owner.
LEMMA ConstructOwners ==
  ASSUME TypeOK, SoleOwner, Abandoned, NEW p \in Pids, Construct(p)
  PROVE  SoleOwner' /\ Abandoned'
<1>1. PICK f \in Files :
        /\ Opens(f) /\ wmap' = [wmap EXCEPT ![p] = f]
        /\ disputed' = IF Owners(f) = {} THEN disputed \ {f} ELSE disputed \cup {f}
        /\ lastSeen' = [lastSeen EXCEPT ![f] = 0]
  BY DEF Construct
<1>2. /\ wpc[p] = "out" /\ wpc'[p] = "magic" /\ wmap[p] = 0 /\ wmap'[p] = f
      /\ \A q \in Pids \ {p} : wpc'[q] = wpc[q] /\ wmap'[q] = wmap[q] /\ wclock'[q] = wclock[q]
      /\ hdr' = hdr /\ f # 0
  BY <1>1 DEF Construct, At, TypeOK, Files
<1>3. SoleOwner'
  <2> SUFFICES ASSUME NEW q \in Pids, wmap'[q] # 0, wmap'[q] \notin disputed'
               PROVE  /\ \A r \in Pids : wmap'[r] = wmap'[q] => r = q
                      /\ wpc'[q] \in {"clock", "beat", "ready", "tick"} => hdr'[wmap'[q]].pid = q
                      /\ wpc'[q] \in {"beat", "tick"} => hdr'[wmap'[q]].heartbeat <= wclock'[q]
    BY DEF SoleOwner
  <2>1. CASE wmap'[q] = f
    <3>1. Owners(f) = {} BY <1>1, <2>1
    <3>2. \A r \in Pids : wmap[r] # f BY <3>1 DEF Owners
    <3>3. q = p BY <1>2, <2>1, <3>2
    <3> QED BY <1>2, <3>2, <3>3
  <2>2. CASE wmap'[q] # f
    <3>1. q # p /\ wmap[q] # f /\ wmap'[q] = wmap[q] BY <1>2, <2>2
    <3>2. wmap[q] \notin disputed BY <1>1, <3>1
    <3> QED BY <1>2, <3>1, <3>2 DEF SoleOwner
  <2> QED BY <2>1, <2>2
<1>4. ASSUME NEW g \in Files, \A q \in Pids : wmap'[q] # g
      PROVE  hdr'[g].heartbeat <= lastSeen'[g]
  <2>1. g # f /\ \A q \in Pids : wmap[q] # g BY <1>2, <1>4 DEF Files
  <2>2. lastSeen'[g] = lastSeen[g] BY <1>1, <2>1 DEF TypeOK
  <2> QED BY <1>2, <2>1, <2>2 DEF Abandoned
<1> QED BY <1>3, <1>4 DEF Abandoned

\* An owner stores into its header; the others that have the segment mapped are
\* there only if it is disputed.
LEMMA WriterOwners ==
  ASSUME TypeOK, MagicFirst, SoleOwner, Abandoned, NEW p \in Pids, WriterStep(p)
  PROVE  SoleOwner' /\ Abandoned'
<1> USE DEF At
<1>0. wmap[p] \in Files /\ hdr[wmap[p]] \in Header /\ wpc[p] # "out" /\ wmap[p] # 0
  BY Mapped DEF WriterStep, SetMagic, SetPid, BeatClock, BeatStore, Files
<1>1. /\ UNCHANGED <<wmap, disputed, lastSeen>>
      /\ \A q \in Pids \ {p} : wpc'[q] = wpc[q] /\ wclock'[q] = wclock[q]
      /\ \A f \in Files \ {wmap[p]} : hdr'[f] = hdr[f]
  BY DEF WriterStep, SetMagic, SetPid, BeatClock, BeatStore, Store, history, TypeOK
<1>2. Abandoned' BY <1>0, <1>1 DEF Abandoned
<1>3. ASSUME wmap[p] \notin disputed
      PROVE  /\ wpc'[p] \in {"clock", "beat", "ready", "tick"} => hdr'[wmap[p]].pid = p
             /\ wpc'[p] \in {"beat", "tick"} => hdr'[wmap[p]].heartbeat <= wclock'[p]
  <2>1. wpc[p] \in {"clock", "beat", "ready", "tick"} => hdr[wmap[p]].pid = p
    BY <1>0, <1>3 DEF SoleOwner
  <2>2. /\ hdr \in [Files -> Header]
        /\ wpc \in [Pids -> {"out", "magic", "pid", "clock", "beat", "ready", "tick"}]
        /\ wclock \in [Pids -> 0 .. now] /\ now \in Nat
    BY DEF TypeOK, Header
  <2>3. CASE SetMagic(p) BY <1>0, <2>2, <2>3 DEF SetMagic
  <2>4. CASE SetPid(p)
    <3>1. hdr'[wmap[p]] = [hdr[wmap[p]] EXCEPT !.pid = p]
      BY <1>0, <2>2, <2>4 DEF SetPid, Store
    <3> QED BY <1>0, <2>2, <2>4, <3>1 DEF SetPid, Header
  <2>5. CASE BeatStore(p)
    <3>1. hdr'[wmap[p]] = [hdr[wmap[p]] EXCEPT !.heartbeat = wclock[p]]
      BY <1>0, <2>2, <2>5 DEF BeatStore, Store
    <3>2. wpc[p] \in {"beat", "tick"} /\ wpc'[p] = "ready"
      BY <2>2, <2>5 DEF BeatStore
    <3> QED BY <1>0, <2>1, <3>1, <3>2 DEF Header
  <2>6. CASE BeatClock(p)
    <3>1. hdr' = hdr /\ wclock'[p] = now /\ wpc[p] \in {"clock", "ready"}
      BY <2>2, <2>6 DEF BeatClock
    <3>2. hdr[wmap[p]].heartbeat \in 0 .. now BY <1>0 DEF Header
    <3> QED BY <2>1, <2>2, <3>1, <3>2
  <2> QED BY <2>3, <2>4, <2>5, <2>6 DEF WriterStep
<1>4. SoleOwner'
  <2> SUFFICES ASSUME NEW q \in Pids, wmap[q] # 0, wmap[q] \notin disputed
               PROVE  /\ \A r \in Pids : wmap[r] = wmap[q] => r = q
                      /\ wpc'[q] \in {"clock", "beat", "ready", "tick"} => hdr'[wmap[q]].pid = q
                      /\ wpc'[q] \in {"beat", "tick"} => hdr'[wmap[q]].heartbeat <= wclock'[q]
    BY <1>1 DEF SoleOwner
  <2>1. \A r \in Pids : wmap[r] = wmap[q] => r = q BY DEF SoleOwner
  <2>2. CASE q = p BY <1>3, <2>1, <2>2
  <2>3. CASE q # p
    <3>0. wpc[q] # "out" BY DEF TypeOK
    <3>1. wmap[q] \in Files \ {wmap[p]} BY <2>1, <2>3, <3>0, Mapped
    <3> QED BY <1>1, <2>1, <2>3, <3>1 DEF SoleOwner
  <2> QED BY <2>2, <2>3
<1> QED BY <1>2, <1>4

\* Every step preserves what is known of segments with one owner and with none.
LEMMA StepOwners ==
  ASSUME TypeOK, MagicFirst, SoleOwner, Abandoned, [Next]_vars
  PROVE  SoleOwner' /\ Abandoned'
<1> USE DEF wvars, rlocals, history, machine
<1>1. ASSUME \/ UNCHANGED vars \/ Tick \/ ShmRemove \/ Attach \/ IsWriterAlive \/ Used
             \/ ReaderStep \/ \E p \in Pids : Spawn(p)
      PROVE  Quiet /\ UNCHANGED hdr
  BY <1>1 DEF vars, Tick, ShmRemove, Attach, IsWriterAlive, Used, ReaderStep, ReadMagic,
              ReadPid, Kill, ReadClock, ReadBeat, Spawn, Quiet
<1>2. ASSUME NEW p \in Pids, Exit(p) \/ Destruct(p) PROVE SoleOwner' /\ Abandoned'
  BY <1>2, GoneOwners DEF Exit, Destruct
<1> QED
  BY <1>1, <1>2, QuietOwners, ConstructOwners, WriterOwners DEF Next

-----------------------------------------------------------------------------
(* The verdict.                                                             *)

\* The unsigned difference is exact unless the heartbeat is later than the clock
\* the reader has looked at.
LEMMA AgeExact ==
  ASSUME NEW t \in 0 .. MaxTime, NEW b \in 0 .. t
  PROVE  Age(t, b) = t - b
<1>1. t - b \in 0 .. MaxTime /\ MaxTime < TimeMod /\ MaxTime \in Nat /\ TimeMod \in Nat
  OBVIOUS
<1> QED BY <1>1 DEF Age

\* Steps of the reader that leave what CallInv says of the owner alone.
LEMMA ReaderFrame ==
  ASSUME CallInv, UNCHANGED <<wpc, wmap, disputed, rmap, steady>>, rpc' # "idle",
         rpc' \in {"clock", "beat"} => stale' > 0,
         rpc' # "kill"
  PROVE  CallInv'
BY DEF CallInv, Constructed

\* Every step of a call keeps CallInv, and its verdict is right.
LEMMA ReaderCall ==
  ASSUME LifecycleInv, ReaderStep
  PROVE  CallInv' /\ DeathIsNoticed' /\ LifeIsNoticed'
<1> USE DEF LifecycleInv, machine, wvars
<1>0. /\ rmap \in Files /\ hdr[rmap] \in Header /\ rnow \in 0 .. now /\ now \in 0 .. MaxTime
      /\ stale \in {0, MaxStale} /\ lastSeen[rmap] \in Nat /\ lastSeen[rmap] <= now
  <2>1. rpc # "idle" BY DEF ReaderStep, ReadMagic, ReadPid, Kill, ReadClock, ReadBeat
  <2>2. rmap \in Files BY <2>1 DEF TypeOK, Files
  <2>3. now \in 0 .. MaxTime BY DEF TypeOK
  <2> QED BY <2>2, <2>3 DEF TypeOK, Header
<1>1. CASE ReadMagic
  <2>1. steady # 0 => hdr[rmap].magic
    BY <1>1 DEF CallInv, Constructed, MagicFirst, TypeOK
  <2>2. CASE hdr[rmap].magic
    <3>1. CallInv' BY <1>1, <2>2, ReaderFrame DEF ReadMagic
    <3> QED BY <1>1, <2>2, <3>1 DEF ReadMagic, DeathIsNoticed, LifeIsNoticed
  <2>3. CASE ~hdr[rmap].magic
    <3>1. CallInv' BY <1>1, <2>3, ReaderFrame DEF ReadMagic, Verdict
    <3> QED BY <1>1, <2>1, <2>3, <3>1 DEF ReadMagic, Verdict, DeathIsNoticed, LifeIsNoticed
  <2> QED BY <2>2, <2>3
<1>2. CASE ReadPid
  <2>1. steady # 0 /\ rmap \notin disputed => hdr[rmap].pid = steady
    <3> SUFFICES ASSUME steady # 0, rmap \notin disputed PROVE hdr[rmap].pid = steady
      OBVIOUS
    <3>1. steady \in Pids /\ wmap[steady] = rmap /\ wpc[steady] \in {"ready", "tick"}
      BY DEF CallInv, Constructed, TypeOK
    <3> QED BY <1>0, <3>1 DEF SoleOwner, Files
  <2>2. CallInv' BY <1>2, <2>1 DEF ReadPid, CallInv, Constructed
  <2> QED BY <1>2, <2>2 DEF ReadPid, DeathIsNoticed, LifeIsNoticed
<1>3. CASE Kill
  <2>1. CallInv' BY <1>0, <1>3, ReaderFrame DEF Kill, Verdict
  <2>2. DeathIsNoticed' BY <1>3 DEF Kill, Verdict, DeathIsNoticed
  <2>3. LifeIsNoticed'
    <3> SUFFICES ASSUME rpc' = "done", ~verdict', steady # 0, rmap \notin disputed
                 PROVE  steady \in Foreign
      BY <1>3 DEF Kill, LifeIsNoticed
    <3>1. rpid = steady /\ ~Signals(rpid)
      BY <1>3 DEF Kill, Verdict, CallInv
    <3>2. steady \in Pids /\ proc[steady] = "writer"
      BY DEF CallInv, Constructed, TypeOK
    <3> QED BY <3>1, <3>2 DEF Signals
  <2> QED BY <2>1, <2>2, <2>3
<1>4. CASE ReadClock
  <2>1. CallInv' BY <1>4, ReaderFrame DEF ReadClock, CallInv
  <2> QED BY <1>4, <2>1 DEF ReadClock, DeathIsNoticed, LifeIsNoticed
<1>5. CASE ReadBeat
  <2>1. CallInv' BY <1>5, ReaderFrame DEF ReadBeat, Verdict
  <2>2. /\ rbeat' = hdr[rmap].heartbeat /\ rbeat' \in 0 .. now
        /\ verdict' = (Age(rnow, rbeat') <= stale) /\ stale = MaxStale
        /\ UNCHANGED <<rmap, rnow, stale, wmap, lastSeen, steady, disputed>>
    BY <1>0, <1>5 DEF ReadBeat, Verdict, CallInv, Header
  <2>3. rbeat' <= rnow => Age(rnow, rbeat') = rnow - rbeat'
    BY <1>0, <2>2, AgeExact
  <2>4. DeathIsNoticed'
    <3> SUFFICES ASSUME verdict', \A q \in Pids : wmap[q] # rmap
                 PROVE  lastSeen[rmap] + MaxStale >= rnow
      BY <2>2 DEF DeathIsNoticed, Owners
    <3>1. rbeat' <= lastSeen[rmap] BY <1>0, <2>2 DEF Abandoned
    <3>2. CASE rbeat' <= rnow
      <4>1. rnow - rbeat' <= MaxStale BY <2>2, <2>3, <3>2
      <4> QED BY <1>0, <2>2, <3>1, <4>1
    <3>3. CASE rbeat' > rnow BY <1>0, <2>2, <3>1, <3>3
    <3> QED BY <1>0, <2>2, <3>2, <3>3
  <2>5. LifeIsNoticed'
    <3> SUFFICES ASSUME ~verdict'
                 PROVE  stale > 0 /\ (rnow - rbeat' > stale \/ rbeat' > rnow)
      BY <2>2 DEF LifeIsNoticed
    <3>0. ~(Age(rnow, rbeat') <= stale) BY <2>2, Zenon
    <3>1. CASE rbeat' <= rnow BY <1>0, <2>2, <2>3, <3>0, <3>1
    <3> QED BY <1>0, <2>2, <3>1
  <2> QED BY <2>1, <2>4, <2>5
<1> QED BY <1>1, <1>2, <1>3, <1>4, <1>5 DEF ReaderStep

\* What the others do while the reader is inside a call or has its verdict.
LEMMA OthersCall ==
  ASSUME LifecycleInv, NEW p \in Pids,
         WriterStep(p) \/ Spawn(p) \/ Exit(p) \/ Construct(p) \/ Destruct(p)
  PROVE  CallInv' /\ DeathIsNoticed' /\ LifeIsNoticed'
<1> USE DEF LifecycleInv
<1>0. rmap \in 0 .. MaxFiles /\ lastSeen \in [Files -> 0 .. now] /\ rnow \in 0 .. now
      /\ now \in Nat /\ (rpc # "idle" => rmap \in Files)
  BY DEF TypeOK, Files
<1>1. ASSUME WriterStep(p) PROVE CallInv' /\ DeathIsNoticed' /\ LifeIsNoticed'
  <2>1. /\ UNCHANGED <<wmap, rlocals, history>>
        /\ \A q \in Pids \ {p} : wpc'[q] = wpc[q]
        /\ (Constructed(p) => wpc'[p] \in {"ready", "tick"})
    BY <1>1 DEF WriterStep, SetMagic, SetPid, BeatClock, BeatStore, Store, At, Constructed, TypeOK
  <2>2. CallInv'
    <3>1. UNCHANGED <<wmap, rpc, rmap, stale, rpid, disputed, steady>>
      BY <2>1 DEF rlocals, history
    <3>2. steady # 0 => wpc'[steady] \in {"ready", "tick"}
      <4> SUFFICES ASSUME steady # 0 PROVE wpc'[steady] \in {"ready", "tick"}
        OBVIOUS
      <4>1. steady \in Pids BY DEF TypeOK
      <4>2. wpc[steady] \in {"ready", "tick"} BY DEF CallInv, Constructed
      <4> QED BY <2>1, <4>1, <4>2 DEF Constructed
    <3> QED BY <3>1, <3>2 DEF CallInv, Constructed
  <2> QED BY <2>1, <2>2 DEF rlocals, history, DeathIsNoticed, LifeIsNoticed, Owners
<1>2. ASSUME Spawn(p) PROVE CallInv' /\ DeathIsNoticed' /\ LifeIsNoticed'
  BY <1>2 DEF Spawn, wvars, rlocals, history, CallInv, Constructed, DeathIsNoticed,
              LifeIsNoticed, Owners
<1>3. ASSUME Exit(p) \/ Destruct(p) PROVE CallInv' /\ DeathIsNoticed' /\ LifeIsNoticed'
  <2>1. Gone(p) /\ UNCHANGED <<rlocals, disputed>> BY <1>3 DEF Exit, Destruct
  <2>2. /\ wmap'[p] = 0
        /\ \A q \in Pids \ {p} : wpc'[q] = wpc[q] /\ wmap'[q] = wmap[q]
        /\ steady' = IF steady = p THEN 0 ELSE steady
    BY <2>1 DEF Gone, TypeOK
  <2>3. CallInv'
    <3>1. ASSUME steady' # 0
          PROVE  /\ rpc # "idle" /\ wmap'[steady] = rmap
                 /\ \A q \in Pids : wmap'[q] = rmap => q = steady
                 /\ wpc'[steady] \in {"ready", "tick"}
                 /\ (rpc = "kill" /\ rmap \notin disputed => rpid = steady)
      <4>1. steady # 0 /\ steady # p /\ steady \in Pids BY <2>2, <3>1 DEF TypeOK
      <4>2. rpc # "idle" /\ rmap # 0 BY <4>1, <1>0 DEF CallInv, Files
      <4> QED BY <2>2, <4>1, <4>2 DEF CallInv, Constructed
    <3>2. steady' # 0 => steady' = steady BY <2>2
    <3> QED BY <2>1, <3>1, <3>2 DEF rlocals, CallInv, Constructed
  <2>4. DeathIsNoticed'
    <3> SUFFICES ASSUME rpc = "done", verdict, stale > 0, \A q \in Pids : wmap'[q] # rmap
                 PROVE  lastSeen'[rmap] + MaxStale >= rnow
      BY <2>1 DEF rlocals, DeathIsNoticed, Owners
    <3>1. CASE wmap[p] = rmap
      <4>1. \A q \in Pids : wmap[q] = rmap => q = p BY <2>2
      <4>2. Owners(rmap) = {p} BY <3>1, <4>1, OwnersOf
      <4>3. lastSeen'[rmap] = now BY <1>0, <2>1, <4>2 DEF Gone
      <4> QED BY <1>0, <4>3
    <3>2. CASE wmap[p] # rmap
      <4>1. \A q \in Pids : wmap[q] # rmap BY <2>2, <3>2
      <4>2. Owners(rmap) = {} /\ Owners(rmap) # {p} BY <4>1, OwnersOf
      <4>3. lastSeen'[rmap] = lastSeen[rmap] BY <1>0, <2>1, <4>2 DEF Gone
      <4> QED BY <4>2, <4>3 DEF DeathIsNoticed
    <3> QED BY <3>1, <3>2
  <2>5. LifeIsNoticed' BY <2>1, <2>2 DEF rlocals, LifeIsNoticed
  <2> QED BY <2>3, <2>4, <2>5
<1>4. ASSUME Construct(p) PROVE CallInv' /\ DeathIsNoticed' /\ LifeIsNoticed'
  <2>1. PICK f \in Files :
          /\ wmap' = [wmap EXCEPT ![p] = f]
          /\ steady' = IF f = rmap THEN 0 ELSE steady
          /\ disputed' = IF Owners(f) = {} THEN disputed \ {f} ELSE disputed \cup {f}
          /\ lastSeen' = [lastSeen EXCEPT ![f] = 0]
    BY <1>4 DEF Construct
  <2>2. /\ UNCHANGED rlocals /\ wpc[p] = "out" /\ wmap'[p] = f
        /\ \A q \in Pids \ {p} : wpc'[q] = wpc[q] /\ wmap'[q] = wmap[q]
    BY <1>4, <2>1 DEF Construct, At, TypeOK
  <2>3. f # rmap => (rmap \in disputed' <=> rmap \in disputed) BY <2>1
  <2>4. CallInv'
    <3>1. ASSUME steady' # 0
          PROVE  /\ rpc # "idle" /\ wmap'[steady] = rmap
                 /\ \A q \in Pids : wmap'[q] = rmap => q = steady
                 /\ wpc'[steady] \in {"ready", "tick"}
                 /\ (rpc = "kill" /\ rmap \notin disputed' => rpid = steady)
      <4>1. f # rmap /\ steady # 0 /\ steady \in Pids BY <2>1, <3>1 DEF TypeOK
      <4>2. steady # p BY <2>2, <4>1 DEF CallInv, Constructed
      <4> QED BY <2>2, <2>3, <4>1, <4>2 DEF CallInv, Constructed
    <3>2. steady' # 0 => steady' = steady BY <2>1
    <3> QED BY <2>2, <3>1, <3>2 DEF rlocals, CallInv, Constructed
  <2>5. DeathIsNoticed'
    <3> SUFFICES ASSUME rpc = "done", verdict, stale > 0, \A q \in Pids : wmap'[q] # rmap
                 PROVE  lastSeen'[rmap] + MaxStale >= rnow
      BY <2>2 DEF rlocals, DeathIsNoticed, Owners
    <3>1. f # rmap BY <2>2
    <3>2. \A q \in Pids : wmap[q] # rmap
      BY <1>0, <2>2 DEF TypeOK, Files
    <3>3. lastSeen'[rmap] = lastSeen[rmap] BY <1>0, <2>1, <3>1
    <3> QED BY <3>2, <3>3 DEF DeathIsNoticed, Owners
  <2>6. LifeIsNoticed' BY <2>1, <2>2, <2>3 DEF rlocals, LifeIsNoticed
  <2> QED BY <2>4, <2>5, <2>6
<1> QED BY <1>1, <1>2, <1>3, <1>4

\* The remaining steps: time passes, the name goes, the reader attaches, begins a
\* call and uses its result.
LEMMA StepCall ==
  ASSUME LifecycleInv, [Next]_vars
  PROVE  CallInv' /\ DeathIsNoticed' /\ LifeIsNoticed'
<1> USE DEF LifecycleInv
<1>1. CASE UNCHANGED vars \/ Tick \/ ShmRemove
  BY <1>1 DEF vars, Tick, ShmRemove, wvars, rlocals, history, CallInv, Constructed,
              DeathIsNoticed, LifeIsNoticed, Owners
<1>2. CASE Attach
  BY <1>2 DEF Attach, machine, wvars, CallInv, Constructed, DeathIsNoticed, LifeIsNoticed
<1>3. CASE Used
  BY <1>3 DEF Used, machine, wvars, CallInv, DeathIsNoticed, LifeIsNoticed
<1>4. CASE IsWriterAlive
  <2>1. /\ rpc' = "magic" /\ UNCHANGED <<wpc, wmap, disputed, rmap>>
        /\ steady' = IF \E p \in Pids : Owners(rmap) = {p} /\ Constructed(p)
                     THEN CHOOSE p \in Pids : wmap[p] = rmap ELSE 0
    BY <1>4 DEF IsWriterAlive, machine, wvars
  <2>2. CallInv'
    <3>1. CASE \E p \in Pids : Owners(rmap) = {p} /\ Constructed(p)
      <4>1. PICK p \in Pids : Owners(rmap) = {p} /\ Constructed(p) BY <3>1
      <4>2. wmap[p] = rmap /\ \A q \in Pids : wmap[q] = rmap => q = p
        BY <4>1, OwnersOf
      <4>3. steady' = p BY <2>1, <3>1, <4>2
      <4> QED BY <2>1, <4>1, <4>2, <4>3 DEF CallInv, Constructed
    <3>2. CASE ~\E p \in Pids : Owners(rmap) = {p} /\ Constructed(p)
      BY <2>1, <3>2 DEF CallInv
    <3> QED BY <3>1, <3>2
  <2> QED BY <2>1, <2>2 DEF DeathIsNoticed, LifeIsNoticed
<1> QED BY <1>1, <1>2, <1>3, <1>4, ReaderCall, OthersCall DEF Next

-----------------------------------------------------------------------------
\* LifecycleInv always holds.
THEOREM Invariance == Spec => []LifecycleInv
<1>1. Init => LifecycleInv
  <2> SUFFICES ASSUME Init PROVE LifecycleInv
    OBVIOUS
  <2>0. now \in Boot .. MaxTime /\ now \in Nat BY DEF Init
  <2>1. TypeOK
    <3>1. hdr \in [Files -> [magic : BOOLEAN, pid : Pids \cup {0}, heartbeat : 0 .. now]]
      BY <2>0 DEF Init
    <3>2. wmap \in [Pids -> 0 .. files] /\ wclock \in [Pids -> 0 .. now]
          /\ lastSeen \in [Files -> 0 .. now]
      BY <2>0 DEF Init
    <3>3. files \in 0 .. MaxFiles /\ name \in 0 .. files /\ rmap \in 0 .. files
          /\ spawns \in 0 .. MaxSpawns /\ rnow \in 0 .. now /\ rbeat \in 0 .. now
      BY <2>0 DEF Init
    <3>4. \A f \in Files : hdr[f].pid # 0 \/ hdr[f].heartbeat > 0 => hdr[f].magic
      BY DEF Init
    <3>5. /\ \A p \in Pids : wmap[p] = 0 /\ wpc[p] = "out"
          /\ proc \in [Pids -> {"none", "writer", "other"}]
          /\ wpc \in [Pids -> {"out", "magic", "pid", "clock", "beat", "ready", "tick"}]
      BY DEF Init
    <3>6. /\ rpc = "idle" /\ stale = 0 /\ rpid = 0 /\ verdict = FALSE
          /\ steady = 0 /\ disputed = {}
      BY DEF Init
    <3> QED BY <2>0, <3>1, <3>2, <3>3, <3>4, <3>5, <3>6 DEF TypeOK
  <2>2. MagicFirst /\ SoleOwner BY DEF Init, MagicFirst, SoleOwner
  <2>3. Abandoned BY DEF Init, Abandoned
  <2>4. CallInv /\ DeathIsNoticed /\ LifeIsNoticed
    BY DEF Init, CallInv, DeathIsNoticed, LifeIsNoticed
  <2> QED BY <2>1, <2>2, <2>3, <2>4 DEF LifecycleInv
<1>2. LifecycleInv /\ [Next]_vars => LifecycleInv'
  BY StepType, StepOwners, StepCall DEF LifecycleInv
<1> QED BY <1>1, <1>2, PTL DEF Spec

\* The type invariant holds of every state: a heartbeat is never in the future,
\* and a header names a pid only under the magic.
THEOREM TypeCorrect == Spec => []TypeOK
<1>1. LifecycleInv => TypeOK BY DEF LifecycleInv
<1> QED BY <1>1, Invariance, PTL

\* With max_stale_ns a segment without an owner is reported alive for no longer
\* than that, however pids are used again and wherever the owner died.
THEOREM Death == Spec => []DeathIsNoticed
<1>1. LifecycleInv => DeathIsNoticed BY DEF LifecycleInv
<1> QED BY <1>1, Invariance, PTL

\* An owner that keeps its segment to itself is reported dead for one of the
\* three reasons only.
THEOREM Life == Spec => []LifeIsNoticed
<1>1. LifecycleInv => LifeIsNoticed BY DEF LifecycleInv
<1> QED BY <1>1, Invariance, PTL

\* The heartbeat of a segment that is not disputed never goes back.
THEOREM Heartbeats == Spec => HeartbeatForward
<1>1. LifecycleInv /\ [Next]_vars =>
        [\A f \in Files : hdr'[f].heartbeat < hdr[f].heartbeat => f \in disputed]_vars
  <2> SUFFICES ASSUME LifecycleInv, Next, NEW f \in Files, f \notin disputed
               PROVE  ~(hdr'[f].heartbeat < hdr[f].heartbeat)
    OBVIOUS
  <2>1. hdr \in [Files -> Header] /\ hdr[f].heartbeat \in Nat /\ wclock \in [Pids -> Nat]
    BY DEF LifecycleInv, TypeOK, Header
  <2>2. CASE UNCHANGED hdr BY <2>1, <2>2
  <2>3. ASSUME NEW p \in Pids, WriterStep(p)
        PROVE  ~(hdr'[f].heartbeat < hdr[f].heartbeat)
    <3>1. CASE BeatStore(p) /\ wmap[p] = f
      <4>1. hdr'[f] = [hdr[f] EXCEPT !.heartbeat = wclock[p]]
        BY <2>1, <3>1 DEF BeatStore, Store
      <4>2. hdr'[f].heartbeat = wclock[p] BY <2>1, <4>1 DEF Header
      <4>3. hdr[f].heartbeat <= wclock[p]
        BY <3>1 DEF BeatStore, At, LifecycleInv, SoleOwner, Files
      <4> QED BY <2>1, <4>2, <4>3
    <3>2. CASE wmap[p] # f
      <4>1. hdr'[f] = hdr[f]
        BY <2>1, <2>3, <3>2 DEF WriterStep, SetMagic, SetPid, BeatClock, BeatStore, Store
      <4> QED BY <2>1, <4>1
    <3>3. CASE ~BeatStore(p)
      <4>1. hdr'[f].heartbeat = hdr[f].heartbeat
        BY <2>1, <2>3, <3>3 DEF WriterStep, SetMagic, SetPid, BeatClock, Store, Header
      <4> QED BY <2>1, <4>1
    <3> QED BY <3>1, <3>2, <3>3
  <2> QED
    BY <2>2, <2>3
    DEF Next, Tick, ShmRemove, Attach, IsWriterAlive, Used, ReaderStep, ReadMagic, ReadPid,
        Kill, ReadClock, ReadBeat, Spawn, Exit, Construct, Destruct, machine
<1> QED BY <1>1, Invariance, PTL DEF Spec, HeartbeatForward
=============================================================================
