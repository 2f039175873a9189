----------------------------- MODULE ShmLifecycle -----------------------------
(***************************************************************************)
(* include/safe-shm/shm_lifecycle.hpp: OwnedShm, whose constructor writes a    *)
(* header with the owner's pid and heartbeat into a named segment, and       *)
(* is_writer_alive(), with which another process looks at that header.       *)
(*                                                                         *)
(* Processes come and go and pids are used again; time passes between any    *)
(* two steps.  The header's fields are plain memory, written and read one by *)
(* one; the calls of getpid(), kill() and clock_gettime() in between keep     *)
(* them in program order.  A segment stays mapped when its name is unlinked, *)
(* and a later open creates a new one.                                       *)
(***************************************************************************)
EXTENDS Integers

CONSTANTS Pids,       \* process identifiers, positive numbers
          Foreign,    \* those of processes the reader may not signal
          MaxStale,   \* the max_stale_ns that readers use, if not 0
          TimeMod,    \* 2^64: times are uint64_t
          Boot,       \* the time at the start
          MaxTime,    \* bound on the time
          MaxFiles,   \* bound on the segments created under the name
          MaxSpawns   \* bound on the processes started

ASSUME LifecycleAssumption ==
  /\ Pids \subseteq Nat \ {0}
  /\ Foreign \subseteq Pids
  /\ MaxStale \in Nat \ {0} /\ Boot \in Nat
  /\ MaxTime \in Nat /\ MaxTime >= Boot /\ TimeMod \in Nat
  /\ TimeMod > MaxTime + MaxStale
  /\ MaxFiles \in Nat /\ MaxSpawns \in Nat

VARIABLES
  now,      \* CLOCK_MONOTONIC
  proc,     \* pid -> "none", "writer" or "other" (a process without OwnedShm)
  spawns,   \* processes started so far
  name,     \* the segment the name stands for, 0 if none
  files,    \* segments created so far
  hdr,      \* segment -> [magic, pid, heartbeat]
  wpc,      \* a writer: "out", "magic", "pid", "clock", "beat" (before these
            \* steps of the constructor), "ready", "tick" (before the store of
            \* update_heartbeat)
  wmap,     \* the segment it has mapped, 0 if none
  wclock,   \* its local ts
  rpc,      \* the reader: "idle", "magic", "pid", "kill", "clock", "beat"
            \* (before these steps of is_writer_alive), "done"
  rmap,     \* the segment it has mapped, 0 if none
  stale,    \* max_stale_ns
  rpid, rnow, rbeat,  \* what it has read
  verdict,  \* the result
  lastSeen, \* history, per segment: when its last owner went, 0 while it has one
  disputed, \* history: the segments that got a second owner beside the first
  steady    \* history: the one owner the segment has had, constructed, since
            \* the call began, or 0

wvars == <<wpc, wmap, wclock>>
rlocals == <<rpc, rmap, stale, rpid, rnow, rbeat, verdict>>
history == <<lastSeen, disputed, steady>>
vars == <<now, proc, spawns, name, files, hdr, wvars, rlocals, history>>

Files == 1 .. MaxFiles

Init ==
  /\ now = Boot
  /\ proc = [p \in Pids |-> "none"] /\ spawns = 0
  /\ name = 0 /\ files = 0
  /\ hdr = [f \in Files |-> [magic |-> FALSE, pid |-> 0, heartbeat |-> 0]]
  /\ wpc = [p \in Pids |-> "out"]
  /\ wmap = [p \in Pids |-> 0]
  /\ wclock = [p \in Pids |-> 0]
  /\ rpc = "idle" /\ rmap = 0 /\ stale = 0
  /\ rpid = 0 /\ rnow = 0 /\ rbeat = 0 /\ verdict = FALSE
  /\ lastSeen = [f \in Files |-> 0] /\ disputed = {} /\ steady = 0

Owners(f) == {p \in Pids : wmap[p] = f}

-----------------------------------------------------------------------------
(* The machine.                                                             *)

Tick ==
  /\ now < MaxTime /\ now' = now + 1
  /\ UNCHANGED <<proc, spawns, name, files, hdr, wvars, rlocals, history>>

\* A process starts; the kernel gives it any pid that is free.
Spawn(p) ==
  /\ proc[p] = "none" /\ spawns < MaxSpawns
  /\ spawns' = spawns + 1
  /\ \E kind \in {"writer", "other"} : proc' = [proc EXCEPT ![p] = kind]
  /\ UNCHANGED <<now, name, files, hdr, wvars, rlocals, history>>

\* Process p no longer has its segment.
Gone(p) ==
  /\ wpc' = [wpc EXCEPT ![p] = "out"]
  /\ wmap' = [wmap EXCEPT ![p] = 0]
  /\ wclock' = [wclock EXCEPT ![p] = 0]
  /\ lastSeen' = [f \in Files |-> IF Owners(f) = {p} THEN now ELSE lastSeen[f]]
  /\ steady' = IF steady = p THEN 0 ELSE steady

\* A process ends, without its destructors.
Exit(p) ==
  /\ proc[p] # "none"
  /\ proc' = [proc EXCEPT ![p] = "none"]
  /\ Gone(p)
  /\ UNCHANGED <<now, spawns, name, files, hdr, rlocals, disputed>>

\* An open of the name gives the segment it stands for, or a new one.
Opens(f) ==
  \/ name # 0 /\ f = name /\ UNCHANGED <<name, files>>
  \/ name = 0 /\ files < MaxFiles /\ f = files + 1 /\ name' = f /\ files' = f

\* shm_exists() and shm_remove(), by anybody at any time.
ShmExists == name # 0

ShmRemove ==
  /\ ShmExists
  /\ name' = 0
  /\ UNCHANGED <<now, proc, spawns, files, hdr, wvars, rlocals, history>>

-----------------------------------------------------------------------------
(* OwnedShm.                                                                *)

At(p, from, to) ==
  proc[p] = "writer" /\ wpc[p] = from /\ wpc' = [wpc EXCEPT ![p] = to]

\* The constructor opens the segment, also one that another owner uses.
Construct(p) ==
  /\ At(p, "out", "magic")
  /\ \E f \in Files : /\ Opens(f)
                      /\ wmap' = [wmap EXCEPT ![p] = f]
                      /\ steady' = IF f = rmap THEN 0 ELSE steady
                      /\ disputed' = IF Owners(f) = {} THEN disputed \ {f}
                                     ELSE disputed \cup {f}
                      /\ lastSeen' = [lastSeen EXCEPT ![f] = 0]
  /\ UNCHANGED <<now, proc, spawns, hdr, wclock, rlocals>>

\* A step of p that stores into its header.
Store(p, h) ==
  /\ hdr' = [hdr EXCEPT ![wmap[p]] = h]
  /\ UNCHANGED <<now, proc, spawns, name, files, wmap, rlocals, history>>

SetMagic(p) ==
  /\ At(p, "magic", "pid")
  /\ Store(p, [hdr[wmap[p]] EXCEPT !.magic = TRUE])
  /\ UNCHANGED wclock

\* Mutant: only a fresh segment gets the pid.
SetPidOnce(p) ==
  /\ At(p, "pid", "clock")
  /\ Store(p, [hdr[wmap[p]] EXCEPT !.pid = IF @ = 0 THEN p ELSE @])
  /\ UNCHANGED wclock

SetPid(p) ==
  /\ At(p, "pid", "clock")
  /\ Store(p, [hdr[wmap[p]] EXCEPT !.pid = p])
  /\ UNCHANGED wclock

\* update_heartbeat() reads the clock ...
BeatClock(p) ==
  /\ At(p, "clock", "beat") \/ At(p, "ready", "tick")
  /\ wclock' = [wclock EXCEPT ![p] = now]
  /\ UNCHANGED <<now, proc, spawns, name, files, hdr, wmap, rlocals, history>>

\* Mutants: a time rounded up, and a heartbeat reset with the rest of the header.
BeatStoreAhead(p) ==
  /\ At(p, "beat", "ready") \/ At(p, "tick", "ready")
  /\ Store(p, [hdr[wmap[p]] EXCEPT !.heartbeat = now + 1])
  /\ wclock' = [wclock EXCEPT ![p] = 0]

BeatStoreReset(p) ==
  /\ At(p, "beat", "ready") \/ At(p, "tick", "ready")
  /\ Store(p, [hdr[wmap[p]] EXCEPT !.heartbeat = IF wpc[p] = "beat" THEN 0 ELSE wclock[p]])
  /\ wclock' = [wclock EXCEPT ![p] = 0]

\* ... and stores the reading.  The constructor then zeroes the data, on which
\* the header does not depend, and is done.
BeatStore(p) ==
  /\ At(p, "beat", "ready") \/ At(p, "tick", "ready")
  /\ Store(p, [hdr[wmap[p]] EXCEPT !.heartbeat = wclock[p]])
  /\ wclock' = [wclock EXCEPT ![p] = 0]

\* The destructor; shm::Shm may unlink the name.
Destruct(p) ==
  /\ proc[p] = "writer" /\ wpc[p] = "ready"
  /\ Gone(p)
  /\ name' \in {name, 0}
  /\ UNCHANGED <<now, proc, spawns, files, hdr, rlocals, disputed>>

-----------------------------------------------------------------------------
(* The reader: is_writer_alive(header, max_stale_ns).                       *)

machine == <<now, proc, spawns, hdr, wvars, lastSeen, disputed>>

\* SharedMemory<ShmHeader> opens the name.
Attach ==
  /\ rpc = "idle"
  /\ \E f \in Files : Opens(f) /\ rmap' = f
  /\ UNCHANGED <<machine, rpc, stale, rpid, rnow, rbeat, verdict, steady>>

Constructed(p) == wpc[p] \in {"ready", "tick"}

IsWriterAlive ==
  /\ rpc = "idle" /\ rmap # 0
  /\ rpc' = "magic"
  /\ stale' \in {0, MaxStale}
  /\ steady' = IF \E p \in Pids : Owners(rmap) = {p} /\ Constructed(p)
               THEN CHOOSE p \in Pids : wmap[p] = rmap ELSE 0
  /\ UNCHANGED <<machine, name, files, rmap, rpid, rnow, rbeat, verdict>>

Verdict(b) == rpc' = "done" /\ verdict' = b

ReadMagic ==
  /\ rpc = "magic"
  /\ IF hdr[rmap].magic THEN rpc' = "pid" /\ UNCHANGED verdict
                        ELSE Verdict(FALSE)
  /\ UNCHANGED <<machine, name, files, rmap, stale, rpid, rnow, rbeat, steady>>

ReadPid ==
  /\ rpc = "pid" /\ rpc' = "kill"
  /\ rpid' = hdr[rmap].pid
  /\ UNCHANGED <<machine, name, files, rmap, stale, rnow, rbeat, verdict, steady>>

\* kill(pid, 0) = 0: the process exists and may be signalled; pid 0 means the
\* caller's own process group.
Signals(pid) == IF pid = 0 THEN TRUE ELSE proc[pid] # "none" /\ pid \notin Foreign

Kill ==
  /\ rpc = "kill" /\ rpid' = 0
  /\ \/ ~Signals(rpid) /\ Verdict(FALSE)
     \/ Signals(rpid) /\ stale = 0 /\ Verdict(TRUE)
     \/ Signals(rpid) /\ stale > 0 /\ rpc' = "clock" /\ UNCHANGED verdict
  /\ UNCHANGED <<machine, name, files, rmap, stale, rnow, rbeat, steady>>

ReadClock ==
  /\ rpc = "clock" /\ rpc' = "beat"
  /\ rnow' = now
  /\ UNCHANGED <<machine, name, files, rmap, stale, rpid, rbeat, verdict, steady>>

\* Mutant: no difference at all.
AgeIgnored(t, beat) == 0

\* now_ns - heartbeat_ns, unsigned.
Age(t, beat) == (t - beat) % TimeMod

ReadBeat ==
  /\ rpc = "beat"
  /\ rbeat' = hdr[rmap].heartbeat
  /\ Verdict(Age(rnow, rbeat') <= stale)
  /\ UNCHANGED <<machine, name, files, rmap, stale, rpid, rnow, steady>>

\* The caller has used the result.
Used ==
  /\ rpc = "done" /\ rpc' = "idle"
  /\ stale' = 0 /\ rnow' = 0 /\ rbeat' = 0
  /\ verdict' = FALSE /\ steady' = 0
  /\ UNCHANGED <<machine, name, files, rmap, rpid>>

-----------------------------------------------------------------------------
WriterStep(p) ==
  \/ SetMagic(p) \/ SetPid(p) \/ BeatClock(p) \/ BeatStore(p)

ReaderStep == ReadMagic \/ ReadPid \/ Kill \/ ReadClock \/ ReadBeat

Next ==
  \/ Tick \/ ShmRemove \/ Attach \/ IsWriterAlive \/ Used \/ ReaderStep
  \/ \E p \in Pids : \/ WriterStep(p)
                     \/ Spawn(p) \/ Exit(p) \/ Construct(p) \/ Destruct(p)

Spec == Init /\ [][Next]_vars

-----------------------------------------------------------------------------
(* Properties.                                                              *)

\* The type invariant: a header names a pid only under the magic, a heartbeat
\* is never in the future, and only writers have a segment mapped.
TypeOK ==
  /\ now \in Boot .. MaxTime
  /\ proc \in [Pids -> {"none", "writer", "other"}]
  /\ spawns \in 0 .. MaxSpawns
  /\ files \in 0 .. MaxFiles /\ name \in 0 .. files /\ rmap \in 0 .. files
  /\ hdr \in [Files -> [magic : BOOLEAN, pid : Pids \cup {0}, heartbeat : 0 .. now]]
  /\ \A f \in Files : hdr[f].pid # 0 \/ hdr[f].heartbeat > 0 => hdr[f].magic
  /\ wpc \in [Pids -> {"out", "magic", "pid", "clock", "beat", "ready", "tick"}]
  /\ wmap \in [Pids -> 0 .. files] /\ wclock \in [Pids -> 0 .. now]
  /\ \A p \in Pids : /\ wmap[p] = 0 <=> wpc[p] = "out"
                     /\ wpc[p] # "out" => proc[p] = "writer"
  /\ rpc \in {"idle", "magic", "pid", "kill", "clock", "beat", "done"}
  /\ rpc # "idle" => rmap # 0
  /\ stale \in {0, MaxStale} /\ rpid \in Pids \cup {0}
  /\ rnow \in 0 .. now /\ rbeat \in 0 .. now
  /\ verdict \in BOOLEAN /\ steady \in Pids \cup {0}
  /\ lastSeen \in [Files -> 0 .. now] /\ disputed \subseteq Files

\* A segment that has had no owner alive for longer than max_stale_ns is never
\* reported alive, although another process may have got the owner's pid and
\* although the owner may have died half way through its constructor.
DeathIsNoticed ==
  rpc = "done" /\ verdict /\ stale > 0 =>
    Owners(rmap) # {} \/ lastSeen[rmap] + MaxStale >= rnow

\* An owner that lives and keeps its segment to itself during the whole call is
\* reported dead only because the reader may not signal it, because its
\* heartbeat is too old, or because it has updated the heartbeat since the
\* reader looked at the clock: then the unsigned difference wraps.
LifeIsNoticed ==
  rpc = "done" /\ ~verdict /\ steady # 0 /\ rmap \notin disputed =>
    \/ steady \in Foreign
    \/ stale > 0 /\ (rnow - rbeat > stale \/ rbeat > rnow)

\* The heartbeat of a segment never goes back, whichever owners follow each
\* other on it, unless one opened it beside another that was still there.
HeartbeatForward ==
  [][\A f \in Files : hdr'[f].heartbeat < hdr[f].heartbeat => f \in disputed]_vars
=============================================================================
