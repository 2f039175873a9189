----------------------------- MODULE DoubleBuffer -----------------------------
(***************************************************************************)
(* DoubleBufferShm (image_shm.hpp) and DblBufLoader (dblbuf_loader.hpp):     *)
(* load() stages the shared memory and triggers the SwapRunner, whose task   *)
(* copies the staged memory into a private buffer under the cross-process    *)
(* lock and publishes the buffer; a Snapshot is read through the published   *)
(* pointer.  Other processes store (storage.hpp) under the same lock.        *)
(*                                                                         *)
(* This module composes SwapRunner, whose variables it shares, with the      *)
(* swapper, the stores and the readers of snapshots.  The lock is the one    *)
(* that ShmLock implements: Mutex.  The k-th store writes k into every word. *)
(*                                                                         *)
(* Nothing in the code makes callers wait() after load(), or keeps two loads *)
(* apart: load() is modelled as it may be called, at any time.  Two history  *)
(* variables, clean and crossed, record what the properties except.          *)
(***************************************************************************)
EXTENDS Naturals

CONSTANTS Callers,      \* threads that use the loader
          Words,        \* words of T
          MaxLoads,     \* bound on the calls of load()
          MaxStores     \* bound on the calls of store()

ASSUME DoubleBufferAssumption ==
  Words # {} /\ MaxLoads \in Nat /\ MaxStores \in Nat

VARIABLES
  triggered, idle, stop, armed, run, cpc, phase,  \* SwapRunner
  owners,     \* the owner of the lock: {}, {"task"} or {"store"}
  shm,        \* the shared T: word -> number of its store
  nstore,     \* calls of store() so far
  stored,     \* history: the last store that has completed
  sleft,      \* words the current store has not written
  stage,      \* stage_ is not null
  buf,        \* *pre_allocated_
  published,  \* published_ptr_: "shm" or "buf"
  task,       \* the task: "lock", "swap", "copy", "unlock", "end" or
              \* "abort" (an assertion of swap() has ended the process)
  tleft,      \* words swap() has not copied
  lpc,        \* a caller: "out", "staged" (in load(), before trigger()),
              \* "snap" (load() has returned a Snapshot), "ready" (wait() has
              \* returned after that) or "read" (reading *snapshot)
  loads,      \* calls of load() so far
  clean,      \* history: {c} if the latest load() was caller c's and found
              \* the worker at rest, no other load() under way, and c has not
              \* used the snapshot without wait(); otherwise {}
  crossed,    \* history: has a load() overlapped a task's swap()?
  need,       \* history: the last store completed when load() was called
  rptr,       \* the pointer operator* returned
  rleft,      \* words the reader has not read
  rbuf        \* what it has read

runnerVars == <<triggered, idle, stop, armed, run, cpc, phase>>
lockVars   == <<owners>>
storeVars  == <<shm, nstore, stored, sleft>>
taskVars   == <<stage, buf, published, task, tleft>>
history    == <<clean, crossed>>
readVars   == <<rptr, rleft, rbuf>>
loadVars   == <<lpc, loads, need, history, readVars>>
vars == <<runnerVars, lockVars, storeVars, taskVars, loadVars>>

Runner == INSTANCE SwapRunner
Lock   == INSTANCE Mutex WITH Procs <- {"task", "store"}

Zero == [w \in Words |-> 0]

\* After the constructor: set_active(shm) and published_ptr_ = shm.
Init ==
  /\ Runner!RunnerInit /\ Lock!MutexInit
  /\ shm = Zero /\ nstore = 0 /\ stored = 0 /\ sleft = {}
  /\ stage = FALSE /\ buf = Zero /\ published = "shm"
  /\ task = "lock" /\ tleft = {}
  /\ lpc = [c \in Callers |-> "out"]
  /\ loads = 0 /\ clean = {} /\ crossed = FALSE
  /\ need = [c \in Callers |-> 0]
  /\ rptr = [c \in Callers |-> "shm"]
  /\ rleft = [c \in Callers |-> {}]
  /\ rbuf = [c \in Callers |-> Zero]

-----------------------------------------------------------------------------
(* store(): lock, copy, unlock, in another process.                         *)

StoreLock ==
  /\ nstore < MaxStores
  /\ Lock!Acquire("store")
  /\ nstore' = nstore + 1 /\ sleft' = Words
  /\ UNCHANGED <<runnerVars, shm, stored, taskVars, loadVars>>

StoreWord(w) ==
  /\ w \in sleft
  /\ shm' = [shm EXCEPT ![w] = nstore]
  /\ sleft' = sleft \ {w}
  /\ UNCHANGED <<runnerVars, lockVars, nstore, stored, taskVars, loadVars>>

\* Mutant: the lock is released before the copy is complete.
StoreUnlockEarly ==
  /\ Lock!Release("store")
  /\ stored' = nstore
  /\ UNCHANGED <<runnerVars, shm, nstore, sleft, taskVars, loadVars>>

StoreUnlock ==
  /\ sleft = {}
  /\ Lock!Release("store")
  /\ stored' = nstore
  /\ UNCHANGED <<runnerVars, shm, nstore, sleft, taskVars, loadVars>>

-----------------------------------------------------------------------------
(* The runner's task: lock, swap(), publish, unlock.                        *)

TaskAt(label) == run = "task" /\ task = label

\* From the clearing of triggered_ to the clearing of stage_.
Swapping == run = "task" /\ task \in {"lock", "swap", "copy"}

TaskLock ==
  /\ TaskAt("lock")
  /\ Lock!Acquire("task")
  /\ task' = "swap"
  /\ UNCHANGED <<runnerVars, storeVars, stage, buf, published, tleft, loadVars>>

\* swap(): assert(stage_ && "stage_ is null").  Without assertions the copy
\* dereferences the null pointer.
SwapBegin ==
  /\ TaskAt("swap")
  /\ IF stage THEN task' = "copy" /\ tleft' = Words
              ELSE task' = "abort" /\ tleft' = {}
  /\ UNCHANGED <<runnerVars, lockVars, storeVars, stage, buf, published, loadVars>>

\* One word of *pre_allocated_buffer_ = *stage_.
SwapWord(w) ==
  /\ TaskAt("copy") /\ w \in tleft
  /\ buf' = [buf EXCEPT ![w] = shm[w]]
  /\ tleft' = tleft \ {w}
  /\ UNCHANGED <<runnerVars, lockVars, storeVars, stage, published, task, loadVars>>

\* *active_buffer_ = pre_allocated_buffer_; stage_ = nullptr; published_ptr_ =
\* *active_buffer_.
SwapEnd ==
  /\ TaskAt("copy") /\ tleft = {}
  /\ stage' = FALSE
  /\ published' = "buf"
  /\ task' = "unlock"
  /\ UNCHANGED <<runnerVars, lockVars, storeVars, buf, tleft, loadVars>>

\* Mutant: the lock is not released.
TaskKeepsLock ==
  /\ TaskAt("unlock")
  /\ task' = "end"
  /\ UNCHANGED <<runnerVars, lockVars, storeVars, stage, buf, published, tleft,
                 loadVars>>

TaskUnlock ==
  /\ TaskAt("unlock")
  /\ Lock!Release("task")
  /\ task' = "end"
  /\ UNCHANGED <<runnerVars, storeVars, stage, buf, published, tleft, loadVars>>

TaskReturn ==
  /\ TaskAt("end")
  /\ Runner!TaskEnd
  /\ task' = "lock"
  /\ UNCHANGED <<lockVars, storeVars, stage, buf, published, tleft, loadVars>>

-----------------------------------------------------------------------------
(* Callers: load(), wait() and reading the snapshot.  They live in the       *)
(* worker's process and end with it.                                        *)

At(c, label) == task # "abort" /\ lpc[c] = label

Move(c, label) == lpc' = [lpc EXCEPT ![c] = label]

\* Nothing is pending, and the last task is over.
AtRest == triggered = 0 /\ run \in {"start", "loop", "wait"}

\* load(): swapper_.stage(get_shm()) ...
LoadStage(c) ==
  /\ \E label \in {"out", "snap", "ready"} : At(c, label)
  /\ ~stop /\ cpc[c] = "out"
  /\ loads < MaxLoads /\ loads' = loads + 1
  /\ stage' = TRUE
  /\ need' = [need EXCEPT ![c] = stored]
  /\ clean' = IF AtRest /\ \A d \in Callers : lpc[d] # "staged" THEN {c} ELSE {}
  /\ crossed' = (crossed \/ Swapping)
  /\ Move(c, "staged")
  /\ UNCHANGED <<runnerVars, lockVars, storeVars, buf, published, task, tleft,
                 readVars>>

\* ... runner_->trigger() ...
LoadTrigger(c) ==
  /\ At(c, "staged")
  /\ Runner!TriggerIdle(c)
  /\ UNCHANGED <<lockVars, storeVars, taskVars, loadVars>>

\* ... and the Snapshot is returned.
LoadReturn(c) ==
  /\ At(c, "staged")
  /\ Runner!TriggerSet(c)
  /\ Move(c, "snap")
  /\ UNCHANGED <<lockVars, storeVars, taskVars, loads, need, history, readVars>>

WaitCall(c) ==
  /\ At(c, "snap")
  /\ Runner!Wait(c)
  /\ UNCHANGED <<lockVars, storeVars, taskVars, loadVars>>

WaitDone(c) ==
  /\ At(c, "snap")
  /\ Runner!WaitReturn(c)
  /\ Move(c, "ready")
  /\ UNCHANGED <<lockVars, storeVars, taskVars, loads, need, history, readVars>>

\* Snapshot::operator*: loads the published pointer, whether or not the caller
\* has called wait().
Dereference(c) ==
  /\ At(c, "ready") \/ (At(c, "snap") /\ cpc[c] = "out")
  /\ ~stop
  /\ rptr' = [rptr EXCEPT ![c] = published]
  /\ rleft' = [rleft EXCEPT ![c] = Words]
  /\ clean' = IF At(c, "snap") THEN clean \ {c} ELSE clean
  /\ Move(c, "read")
  /\ UNCHANGED <<runnerVars, lockVars, storeVars, taskVars, loads, need, crossed,
                 rbuf>>

ReadWord(c, w) ==
  /\ At(c, "read") /\ w \in rleft[c]
  /\ rbuf' = [rbuf EXCEPT ![c][w] = IF rptr[c] = "shm" THEN shm[w] ELSE buf[w]]
  /\ rleft' = [rleft EXCEPT ![c] = @ \ {w}]
  /\ UNCHANGED <<runnerVars, lockVars, storeVars, taskVars, lpc, loads, need,
                 history, rptr>>

ReadDone(c) == At(c, "read") /\ rleft[c] = {}

Drop(c) ==
  /\ ReadDone(c)
  /\ Move(c, "out")
  /\ rbuf' = [rbuf EXCEPT ![c] = Zero]
  /\ rptr' = [rptr EXCEPT ![c] = "shm"]
  /\ need' = [need EXCEPT ![c] = 0]
  /\ clean' = clean \ {c}
  /\ UNCHANGED <<runnerVars, lockVars, storeVars, taskVars, loads, crossed, rleft>>

\* The destructor: runner_.reset(), when nobody is inside load() or reads a
\* snapshot; a task may be pending or running and callers may be in wait().
\* What follows, lock_.destroy(), is Destroy of ShmLock; here the lock is the
\* abstract one.
Destructor ==
  /\ task # "abort"
  /\ \A c \in Callers : lpc[c] \in {"out", "snap", "ready"}
  /\ Runner!RequestStop
  /\ UNCHANGED <<lockVars, storeVars, taskVars, loadVars>>

\* The runner's own steps.
RunnerStep ==
  /\ task # "abort"
  /\ Runner!WorkerStep \/ Runner!StopCallback
  /\ UNCHANGED <<lockVars, storeVars, taskVars, lpc, loads, need, clean, readVars>>
  /\ crossed' = (crossed \/ (Swapping' /\ \E c \in Callers : lpc[c] = "staged"))

-----------------------------------------------------------------------------
TaskStep ==
  \/ TaskLock \/ SwapBegin \/ (\E w \in Words : SwapWord(w)) \/ SwapEnd
  \/ TaskUnlock \/ TaskReturn

StoreStep == (\E w \in Words : StoreWord(w)) \/ StoreUnlock

CallStep(c) == LoadTrigger(c) \/ LoadReturn(c) \/ WaitDone(c)

Next ==
  \/ RunnerStep \/ TaskStep \/ StoreStep
  \/ StoreLock \/ Destructor
  \/ \E c \in Callers :
       \/ CallStep(c)
       \/ LoadStage(c) \/ WaitCall(c) \/ Dereference(c) \/ Drop(c)
       \/ \E w \in Words : ReadWord(c, w)

Spec == Init /\ [][Next]_vars

\* Threads keep running inside calls and stores end.  The task needs the lock
\* again and again; lock() does not starve a waiter for ever only because there
\* are finitely many stores.
FairSpec ==
  /\ Spec
  /\ WF_vars(RunnerStep \/ TaskStep) /\ WF_vars(StoreStep)
  /\ \A c \in Callers : WF_vars(CallStep(c))

-----------------------------------------------------------------------------
(* Properties.                                                              *)

Buffer == [Words -> 0 .. MaxStores]

\* The type invariant of what DoubleBuffer adds to the runner and the lock.
TypeOK ==
  /\ owners \in {{}, {"task"}, {"store"}}
  /\ shm \in Buffer /\ buf \in Buffer
  /\ nstore \in 0 .. MaxStores /\ stored \in 0 .. nstore
  /\ sleft \in SUBSET Words /\ (sleft # {} => owners = {"store"})
  /\ stage \in BOOLEAN /\ published \in {"shm", "buf"}
  /\ task \in {"lock", "swap", "copy", "unlock", "end", "abort"}
  /\ tleft \in SUBSET Words
  /\ lpc \in [Callers -> {"out", "staged", "snap", "ready", "read"}]
  /\ loads \in 0 .. MaxLoads
  /\ clean \in SUBSET Callers /\ crossed \in BOOLEAN
  /\ need \in [Callers -> 0 .. MaxStores]
  /\ rptr \in [Callers -> {"shm", "buf"}]
  /\ rleft \in [Callers -> SUBSET Words]
  /\ rbuf \in [Callers -> Buffer]

\* load(), wait(), read: what the caller reads is one store's data, untorn, and
\* not older than the last store that had completed when load() was called,
\* while other processes go on storing.  This is so if load() came when the
\* worker was at rest and nobody calls load() until the data has been read: a
\* load() during a task may have its wait() ended by that task, and a later
\* load(), of any caller, overwrites what the snapshot shows.
FreshAndConsistent ==
  \A c \in clean : ReadDone(c) =>
    \E k \in need[c] .. nstore : rbuf[c] = [w \in Words |-> k]

\* swap() finds a staged buffer unless a load() has overlapped a swap: only a
\* load() that is under way between the worker's clearing of triggered_ and its
\* clearing of stage_ can have its stage erased, or be triggered again after its
\* stage was used.  Loads during the rest of the worker's loop, several loads
\* for one task and loads that nobody waits for are harmless.
StageLostOnlyByOverlap == task = "abort" => crossed

\* The assertion of swap(), "stage_ is null", holds however load() is called.
\* It does not: see StageLostOnlyByOverlap.
StageNotNull == task # "abort"

\* No load() is forgotten, not even one that comes while the worker is busy or
\* is just about to clear triggered_: a task starts after its trigger, unless
\* the loader is destroyed or the process ends first.
TriggerIsServed ==
  \A c \in Callers :
    phase[c] = "pending" ~> (phase[c] # "pending" \/ stop \/ task = "abort")

\* Once loads cease, wait() returns, although the task has to get the lock from
\* processes that store: idle_ is never left 0 by a worker that has nothing to
\* do, however triggers, tasks and shutdown overlap.  A wait() that is pending
\* when the destructor starts returns too, also when the worker leaves without
\* serving the trigger it waits for.
WaitReturns ==
  \A c \in Callers : cpc[c] = "waiting" ~> (cpc[c] = "out" \/ task = "abort")

\* The destructor never hangs: whatever the worker was doing, waiting for a
\* trigger or for the lock, it gets out.
StopJoins == stop ~> (run = "done" \/ task = "abort")
=============================================================================
