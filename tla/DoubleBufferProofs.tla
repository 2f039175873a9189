-------------------------- MODULE DoubleBufferProofs --------------------------
(***************************************************************************)
(* Proofs about DoubleBuffer for any number of callers, words, loads and      *)
(* stores: three inductive invariants, one of every execution (LoaderInv),    *)
(* one of the executions in which no load() has overlapped a swap (StageInv)  *)
(* and one of the clean loads (CleanInv).                                    *)
(***************************************************************************)
EXTENDS DoubleBuffer, TLAPS

USE DoubleBufferAssumption

-----------------------------------------------------------------------------
(* The inductive invariants.                                                *)

RunnerOK ==
  /\ triggered \in {0, 1} /\ idle \in {0, 1} /\ stop \in BOOLEAN
  /\ run \in {"start", "loop", "wait", "check", "clear", "task", "finish", "exit", "done"}
  /\ cpc \in [Callers -> {"out", "set", "waiting"}]
  /\ run \in {"exit", "done"} => stop

\* The shared memory is whole unless a store has the lock.
StoreInv ==
  /\ \A w \in Words : w \notin sleft => shm[w] = nstore
  /\ owners # {"store"} => stored = nstore

TaskInv ==
  /\ task # "lock" => run = "task"
  /\ owners = {"task"} <=> task \in {"swap", "copy", "unlock", "abort"}
  /\ task = "copy" => \A w \in Words : w \notin tleft => buf[w] = nstore

CallerInv ==
  \A c \in Callers :
    /\ cpc[c] = "set" => lpc[c] = "staged"
    /\ cpc[c] = "waiting" => lpc[c] = "snap"
    /\ lpc[c] \in {"staged", "read"} => ~stop
    /\ need[c] <= stored

\* What holds of every execution.
LoaderInv == TypeOK /\ RunnerOK /\ StoreInv /\ TaskInv /\ CallerInv

\* Until a load() overlaps a swap, whoever will run the task has a stage.
StageInv ==
  ~crossed =>
    /\ task # "abort"
    /\ run = "clear" \/ (run = "check" /\ ~stop) => stage
    /\ triggered = 1 /\ ~stop /\ ~Swapping => stage
    /\ Swapping => stage /\ (triggered = 0 \/ stop)
    /\ \A c \in Callers : lpc[c] = "staged" => stage /\ ~Swapping

\* The published buffer holds one store, not older than c's load() asks for.
Full(c) == published = "buf" /\ \E k \in need[c] .. nstore : \A w \in Words : buf[w] = k

\* The swap a clean load() asked for is still to come: wait() does not return.
Owed ==
  /\ stage /\ idle = 0
  /\ run \in {"start", "loop", "wait", "check", "clear"} \/ (Swapping /\ triggered = 0)

\* It is over, and nothing will make the worker swap again.
Served(c) ==
  /\ Full(c) /\ triggered = 0
  /\ ~Swapping /\ run \notin {"check", "clear"}

CleanOK(c) ==
  /\ lpc[c] # "out"
  /\ \A d \in Callers : lpc[d] = "staged" => d = c
  /\ lpc[c] = "staged" => AtRest /\ stage /\ (cpc[c] = "set" => idle = 0)
  /\ lpc[c] = "snap" => Owed \/ Served(c)
  /\ lpc[c] \in {"ready", "read"} => Served(c)
  /\ lpc[c] = "read" =>
       rptr[c] = "buf" /\ \A w \in Words : w \notin rleft[c] => rbuf[c][w] = buf[w]

\* After the destructor has begun no snapshot is dereferenced any more.
CleanInv == ~stop => \A c \in clean : CleanOK(c)

-----------------------------------------------------------------------------
(* Types.                                                                   *)

\* The initial states are well typed.
LEMMA InitType == Init => TypeOK
<1> SUFFICES ASSUME Init PROVE TypeOK
  OBVIOUS
<1>1. Zero \in Buffer BY DEF Zero, Buffer
<1>2. nstore \in 0 .. MaxStores /\ stored \in 0 .. nstore /\ loads \in 0 .. MaxLoads BY DEF Init
<1>3. owners = {} BY DEF Init, Lock!MutexInit
<1> QED BY <1>1, <1>2, <1>3 DEF Init, TypeOK

\* Steps of the stores.
LEMMA StoreType ==
  ASSUME TypeOK, StoreLock \/ StoreStep
  PROVE  TypeOK'
<1>0. UNCHANGED <<stage, buf, published, task, tleft, lpc, loads, clean, crossed, need, rptr,
                  rleft, rbuf>>
  BY DEF StoreLock, StoreStep, StoreWord, StoreUnlock, taskVars, loadVars, history, readVars
<1>1. /\ nstore \in 0 .. MaxStores /\ stored \in 0 .. nstore
      /\ nstore' \in 0 .. MaxStores /\ stored' \in 0 .. nstore'
  BY DEF TypeOK, StoreLock, StoreStep, StoreWord, StoreUnlock, runnerVars
<1>2. owners' \in {{}, {"task"}, {"store"}}
  BY DEF TypeOK, StoreLock, StoreStep, StoreWord, StoreUnlock, lockVars, Lock!Acquire, Lock!Release
<1>3. sleft' \in SUBSET Words
  BY DEF TypeOK, StoreLock, StoreStep, StoreWord, StoreUnlock
<1>4. sleft' # {} => owners' = {"store"}
  BY DEF TypeOK, StoreLock, StoreStep, StoreWord, StoreUnlock, lockVars, Lock!Acquire
<1>5. shm' \in Buffer
  BY <1>1 DEF TypeOK, StoreLock, StoreStep, StoreWord, StoreUnlock, Buffer
<1> QED BY <1>0, <1>1, <1>2, <1>3, <1>4, <1>5 DEF TypeOK

\* Steps of the task.
LEMMA TaskType ==
  ASSUME TypeOK, TaskStep
  PROVE  TypeOK'
<1>0. UNCHANGED <<shm, nstore, stored, sleft, lpc, loads, clean, crossed, need, rptr, rleft,
                  rbuf>>
  BY DEF TaskStep, TaskLock, SwapBegin, SwapWord, SwapEnd, TaskUnlock, TaskReturn, storeVars,
         loadVars, history, readVars
<1>1. owners' \in {{}, {"task"}, {"store"}} /\ (sleft # {} => owners' = {"store"})
  BY DEF TypeOK, TaskStep, TaskLock, SwapBegin, SwapWord, SwapEnd, TaskUnlock, TaskReturn,
         lockVars, Lock!Acquire, Lock!Release
<1>2. buf' \in Buffer
  BY DEF TypeOK, TaskStep, TaskLock, SwapBegin, SwapWord, SwapEnd, TaskUnlock, TaskReturn,
         Buffer
<1>3. /\ stage' \in BOOLEAN /\ published' \in {"shm", "buf"}
      /\ task' \in {"lock", "swap", "copy", "unlock", "end", "abort"}
      /\ tleft' \in SUBSET Words
  BY DEF TypeOK, TaskStep, TaskLock, SwapBegin, SwapWord, SwapEnd, TaskUnlock, TaskReturn
<1> QED BY <1>0, <1>1, <1>2, <1>3 DEF TypeOK

\* Steps of a caller.
CallerAct(c) ==
  \/ CallStep(c) \/ LoadStage(c) \/ WaitCall(c) \/ Dereference(c) \/ Drop(c)
  \/ \E w \in Words : ReadWord(c, w)

\* load(), wait() and reads of a snapshot preserve the types.
LEMMA CallerType ==
  ASSUME TypeOK, NEW c \in Callers, CallerAct(c)
  PROVE  TypeOK'
<1>0. UNCHANGED <<owners, shm, nstore, stored, sleft, buf, published, task, tleft>>
  BY DEF CallerAct, CallStep, LoadTrigger, LoadReturn, WaitDone, LoadStage, WaitCall,
         Dereference, Drop, ReadWord, lockVars, storeVars, taskVars
<1>1. stage' \in BOOLEAN /\ lpc' \in [Callers -> {"out", "staged", "snap", "ready", "read"}]
  BY DEF TypeOK, CallerAct, CallStep, LoadTrigger, LoadReturn, WaitDone, LoadStage, WaitCall,
         Dereference, Drop, ReadWord, taskVars, loadVars, Move
<1>2. need' \in [Callers -> 0 .. MaxStores]
  <2>1. stored \in 0 .. MaxStores /\ 0 \in 0 .. MaxStores BY DEF TypeOK
  <2> QED BY <2>1 DEF TypeOK, CallerAct, CallStep, LoadTrigger, LoadReturn, WaitDone,
                      LoadStage, WaitCall, Dereference, Drop, ReadWord, loadVars
<1>3. rptr' \in [Callers -> {"shm", "buf"}] /\ rleft' \in [Callers -> SUBSET Words]
  BY DEF TypeOK, CallerAct, CallStep, LoadTrigger, LoadReturn, WaitDone, LoadStage, WaitCall,
         Dereference, Drop, ReadWord, loadVars, readVars
<1>4. rbuf' \in [Callers -> Buffer]
  <2>1. CASE \E w \in Words : ReadWord(c, w)
    <3>1. PICK w \in Words :
            rbuf' = [rbuf EXCEPT ![c][w] = IF rptr[c] = "shm" THEN shm[w] ELSE buf[w]]
      BY <2>1 DEF ReadWord
    <3> QED BY <3>1 DEF TypeOK, Buffer
  <2>2. CASE Drop(c)
    <3>1. Zero \in Buffer BY DEF Zero, Buffer
    <3> QED BY <2>2, <3>1 DEF TypeOK, Drop
  <2>3. CASE rbuf' = rbuf BY <2>3 DEF TypeOK
  <2> QED BY <2>1, <2>2, <2>3 DEF CallerAct, CallStep, LoadTrigger, LoadReturn, WaitDone,
                                LoadStage, WaitCall, Dereference, loadVars, readVars
<1>5. loads' \in 0 .. MaxLoads
  BY DEF TypeOK, CallerAct, CallStep, LoadTrigger, LoadReturn, WaitDone, LoadStage, WaitCall,
         Dereference, Drop, ReadWord, loadVars
<1>6. clean' \in SUBSET Callers
  BY DEF TypeOK, CallerAct, CallStep, LoadTrigger, LoadReturn, WaitDone, LoadStage, WaitCall,
         Dereference, Drop, ReadWord, loadVars, history
<1>7. crossed' \in BOOLEAN
  BY DEF TypeOK, CallerAct, CallStep, LoadTrigger, LoadReturn, WaitDone, LoadStage, WaitCall,
         Dereference, Drop, ReadWord, loadVars, history
<1> QED BY <1>0, <1>1, <1>2, <1>3, <1>4, <1>5, <1>6, <1>7 DEF TypeOK

\* Of what TypeOK speaks of the runner's own steps change only crossed.
LEMMA RunnerType ==
  ASSUME TypeOK, RunnerStep \/ Destructor \/ UNCHANGED vars
  PROVE  TypeOK'
<1>1. UNCHANGED <<lockVars, storeVars, taskVars, lpc, loads, need, clean, readVars>>
  BY DEF RunnerStep, Destructor, vars, loadVars, history
<1>2. crossed' \in BOOLEAN
  BY DEF TypeOK, RunnerStep, Destructor, vars, loadVars, history
<1> QED BY <1>1, <1>2 DEF TypeOK, lockVars, storeVars, taskVars, readVars

\* The steps of the system by who takes them.
LEMMA NextCases ==
  ASSUME [Next]_vars
  PROVE  \/ StoreLock \/ StoreStep \/ TaskStep
         \/ RunnerStep \/ Destructor \/ UNCHANGED vars
         \/ \E c \in Callers : CallerAct(c)
BY DEF Next, CallerAct

\* The type invariant.
THEOREM TypeCorrect == Spec => []TypeOK
<1>1. TypeOK /\ [Next]_vars => TypeOK'
  BY NextCases, StoreType, TaskType, RunnerType, CallerType
<1> QED BY <1>1, InitType, PTL DEF Spec

-----------------------------------------------------------------------------
(* Every execution: LoaderInv.                                              *)

\* The initial states satisfy the three invariants.
LEMMA InitInv == Init => LoaderInv /\ StageInv /\ CleanInv
<1> SUFFICES ASSUME Init PROVE LoaderInv /\ StageInv /\ CleanInv
  OBVIOUS
<1>1. TypeOK BY InitType
<1>2. RunnerOK BY DEF Init, Runner!RunnerInit, RunnerOK
<1>3. StoreInv BY DEF Init, StoreInv, Zero
<1>4. TaskInv BY DEF Init, Runner!RunnerInit, Lock!MutexInit, TaskInv
<1>5. CallerInv
  <2>1. ASSUME NEW c \in Callers
        PROVE  cpc[c] = "out" /\ lpc[c] = "out" /\ need[c] <= stored
    BY DEF Init, Runner!RunnerInit
  <2> QED BY <2>1 DEF CallerInv
<1>6. StageInv BY DEF Init, Runner!RunnerInit, StageInv, Swapping
<1>7. CleanInv BY DEF Init, CleanInv
<1> QED BY <1>1, <1>2, <1>3, <1>4, <1>5, <1>6, <1>7 DEF LoaderInv

\* What a store leaves alone, and what it may change.
LEMMA StoreFrame ==
  ASSUME LoaderInv, StoreLock \/ StoreStep
  PROVE  /\ UNCHANGED <<triggered, idle, stop, run, cpc, stage, buf, published, task, tleft, lpc,
                        clean, crossed, need, rptr, rleft, rbuf>>
         /\ nstore \in Nat /\ nstore' \in Nat /\ nstore' >= nstore
         /\ stored \in Nat /\ stored' \in Nat /\ stored' >= stored
         /\ owners # {"task"} /\ owners' # {"task"}
<1>1. UNCHANGED <<triggered, idle, stop, run, cpc, stage, buf, published, task, tleft, lpc,
                  clean, crossed, need, rptr, rleft, rbuf>>
  BY DEF StoreLock, StoreStep, StoreWord, StoreUnlock, runnerVars, taskVars, loadVars, history,
         readVars
<1>2. /\ nstore \in Nat /\ stored \in Nat /\ stored <= nstore
      /\ (sleft # {} => owners = {"store"})
  BY DEF LoaderInv, TypeOK
<1>3. nstore' >= nstore /\ stored' >= stored /\ nstore' \in Nat /\ stored' \in Nat
  BY <1>2 DEF StoreLock, StoreStep, StoreWord, StoreUnlock
<1>4. owners # {"task"} /\ owners' # {"task"}
  BY <1>2 DEF StoreLock, StoreStep, StoreWord, StoreUnlock, Lock!Acquire, Lock!Release, lockVars
<1> QED BY <1>1, <1>2, <1>3, <1>4

\* A store: the task cannot have the lock.
LEMMA StoreKeeps ==
  ASSUME LoaderInv, StoreLock \/ StoreStep
  PROVE  LoaderInv'
<1>1. TypeOK' BY StoreType DEF LoaderInv
<1>2. StoreInv'
  <2>1. CASE StoreLock
    BY <2>1 DEF StoreLock, StoreInv, Lock!Acquire
  <2>2. ASSUME NEW v \in Words, StoreWord(v) PROVE StoreInv'
    <3>1. shm \in Buffer /\ (sleft # {} => owners = {"store"}) BY DEF LoaderInv, TypeOK
    <3> QED BY <2>2, <3>1 DEF StoreWord, StoreInv, LoaderInv, lockVars, Buffer
  <2>3. CASE StoreUnlock
    BY <2>3 DEF StoreUnlock, StoreInv, LoaderInv
  <2> QED BY <2>1, <2>2, <2>3 DEF StoreStep
<1>3. RunnerOK' BY StoreFrame DEF LoaderInv, RunnerOK
<1>4. TaskInv' BY StoreFrame DEF LoaderInv, TaskInv
<1>5. CallerInv'
  <2> SUFFICES ASSUME NEW c \in Callers PROVE CallerInv!(c)'
    BY DEF CallerInv
  <2>1. need[c] \in Nat /\ need[c] <= stored BY DEF LoaderInv, CallerInv, TypeOK
  <2>2. need[c] <= stored' BY StoreFrame, <2>1
  <2> QED BY StoreFrame, <2>2 DEF LoaderInv, CallerInv
<1> QED BY <1>1, <1>2, <1>3, <1>4, <1>5 DEF LoaderInv

\* What the task leaves alone.
LEMMA TaskFrame ==
  ASSUME TaskStep
  PROVE  /\ UNCHANGED <<triggered, idle, stop, cpc, shm, nstore, stored, sleft, lpc, clean,
                        crossed, need, rptr, rleft, rbuf>>
         /\ run = "task" /\ run' \in {"task", "finish"}
         /\ run' = "task" \/ TaskReturn
<1>1. UNCHANGED <<triggered, idle, stop, cpc, shm, nstore, stored, sleft, lpc, clean, crossed,
                  need, rptr, rleft, rbuf>>
  BY DEF TaskStep, TaskLock, SwapBegin, SwapWord, SwapEnd, TaskUnlock, TaskReturn, runnerVars,
         storeVars, loadVars, history, readVars, Runner!TaskEnd
<1>2. run = "task" /\ run' \in {"task", "finish"} /\ (run' = "task" \/ TaskReturn)
  BY DEF TaskStep, TaskLock, SwapBegin, SwapWord, SwapEnd, TaskUnlock, TaskReturn, runnerVars,
         TaskAt, Runner!TaskEnd, Runner!Worker
<1> QED BY <1>1, <1>2

\* The task: lock, swap(), publish, unlock.
LEMMA TaskKeeps ==
  ASSUME LoaderInv, TaskStep
  PROVE  LoaderInv'
<1>1. TypeOK' BY TaskType DEF LoaderInv
<1>2. RunnerOK' BY TaskFrame DEF LoaderInv, RunnerOK
<1>3. StoreInv'
  <2>1. owners' # {"store"} => owners # {"store"}
    BY DEF TaskStep, TaskLock, SwapBegin, SwapWord, SwapEnd, TaskUnlock, TaskReturn, lockVars,
           Lock!Acquire, Lock!Release
  <2> QED BY TaskFrame, <2>1 DEF LoaderInv, StoreInv
<1>4. TaskInv'
  <2>1. CASE TaskLock
    BY TaskFrame, <2>1 DEF LoaderInv, TaskInv, TaskLock, TaskAt, Lock!Acquire, runnerVars
  <2>2. CASE SwapBegin
    BY TaskFrame, <2>2 DEF LoaderInv, TaskInv, SwapBegin, TaskAt, lockVars, runnerVars
  <2>3. ASSUME NEW v \in Words, SwapWord(v) PROVE TaskInv'
    <3>1. owners = {"task"} /\ task = "copy" BY <2>3 DEF LoaderInv, TaskInv, SwapWord, TaskAt
    <3>2. sleft = {} BY <3>1 DEF LoaderInv, TypeOK
    <3>3. shm[v] = nstore BY <3>2 DEF LoaderInv, StoreInv
    <3>4. buf' = [buf EXCEPT ![v] = nstore] /\ tleft' = tleft \ {v} BY <2>3, <3>3 DEF SwapWord
    <3>5. \A w \in Words : w \notin tleft' => buf'[w] = nstore
      BY <3>1, <3>4 DEF LoaderInv, TaskInv, TypeOK, Buffer
    <3> QED BY TaskFrame, <2>3, <3>5
            DEF LoaderInv, TaskInv, SwapWord, TaskAt, lockVars, runnerVars
  <2>4. CASE SwapEnd
    BY TaskFrame, <2>4 DEF LoaderInv, TaskInv, SwapEnd, TaskAt, lockVars, runnerVars
  <2>5. CASE TaskUnlock
    BY TaskFrame, <2>5 DEF LoaderInv, TaskInv, TaskUnlock, TaskAt, Lock!Release, runnerVars
  <2>6. CASE TaskReturn
    BY TaskFrame, <2>6 DEF LoaderInv, TaskInv, TaskReturn, TaskAt, lockVars, Runner!TaskEnd,
                           Runner!Worker
  <2> QED BY <2>1, <2>2, <2>3, <2>4, <2>5, <2>6 DEF TaskStep
<1>5. CallerInv' BY TaskFrame DEF LoaderInv, CallerInv
<1> QED BY <1>1, <1>2, <1>3, <1>4, <1>5 DEF LoaderInv

\* What the runner's own steps and the destructor leave alone.
LEMMA RunnerFrame ==
  ASSUME RunnerStep \/ Destructor
  PROVE  /\ UNCHANGED <<owners, shm, nstore, stored, sleft, stage, buf, published, task, tleft,
                        cpc, lpc, clean, need, rptr, rleft, rbuf>>
         /\ stop => stop'
         /\ stop' => stop \/ Destructor
<1>1. UNCHANGED <<owners, shm, nstore, stored, sleft, stage, buf, published, task, tleft, lpc,
                  clean, need, rptr, rleft, rbuf>>
  BY DEF RunnerStep, Destructor, lockVars, storeVars, taskVars, loadVars, history, readVars
<1>2. UNCHANGED cpc
  BY DEF RunnerStep, Destructor, Runner!WorkerStep, Runner!Register, Runner!Loop, Runner!Awake,
         Runner!Check, Runner!Clear, Runner!Finish, Runner!Exit, Runner!StopCallback,
         Runner!RequestStop
<1>3. (stop => stop') /\ (stop' => stop \/ Destructor)
  BY DEF RunnerStep, Destructor, Runner!WorkerStep, Runner!Register, Runner!Loop, Runner!Awake,
         Runner!Check, Runner!Clear, Runner!Finish, Runner!Exit, Runner!StopCallback,
         Runner!RequestStop
<1> QED BY <1>1, <1>2, <1>3

\* The runner's own steps and the destructor.
LEMMA RunnerKeeps ==
  ASSUME LoaderInv, RunnerStep \/ Destructor
  PROVE  LoaderInv'
<1>1. TypeOK' BY RunnerType DEF LoaderInv
<1>2. RunnerOK'
  BY DEF LoaderInv, RunnerOK, RunnerStep, Destructor, Runner!WorkerStep, Runner!Register,
         Runner!Loop, Runner!Awake, Runner!Check, Runner!Clear, Runner!Finish, Runner!Exit,
         Runner!StopCallback, Runner!RequestStop, Runner!Worker
<1>3. StoreInv' BY RunnerFrame DEF LoaderInv, StoreInv
<1>4. TaskInv'
  <2>1. run = "task" => run' = "task"
    BY DEF RunnerStep, Destructor, Runner!WorkerStep, Runner!Register, Runner!Loop,
           Runner!Awake, Runner!Check, Runner!Clear, Runner!Finish, Runner!Exit,
           Runner!StopCallback, Runner!RequestStop, Runner!Worker
  <2> QED BY RunnerFrame, <2>1 DEF LoaderInv, TaskInv
<1>5. CallerInv'
  <2> SUFFICES ASSUME NEW c \in Callers PROVE CallerInv!(c)'
    BY DEF CallerInv
  <2>1. lpc[c] \in {"staged", "read"} => ~stop'
    BY RunnerFrame DEF LoaderInv, CallerInv, Destructor
  <2> QED BY RunnerFrame, <2>1 DEF LoaderInv, CallerInv
<1> QED BY <1>1, <1>2, <1>3, <1>4, <1>5 DEF LoaderInv

\* What a caller's step leaves alone, and that it touches only its own entries.
LEMMA CallerFrame ==
  ASSUME LoaderInv, NEW c \in Callers, CallerAct(c)
  PROVE  /\ UNCHANGED <<stop, run, owners, shm, nstore, stored, sleft, buf, published, task,
                        tleft>>
         /\ task # "abort"
         /\ \A d \in Callers : d # c =>
              /\ lpc'[d] = lpc[d] /\ cpc'[d] = cpc[d] /\ need'[d] = need[d]
              /\ rptr'[d] = rptr[d] /\ rleft'[d] = rleft[d] /\ rbuf'[d] = rbuf[d]
<1>1. UNCHANGED <<stop, run, owners, shm, nstore, stored, sleft, buf, published, task, tleft>>
  BY DEF CallerAct, CallStep, LoadTrigger, LoadReturn, WaitDone, LoadStage, WaitCall,
         Dereference, Drop, ReadWord, runnerVars, lockVars, storeVars, taskVars,
         Runner!TriggerIdle, Runner!TriggerSet, Runner!Wait, Runner!WaitReturn
<1>2. task # "abort"
  BY DEF CallerAct, CallStep, LoadTrigger, LoadReturn, WaitDone, LoadStage, WaitCall,
         Dereference, Drop, ReadWord, ReadDone, At
<1>3. /\ lpc \in [Callers -> {"out", "staged", "snap", "ready", "read"}]
      /\ cpc \in [Callers -> {"out", "set", "waiting"}]
      /\ need \in [Callers -> 0 .. MaxStores] /\ rptr \in [Callers -> {"shm", "buf"}]
      /\ rleft \in [Callers -> SUBSET Words] /\ rbuf \in [Callers -> Buffer]
  BY DEF LoaderInv, TypeOK, RunnerOK
<1> SUFFICES ASSUME NEW d \in Callers, d # c
             PROVE  /\ lpc'[d] = lpc[d] /\ cpc'[d] = cpc[d] /\ need'[d] = need[d]
                    /\ rptr'[d] = rptr[d] /\ rleft'[d] = rleft[d] /\ rbuf'[d] = rbuf[d]
  BY <1>1, <1>2
<1>4. lpc'[d] = lpc[d] /\ cpc'[d] = cpc[d]
  BY <1>3 DEF CallerAct, CallStep, LoadTrigger, LoadReturn, WaitDone, LoadStage, WaitCall,
              Dereference, Drop, ReadWord, Move, runnerVars, loadVars, Runner!TriggerIdle,
              Runner!TriggerSet, Runner!Wait, Runner!WaitReturn
<1>5. need'[d] = need[d] /\ rptr'[d] = rptr[d] /\ rleft'[d] = rleft[d]
  BY <1>3 DEF CallerAct, CallStep, LoadTrigger, LoadReturn, WaitDone, LoadStage, WaitCall,
              Dereference, Drop, ReadWord, loadVars, readVars
<1>6. rbuf'[d] = rbuf[d]
  BY <1>3 DEF CallerAct, CallStep, LoadTrigger, LoadReturn, WaitDone, LoadStage, WaitCall,
              Dereference, Drop, ReadWord, loadVars, readVars
<1> QED BY <1>4, <1>5, <1>6

\* load(), wait() and reads of a snapshot.
LEMMA CallerKeeps ==
  ASSUME LoaderInv, NEW c \in Callers, CallerAct(c)
  PROVE  LoaderInv'
<1>1. TypeOK' BY CallerType DEF LoaderInv
<1>2. /\ lpc \in [Callers -> {"out", "staged", "snap", "ready", "read"}]
      /\ cpc \in [Callers -> {"out", "set", "waiting"}]
      /\ need \in [Callers -> 0 .. MaxStores] /\ stored \in Nat
  BY DEF LoaderInv, TypeOK, RunnerOK
<1>3. RunnerOK'
  <2>1. triggered' \in {triggered, 1} /\ idle' \in {idle, 0}
    BY DEF CallerAct, CallStep, LoadTrigger, LoadReturn, WaitDone, LoadStage, WaitCall,
           Dereference, Drop, ReadWord, runnerVars, Runner!TriggerIdle, Runner!TriggerSet,
           Runner!Wait, Runner!WaitReturn
  <2>2. cpc' \in [Callers -> {"out", "set", "waiting"}]
    BY <1>2 DEF CallerAct, CallStep, LoadTrigger, LoadReturn, WaitDone, LoadStage, WaitCall,
                Dereference, Drop, ReadWord, runnerVars, Runner!TriggerIdle,
                Runner!TriggerSet, Runner!Wait, Runner!WaitReturn
  <2> QED BY CallerFrame, <2>1, <2>2 DEF LoaderInv, RunnerOK
<1>4. StoreInv' /\ TaskInv' BY CallerFrame DEF LoaderInv, StoreInv, TaskInv
<1>5. CallerInv!(c)'
  <2>1. CallerInv!(c) BY DEF LoaderInv, CallerInv
  <2>2. CASE LoadStage(c)
    BY <1>2, <2>2 DEF LoadStage, Move, runnerVars, storeVars
  <2>3. CASE LoadTrigger(c)
    BY <1>2, <2>1, <2>3, CallerFrame DEF LoadTrigger, At, loadVars, storeVars, Runner!TriggerIdle
  <2>4. CASE LoadReturn(c)
    BY <1>2, <2>1, <2>4, CallerFrame DEF LoadReturn, Move, Runner!TriggerSet
  <2>5. CASE WaitCall(c)
    BY <1>2, <2>1, <2>5, CallerFrame DEF WaitCall, At, loadVars, Runner!Wait
  <2>6. CASE WaitDone(c)
    BY <1>2, <2>1, <2>6, CallerFrame DEF WaitDone, Move, Runner!WaitReturn
  <2>7. CASE Dereference(c)
    BY <1>2, <2>1, <2>7, CallerFrame DEF Dereference, At, Move, runnerVars
  <2>8. CASE Drop(c)
    <3>1. cpc[c] = "out" BY <1>2, <2>1, <2>8 DEF Drop, ReadDone, At
    <3> QED BY <1>2, <2>8, <3>1, CallerFrame DEF Drop, Move, runnerVars
  <2>9. CASE \E w \in Words : ReadWord(c, w)
    BY <2>1, <2>9, CallerFrame DEF ReadWord, runnerVars
  <2> QED BY <2>2, <2>3, <2>4, <2>5, <2>6, <2>7, <2>8, <2>9 DEF CallerAct, CallStep
<1>6. CallerInv' BY CallerFrame, <1>5 DEF LoaderInv, CallerInv
<1> QED BY <1>1, <1>3, <1>4, <1>6 DEF LoaderInv

\* Every reachable state satisfies LoaderInv.
THEOREM Invariance == Spec => []LoaderInv
<1>1. ASSUME LoaderInv, UNCHANGED vars PROVE LoaderInv'
  BY <1>1 DEF vars, runnerVars, lockVars, storeVars, taskVars, loadVars, history, readVars,
              LoaderInv, TypeOK, RunnerOK, StoreInv, TaskInv, CallerInv
<1>2. LoaderInv /\ [Next]_vars => LoaderInv'
  BY <1>1, NextCases, StoreKeeps, TaskKeeps, RunnerKeeps, CallerKeeps
<1>3. Init => LoaderInv BY InitInv
<1> QED BY <1>2, <1>3, PTL DEF Spec

-----------------------------------------------------------------------------
(* No load() has overlapped a swap: StageInv.                               *)

\* The task uses the stage up, and nobody is between stage() and trigger().
LEMMA TaskKeepsStage ==
  ASSUME LoaderInv, StageInv, TaskStep
  PROVE  StageInv'
<1> SUFFICES ASSUME ~crossed PROVE StageInv'
  BY TaskFrame DEF StageInv
<1>1. StageInv!2 BY DEF StageInv
<1>2. CASE TaskLock \/ SwapBegin \/ \E w \in Words : SwapWord(w)
  <2>1. Swapping /\ Swapping' /\ task' # "abort" /\ UNCHANGED stage
    BY <1>1, <1>2, TaskFrame
    DEF TaskLock, SwapBegin, SwapWord, TaskAt, Swapping, runnerVars
  <2> QED BY <1>1, <2>1, TaskFrame DEF StageInv, Swapping
<1>3. CASE SwapEnd
  <2>1. Swapping /\ ~Swapping' /\ task' # "abort" /\ run' = "task"
    BY <1>3 DEF SwapEnd, TaskAt, Swapping, runnerVars
  <2> QED BY <1>1, <2>1, TaskFrame DEF StageInv
<1>4. CASE TaskUnlock \/ TaskReturn
  <2>1. ~Swapping /\ ~Swapping' /\ task' # "abort" /\ UNCHANGED stage
    BY <1>4, TaskFrame DEF TaskUnlock, TaskReturn, TaskAt, Swapping, Runner!TaskEnd, Runner!Worker
  <2> QED BY <1>1, <2>1, TaskFrame DEF StageInv
<1> QED BY <1>2, <1>3, <1>4 DEF TaskStep

\* The worker starts a task only for a stage.
LEMMA RunnerKeepsStage ==
  ASSUME LoaderInv, StageInv, RunnerStep \/ Destructor
  PROVE  StageInv'
<1>1. crossed => crossed' BY DEF RunnerStep, Destructor, loadVars, history
<1> SUFFICES ASSUME ~crossed, ~crossed' PROVE StageInv'
  BY <1>1 DEF StageInv
<1>2. StageInv!2 BY DEF StageInv
<1>3. Swapping' => \A c \in Callers : lpc[c] # "staged"
  BY <1>2, RunnerFrame
  DEF RunnerStep, Destructor, loadVars, history, Swapping, Runner!RequestStop
<1>4. CASE Runner!Register \/ Runner!Loop \/ Runner!StopCallback \/ Runner!RequestStop
  BY <1>2, <1>3, <1>4, RunnerFrame
  DEF StageInv, Swapping, Runner!Register, Runner!Loop, Runner!StopCallback,
      Runner!RequestStop, Runner!Worker
<1>5. CASE Runner!Awake
  BY <1>2, <1>3, <1>5, RunnerFrame
  DEF StageInv, Swapping, LoaderInv, RunnerOK, Runner!Awake, Runner!Worker
<1>6. CASE Runner!Check
  BY <1>2, <1>3, <1>6, RunnerFrame DEF StageInv, Swapping, Runner!Check, Runner!Worker
<1>7. CASE Runner!Clear
  BY <1>2, <1>3, <1>7, RunnerFrame DEF StageInv, Swapping, Runner!Clear, Runner!Worker
<1>8. CASE Runner!Finish \/ Runner!Exit
  BY <1>2, <1>3, <1>8, RunnerFrame
  DEF StageInv, Swapping, Runner!Finish, Runner!Exit, Runner!Worker
<1> QED BY <1>4, <1>5, <1>6, <1>7, <1>8 DEF RunnerStep, Destructor, Runner!WorkerStep

\* load() stages before it triggers.
LEMMA CallerKeepsStage ==
  ASSUME LoaderInv, StageInv, NEW c \in Callers, CallerAct(c)
  PROVE  StageInv'
<1>0. UNCHANGED <<stop, run, task>> /\ Swapping' = Swapping BY CallerFrame DEF Swapping
<1>1. lpc \in [Callers -> {"out", "staged", "snap", "ready", "read"}] BY DEF LoaderInv, TypeOK
<1>2. CASE LoadStage(c)
  <2>1. stage' /\ (~crossed' => ~crossed /\ ~Swapping) /\ UNCHANGED triggered
    BY <1>2 DEF LoadStage, runnerVars
  <2> QED BY <1>0, <2>1, CallerFrame DEF StageInv
<1>3. CASE LoadReturn(c)
  <2>1. UNCHANGED <<stage, crossed>> /\ lpc[c] = "staged" /\ lpc' = [lpc EXCEPT ![c] = "snap"]
    BY <1>3 DEF LoadReturn, At, Move, taskVars, history
  <2>2. \A d \in Callers : lpc'[d] = "staged" => lpc[d] = "staged" BY <1>1, <2>1
  <2> QED BY <1>0, <2>1, <2>2 DEF StageInv
<1>4. CASE ~LoadStage(c) /\ ~LoadReturn(c)
  <2>1. UNCHANGED <<triggered, stage, crossed>>
    BY <1>4 DEF CallerAct, CallStep, LoadTrigger, WaitDone, WaitCall, Dereference, Drop,
                ReadWord, runnerVars, taskVars, loadVars, history, Runner!TriggerIdle,
                Runner!Wait, Runner!WaitReturn
  <2>2. \A d \in Callers : lpc'[d] = "staged" => lpc[d] = "staged"
    BY <1>1, <1>4 DEF CallerAct, CallStep, LoadTrigger, WaitDone, WaitCall, Dereference, Drop,
                      ReadWord, Move, loadVars
  <2> QED BY <1>0, <2>1, <2>2 DEF StageInv
<1> QED BY <1>2, <1>3, <1>4

\* swap() finds a staged buffer unless a load() has overlapped a swap.
THEOREM StageLoss == Spec => []StageLostOnlyByOverlap
<1>1. ASSUME LoaderInv, StageInv, StoreLock \/ StoreStep PROVE StageInv'
  BY <1>1, StoreFrame DEF StageInv, Swapping
<1>2. ASSUME StageInv, UNCHANGED vars PROVE StageInv'
  BY <1>2 DEF vars, runnerVars, taskVars, loadVars, history, StageInv, Swapping
<1>3. LoaderInv /\ StageInv /\ [Next]_vars => StageInv'
  BY <1>1, <1>2, NextCases, TaskKeepsStage, RunnerKeepsStage, CallerKeepsStage
<1>4. Init => StageInv BY InitInv
<1>5. StageInv => StageLostOnlyByOverlap BY DEF StageInv, StageLostOnlyByOverlap
<1> QED BY <1>3, <1>4, <1>5, Invariance, PTL DEF Spec

-----------------------------------------------------------------------------
(* Clean loads: CleanInv.                                                   *)

\* What has been published for c stays, whatever is stored.
LEMMA FullStays ==
  ASSUME LoaderInv, NEW c \in Callers, Full(c), UNCHANGED <<buf, published>>,
         need'[c] = need[c], nstore' \in Nat, nstore' >= nstore
  PROVE  Full(c)'
<1>1. PICK k \in need[c] .. nstore : \A w \in Words : buf[w] = k BY DEF Full
<1>2. need[c] \in Nat /\ nstore \in Nat BY DEF LoaderInv, TypeOK
<1>3. k \in need'[c] .. nstore' BY <1>1, <1>2
<1> QED BY <1>1, <1>3 DEF Full

\* Stores do not touch the private buffer.
LEMMA StoreKeepsClean ==
  ASSUME LoaderInv, CleanInv, StoreLock \/ StoreStep
  PROVE  CleanInv'
<1> SUFFICES ASSUME ~stop', NEW c \in clean' PROVE CleanOK(c)'
  BY DEF CleanInv
<1>1. c \in Callers /\ CleanOK(c) BY StoreFrame DEF CleanInv, LoaderInv, TypeOK
<1>2. Full(c) => Full(c)' BY <1>1, StoreFrame, FullStays
<1> QED BY <1>1, <1>2, StoreFrame DEF CleanOK, Owed, Served, AtRest, Swapping

\* The swap that a clean load() asked for publishes one store's data.
LEMMA TaskKeepsClean ==
  ASSUME LoaderInv, CleanInv, TaskStep
  PROVE  CleanInv'
<1> SUFFICES ASSUME ~stop', NEW c \in clean' PROVE CleanOK(c)'
  BY DEF CleanInv
<1>1. c \in Callers /\ CleanOK(c) BY TaskFrame DEF CleanInv, LoaderInv, TypeOK
<1>2. lpc[c] # "staged" BY <1>1, TaskFrame DEF CleanOK, AtRest
<1>3. CASE Swapping
  <2>1. lpc[c] = "snap" /\ stage /\ idle = 0 /\ triggered = 0
    BY <1>1, <1>2, <1>3 DEF CleanOK, Owed, Served, Swapping, LoaderInv, TypeOK
  <2>2. CASE TaskLock \/ SwapBegin \/ \E w \in Words : SwapWord(w)
    <3>1. Swapping' /\ UNCHANGED stage
      BY <2>1, <2>2 DEF TaskLock, SwapBegin, SwapWord, TaskAt, Swapping, runnerVars
    <3> QED BY <1>1, <2>1, <3>1, TaskFrame DEF CleanOK, Owed
  <2>3. CASE SwapEnd
    <3>1. task = "copy" /\ tleft = {} /\ owners = {"task"}
      BY <2>3 DEF SwapEnd, TaskAt, LoaderInv, TaskInv
    <3>2. \A w \in Words : buf[w] = nstore BY <3>1 DEF LoaderInv, TaskInv
    <3>3. need[c] \in Nat /\ need[c] <= nstore /\ nstore \in Nat
      BY <1>1, <3>1 DEF LoaderInv, CallerInv, StoreInv, TypeOK
    <3>4. nstore \in need[c] .. nstore BY <3>3
    <3>5. Full(c)' BY <2>3, <3>2, <3>4, TaskFrame DEF SwapEnd, Full
    <3>6. ~Swapping' /\ run' = "task" BY <2>3 DEF SwapEnd, TaskAt, Swapping, runnerVars
    <3> QED BY <1>1, <2>1, <3>5, <3>6, TaskFrame DEF CleanOK, Served
  <2> QED BY <1>3, <2>2, <2>3 DEF TaskStep, TaskUnlock, TaskReturn, TaskAt, Swapping
<1>4. CASE ~Swapping
  <2>1. Served(c) /\ lpc[c] \in {"snap", "ready", "read"}
    BY <1>1, <1>2, <1>4, TaskFrame DEF CleanOK, Owed, LoaderInv, TypeOK
  <2>2. UNCHANGED <<buf, published>> /\ ~Swapping'
    <3>1. TaskUnlock \/ TaskReturn
      BY <1>4 DEF TaskStep, TaskLock, SwapBegin, SwapWord, SwapEnd, TaskAt, Swapping
    <3> QED BY <3>1 DEF TaskUnlock, TaskReturn, TaskAt, Swapping, Runner!TaskEnd, Runner!Worker
  <2>3. Full(c)' BY <2>1, <2>2, TaskFrame DEF Served, Full
  <2>4. Served(c)' BY <2>1, <2>2, <2>3, TaskFrame DEF Served
  <2> QED BY <1>1, <1>2, <2>1, <2>2, <2>4, TaskFrame DEF CleanOK
<1> QED BY <1>3, <1>4

\* The worker does not set idle_ before the swap, nor swap again after it.
LEMMA RunnerKeepsClean ==
  ASSUME LoaderInv, CleanInv, RunnerStep \/ Destructor
  PROVE  CleanInv'
<1> SUFFICES ASSUME ~stop', NEW c \in clean' PROVE CleanOK(c)'
  BY DEF CleanInv
<1>1. ~stop /\ c \in Callers /\ CleanOK(c) BY RunnerFrame DEF CleanInv, LoaderInv, TypeOK
<1>2. RunnerStep BY DEF Destructor, Runner!RequestStop
<1>3. Full(c)' = Full(c) BY RunnerFrame DEF Full
<1>4. AtRest => AtRest' /\ UNCHANGED idle
  BY <1>1, <1>2 DEF AtRest, RunnerStep, Runner!WorkerStep, Runner!Register, Runner!Loop,
                    Runner!Awake, Runner!Check, Runner!Clear, Runner!Finish, Runner!Exit,
                    Runner!StopCallback, Runner!Worker
<1>5. Owed => Owed'
  BY <1>1, <1>2, RunnerFrame
  DEF LoaderInv, TaskInv, Owed, Swapping, RunnerStep, Runner!WorkerStep, Runner!Register,
      Runner!Loop, Runner!Awake, Runner!Check, Runner!Clear, Runner!Finish, Runner!Exit,
      Runner!StopCallback, Runner!Worker
<1>6. Served(c) => Served(c)'
  BY <1>1, <1>2, <1>3, RunnerFrame
  DEF Served, Swapping, RunnerStep, Runner!WorkerStep, Runner!Register, Runner!Loop,
      Runner!Awake, Runner!Check, Runner!Clear, Runner!Finish, Runner!Exit,
      Runner!StopCallback, Runner!Worker
<1> QED BY <1>1, <1>4, <1>5, <1>6, RunnerFrame DEF CleanOK

\* A step of another caller than the clean one, which is not inside load().
LEMMA OtherKeepsClean ==
  ASSUME LoaderInv, NEW c \in Callers, CleanOK(c), NEW d \in Callers, d # c,
         CallerAct(d), ~LoadStage(d)
  PROVE  CleanOK(c)'
<1>1. lpc[d] # "staged" BY DEF CleanOK
<1>2. UNCHANGED <<triggered, idle, stage>>
  BY <1>1 DEF CallerAct, CallStep, LoadTrigger, LoadReturn, WaitDone, WaitCall, Dereference,
              Drop, ReadWord, At, runnerVars, taskVars, Runner!Wait, Runner!WaitReturn
<1>3. lpc \in [Callers -> {"out", "staged", "snap", "ready", "read"}] BY DEF LoaderInv, TypeOK
<1>4. lpc'[d] # "staged"
  BY <1>1, <1>3 DEF CallerAct, CallStep, LoadTrigger, LoadReturn, WaitDone, WaitCall,
                    Dereference, Drop, ReadWord, At, Move, loadVars
<1>5. \A e \in Callers : lpc'[e] = "staged" => e = c BY <1>4, CallerFrame DEF CleanOK
<1>6. Full(c)' = Full(c) BY CallerFrame DEF Full
<1> QED BY <1>2, <1>5, <1>6, CallerFrame DEF CleanOK, Owed, Served, AtRest, Swapping

\* A step of the clean caller itself.
LEMMA OwnKeepsClean ==
  ASSUME LoaderInv, ~stop, NEW c \in clean, CleanOK(c), CallerAct(c), ~LoadStage(c), c \in clean'
  PROVE  CleanOK(c)'
<1>0. c \in Callers BY DEF LoaderInv, TypeOK
<1>1. /\ lpc \in [Callers -> {"out", "staged", "snap", "ready", "read"}]
      /\ cpc \in [Callers -> {"out", "set", "waiting"}]
      /\ rptr \in [Callers -> {"shm", "buf"}] /\ rleft \in [Callers -> SUBSET Words]
      /\ rbuf \in [Callers -> Buffer]
  BY DEF LoaderInv, TypeOK, RunnerOK
<1>2. UNCHANGED stage
  BY DEF CallerAct, CallStep, LoadTrigger, LoadReturn, WaitDone, WaitCall, Dereference, Drop,
         ReadWord, taskVars
<1>3. UNCHANGED need /\ Swapping' = Swapping /\ Full(c)' = Full(c)
  <2>1. ~Drop(c) BY DEF Drop
  <2>2. UNCHANGED need
    BY <2>1 DEF CallerAct, CallStep, LoadTrigger, LoadReturn, WaitDone, WaitCall, Dereference,
                ReadWord, loadVars
  <2> QED BY <1>0, <2>2, CallerFrame DEF Full, Swapping
<1>4. \A d \in Callers : lpc'[d] = "staged" => d = c BY <1>0, CallerFrame DEF CleanOK
<1>5. CASE LoadTrigger(c)
  <2>1. /\ lpc' = lpc /\ lpc[c] = "staged" /\ idle' = 0 /\ triggered' = triggered
    BY <1>5 DEF LoadTrigger, At, loadVars, Runner!TriggerIdle
  <2> QED BY <1>0, <1>2, <2>1, CallerFrame DEF CleanOK, AtRest
<1>6. CASE LoadReturn(c)
  <2>1. /\ lpc[c] = "staged" /\ cpc[c] = "set" /\ idle' = idle /\ lpc'[c] = "snap"
    BY <1>0, <1>1, <1>6 DEF LoadReturn, At, Move, Runner!TriggerSet
  <2>2. Owed' BY <1>0, <1>2, <2>1, CallerFrame DEF CleanOK, AtRest, Owed
  <2> QED BY <1>4, <2>1, <2>2 DEF CleanOK
<1>7. CASE WaitCall(c)
  <2>1. lpc[c] = "snap" /\ lpc' = lpc /\ UNCHANGED <<triggered, idle>>
    BY <1>7 DEF WaitCall, At, loadVars, Runner!Wait
  <2> QED BY <1>0, <1>2, <1>3, <2>1, CallerFrame DEF CleanOK, Owed, Served
<1>8. CASE WaitDone(c)
  <2>1. lpc[c] = "snap" /\ lpc'[c] = "ready" /\ idle # 0 /\ UNCHANGED <<triggered, idle>>
    BY <1>0, <1>1, <1>8 DEF WaitDone, At, Move, Runner!WaitReturn
  <2>2. Served(c) BY <2>1 DEF CleanOK, Owed
  <2>3. Served(c)' BY <1>0, <1>3, <2>1, <2>2, CallerFrame DEF Served
  <2> QED BY <1>4, <2>1, <2>3 DEF CleanOK
<1>9. CASE Dereference(c)
  <2>1. lpc[c] = "ready" BY <1>9 DEF Dereference, At
  <2>2. /\ lpc'[c] = "read" /\ rptr'[c] = published /\ rleft'[c] = Words
        /\ UNCHANGED triggered
    BY <1>0, <1>1, <1>9 DEF Dereference, Move, runnerVars
  <2>3. Served(c) /\ published = "buf" BY <2>1 DEF CleanOK, Served, Full
  <2>4. Served(c)' BY <1>0, <1>3, <2>2, <2>3, CallerFrame DEF Served
  <2> QED BY <1>4, <2>2, <2>3, <2>4 DEF CleanOK
<1>10. ASSUME NEW v \in Words, ReadWord(c, v) PROVE CleanOK(c)'
  <2>1. lpc[c] = "read" /\ lpc' = lpc /\ UNCHANGED <<triggered, rptr>>
    BY <1>10 DEF ReadWord, At, runnerVars
  <2>2. Served(c) /\ rptr[c] = "buf" /\ \A w \in Words : w \notin rleft[c] => rbuf[c][w] = buf[w]
    BY <2>1 DEF CleanOK
  <2>3. Served(c)' BY <1>0, <1>3, <2>1, <2>2, CallerFrame DEF Served
  <2>4. /\ rleft'[c] = rleft[c] \ {v}
        /\ \A w \in Words : rbuf'[c][w] = (IF w = v THEN buf[v] ELSE rbuf[c][w])
    BY <1>0, <1>1, <1>10, <2>2 DEF ReadWord, Buffer
  <2> QED BY <1>0, <1>4, <2>1, <2>2, <2>3, <2>4, CallerFrame DEF CleanOK
<1>11. ~Drop(c) BY DEF Drop
<1> QED BY <1>5, <1>6, <1>7, <1>8, <1>9, <1>10, <1>11 DEF CallerAct, CallStep

\* A load() is clean only if the worker is at rest and nobody else is inside
\* load(); it ends what was clean before.
LEMMA CallerKeepsClean ==
  ASSUME LoaderInv, CleanInv, NEW d \in Callers, CallerAct(d)
  PROVE  CleanInv'
<1> SUFFICES ASSUME ~stop', NEW c \in clean' PROVE CleanOK(c)'
  BY DEF CleanInv
<1>1. ~stop BY CallerFrame
<1>2. CASE LoadStage(d)
  <2>1. /\ c = d /\ AtRest /\ \A e \in Callers : lpc[e] # "staged"
        /\ stage' /\ cpc[c] = "out" /\ lpc' = [lpc EXCEPT ![c] = "staged"]
        /\ UNCHANGED <<triggered, run, cpc>>
    BY <1>2 DEF LoadStage, Move, runnerVars
  <2>2. lpc'[c] = "staged" BY <2>1 DEF LoaderInv, TypeOK
  <2>3. \A e \in Callers : lpc'[e] = "staged" => e = c BY <2>1, CallerFrame
  <2> QED BY <2>1, <2>2, <2>3 DEF CleanOK, AtRest
<1>3. CASE ~LoadStage(d)
  <2>1. c \in clean
    BY <1>3 DEF CallerAct, CallStep, LoadTrigger, LoadReturn, WaitDone, WaitCall, Dereference,
                Drop, ReadWord, loadVars, history
  <2>2. c \in Callers /\ CleanOK(c) BY <1>1, <2>1 DEF CleanInv, LoaderInv, TypeOK
  <2> QED BY <1>1, <1>3, <2>1, <2>2, OwnKeepsClean, OtherKeepsClean
<1> QED BY <1>2, <1>3

\* load(), wait(), read: after a clean load() the caller reads one store's data,
\* whole and not older than the last store completed before load(), for any
\* number of callers, words, loads and stores.
THEOREM Snapshots == Spec => []FreshAndConsistent
<1>1. ASSUME LoaderInv, CleanInv, UNCHANGED vars PROVE CleanInv'
  BY <1>1 DEF vars, runnerVars, storeVars, taskVars, loadVars, history, readVars, CleanInv,
              CleanOK, Owed, Served, Full, AtRest, Swapping
<1>2. LoaderInv /\ CleanInv /\ [Next]_vars => CleanInv'
  BY <1>1, NextCases, StoreKeepsClean, TaskKeepsClean, RunnerKeepsClean, CallerKeepsClean
<1>3. Init => CleanInv BY InitInv
<1>4. LoaderInv /\ CleanInv => FreshAndConsistent
  <2> SUFFICES ASSUME LoaderInv, CleanInv, NEW c \in clean, ReadDone(c)
               PROVE  \E k \in need[c] .. nstore : rbuf[c] = [w \in Words |-> k]
    BY DEF FreshAndConsistent
  <2>1. lpc[c] = "read" /\ rleft[c] = {} /\ c \in Callers
    BY DEF ReadDone, At, LoaderInv, TypeOK
  <2>2. ~stop BY <2>1 DEF LoaderInv, CallerInv
  <2>3. Full(c) /\ \A w \in Words : rbuf[c][w] = buf[w]
    BY <2>1, <2>2 DEF CleanInv, CleanOK, Served
  <2>4. PICK k \in need[c] .. nstore : \A w \in Words : buf[w] = k BY <2>3 DEF Full
  <2>5. rbuf[c] \in [Words -> 0 .. MaxStores] BY <2>1 DEF LoaderInv, TypeOK, Buffer
  <2>6. rbuf[c] = [w \in Words |-> k] BY <2>3, <2>4, <2>5
  <2> QED BY <2>6
<1> QED BY <1>2, <1>3, <1>4, Invariance, PTL DEF Spec
=============================================================================
