------------------------------ MODULE SwapRunner ------------------------------
(***************************************************************************)
(* The background worker of include/safe-shm/swap_runner.hpp: a thread that  *)
(* runs a task whenever trigger() is called, and wait(), which blocks until  *)
(* the worker is idle.  The two sides share the atomics triggered_ and       *)
(* idle_; std::atomic::wait(0) is a step that is enabled while the value is  *)
(* not 0.  What the task does is left open: DoubleBuffer, which composes this *)
(* module with the only task the library gives it, has the specification and *)
(* the properties.                                                          *)
(***************************************************************************)
EXTENDS Naturals

CONSTANT Callers   \* threads that use the runner

VARIABLES
  triggered,  \* triggered_
  idle,       \* idle_
  stop,       \* stop_requested()
  armed,      \* the stop_callback is registered
  run,        \* the worker: "start", "loop", "wait", "check", "clear",
              \* "task", "finish", "exit", "done"
  cpc,        \* a caller: "out", "set" (between the two stores of trigger())
              \* or "waiting" (in wait())
  phase       \* history, of a caller's latest trigger: "pending" until a
              \* task starts after it, otherwise "none"

runnerVars == <<triggered, idle, stop, armed, run, cpc, phase>>

RunnerInit ==
  /\ triggered = 0 /\ idle = 1
  /\ stop = FALSE /\ armed = FALSE
  /\ run = "start"
  /\ cpc = [c \in Callers |-> "out"]
  /\ phase = [c \in Callers |-> "none"]

-----------------------------------------------------------------------------
(* Callers.                                                                 *)

\* Calls start before the destructor does.
Usable(c) == ~stop /\ cpc[c] = "out"

\* Mutant: trigger() does not reset idle_.
TriggerKeepsIdle(c) ==
  /\ Usable(c)
  /\ cpc' = [cpc EXCEPT ![c] = "set"]
  /\ UNCHANGED <<triggered, idle, stop, armed, run, phase>>

\* trigger(): idle_ = 0 ...
TriggerIdle(c) ==
  /\ Usable(c)
  /\ idle' = 0
  /\ cpc' = [cpc EXCEPT ![c] = "set"]
  /\ UNCHANGED <<triggered, stop, armed, run, phase>>

\* ... then triggered_ = 1 and notify_one().
TriggerSet(c) ==
  /\ cpc[c] = "set"
  /\ triggered' = 1
  /\ cpc' = [cpc EXCEPT ![c] = "out"]
  /\ phase' = [phase EXCEPT ![c] = "pending"]
  /\ UNCHANGED <<idle, stop, armed, run>>

Wait(c) ==
  /\ Usable(c)
  /\ cpc' = [cpc EXCEPT ![c] = "waiting"]
  /\ UNCHANGED <<triggered, idle, stop, armed, run, phase>>

WaitReturn(c) ==
  /\ cpc[c] = "waiting" /\ idle # 0
  /\ cpc' = [cpc EXCEPT ![c] = "out"]
  /\ UNCHANGED <<triggered, idle, stop, armed, run, phase>>

\* The destructor of the jthread: request_stop() runs the stop_callback, if it
\* is registered, on the calling thread; then join().  Other threads may be
\* inside wait() then; idle_ is taken to stay readable until they have left.
RequestStop ==
  /\ ~stop
  /\ stop' = TRUE
  /\ UNCHANGED <<triggered, idle, armed, run, cpc, phase>>

\* Mutant: there is no stop_callback.
StopCallbackMissing ==
  /\ stop /\ armed
  /\ armed' = FALSE
  /\ UNCHANGED <<triggered, idle, stop, run, cpc, phase>>

StopCallback ==
  /\ stop /\ armed
  /\ triggered' = 1 /\ armed' = FALSE
  /\ UNCHANGED <<idle, stop, run, cpc, phase>>

-----------------------------------------------------------------------------
(* The worker: run().                                                       *)

Worker(from, to) == run = from /\ run' = to

\* The constructor of the stop_callback; it calls back at once if stop has
\* been requested already.
Register ==
  /\ Worker("start", "loop")
  /\ armed' = ~stop
  /\ triggered' = IF stop THEN 1 ELSE triggered
  /\ UNCHANGED <<idle, stop, cpc, phase>>

Loop ==
  /\ Worker("loop", IF stop THEN "exit" ELSE "wait")
  /\ UNCHANGED <<triggered, idle, stop, armed, cpc, phase>>

\* triggered_.wait(0) returns.
Awake ==
  /\ triggered # 0
  /\ Worker("wait", "check")
  /\ UNCHANGED <<triggered, idle, stop, armed, cpc, phase>>

Check ==
  /\ Worker("check", IF stop THEN "exit" ELSE "clear")
  /\ UNCHANGED <<triggered, idle, stop, armed, cpc, phase>>

\* Mutant: triggered_ stays 1.
ClearMissing ==
  /\ Worker("clear", "task")
  /\ phase' = [c \in Callers |-> "none"]
  /\ UNCHANGED <<triggered, idle, stop, armed, cpc>>

\* triggered_ = 0, and the task starts.
Clear ==
  /\ Worker("clear", "task")
  /\ triggered' = 0
  /\ phase' = [c \in Callers |-> "none"]
  /\ UNCHANGED <<idle, stop, armed, cpc>>

\* The task returns or throws; an exception is logged.
TaskEnd ==
  /\ Worker("task", "finish")
  /\ UNCHANGED <<triggered, idle, stop, armed, cpc, phase>>

\* Mutant: triggered_ is cleared after the task too.
FinishClears ==
  /\ Worker("finish", "loop")
  /\ idle' = 1 /\ triggered' = 0
  /\ UNCHANGED <<stop, armed, cpc, phase>>

\* idle_ = 1 and notify_all().
Finish ==
  /\ Worker("finish", "loop")
  /\ idle' = 1
  /\ UNCHANGED <<triggered, stop, armed, cpc, phase>>

\* Mutant: idle_ is not set on the way out.
ExitSilently ==
  /\ Worker("exit", "done")
  /\ UNCHANGED <<triggered, idle, stop, armed, cpc, phase>>

\* "Ensure any pending wait() unblocks on shutdown".
Exit ==
  /\ Worker("exit", "done")
  /\ idle' = 1
  /\ UNCHANGED <<triggered, stop, armed, cpc, phase>>

-----------------------------------------------------------------------------
WorkerStep == Register \/ Loop \/ Awake \/ Check \/ Clear \/ Finish \/ Exit
=============================================================================
