---------------------------- MODULE ThreadLaunch ----------------------------
(***************************************************************************)
(* One call of launch_in_thread_loop (modules/thread_loop.py, made by a    *)
(* task) or of launch_in_thread_loop_sync (modules/thread_sync.py, made by *)
(* a thread), then of the `finish` it returns: an awaitable runs in a      *)
(* thread of its own, with an event loop of its own, and the caller and    *)
(* the thread meet on `stage`, a ThreadsafeState.                          *)
(*                                                                         *)
(* The ready queue of the thread's loop is modelled in its order, since    *)
(* the code relies on it. Of the target only its steps matter: it ends,    *)
(* waits, or is told to stop by a cancellation that it may suppress.       *)
(***************************************************************************)
EXTENDS Naturals, Sequences, FiniteSets

CONSTANTS
  SyncCaller,       (* a thread that calls launch_in_thread_loop_sync      *)
  AsyncCaller,      (* a task that calls launch_in_thread_loop             *)
  CallerLoop,       (* the loop that task runs in                          *)
  MaxLaunchCancels  (* bounds how often somebody cancels the caller        *)

ASSUME LaunchAssumption == /\ SyncCaller # AsyncCaller
                           /\ MaxLaunchCancels \in Nat

VARIABLES
  launchStage, futures, blocked, signalled, pc, want, asked, launchClosed,
                    (* the ThreadsafeState `stage`                         *)
  thread,           (* how far thread_main is                              *)
  ready,            (* the ready queue of the thread's loop                *)
  task,             (* the target's task                                   *)
  launchTold,       (* the task gets a CancelledError at its next step     *)
  steps,            (* the target's task made its first step               *)
  result,           (* result                                              *)
  caller,           (* how far the caller is                               *)
  launchCancelled,  (* cancelled                                           *)
  late,             (* `cancelled` of the shield_wait_forever in finish    *)
  launchCancels,    (* how often the caller was cancelled                  *)
  kind              (* the call: async or sync; whether use_executor; whether*)
                    (* the target may suppress its cancellations (stubborn)*)

stageVars == <<launchStage, futures, blocked, signalled, pc, want, asked, launchClosed>>
threadVars == <<thread, ready, task, launchTold, steps, result>>
callerVars == <<caller, launchCancelled, late, launchCancels>>
launchVars == <<stageVars, threadVars, callerVars, kind>>

Async == kind.async
Executor == kind.executor
LaunchStubborn == kind.stubborn
LaunchCaller == IF Async THEN AsyncCaller ELSE SyncCaller

Stages == {"preparing", "running", "join"}

(* What the caller waits for before it returns `finish`. *)
LaunchStarted == IF Async THEN {"running", "join"} ELSE {"running"}

Stage == INSTANCE ThreadsafeState WITH
  value <- launchStage,
  closed <- launchClosed,
  Values <- Stages,
  InitialValue <- "preparing",
  Predicates <- {{"running"}, {"running", "join"}, {"join"}},
  Threads <- {SyncCaller},
  Tasks <- {AsyncCaller},
  Loops <- {CallerLoop},
  LoopOf <- [c \in {AsyncCaller} |-> CallerLoop],
  Cancellable <- {AsyncCaller},
  Closing <- {}

LaunchInit == /\ Stage!Init
              /\ thread = "none"
              /\ ready = <<>>
              /\ task = "none"
              /\ launchTold = FALSE
              /\ steps = FALSE
              /\ result = "none"
              /\ caller = "idle"
              /\ launchCancelled = FALSE
              /\ late = FALSE
              /\ launchCancels = 0
              /\ kind \in [async : BOOLEAN, executor : BOOLEAN, stubborn : BOOLEAN]
              /\ kind.executor => kind.async

LaunchOver(outcome) == outcome \in {"value", "error", "cancelled"}

-----------------------------------------------------------------------------
(* The first step of thread_main_async: the target's task is created, then *)
(* set_value("running") is scheduled behind its first step.                *)
EnterLoop == /\ thread = "started"
             /\ thread' = "looping"
             /\ task' = "pending"
             /\ ready' = <<"target", "running">>
             /\ UNCHANGED <<launchTold, steps, result, stageVars, callerVars>>

Pop(what) == /\ thread = "looping"
             /\ ready # <<>>
             /\ Head(ready) = what

(* A step of the target: it ends, or waits. Once told to stop it ends with *)
(* CancelledError, or, if it is stubborn, goes on as if nothing happened.  *)
(* Its end schedules the wake-up of `await task` in thread_main_async.     *)
StepTarget ==
  /\ Pop("target")
  /\ steps' = TRUE
  /\ launchTold' = FALSE
  /\ \/ /\ \E outcome \in {"value", "error", "cancelled"} :
             /\ IF launchTold THEN LaunchStubborn \/ outcome = "cancelled"
                              ELSE outcome # "cancelled"
             /\ task' = outcome
        /\ ready' = Append(Tail(ready), "main")
     \/ /\ launchTold => LaunchStubborn
        /\ ready' = Tail(ready)
        /\ UNCHANGED task
  /\ UNCHANGED <<thread, result, stageVars, callerVars>>

(* What the target waits for happens. *)
WakeTarget == /\ thread = "looping"
              /\ task = "pending"
              /\ \A i \in DOMAIN ready : ready[i] # "target"
              /\ ready' = Append(ready, "target")
              /\ UNCHANGED <<thread, task, launchTold, steps, result, stageVars, callerVars>>

(* task.cancel, sent by the caller: no effect on a task that is done. *)
CancelTarget ==
  /\ Pop("cancel")
  /\ \/ /\ task = "pending"
        /\ launchTold' = TRUE
        /\ ready' = IF \E i \in DOMAIN ready : ready[i] = "target"
                      THEN Tail(ready) ELSE Append(Tail(ready), "target")
     \/ /\ task # "pending"
        /\ ready' = Tail(ready)
        /\ UNCHANGED launchTold
  /\ UNCHANGED <<thread, task, steps, result, stageVars, callerVars>>

(* stage.set_value *)
SetStage(v) == IF launchStage = v THEN UNCHANGED stageVars ELSE Stage!Update(v)

RunSetRunning == /\ Pop("running")
                 /\ ready' = Tail(ready)
                 /\ SetStage("running")
                 /\ UNCHANGED <<thread, task, launchTold, steps, result, callerVars>>

(* thread_main_async returns or raises, and asyncio.run closes the loop,   *)
(* which drops what is still queued.                                       *)
LeaveLoop == /\ Pop("main")
             /\ thread' = "closed"
             /\ ready' = <<>>
             /\ UNCHANGED <<task, launchTold, steps, result, stageVars, callerVars>>

(* thread_main stores the outcome of asyncio.run, whatever it is. *)
StoreResult == /\ thread = "closed"
               /\ result = "none"
               /\ result' = task
               /\ UNCHANGED <<thread, ready, task, launchTold, steps, stageVars, callerVars>>

(* Mutation of SetJoin: "join" is announced before the result is stored. *)
SetJoin_Early == /\ thread = "closed"
                 /\ thread' = "returning"
                 /\ SetStage("join")
                 /\ UNCHANGED <<ready, task, launchTold, steps, result, callerVars>>

(* thread_main announces that the thread can be joined. *)
SetJoin == /\ thread = "closed"
           /\ result # "none"
           /\ thread' = "returning"
           /\ SetStage("join")
           /\ UNCHANGED <<ready, task, launchTold, steps, result, callerVars>>

EndThread == /\ thread = "returning"
             /\ thread' = "over"
             /\ UNCHANGED <<ready, task, launchTold, steps, result, stageVars, callerVars>>

-----------------------------------------------------------------------------
(* task.get_loop().call_soon_threadsafe(task.cancel), its RuntimeError     *)
(* ignored once the thread's loop is closed.                               *)
ForwardCancel == ready' = IF thread = "looping" THEN Append(ready, "cancel") ELSE ready

Launch == /\ caller = "idle"
          /\ thread' = "started"
          /\ caller' = "submitted"
          /\ UNCHANGED <<ready, task, launchTold, steps, result, stageVars,
                         launchCancelled, late, launchCancels>>

AwaitStart == /\ caller = "submitted"
              /\ Stage!Call(LaunchCaller, LaunchStarted)
              /\ caller' = "starting"
              /\ UNCHANGED <<threadVars, launchCancelled, late, launchCancels>>

(* `except CancelledError: cancelled = True`, then the wait starts again. *)
RetryStart == /\ caller = "starting"
              /\ pc[LaunchCaller] = "cancelled"
              /\ launchCancelled' = TRUE
              /\ Stage!Call(LaunchCaller, LaunchStarted)
              /\ UNCHANGED <<threadVars, caller, late, launchCancels>>

ReturnFinish == /\ caller = "starting"
                /\ pc[LaunchCaller] = "returned"
                /\ IF launchCancelled THEN ForwardCancel ELSE UNCHANGED ready
                /\ caller' = "launched"
                /\ UNCHANGED <<thread, task, launchTold, steps, result, stageVars,
                               launchCancelled, late, launchCancels>>

(* finish is awaited, or called; only the synchronous one is asked whether *)
(* the target should be cancelled first.                                   *)
CallFinish == /\ caller = "launched"
              /\ \/ UNCHANGED ready
                 \/ ~Async /\ ForwardCancel
              /\ Stage!Call(LaunchCaller, {"join"})
              /\ caller' = "finishing"
              /\ UNCHANGED <<thread, task, launchTold, steps, result, launchCancelled, late,
                             launchCancels>>

(* Mutation of RetryFinish: the target is not told. *)
RetryFinish_Silent == /\ caller = "finishing"
                      /\ pc[LaunchCaller] = "cancelled"
                      /\ launchCancelled' = TRUE
                      /\ Stage!Call(LaunchCaller, {"join"})
                      /\ UNCHANGED <<threadVars, caller, late, launchCancels>>

(* The same for the wait of finish, which also tells the target to stop. *)
RetryFinish == /\ caller = "finishing"
               /\ pc[LaunchCaller] = "cancelled"
               /\ launchCancelled' = TRUE
               /\ ForwardCancel
               /\ Stage!Call(LaunchCaller, {"join"})
               /\ UNCHANGED <<thread, task, launchTold, steps, result, caller, late,
                              launchCancels>>

Join == /\ caller = "finishing"
        /\ pc[LaunchCaller] = "returned"
        /\ caller' = "joining"
        /\ UNCHANGED <<stageVars, threadVars, launchCancelled, late, launchCancels>>

(* Mutation of Outcome: `cancelled` is not looked at. *)
Outcome_Forgetful == IF Async /\ late THEN "cancelled" ELSE result

(* The result is applied, and CancelledError raised if the caller was      *)
(* cancelled and the target did not care. The synchronous finish           *)
(* suppresses the CancelledError of the result.                            *)
Outcome == IF Async /\ (late \/ (launchCancelled /\ result # "error")) THEN "cancelled"
           ELSE IF ~Async /\ result = "cancelled" THEN "value"
           ELSE result

(* Mutation of Return: the thread is not joined. *)
Return_NoJoin == /\ caller = "joining"
                 /\ caller' = Outcome
                 /\ UNCHANGED <<stageVars, threadVars, launchCancelled, late, launchCancels>>

(* thread.join, or the executor's future, is over. *)
Return == /\ caller = "joining"
          /\ thread = "over"
          /\ caller' = Outcome
          /\ UNCHANGED <<stageVars, threadVars, launchCancelled, late, launchCancels>>

(* Somebody cancels the caller while it awaits the stage, or the future of *)
(* the executor; thread.join blocks its loop.                              *)
CancelWait == /\ launchCancels < MaxLaunchCancels
              /\ launchCancels' = launchCancels + 1
              /\ Async /\ Stage!Cancel(LaunchCaller)
              /\ UNCHANGED <<threadVars, caller, launchCancelled, late>>

CancelJoin == /\ launchCancels < MaxLaunchCancels
              /\ launchCancels' = launchCancels + 1
              /\ Async /\ Executor /\ caller = "joining"
              /\ late' = TRUE
              /\ UNCHANGED <<stageVars, threadVars, caller, launchCancelled>>

ResumeWait == /\ Stage!Resume(LaunchCaller)
              /\ UNCHANGED <<threadVars, callerVars>>

LaunchDone == /\ LaunchOver(caller)
              /\ UNCHANGED launchVars

-----------------------------------------------------------------------------
ThreadNext == \/ EnterLoop \/ StepTarget \/ CancelTarget \/ RunSetRunning
              \/ LeaveLoop \/ StoreResult \/ SetJoin \/ EndThread

CallerNext == \/ Launch \/ AwaitStart \/ RetryStart \/ ReturnFinish \/ CallFinish
              \/ RetryFinish \/ Join \/ Return \/ ResumeWait

LaunchNext == /\ \/ ThreadNext \/ CallerNext \/ WakeTarget
                 \/ CancelWait \/ CancelJoin \/ LaunchDone
              /\ UNCHANGED kind

LaunchSpec == LaunchInit /\ [][LaunchNext]_launchVars

(* Both sides keep running. Nothing makes the target progress by itself,   *)
(* and nobody has to cancel anybody.                                       *)
LaunchFair == LaunchSpec /\ WF_launchVars(ThreadNext /\ UNCHANGED kind)
                         /\ WF_launchVars(CallerNext /\ UNCHANGED kind)

-----------------------------------------------------------------------------
LaunchTypeOK ==
  /\ Stage!TypeOK
  /\ thread \in {"none", "started", "looping", "closed", "returning", "over"}
  /\ ready \in Seq({"target", "running", "cancel", "main"})
  /\ task \in {"none", "pending", "value", "error", "cancelled"}
  /\ launchTold \in BOOLEAN
  /\ steps \in BOOLEAN
  /\ result \in {"none", "value", "error", "cancelled"}
  /\ caller \in {"idle", "submitted", "starting", "launched", "finishing", "joining",
                 "value", "error", "cancelled"}
  /\ launchCancelled \in BOOLEAN
  /\ late \in BOOLEAN
  /\ launchCancels \in 0 .. MaxLaunchCancels
  /\ kind \in [async : BOOLEAN, executor : BOOLEAN, stubborn : BOOLEAN]

(* The assertions on `task` and `result` hold where the caller reaches     *)
(* them, which only the order of the other thread's assignments ensures.   *)
AssertionsHold ==
  /\ pc[LaunchCaller] = "returned" => task # "none"
  /\ caller = "joining" => result # "none"

(* `finish` is not handed out before the target made its first step. When  *)
(* it is over so is the thread, and it reports how the target ended: a     *)
(* value only if it returned, an error only if it raised.                  *)
ReportsTarget ==
  /\ caller \notin {"idle", "submitted", "starting"} => steps
  /\ LaunchOver(caller) => thread = "over" /\ LaunchOver(task)
  /\ caller = "error" => task = "error"
  /\ caller = "value" => task \in IF Async THEN {"value"} ELSE {"value", "cancelled"}

(* A caller that was cancelled never gets a value back, even if its target *)
(* suppressed the cancellation.                                            *)
CancelNotLost == Async /\ launchCancels > 0 => caller # "value"

(* Both variants return after the first iteration of the thread's loop. It *)
(* fails for launch_in_thread_loop_sync, whose caller waits for "running". *)
LaunchReturns == caller = "submitted" ~> caller = "launched"

(* launch_in_thread_loop returns, however often it is cancelled; finish    *)
(* returns once the target is done, and does not leave a caller that was   *)
(* cancelled waiting for a target that would end if it were told to.       *)
LaunchEnds ==
  /\ (Async /\ caller = "submitted") ~> caller = "launched"
  /\ (caller = "finishing" /\ LaunchOver(task)) ~> LaunchOver(caller)
  /\ (launchCancels > 0 /\ caller = "finishing" /\ ~LaunchStubborn)
       ~> LaunchOver(caller)
=============================================================================
