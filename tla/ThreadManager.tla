---------------------------- MODULE ThreadManager ----------------------------
(***************************************************************************)
(* ThreadManager (modules/thread_manager.py): the remote loop runs in a    *)
(* thread, whose main task keeps a TaskGroup open until it is cancelled on *)
(* exit. Requests are callbacks in that loop's ready queue; answers, in    *)
(* the queues of the callers' loops. Callers are tasks of any loop, so     *)
(* they may come at any time, also while the manager exits.                *)
(***************************************************************************)
EXTENDS RemoteSpawn

VARIABLE wrapper  (* the task that runs create_task, for each spawn          *)

ManagerInit == wrapper = [s \in Spawners |-> "none"]

Unfinished == {s \in Spawners : target[s] \in {"created", "running"}}

(* call_soon_threadsafe raises once the loop is closed. *)
SpawnInThread(s) == IF remoteStage = "closed" THEN spawn[s] = "idle" /\ Refuse(s) ELSE Call(s)

ForwardToThread(s) == Forward(s, remoteStage # "closed")

Deliver == \E i \in DOMAIN answers : Resolve(i)

-----------------------------------------------------------------------------
(* The thread. The group refuses a new task once it shuts down, when the   *)
(* inner task was already created; it is "late" if asyncio.run does not    *)
(* see it any more.                                                        *)

RunCreate(s) ==
  /\ Receive("create", s)
  /\ target' = [target EXCEPT ![s] = "created"]
  /\ wrapper' = [wrapper EXCEPT ![s] = CASE remoteStage = "open" -> "created"
                                         [] remoteStage = "finalizing" -> "late"
                                         [] OTHER -> "none"]
  /\ UNCHANGED <<remote, remoteStage, callVars, answers, targetTold>>

(* _cancel. An inner task that has not started is told when it has. *)
RunCancel(s) == /\ Receive("cancel", s)
                /\ targetTold' = targetTold \cup ({s} \cap Unfinished)
                /\ UNCHANGED <<remote, remoteStage, callVars, answers, target, wrapper>>

InThread == /\ remoteStage # "closed"
            /\ UNCHANGED <<remote, remoteStage, callVars, requests, answers, wrapper>>

(* create_task starts behind the inner task, and awaits it. *)
AwaitInner(s) == /\ wrapper[s] = "created"
                 /\ target[s] # "created"
                 /\ wrapper' = [wrapper EXCEPT ![s] = "waiting"]
                 /\ UNCHANGED spawnVars

Answer(s) == /\ wrapper[s] = "waiting"
             /\ Ended(s)
             /\ wrapper' = [wrapper EXCEPT ![s] = "over"]
             /\ answers' = Append(answers, s)
             /\ UNCHANGED <<remote, remoteStage, callVars, requests, targetVars>>

(* Mutation of ExitManager: the group's tasks do not pass it on. *)
ExitManager_Drops ==
  /\ remoteStage = "open"
  /\ remoteStage' = "closing"
  /\ wrapper' = [s \in Spawners |->
                   IF wrapper[s] \in {"created", "waiting"} THEN "over" ELSE wrapper[s]]
  /\ UNCHANGED <<remote, callVars, requests, answers, targetVars>>

(* The main task is cancelled, and the group cancels its tasks: one that   *)
(* has not started never will, another cancels the inner task it awaits.   *)
ExitManager ==
  /\ remoteStage = "open"
  /\ remoteStage' = "closing"
  /\ wrapper' = [s \in Spawners |-> IF wrapper[s] = "created" THEN "dropped" ELSE wrapper[s]]
  /\ targetTold' = targetTold \cup {s \in Unfinished : wrapper[s] = "waiting"}
  /\ UNCHANGED <<remote, callVars, requests, answers, target>>

(* The group has ended; asyncio.run cancels the tasks that are left. *)
LeaveTaskGroup == /\ remoteStage = "closing"
                  /\ \A s \in Spawners : wrapper[s] # "waiting"
                  /\ remoteStage' = "finalizing"
                  /\ targetTold' = targetTold \cup Unfinished
                  /\ UNCHANGED <<remote, callVars, requests, answers, target, wrapper>>

CloseLoop == /\ remoteStage = "finalizing"
             /\ \A s \in Unfinished : wrapper[s] = "late"
             /\ remoteStage' = "closed"
             /\ requests' = <<>>
             /\ target' = [s \in Spawners |-> IF s \in Unfinished THEN "gone" ELSE target[s]]
             /\ targetTold' = {}
             /\ UNCHANGED <<remote, callVars, answers, wrapper>>

(* What the loop runs by itself, and what a target may do besides. *)
ThreadRuns(s) == \/ RunCreate(s) \/ RunCancel(s) \/ AwaitInner(s) \/ Answer(s)
                 \/ InThread /\ StartTarget(s)
                 \/ InThread /\ s \in targetTold \ StubbornTargets /\ EndTarget(s)

ThreadMay(s) == InThread /\ (EndTarget(s) \/ SuppressTarget(s))

-----------------------------------------------------------------------------
ManagerTypeOK ==
  /\ remote = "thread" => remoteStage \in {"open", "closing", "finalizing", "closed"}
  /\ wrapper \in [Spawners -> {"none", "created", "waiting", "over", "dropped", "late"}]

(* "When exiting, the thread manager waits for all tasks to finish": those *)
(* that it began to supervise before have ended, and none of their callers *)
(* is left without an answer.                                              *)
ManagerWaits ==
  remote = "thread" /\ remoteStage = "closed" =>
    \A s \in Spawners :
      wrapper[s] \notin {"none", "dropped", "late"} =>
        Ended(s) /\ (Resolved(s) \/ \E i \in DOMAIN answers : answers[i] = s)

(* A caller whose cancellation was forwarded, or whose target ended, gets  *)
(* its answer, if the manager supervised it, even while the manager exits; *)
(* and the exit is not held up by targets that end if they are cancelled.  *)
ManagerEnds ==
  remote = "thread" =>
    /\ \A s \in Spawners : (wrapper[s] = "waiting" /\ Ended(s)) ~> Over(s)
    /\ \A s \in Spawners \ StubbornTargets :
         (s \in forwarded) ~> (Over(s) \/ remoteStage # "open")
    /\ (remoteStage # "open") ~> \/ remoteStage = "closed"
                                 \/ \E s \in StubbornTargets : spawn[s] # "idle"
=============================================================================
