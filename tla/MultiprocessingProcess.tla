----------------------- MODULE MultiprocessingProcess -----------------------
(***************************************************************************)
(* MultiprocessingProcess (modules/multiprocessing.py): the remote loop is *)
(* that of a child process, at the other end of a pair of sockets; the     *)
(* parent reads the answers in a background task. Messages are whole: they *)
(* are neither lost, unless the child dies, nor reordered. Sending is one  *)
(* step, as it is unless a socket's buffer is full.                        *)
(***************************************************************************)
EXTENDS RemoteSpawn

Alive == {s \in Spawners : target[s] \in {"created", "running"}}
Gone(S) == [s \in Spawners |-> IF s \in S THEN "gone" ELSE target[s]]

(* The sockets take what is sent to a dead child, or refuse it. *)
SpawnInProcess(s) == \/ remoteStage \in {"open", "crashed"} /\ Call(s)
                     \/ remoteStage = "crashed" /\ spawn[s] = "idle" /\ Refuse(s)

ForwardToProcess(s) == \/ Forward(s, remoteStage = "open")
                       \/ /\ remoteStage \in {"crashed", "eof", "closed"}
                          /\ s \in must /\ ~Resolved(s)
                          /\ Refuse(s)

(* A synthetic CancelledError if a value came back nevertheless. *)
Result(s) == IF future[s] = "value" /\ s \in forwarded THEN "cancelled" ELSE future[s]

(* _loop. Its EOFError comes behind the answers that were sent. *)
ReadAnswer == /\ remoteStage \in {"open", "crashed"}
              /\ answers # <<>>
              /\ Resolve(1)

ReadEOF == /\ remoteStage = "crashed"
           /\ answers = <<>>
           /\ remoteStage' = "eof"
           /\ future' = [s \in Spawners |-> IF future[s] = "pending" THEN "lost" ELSE future[s]]
           /\ UNCHANGED <<remote, spawn, must, forwarded, spawnCancels, requests, answers,
                          targetVars>>

(* The stack is unwound: the background task is cancelled, then a          *)
(* ShutdownMessage sent, and the process waited for.                       *)
ExitProcess ==
  \/ /\ remoteStage = "open"
     /\ remoteStage' = "closing"
     /\ Request("shutdown", "all")
     /\ UNCHANGED <<remote, callVars, answers, targetVars>>
  \/ /\ remoteStage \in {"crashed", "eof"}
     /\ remoteStage' = "closed"
     /\ UNCHANGED <<remote, callVars, requests, answers, targetVars>>

-----------------------------------------------------------------------------
(* The child: process_main_async, and wait_task for each target.           *)

Serving == remoteStage \in {"open", "closing"}

ReadCreate(s) == /\ Serving
                 /\ Receive("create", s)
                 /\ target' = [target EXCEPT ![s] = "created"]
                 /\ UNCHANGED <<remote, remoteStage, callVars, answers, targetTold>>

(* A task that is cancelled before its first step never runs wait_task; it *)
(* can be, when both messages had been received at once.                   *)
ReadCancel(s) == /\ Serving
                 /\ Receive("cancel", s)
                 /\ target' = IF target[s] = "created" THEN Gone({s}) ELSE target
                 /\ targetTold' = targetTold \cup {c \in Alive \cap {s} : target[c] = "running"}
                 /\ UNCHANGED <<remote, remoteStage, callVars, answers>>

(* volatile_task_group cancels the tasks that are left. *)
ReadShutdown == /\ Serving
                /\ Receive("shutdown", "all")
                /\ remoteStage' = "terminating"
                /\ target' = Gone({s \in Alive : target[s] = "created"})
                /\ targetTold' = targetTold \cup {s \in Alive : target[s] = "running"}
                /\ UNCHANGED <<remote, callVars, answers>>

InProcess == UNCHANGED <<remote, remoteStage, callVars, requests, answers>>

(* Mutation of EndTask: a target that was cancelled sends no answer. *)
EndTask_Silent(s) ==
  /\ EndTarget(s)
  /\ answers' = IF target'[s] = "cancelled" THEN answers ELSE Append(answers, s)
  /\ UNCHANGED <<remote, remoteStage, callVars, requests>>

(* One whose outcome cannot be pickled (line 97) is one that failed. *)
EndTask(s) == /\ EndTarget(s)
              /\ answers' = Append(answers, s)
              /\ UNCHANGED <<remote, remoteStage, callVars, requests>>

(* Mutation of ChildExits: it does not wait for its tasks. *)
ChildExits_Early == /\ remoteStage = "terminating"
                    /\ remoteStage' = "closed"
                    /\ UNCHANGED <<remote, callVars, requests, answers, targetVars>>

ChildExits == /\ remoteStage = "terminating"
              /\ Alive = {}
              /\ remoteStage' = "closed"
              /\ UNCHANGED <<remote, callVars, requests, answers, targetVars>>

(* The child is killed, or crashes. *)
Crash == /\ remoteStage \in {"open", "closing", "terminating"}
         /\ remoteStage' = IF remoteStage = "open" THEN "crashed" ELSE "closed"
         /\ requests' = <<>>
         /\ target' = Gone(Alive)
         /\ targetTold' = {}
         /\ UNCHANGED <<remote, callVars, answers>>

(* What the child runs by itself, and what a target may do besides. *)
ChildRuns(s) == \/ ReadCreate(s) \/ ReadCancel(s)
                \/ InProcess /\ StartTarget(s)
                \/ s \in targetTold \ StubbornTargets /\ EndTask(s)

ChildMay(s) == EndTask(s) \/ (InProcess /\ SuppressTarget(s))

-----------------------------------------------------------------------------
ProcessTypeOK ==
  remote = "process" =>
    remoteStage \in {"open", "closing", "terminating", "crashed", "eof", "closed"}

(* While the context is open, a caller gets its answer once its target     *)
(* ends, after its cancellation was forwarded if the target had started to *)
(* run, and, at the latest, when the child died.                           *)
ProcessEnds ==
  remote = "process" =>
    LET Exited == remoteStage \in {"closing", "terminating", "closed"} IN
      /\ \A s \in Spawners :
           (Ended(s) \/ (remoteStage = "crashed" /\ spawn[s] = "waiting"))
             ~> (Over(s) \/ Exited)
      /\ \A s \in Spawners \ StubbornTargets :
           (s \in forwarded) ~> (Over(s) \/ Exited \/ target[s] = "gone")
=============================================================================
