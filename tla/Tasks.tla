------------------------------- MODULE Tasks -------------------------------
(***************************************************************************)
(* What runs awaitables as tasks on behalf of a caller, and gives back     *)
(* their outcomes: the combinators, in the caller's loop; ThreadManager    *)
(* and MultiprocessingProcess, in the loop of a thread or of a process     *)
(* that serves many callers; and launch_in_thread_loop, in a thread of its *)
(* own. Each behaviour has one of these, and the others are idle.          *)
(***************************************************************************)
EXTENDS Combinators, Remote, ThreadLaunch

VARIABLE running  (* "combinator", "remote" or "launch": which one it has    *)

tasksVars == <<combinatorsVars, remoteVars, launchVars, running>>

TasksInit ==
  /\ running \in {"combinator", "remote", "launch"}
  /\ CombinatorsInit
  /\ running # "combinator" => called = "gather"
  /\ RemoteInit
  /\ running # "remote" => remote = "thread"
  /\ LaunchInit
  /\ running # "launch" => kind = [async |-> TRUE, executor |-> FALSE, stubborn |-> FALSE]

Runs(what) == /\ running = what
              /\ UNCHANGED running
              /\ what # "combinator" => UNCHANGED combinatorsVars
              /\ what # "remote" => UNCHANGED remoteVars
              /\ what # "launch" => UNCHANGED launchVars

TasksNext == \/ Runs("combinator") /\ CombinatorsNext
             \/ Runs("remote") /\ RemoteNext
             \/ Runs("launch") /\ LaunchNext

TasksSpec == TasksInit /\ [][TasksNext]_tasksVars

(* The fairness of each module, for the one that runs. *)
TasksFair == /\ TasksSpec
             /\ WF_combinatorsVars(running = "combinator" /\ CombinatorSteps)
             /\ WF_remoteVars(running = "remote" /\ RemoteSteps)
             /\ WF_launchVars(running = "launch" /\ ThreadNext /\ UNCHANGED kind)
             /\ WF_launchVars(running = "launch" /\ CallerNext /\ UNCHANGED kind)
=============================================================================
