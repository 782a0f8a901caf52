---------------------------- MODULE ProcessWait ----------------------------
(***************************************************************************)
(* One process, and what awaits it (modules/process.py): a task in         *)
(* Process.wait, which others cancel, or one in reap_child_process or      *)
(* wait_for_process. Of the signals only their number matters.             *)
(***************************************************************************)
EXTENDS Naturals

CONSTANT MaxProcessCancels  (* bounds how often others cancel the task       *)

ASSUME ProcessWaitAssumption == MaxProcessCancels \in Nat

VARIABLES
  os,          (* the process: running, or how it exited, and then reaped    *)
  transport,   (* asyncio's: attached, exited (it has the returncode), or    *)
               (* released (it has let go of the process)                    *)
  waitAt,      (* where the task in wait is, or how its call ended           *)
  waitMust,    (* it gets a CancelledError at its next step                  *)
  waitCancels, (* how often it was cancelled                                 *)
  waitSignals, (* how often it signalled the process                         *)
  reapAt,      (* where the task in the other functions is                   *)
  processKind  (* how: the function; way: how the system tells of an exit;   *)
               (* obeys: the process exits when signalled; eager: asyncio    *)
               (* wakes the waiters at the exit, as later versions of it do  *)

processVars == <<os, transport, waitAt, waitMust, waitCancels, waitSignals, reapAt,
                 processKind>>

Waits == processKind.how = "wait"
Reaps == processKind.how = "reap_child_process"

ProcessInit == /\ os \in {"running", "success", "failure"}
               /\ transport = "attached"
               /\ waitAt = "calling"
               /\ waitMust = FALSE
               /\ waitCancels = 0
               /\ waitSignals = 0
               /\ reapAt = "calling"
               /\ processKind \in [how : {"wait", "reap_child_process", "wait_for_process"},
                                   way : {"kqueue", "pidfd", "refused", "none"},
                                   obeys : BOOLEAN, eager : BOOLEAN]
               /\ Waits => processKind.way = "none"
               /\ ~Waits => ~processKind.obeys /\ ~processKind.eager

Exited == os # "running"

-----------------------------------------------------------------------------
(* The operating system and asyncio. A child of somebody else is reaped    *)
(* whenever its parent likes.                                              *)
Exit == /\ os = "running"
        /\ os' \in {"success", "failure"}
        /\ UNCHANGED <<transport, waitAt, waitMust, waitCancels, waitSignals, reapAt,
                       processKind>>

ReapedByParent == /\ processKind.how = "wait_for_process"
                  /\ os \in {"success", "failure"}
                  /\ os' = "reaped"
                  /\ UNCHANGED <<transport, waitAt, waitMust, waitCancels, waitSignals, reapAt,
                                 processKind>>

(* The child watcher reaps it; its pipes are disconnected. *)
TransportSteps == /\ Waits
                  /\ \/ transport = "attached" /\ Exited /\ transport' = "exited"
                     \/ transport = "exited" /\ transport' = "released"
                  /\ UNCHANGED <<os, waitAt, waitMust, waitCancels, waitSignals, reapAt,
                                 processKind>>

-----------------------------------------------------------------------------
(* Process.wait.                                                           *)

(* Mutation of Ended: a cancellation that was met is forgotten. *)
Ended_Forgets == IF os = "failure" THEN "terminated" ELSE "value"

(* How it ends with the exit code, ensure_correct_cancellation included. *)
Ended == IF os = "failure" THEN "terminated"
         ELSE IF waitCancels > 0 THEN "cancelled" ELSE "value"

(* await self._proc.wait(), up to its suspension. *)
AwaitExit == waitAt' = IF transport = "attached" THEN "waiting" ELSE Ended

CallWait == /\ Waits
            /\ waitAt = "calling"
            /\ AwaitExit
            /\ UNCHANGED <<os, transport, waitMust, waitCancels, waitSignals, reapAt,
                           processKind>>

(* The task is woken once the transport told its waiters. *)
Woken == transport = "released" \/ (processKind.eager /\ transport = "exited")

ResumeWait == /\ waitAt = "waiting"
              /\ Woken
              /\ ~waitMust
              /\ waitAt' = Ended
              /\ UNCHANGED <<os, transport, waitMust, waitCancels, waitSignals, reapAt,
                             processKind>>

(* CancelledError: the process is signalled, and awaited again. A          *)
(* transport that let go of it raises ProcessLookupError.                  *)
SignalProcess ==
  /\ waitAt = "waiting"
  /\ waitMust
  /\ waitMust' = FALSE
  /\ \/ /\ transport = "released"
        /\ waitAt' = "lookup"
        /\ UNCHANGED waitSignals
     \/ /\ transport # "released"
        /\ waitSignals' = waitSignals + 1
        /\ AwaitExit
  /\ UNCHANGED <<os, transport, waitCancels, reapAt, processKind>>

CancelProcessWait == /\ waitAt = "waiting"
                     /\ waitCancels < MaxProcessCancels
                     /\ waitCancels' = waitCancels + 1
                     /\ waitMust' = TRUE
                     /\ UNCHANGED <<os, transport, waitAt, waitSignals, reapAt,
                                    processKind>>

-----------------------------------------------------------------------------
(* reap_child_process and wait_for_process.                                *)

Reap(from, to) == /\ ~Waits
                  /\ reapAt = from
                  /\ reapAt' = to
                  /\ UNCHANGED <<transport, waitAt, waitMust, waitCancels, waitSignals,
                                 processKind>>

(* Mutation of Refused: the refusal is taken for an exit. *)
Refused_Gone == "told"

(* What a system that does not tell of exits leaves to do. *)
Refused == IF Reaps THEN "blocking" ELSE "polling"

(* An exit is awaited with kqueue or pidfd. kqueue does not know a process *)
(* that exited, pidfd_open none that was reaped.                           *)
RegisterExit ==
  \/ processKind.way = "kqueue" /\ Reap("calling", IF Exited THEN "told" ELSE "waiting")
  \/ processKind.way = "pidfd" /\ Reap("calling", IF os = "reaped" THEN "told" ELSE "waiting")
  \/ processKind.way \in {"refused", "none"} /\ Reap("calling", Refused)

ExitReported == Exited /\ Reap("waiting", "told")

CancelReap == \E at \in {"waiting", "polling"} : Reap(at, "cancelled")

(* os.waitpid, which blocks the loop, or its thread, while the child runs. *)
WaitPid == /\ Reaps
           /\ Exited
           /\ \E at \in {"told", "blocking"} : Reap(at, "over")
           /\ os' = "reaped"

ReturnWait == ~Reaps /\ Reap("told", "over")

(* while process_exists(pid): it does until it is reaped. *)
Poll == os = "reaped" /\ Reap("polling", "over")

ReapSteps == \/ (RegisterExit \/ ExitReported \/ ReturnWait \/ Poll) /\ UNCHANGED os
             \/ WaitPid

ProcessSteps == TransportSteps \/ CallWait \/ ResumeWait \/ SignalProcess \/ ReapSteps

ObeySignal == waitSignals > 0 /\ processKind.obeys /\ Exit

ProcessNext == \/ ProcessSteps \/ Exit \/ ReapedByParent \/ CancelProcessWait
               \/ CancelReap /\ UNCHANGED os

-----------------------------------------------------------------------------
WaitOver == waitAt \in {"value", "terminated", "cancelled", "lookup"}

(* Process.wait returns or raises once the process exited, in accordance   *)
(* with its code; a cancellation is lost only to the exception of a code   *)
(* that is not zero, and each signalled the process, or came too late.     *)
WaitReports ==
  /\ WaitOver /\ waitAt # "lookup" =>
       /\ Exited
       /\ waitAt = "terminated" <=> os = "failure"
       /\ waitAt = "value" => waitCancels = 0
  /\ waitSignals <= waitCancels
  /\ waitCancels > 0 /\ ~waitMust /\ waitAt # "lookup" => waitSignals > 0

(* os.waitpid does not block the event loop: the loop calls it only for a  *)
(* child that exited, as what returns is told of an exit.                  *)
LoopNeverBlocks == reapAt \in {"told", "over"} => Exited

(* Process.wait raises what its documentation says: a                      *)
(* ProcessTerminatedException "If the process terminates with a non-zero   *)
(* exit code", or, by ensure_correct_cancellation, a CancelledError.       *)
WaitRaises == waitAt # "lookup"

(* A process that exited, or exits once signalled, is awaited no longer;   *)
(* without kqueue and pidfd wait_for_process needs it to be reaped.        *)
ProcessEnds ==
  (\/ os = "reaped"
   \/ Exited /\ (Waits \/ Reaps)
   \/ waitSignals > 0 /\ processKind.obeys)
     ~> IF Waits THEN WaitOver ELSE reapAt \in {"over", "cancelled"}
=============================================================================
