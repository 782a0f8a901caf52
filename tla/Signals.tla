------------------------------ MODULE Signals ------------------------------
(***************************************************************************)
(* One use of handle_signal, wait_for_signal or watch_signal               *)
(* (modules/signals.py). The operating system leaves a signal with the     *)
(* event loop, which schedules the handlers when it next looks, those that *)
(* are still registered. handle_signal cancels its task through a scope    *)
(* (modules/scope.py).                                                     *)
(***************************************************************************)
EXTENDS Naturals, Sequences

CONSTANTS
  Codes,       (* the signals that are handled                               *)
  NoCode,      (* no signal                                                  *)
  MaxSignals,  (* bounds how many of them arrive                             *)
  MaxSignalCancels  (* bounds how often others cancel the task               *)

ASSUME SignalsAssumption == /\ NoCode \notin Codes
                            /\ MaxSignals \in Nat
                            /\ MaxSignalCancels \in Nat

VARIABLES
  sigAt,       (* the task: in the body, waiting for a signal, or over       *)
  sigArrived,  (* signals that the loop has not looked at                    *)
  sigReady,    (* the handlers in its ready queue                            *)
  handled,     (* handled_signal_code, or the state of the future or event   *)
  sigScope,    (* scope.cancellation_count                                   *)
  sigCount,    (* current_task.cancelling()                                  *)
  sigMust,     (* the task gets a CancelledError at its next step            *)
  sigCancels,  (* how often others cancelled it                              *)
  sigNumber,   (* how many signals arrived                                   *)
  sigRaised,   (* what it raised, once over                                  *)
  sigKind      (* how: the function; before: cancellations that the task had *)
               (* already; catches: the body may suppress its cancellations  *)

sigTask == <<sigAt, sigScope, sigCount, sigMust, sigCancels, sigRaised>>
sigVars == <<sigTask, sigArrived, sigReady, handled, sigNumber, sigKind>>

HandlesSignal == sigKind.how = "handle_signal"

SignalInit == /\ sigArrived = <<>>
              /\ sigReady = <<>>
              /\ handled = NoCode
              /\ sigScope = 0
              /\ sigMust = FALSE
              /\ sigCancels = 0
              /\ sigNumber = 0
              /\ sigRaised = {}
              /\ sigKind \in [how : {"handle_signal", "wait_for_signal", "watch_signal"},
                              before : {0, 1}, catches : BOOLEAN]
              /\ sigCount = sigKind.before
              /\ sigAt = IF HandlesSignal THEN "body" ELSE "waiting"

-----------------------------------------------------------------------------
(* The operating system and the loop.                                      *)

Arrive(code) == /\ sigAt # "over"
                /\ sigNumber < MaxSignals
                /\ sigNumber' = sigNumber + 1
                /\ sigArrived' = Append(sigArrived, code)
                /\ UNCHANGED <<sigTask, sigReady, handled, sigKind>>

(* A signal whose handler has been removed is dropped. *)
ReadSignals == /\ sigArrived # <<>>
               /\ sigArrived' = <<>>
               /\ sigReady' = IF sigAt = "over" THEN sigReady ELSE sigReady \o sigArrived
               /\ UNCHANGED <<sigTask, handled, sigNumber, sigKind>>

(* Mutation of CancelBody: the task is cancelled behind the scope's back. *)
CancelBody_Plain == /\ sigMust' = TRUE
                    /\ sigCount' = sigCount + 1
                    /\ UNCHANGED sigScope

(* scope.cancel *)
CancelBody == /\ sigMust' = TRUE
              /\ sigCount' = sigCount + 1
              /\ sigScope' = sigScope + 1

(* callback, or that of the future or the event. *)
RunHandler == /\ sigReady # <<>>
              /\ sigReady' = Tail(sigReady)
              /\ handled' = Head(sigReady)
              /\ IF HandlesSignal /\ sigAt = "body" THEN CancelBody
                                                    ELSE UNCHANGED <<sigMust, sigCount,
                                                                     sigScope>>
              /\ UNCHANGED <<sigAt, sigCancels, sigRaised, sigArrived, sigNumber, sigKind>>

-----------------------------------------------------------------------------
(* The task.                                                               *)

(* handle_signal is exited: its handlers are removed, the scope takes its  *)
(* cancellations back, and a signal that was handled is raised.            *)
LeaveHandler(exceptions) ==
  LET left == IF exceptions = {"cancelled"} THEN sigCount - sigScope ELSE sigCount
      through == IF exceptions = {"cancelled"} /\ left = 0 THEN {} ELSE exceptions IN
  /\ HandlesSignal
  /\ sigAt = "body"
  /\ sigMust /\ ~sigKind.catches => exceptions = {"cancelled"}
  /\ sigAt' = "over"
  /\ sigMust' = FALSE
  /\ sigCount' = left
  /\ sigRaised' = IF through = {} /\ handled # NoCode THEN {"signal"} ELSE through
  /\ UNCHANGED <<sigScope, sigCancels, sigArrived, sigReady, handled, sigNumber, sigKind>>

SuppressSignal == /\ HandlesSignal
                  /\ sigAt = "body"
                  /\ sigMust
                  /\ sigKind.catches
                  /\ sigMust' = FALSE
                  /\ UNCHANGED <<sigAt, sigScope, sigCount, sigCancels, sigRaised, sigArrived,
                                 sigReady, handled, sigNumber, sigKind>>

(* The future is done, or the event set; the event is cleared. *)
TakeSignal == /\ sigAt = "waiting"
              /\ ~sigMust
              /\ handled # NoCode
              /\ sigAt' = IF sigKind.how = "watch_signal" THEN "body" ELSE "over"
              /\ handled' = IF sigKind.how = "watch_signal" THEN NoCode ELSE handled
              /\ UNCHANGED <<sigScope, sigCount, sigMust, sigCancels, sigRaised, sigArrived,
                             sigReady, sigNumber, sigKind>>

(* The next iteration of watch_signal. *)
AskSignal == /\ sigKind.how = "watch_signal"
             /\ sigAt = "body"
             /\ sigAt' = "waiting"
             /\ UNCHANGED <<sigScope, sigCount, sigMust, sigCancels, sigRaised, sigArrived,
                            sigReady, handled, sigNumber, sigKind>>

(* A CancelledError reaches the wait for a signal, or the generator is     *)
(* closed; either removes the handlers.                                    *)
StopWaiting == /\ \/ sigAt = "waiting" /\ sigMust
                  \/ sigAt = "body" /\ sigKind.how = "watch_signal"
               /\ sigAt' = "over"
               /\ sigMust' = FALSE
               /\ sigRaised' = IF sigAt = "waiting" THEN {"cancelled"} ELSE {}
               /\ UNCHANGED <<sigScope, sigCount, sigCancels, sigArrived, sigReady, handled,
                              sigNumber, sigKind>>

(* Somebody else cancels the task. *)
CancelHandler == /\ HandlesSignal \/ sigAt = "waiting"
                 /\ sigAt # "over"
                 /\ sigCancels < MaxSignalCancels
                 /\ sigCancels' = sigCancels + 1
                 /\ sigCount' = sigCount + 1
                 /\ sigMust' = TRUE
                 /\ UNCHANGED <<sigAt, sigScope, sigRaised, sigArrived, sigReady, handled,
                                sigNumber, sigKind>>

LeavesHandler == \E exceptions \in {{}, {"body"}, {"cancelled"}} : LeaveHandler(exceptions)

(* What the loop has to run. *)
SignalSteps == \/ ReadSignals \/ RunHandler \/ TakeSignal
               \/ sigMust /\ (LeavesHandler \/ StopWaiting)

SignalNext == \/ \E code \in Codes : Arrive(code)
              \/ SignalSteps \/ LeavesHandler \/ SuppressSignal \/ AskSignal \/ StopWaiting
              \/ CancelHandler

-----------------------------------------------------------------------------
(* handle_signal raises for every signal that was handled, unless somebody *)
(* else cancelled the task, which then is what it raises, or the body      *)
(* failed, however close the end of the body they come; and unless the     *)
(* body suppressed it, no cancellation of its own is left to the task.     *)
SignalReports ==
  sigAt = "over" /\ HandlesSignal /\ ~sigKind.catches =>
    /\ sigCount = sigKind.before + sigCancels
    /\ sigCancels > 0 => sigRaised = {"cancelled"}
    /\ sigRaised = {"cancelled"} => sigCount > 0
    /\ sigScope > 0 /\ sigCount = 0 => sigRaised = {"signal"}

(* A signal whose handler runs ends the body that does not suppress it, or *)
(* the wait for it; one in between two iterations ends the next.           *)
SignalEnds ==
  (sigReady # <<>> /\ ~(HandlesSignal /\ sigKind.catches))
    ~> (sigAt # IF HandlesSignal THEN "body" ELSE "waiting")
=============================================================================
