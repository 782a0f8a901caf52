--------------------------- MODULE Contextualize ---------------------------
(***************************************************************************)
(* One use of contextualize (modules/contextualize.py): a background task, *)
(* which is a GuaranteedTask (modules/guaranteed_task.py), runs beside the *)
(* body of a context, whose cancellations a scope (modules/scope.py)       *)
(* counts, and is cancelled on exit by cancel_task (modules/cancel.py).    *)
(*                                                                         *)
(* Everything runs in one loop. A step of either task goes on to its next  *)
(* suspension; what the body and the background do is unknown, except that *)
(* they end, wait, or get a CancelledError that they may suppress.         *)
(***************************************************************************)
EXTENDS Naturals

CONSTANT MaxCancels  (* bounds how often others cancel the current task      *)

ASSUME ContextualizeAssumption == MaxCancels \in Nat

VARIABLES
  context,    (* where the current task is                                   *)
  leaving,    (* what the body raised, as use_scope lets it through          *)
  raised,     (* what the context raises, once over                          *)
  count,      (* current_task.cancelling()                                   *)
  must,       (* the current task gets a CancelledError at its next step     *)
  scope,      (* scope.cancellation_count                                    *)
  callback,   (* callback: added to the background's, scheduled, or neither  *)
  background, (* the background task: pending, or how it ended               *)
  ready,      (* __ready                                                     *)
  requests,   (* __cancellation_count                                        *)
  told,       (* the background gets a CancelledError at its next step       *)
  cancels,    (* how often others cancelled the current task                 *)
  late,       (* the last time, the background was already over              *)
  kind        (* before: cancellations that the task had already; stubborn,  *)
              (* catches: the background, the body may suppress theirs       *)

taskVars == <<context, leaving, raised, count, must, scope, callback>>
backgroundVars == <<background, ready, requests, told>>
contextVars == <<taskVars, backgroundVars, cancels, late, kind>>

(* GuaranteedTask(awaitable), with its callback, then the body. *)
ContextInit == /\ context = "body"
               /\ leaving = {}
               /\ raised = {}
               /\ must = FALSE
               /\ scope = 0
               /\ callback = "added"
               /\ background = "pending"
               /\ ready = FALSE
               /\ requests = 0
               /\ told = FALSE
               /\ cancels = 0
               /\ late = FALSE
               /\ kind \in [before : {0, 1}, stubborn : BOOLEAN, catches : BOOLEAN]
               /\ count = kind.before

Done == background # "pending"

(* What awaiting the background raises once it is done. *)
Outcome == CASE background = "value" -> {}
             [] background = "error" -> {"background"}
             [] background = "cancelled" -> {"cancelled"}

-----------------------------------------------------------------------------
(* The background's task.                                                  *)

End(outcome) == /\ background' = outcome
                /\ told' = FALSE
                /\ callback' = IF callback = "added" THEN "scheduled" ELSE callback

(* Mutation of StartBackground: cancellations from before are forgotten. *)
StartBackground_Forgets ==
  /\ ~Done
  /\ ~ready
  /\ ready' = TRUE
  /\ UNCHANGED <<taskVars, background, requests, told, cancels, late, kind>>

(* task_main passes on the cancellations that came before it started, then *)
(* awaits, which meets them where it first suspends. A task that returns   *)
(* with a cancellation left to deliver is cancelled.                       *)
StartBackground ==
  /\ ~Done
  /\ ~ready
  /\ ready' = TRUE
  /\ \/ /\ told' = (requests > 0)
        /\ UNCHANGED <<background, callback>>
     \/ \E outcome \in {"value", "error", "cancelled"} :
          End(IF requests > 0 /\ outcome = "value" THEN "cancelled" ELSE outcome)
  /\ UNCHANGED <<context, leaving, raised, count, must, scope, requests, cancels, late,
                 kind>>

(* It ends, with CancelledError too if what it awaits is cancelled. *)
EndBackground ==
  /\ ~Done
  /\ ready
  /\ \E outcome \in {"value", "error", "cancelled"} :
       /\ told /\ ~kind.stubborn => outcome # "value"
       /\ End(outcome)
  /\ UNCHANGED <<context, leaving, raised, count, must, scope, ready, requests, cancels,
                 late, kind>>

SuppressBackground == /\ ~Done
                      /\ told
                      /\ kind.stubborn
                      /\ told' = FALSE
                      /\ UNCHANGED <<taskVars, background, ready, requests, cancels, late,
                                     kind>>

(* Mutation of CancelBackground: it is cancelled as any other task. *)
CancelBackground_Plain == /\ requests' = requests + 1
                          /\ told' = ready
                          /\ background' = IF ready THEN background ELSE "cancelled"
                          /\ UNCHANGED ready

(* GuaranteedTask.cancel of a task that is not done. *)
CancelBackground == /\ requests' = requests + 1
                    /\ told' = ready
                    /\ UNCHANGED <<background, ready>>

-----------------------------------------------------------------------------
(* The current task.                                                       *)

(* scope.cancel, of a task that is not running. *)
ScopeCancel == /\ count' = count + 1
               /\ scope' = scope + 1
               /\ must' = TRUE

(* callback: it cancels the scope, which raises if it has been exited. *)
RunCallback ==
  /\ callback = "scheduled"
  /\ callback' = "none"
  /\ \/ /\ background = "error"
        /\ context = "body"
        /\ ScopeCancel
     \/ /\ background # "error" \/ context # "body"
        /\ UNCHANGED <<count, scope, must>>
  /\ UNCHANGED <<context, leaving, raised, backgroundVars, cancels, late, kind>>

CatchInBody == /\ context = "body"
               /\ must
               /\ kind.catches
               /\ must' = FALSE
               /\ UNCHANGED <<context, leaving, raised, count, scope, callback,
                              backgroundVars, cancels, late, kind>>

(* Mutation of Uncancelled: the scope leaves its cancellations behind. *)
Uncancelled_None == count

(* task.uncancel, for each cancellation of the scope. *)
Uncancelled == count - scope

(* What use_scope lets through: a CancelledError only while cancelled. *)
Through(exceptions) == IF exceptions = {"cancelled"} /\ Uncancelled = 0 THEN {} ELSE exceptions

(* What the context raises once cancel_task raised this. *)
Raise(left, exceptions) ==
  raised' = IF exceptions = {} THEN left
            ELSE IF left = {"body"} THEN left \cup exceptions ELSE exceptions

(* The body ends: use_scope, and cancel_task, up to its await if it has to *)
(* wait. The body may raise CancelledError of its own too, when it awaits  *)
(* what somebody cancelled.                                                *)
Leave(exceptions) ==
  /\ context = "body"
  /\ must /\ ~kind.catches => exceptions = {"cancelled"}
  /\ must' = FALSE
  /\ callback' = IF callback = "added" THEN "none" ELSE callback
  /\ count' = IF exceptions = {"cancelled"} THEN Uncancelled ELSE count
  /\ leaving' = Through(exceptions)
  /\ \/ /\ Done
        /\ context' = "over"
        /\ Raise(Through(exceptions), Outcome)
        /\ UNCHANGED backgroundVars
     \/ /\ ~Done
        /\ context' = "exiting"
        /\ CancelBackground
        /\ UNCHANGED raised
  /\ UNCHANGED <<scope, cancels, late, kind>>

LeaveBody == \E exceptions \in {{}, {"body"}, {"cancelled"}} : Leave(exceptions)

(* Mutation of Suppressed: a CancelledError is always suppressed. *)
Suppressed_Always == TRUE

(* cancel_task suppresses a CancelledError if nobody but it cancelled. *)
Suppressed == requests = 1

(* cancel_task after its await, which raises what the current task was     *)
(* told, or else what the background did.                                  *)
LeaveContext ==
  /\ context = "exiting"
  /\ Done
  /\ context' = "over"
  /\ must' = FALSE
  /\ LET exceptions == IF must THEN {"cancelled"} ELSE Outcome IN
       /\ Raise(leaving, IF exceptions = {"cancelled"} /\ Suppressed THEN {} ELSE exceptions)
       /\ requests' = IF exceptions = {"cancelled"} THEN requests - 1 ELSE requests
  /\ UNCHANGED <<leaving, count, scope, callback, background, ready, told, cancels, late,
                 kind>>

(* Somebody cancels the current task. While it awaits the background, that *)
(* cancels the background, whose `cancel` refuses only if it was cancelled.*)
CancelCurrent ==
  /\ context # "over"
  /\ cancels < MaxCancels
  /\ cancels' = cancels + 1
  /\ count' = count + 1
  /\ late' = (context = "exiting" /\ Done)
  /\ \/ /\ context = "body" \/ background = "cancelled"
        /\ must' = TRUE
        /\ UNCHANGED backgroundVars
     \/ /\ context = "exiting"
        /\ ~Done
        /\ CancelBackground
        /\ UNCHANGED must
     \/ /\ context = "exiting"
        /\ background \in {"value", "error"}
        /\ requests' = requests + 1
        /\ UNCHANGED <<must, background, ready, told>>
  /\ UNCHANGED <<context, leaving, raised, scope, callback, kind>>

ContextNext == \/ StartBackground \/ EndBackground \/ SuppressBackground
               \/ RunCallback \/ CatchInBody \/ LeaveBody \/ LeaveContext \/ CancelCurrent

(* What the loop runs; a task ends if it gets no further than the          *)
(* CancelledErrors it is thrown. Nothing runs for ever, so that no step    *)
(* can keep another from being taken.                                      *)
ContextSteps == \/ StartBackground \/ (told /\ EndBackground) \/ RunCallback
                \/ (must /\ LeaveBody) \/ LeaveContext

ContextFairness == WF_contextVars(ContextSteps)

ContextSpec == ContextInit /\ [][ContextNext]_contextVars /\ ContextFairness

-----------------------------------------------------------------------------
ContextTypeOK == /\ context \in {"body", "exiting", "over"}
                 /\ leaving \in {{}, {"body"}, {"cancelled"}}
                 /\ raised \subseteq {"body", "background", "cancelled"}
                 /\ count \in 0..(MaxCancels + 2)
                 /\ must \in BOOLEAN
                 /\ scope \in {0, 1}
                 /\ callback \in {"added", "scheduled", "none"}
                 /\ background \in {"pending", "value", "error", "cancelled"}
                 /\ ready \in BOOLEAN
                 /\ requests \in 0..(MaxCancels + 1)
                 /\ told \in BOOLEAN
                 /\ cancels \in 0..MaxCancels
                 /\ late \in BOOLEAN
                 /\ kind \in [before : {0, 1}, stubborn : BOOLEAN, catches : BOOLEAN]

(* Nothing is left running and no failure of the background is lost: when  *)
(* the context is over its awaitable was awaited and is done, however soon *)
(* the body ended, and the context raises what it raised, and only then.   *)
BackgroundAwaited ==
  context = "over" => /\ ready /\ Done
                      /\ "background" \in raised <=> background = "error"

(* Cancellations are neither lost nor left over. One from elsewhere shows  *)
(* as an exception, unless the body or the background suppressed it or the *)
(* background had ended when it came; and unless the body suppressed some, *)
(* the task's count is as if the scope's had never been: a later context   *)
(* of the same task would take what is left for a cancellation.            *)
CancellationsBalance ==
  context = "over" /\ ~kind.catches =>
    /\ cancels > 0 /\ ~late /\ ~kind.stubborn => raised # {}
    /\ count = kind.before + cancels

(* The inductive invariant. The background can only be over once it has    *)
(* started, and each request for its cancellation is cancel_task's or      *)
(* somebody's.                                                             *)
Stages == /\ Done => ready
          /\ context = "body" => requests = 0
          /\ context = "exiting" => requests > 0
          /\ context = "exiting" /\ must => background = "cancelled"
          /\ requests <= cancels + 1

(* The task's count, and that a cancellation in the body is delivered.     *)
Counted == /\ callback # "none" => scope = 0
           /\ count <= kind.before + cancels + scope
           /\ context = "body" => count = kind.before + cancels + scope
           /\ context = "body" /\ ~kind.catches /\ cancels + scope > 0 => must
           /\ context # "body" /\ ~kind.catches => count = kind.before + cancels

(* A cancellation that is not to be seen in what the body raised is one    *)
(* that the background has met, or will.                                   *)
PassedOn ==
  (/\ context = "exiting"
   /\ cancels > 0
   /\ ~late
   /\ ~kind.catches
   /\ ~kind.stubborn
   /\ leaving = {})
     => /\ requests > 1
        /\ background \in {"error", "cancelled"} \/ (~Done /\ (ready => told))

ContextInv == /\ ContextTypeOK
              /\ Stages
              /\ Counted
              /\ PassedOn
              /\ BackgroundAwaited
              /\ CancellationsBalance

(* The failure of the background reaches the body, and the exit does not   *)
(* wait for what would end if it were cancelled.                           *)
ContextEnds ==
  /\ (background = "error" /\ ~kind.catches) ~> (context # "body")
  /\ (context = "exiting" /\ ~kind.stubborn) ~> (context = "over")
=============================================================================
