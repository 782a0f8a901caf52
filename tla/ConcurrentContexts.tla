------------------------- MODULE ConcurrentContexts -------------------------
(***************************************************************************)
(* One use of concurrent_contexts (modules/concurrent_contexts.py): the    *)
(* managers are entered by one gather, and those that were entered exited  *)
(* by another, which cleaned_up (modules/cleanup.py) shields from one      *)
(* cancellation by way of ShieldContext (modules/shield.py).               *)
(***************************************************************************)
EXTENDS Gather

CONSTANTS
  Managers,  (* the context managers, and the tasks that enter them          *)
  ExitOf     (* the task that exits each of them                             *)

ASSUME ContextsAssumption ==
  /\ Managers \subseteq Children
  /\ ExitOf \in [Managers -> Children \ Managers]
  /\ \A m, n \in Managers : ExitOf[m] = ExitOf[n] => m = n

VARIABLES
  contexts,  (* where the caller is                                          *)
  shield,    (* "up" while shield_wait absorbs, "hit" when it just did       *)
  entered    (* managers that the first gather was given                     *)

contextsVars == <<contexts, shield, entered>>

ContextsInit == /\ contexts = "idle"
                /\ shield = "down"
                /\ entered = {}

(* Mutation of Open: a manager is recorded before it is entered. *)
Open_Early == entered

(* open_managers: enter_context appends what was entered successfully. *)
Open == {m \in entered : child[m] = "value"}

(* Mutation of Exits: only a successful entry is cleaned up. *)
Exits_OnSuccess == IF stage = "returned" THEN {ExitOf[m] : m \in Open} ELSE {}

Exits == {ExitOf[m] : m \in Open}

(* The shield counts the cancellations that the caller had at the start. *)
ContextsStart == /\ contexts = "idle"
                 /\ contexts' = "entering"
                 /\ shield' \in {"up", "down"}
                 /\ \E S \in SUBSET Managers : entered' = S /\ Gather(S, TRUE)
                 /\ UNCHANGED <<told, interrupted>>

EnterBody == /\ contexts = "entering"
             /\ stage = "returned"
             /\ contexts' = "body"
             /\ UNCHANGED <<gatherVars, shield, entered>>

(* exit_contexts, after the body, however it ended, or a failed entry. *)
ExitContexts == /\ \/ contexts = "body"
                   \/ contexts = "entering" /\ stage \in {"failed", "cancelled"}
                /\ contexts' = "exiting"
                /\ Gather(Exits, TRUE)
                /\ UNCHANGED <<told, interrupted, shield, entered>>

(* While it enters, or without a shield, the caller awaits gather itself;  *)
(* otherwise only the shield around it.                                    *)
Unshielded == contexts = "entering" \/ (contexts = "exiting" /\ shield = "down")

(* Mutation of HitShield: the second gather is told at once. *)
HitShield_Through == /\ contexts = "exiting"
                     /\ shield = "up"
                     /\ shield' = "hit"
                     /\ told' = told \cup Pending(tasks)
                     /\ UNCHANGED <<child, tasks, sensitive, stage, failed, cancelled,
                                    interrupted, cancels, contexts, entered>>

HitShield == /\ contexts = "exiting"
             /\ shield = "up"
             /\ shield' = "hit"
             /\ UNCHANGED <<gatherVars, contexts, entered>>

(* shield_wait caught the CancelledError, and goes on to `await task`. *)
DropShield == /\ shield = "hit"
              /\ shield' = "down"
              /\ UNCHANGED <<gatherVars, contexts, entered>>

ContextsSteps == EnterBody \/ DropShield
                   \/ (contexts = "entering" /\ ExitContexts)

BodyEnds == contexts = "body" /\ ExitContexts

ContextsOver == contexts = "exiting" /\ GatherOver /\ shield # "hit"

-----------------------------------------------------------------------------
ContextsTypeOK == /\ contexts \in {"idle", "entering", "body", "exiting"}
                  /\ shield \in {"up", "hit", "down"}
                  /\ entered \subseteq Managers

(* Whoever was entered is exited, and nobody else: whatever failed, or was *)
(* cancelled, while the others were entered; and the body runs only with   *)
(* all of them entered.                                                    *)
ContextsBalanced ==
  /\ contexts = "body" => Open = entered
  /\ ContextsOver => \A m \in entered : child[m] = "value" <=> Done(ExitOf[m])

(* The cleanup is shielded: an exit is only told to stop because another   *)
(* one failed, or because the caller was cancelled once more than the      *)
(* shield absorbs. Even then, all of them are awaited to their end.        *)
CleanupShielded ==
  contexts = "exiting" =>
    /\ shield # "down" => cancels = 0
    /\ cancels = 0 /\ (\A c \in tasks : child[c] \notin {"error", "cancelled"}) =>
         told \cap tasks = {}
    /\ ContextsOver => AllDone(Exits)

(* A failed entry, or a cancellation meanwhile, ends the entering, so that *)
(* what was entered is exited; and the caller gets on once the exits are   *)
(* done. An exit that fails need not end the others.                       *)
ContextsStop ==
  /\ (/\ contexts = "entering"
      /\ tasks \cap Stubborn = {}
      /\ cancels > 0 \/ \E c \in tasks : child[c] = "error")
        ~> contexts = "exiting"
  /\ (contexts = "exiting" /\ AllDone(tasks)) ~> ContextsOver
=============================================================================
