------------------------------- MODULE Gather -------------------------------
(***************************************************************************)
(* One call of gather (modules/gather.py), made by a task that anybody may *)
(* cancel: several awaitables run as tasks of the same loop, and gather    *)
(* waits for all of them, whatever happens.                                *)
(*                                                                         *)
(* Of an awaitable only its end matters, and how it takes a cancellation.  *)
(* Modules that call gather extend this one.                               *)
(***************************************************************************)
EXTENDS Naturals, FiniteSets

CONSTANTS
  Children,   (* the awaitables                                              *)
  Groups,     (* the sets of awaitables that are passed in a call            *)
  Stubborn,   (* those that may suppress the cancellations they receive      *)
  MaxCancels  (* bounds how often somebody cancels the caller of each gather *)

ASSUME GatherAssumption == /\ Groups \subseteq SUBSET Children
                           /\ Stubborn \subseteq Children
                           /\ MaxCancels \in Nat

VARIABLES
  child,       (* the state of each awaitable's task                         *)
  told,        (* tasks with a CancelledError to throw at their next step    *)
  tasks,       (* tasks                                                      *)
  sensitive,   (* sensitive                                                  *)
  stage,       (* which asyncio.wait gather is in, or how it ended           *)
  failed,      (* failed                                                     *)
  cancelled,   (* cancelled                                                  *)
  interrupted, (* the caller has a CancelledError to throw at its next step  *)
  cancels      (* how often the caller was cancelled since gather was called *)

gatherVars == <<child, told, tasks, sensitive, stage, failed, cancelled,
                interrupted, cancels>>

Done(c) == child[c] \in {"value", "error", "cancelled"}
Pending(S) == {c \in S : child[c] = "pending"}
AllDone(S) == \A c \in S : Done(c)

GatherOver == stage \in {"returned", "failed", "cancelled"}

GatherInit == /\ child = [c \in Children |-> "none"]
              /\ told = {}
              /\ tasks = {}
              /\ sensitive = TRUE
              /\ stage = "idle"
              /\ failed = FALSE
              /\ cancelled = FALSE
              /\ interrupted = FALSE
              /\ cancels = 0

-----------------------------------------------------------------------------
(* How a task may end: by itself, or cancelled by somebody else, or, once  *)
(* told to stop, cancelled or with an error of its cleanup.                *)
Outcomes(c) == IF c \in told /\ c \notin Stubborn THEN {"cancelled", "error"}
                                                  ELSE {"value", "error", "cancelled"}

ChildEnds(c) == /\ child[c] = "pending"
                /\ child' \in {[child EXCEPT ![c] = o] : o \in Outcomes(c)}
                /\ told' = told \ {c}
                /\ UNCHANGED <<tasks, sensitive, stage, failed, cancelled,
                               interrupted, cancels>>

(* A stubborn task suppresses its cancellation and goes on. *)
ChildSuppresses(c) == /\ c \in told \cap Stubborn
                      /\ told' = told \ {c}
                      /\ UNCHANGED <<child, tasks, sensitive, stage, failed,
                                     cancelled, interrupted, cancels>>

-----------------------------------------------------------------------------
(* gather is called on S: ensure_future starts what is not started yet. *)
Gather(S, isSensitive) ==
  /\ child' = [c \in Children |->
                 IF c \in S /\ child[c] = "none" THEN "pending" ELSE child[c]]
  /\ tasks' = S
  /\ sensitive' = isSensitive
  /\ failed' = FALSE
  /\ cancelled' = FALSE
  /\ cancels' = 0
  /\ stage' = IF S = {} THEN "returned" ELSE IF isSensitive THEN "first" ELSE "all"

(* Somebody calls gather itself. *)
GatherStart == /\ stage = "idle"
               /\ \E S \in Groups, isSensitive \in BOOLEAN : Gather(S, isSensitive)
               /\ UNCHANGED <<told, interrupted>>

(* Task.cancel of the caller while it awaits. *)
Awaiting == stage \in {"first", "all"}

Interrupt == /\ cancels < MaxCancels
             /\ cancels' = cancels + 1
             /\ interrupted' = TRUE

CancelGather == /\ Awaiting
                /\ Interrupt
                /\ UNCHANGED <<child, told, tasks, sensitive, stage, failed, cancelled>>

(* Mutation of FirstEnds: the other tasks are not cancelled. *)
FirstEnds_Lenient ==
  /\ stage = "first"
  /\ ~interrupted
  /\ AllDone(tasks) \/ \E c \in tasks : child[c] = "error"
  /\ failed' = (\E c \in tasks : child[c] \in {"error", "cancelled"})
  /\ stage' = "all"
  /\ UNCHANGED <<child, told, tasks, sensitive, cancelled, interrupted, cancels>>

(* The first wait ends with an exception, or because all tasks are done.   *)
FirstEnds ==
  /\ stage = "first"
  /\ ~interrupted
  /\ AllDone(tasks) \/ \E c \in tasks : child[c] = "error"
  /\ failed' = (\E c \in tasks : child[c] \in {"error", "cancelled"})
  /\ told' = IF failed' THEN told \cup Pending(tasks) ELSE told
  /\ stage' = "all"
  /\ UNCHANGED <<child, tasks, sensitive, cancelled, interrupted, cancels>>

FirstCancelled ==
  /\ stage = "first"
  /\ interrupted
  /\ interrupted' = FALSE
  /\ cancelled' = TRUE
  /\ failed' = FALSE
  /\ told' = told \cup Pending(tasks)
  /\ stage' = "all"
  /\ UNCHANGED <<child, tasks, sensitive, cancels>>

(* The tasks are not cancelled again the first time, if they failed. *)
AllCancelled ==
  /\ stage = "all"
  /\ interrupted
  /\ interrupted' = FALSE
  /\ cancelled' = TRUE
  /\ failed' = FALSE
  /\ told' = IF failed THEN told ELSE told \cup Pending(tasks)
  /\ UNCHANGED <<child, tasks, sensitive, stage, cancels>>

(* Mutation of GatherOutcome: the check on `cancelled` is redundant. *)
GatherOutcome_Redundant ==
  IF \E c \in tasks : child[c] = "error" THEN "failed"
  ELSE IF \E c \in tasks : child[c] = "cancelled" THEN "cancelled"
  ELSE "returned"

(* BaseExceptionGroup, CancelledError or the results. *)
GatherOutcome ==
  IF \E c \in tasks : child[c] = "error" THEN "failed"
  ELSE IF cancelled \/ \E c \in tasks : child[c] = "cancelled" THEN "cancelled"
  ELSE "returned"

(* Mutation of AllEnds: gather does not wait for tasks that it cancelled. *)
AllEnds_Hasty ==
  /\ stage = "all"
  /\ ~interrupted
  /\ AllDone(tasks \ told)
  /\ stage' = GatherOutcome
  /\ UNCHANGED <<child, told, tasks, sensitive, failed, cancelled, interrupted, cancels>>

AllEnds ==
  /\ stage = "all"
  /\ ~interrupted
  /\ AllDone(tasks)
  /\ stage' = GatherOutcome
  /\ UNCHANGED <<child, told, tasks, sensitive, failed, cancelled, interrupted, cancels>>

-----------------------------------------------------------------------------
GatherSteps == FirstEnds \/ FirstCancelled \/ AllCancelled \/ AllEnds

ChildSteps == \E c \in Children : ChildEnds(c) \/ ChildSuppresses(c)

GatherNext == GatherStart \/ CancelGather \/ GatherSteps \/ ChildSteps

GatherSpec == GatherInit /\ [][GatherNext]_gatherVars

(* The loop runs what is ready, and a task that does not suppress its      *)
(* cancellation ends. Others need not end.                                 *)
GatherFairness == /\ WF_gatherVars(GatherSteps)
                  /\ \A c \in Children \ Stubborn :
                       WF_gatherVars(c \in told /\ ChildEnds(c))

-----------------------------------------------------------------------------
GatherTypeOK ==
  /\ child \in [Children -> {"none", "pending", "value", "error", "cancelled"}]
  /\ told \subseteq Pending(Children)
  /\ tasks \subseteq Children
  /\ sensitive \in BOOLEAN
  /\ stage \in {"idle", "first", "all", "returned", "failed", "cancelled"}
  /\ failed \in BOOLEAN
  /\ cancelled \in BOOLEAN
  /\ interrupted \in BOOLEAN
  /\ cancels \in 0 .. MaxCancels

(* gather leaves no task behind: when it is over, by whatever path, every  *)
(* task it started is done.                                                *)
NoneLeftBehind == GatherOver => AllDone(tasks)

(* What gather reports is what happened: a value only if all tasks have    *)
(* one and nobody cancelled the caller, who is never told that nothing     *)
(* happened if somebody did; CancelledError only for a reason.             *)
ReportsTasks ==
  /\ stage = "returned" => cancels = 0 /\ \A c \in tasks : child[c] = "value"
  /\ stage = "failed" => \E c \in tasks : child[c] = "error"
  /\ stage = "cancelled" => cancels > 0 \/ \E c \in tasks : child[c] = "cancelled"

(* While gather waits it remembers every cancellation, and it never ends   *)
(* with one that it did not see.                                           *)
CancelsSeen ==
  /\ Awaiting => (cancels > 0 <=> cancelled \/ interrupted)
  /\ GatherOver => ~interrupted

(* The inductive invariant of gather, whoever calls it. *)
GatherInv == GatherTypeOK /\ CancelsSeen /\ NoneLeftBehind /\ ReportsTasks

(* A sensitive gather whose tasks take their cancellations ends after an   *)
(* error, and any gather of such tasks ends once the caller is cancelled:  *)
(* also when both happen.                                                  *)
GatherStops ==
  (/\ Awaiting
   /\ tasks \cap Stubborn = {}
   /\ cancels > 0 \/ (sensitive /\ \E c \in tasks : child[c] = "error"))
     ~> GatherOver
=============================================================================
