---------------------------- MODULE GatherProofs ----------------------------
(***************************************************************************)
(* Proofs about Gather, for any awaitables and any number of cancellations.*)
(* GatherInv is inductive: what gather reports follows from `cancelled`,   *)
(* which is worth nothing unless it, or the CancelledError on its way,     *)
(* accounts for every cancellation (CancelsSeen). One lemma per action.    *)
(***************************************************************************)
EXTENDS Gather, TLAPS

(* gather is called: it starts tasks, and ends at once without any. Its    *)
(* caller may stop some tasks, but has met all its cancellations by then.  *)
LEMMA GatherCall ==
  ASSUME GatherInv,
         NEW S \in SUBSET Children, NEW isSensitive \in BOOLEAN, Gather(S, isSensitive),
         told' \subseteq Pending(Children), interrupted' = FALSE
  PROVE  GatherInv'
<1>1. GatherTypeOK'
  <2>1. child' \in [Children -> {"none", "pending", "value", "error", "cancelled"}]
    BY DEF Gather, GatherInv, GatherTypeOK
  <2>2. told' \subseteq Pending(Children)'
    BY DEF Gather, GatherInv, GatherTypeOK, Pending
  <2>3. /\ tasks' \subseteq Children /\ sensitive' \in BOOLEAN
        /\ failed' \in BOOLEAN /\ cancelled' \in BOOLEAN /\ interrupted' \in BOOLEAN
    BY DEF Gather
  <2>4. stage' \in {"idle", "first", "all", "returned", "failed", "cancelled"}
    BY DEF Gather
  <2>5. cancels' \in 0 .. MaxCancels BY GatherAssumption DEF Gather
  <2> QED BY <2>1, <2>2, <2>3, <2>4, <2>5 DEF GatherTypeOK
<1>2. CancelsSeen' BY DEF CancelsSeen, Awaiting, Gather
<1>3. NoneLeftBehind' BY DEF NoneLeftBehind, GatherOver, AllDone, Gather
<1>4. ReportsTasks' BY DEF ReportsTasks, Gather
<1> QED BY <1>1, <1>2, <1>3, <1>4 DEF GatherInv

(* The caller is cancelled. *)
LEMMA CancelGatherStep ==
  ASSUME GatherInv, CancelGather
  PROVE  GatherInv'
<1>1. GatherTypeOK' BY GatherAssumption DEF CancelGather, GatherInv,
   GatherTypeOK, Pending, Interrupt
<1>2. CancelsSeen' BY DEF CancelGather, GatherInv, GatherTypeOK, CancelsSeen,
   Awaiting, GatherOver, GatherOutcome, Interrupt
<1>3. NoneLeftBehind' BY GatherAssumption DEF CancelGather, NoneLeftBehind,
   Awaiting, GatherOver
<1>4. ReportsTasks' BY GatherAssumption DEF CancelGather, ReportsTasks, Awaiting
<1> QED BY <1>1, <1>2, <1>3, <1>4 DEF GatherInv

(* The steps of gather itself. *)
LEMMA FirstEndsStep ==
  ASSUME GatherInv, FirstEnds
  PROVE  GatherInv'
<1>1. GatherTypeOK' BY GatherAssumption DEF FirstEnds, GatherInv, GatherTypeOK,
   Pending
<1>2. CancelsSeen' BY DEF FirstEnds, GatherInv, GatherTypeOK, CancelsSeen,
   Awaiting, GatherOver, GatherOutcome
<1>3. NoneLeftBehind' BY GatherAssumption DEF FirstEnds, NoneLeftBehind,
   GatherOver
<1>4. ReportsTasks' BY GatherAssumption DEF FirstEnds, ReportsTasks
<1> QED BY <1>1, <1>2, <1>3, <1>4 DEF GatherInv

LEMMA FirstCancelledStep ==
  ASSUME GatherInv, FirstCancelled
  PROVE  GatherInv'
<1>1. GatherTypeOK' BY GatherAssumption DEF FirstCancelled, GatherInv,
   GatherTypeOK, Pending
<1>2. CancelsSeen' BY DEF FirstCancelled, GatherInv, GatherTypeOK, CancelsSeen,
   Awaiting, GatherOver, GatherOutcome
<1>3. NoneLeftBehind' BY GatherAssumption DEF FirstCancelled, NoneLeftBehind,
   GatherOver
<1>4. ReportsTasks' BY GatherAssumption DEF FirstCancelled, ReportsTasks
<1> QED BY <1>1, <1>2, <1>3, <1>4 DEF GatherInv

LEMMA AllCancelledStep ==
  ASSUME GatherInv, AllCancelled
  PROVE  GatherInv'
<1>1. GatherTypeOK' BY GatherAssumption DEF AllCancelled, GatherInv,
   GatherTypeOK, Pending
<1>2. CancelsSeen' BY DEF AllCancelled, GatherInv, GatherTypeOK, CancelsSeen,
   Awaiting, GatherOver, GatherOutcome
<1>3. NoneLeftBehind' BY GatherAssumption DEF AllCancelled, NoneLeftBehind,
   GatherOver
<1>4. ReportsTasks' BY GatherAssumption DEF AllCancelled, ReportsTasks
<1> QED BY <1>1, <1>2, <1>3, <1>4 DEF GatherInv

LEMMA AllEndsStep ==
  ASSUME GatherInv, AllEnds
  PROVE  GatherInv'
<1>1. GatherTypeOK' BY GatherAssumption DEF AllEnds, GatherInv, GatherTypeOK,
   Pending, GatherOutcome
<1>2. CancelsSeen' BY DEF AllEnds, GatherInv, GatherTypeOK, CancelsSeen,
   Awaiting, GatherOver, GatherOutcome
<1>3. NoneLeftBehind' BY GatherAssumption DEF AllEnds, NoneLeftBehind, Done,
   AllDone
<1>4. ReportsTasks' BY GatherAssumption DEF AllEnds, GatherInv, GatherTypeOK,
   CancelsSeen, Awaiting, ReportsTasks, Done, AllDone, GatherOutcome
<1> QED BY <1>1, <1>2, <1>3, <1>4 DEF GatherInv

(* The steps of a task. *)
LEMMA ChildEndsStep ==
  ASSUME NEW c \in Children, GatherInv, ChildEnds(c)
  PROVE  GatherInv'
<1>1. GatherTypeOK' BY GatherAssumption DEF ChildEnds, GatherInv, GatherTypeOK,
   Pending, Outcomes
<1>2. CancelsSeen' BY DEF ChildEnds, GatherInv, GatherTypeOK, CancelsSeen,
   Awaiting, GatherOver, GatherOutcome
<1>3. NoneLeftBehind' BY GatherAssumption DEF ChildEnds, GatherInv,
   GatherTypeOK, NoneLeftBehind, GatherOver, Done, AllDone
<1>4. ReportsTasks' BY GatherAssumption DEF ChildEnds, GatherInv, GatherTypeOK,
   ReportsTasks
<1> QED BY <1>1, <1>2, <1>3, <1>4 DEF GatherInv

LEMMA ChildSuppressesStep ==
  ASSUME NEW c \in Children, GatherInv, ChildSuppresses(c)
  PROVE  GatherInv'
<1>1. GatherTypeOK' BY GatherAssumption DEF ChildSuppresses, GatherInv,
   GatherTypeOK, Pending
<1>2. CancelsSeen' BY DEF ChildSuppresses, GatherInv, GatherTypeOK, CancelsSeen,
   Awaiting, GatherOver, GatherOutcome
<1>3. NoneLeftBehind' BY GatherAssumption DEF ChildSuppresses, GatherInv,
   NoneLeftBehind, GatherOver, Done, AllDone
<1>4. ReportsTasks' BY GatherAssumption DEF ChildSuppresses, GatherInv,
   ReportsTasks
<1> QED BY <1>1, <1>2, <1>3, <1>4 DEF GatherInv

(* The steps of gather and of its tasks, which others that call it take.   *)
LEMMA GatherInnerStep ==
  ASSUME GatherInv, CancelGather \/ GatherSteps \/ ChildSteps \/ UNCHANGED gatherVars
  PROVE  GatherInv'
<1>1. CASE CancelGather BY <1>1, CancelGatherStep
<1>2. CASE GatherSteps BY <1>2, FirstEndsStep, FirstCancelledStep, AllCancelledStep,
   AllEndsStep DEF GatherSteps
<1>3. CASE ChildSteps BY <1>3, ChildEndsStep, ChildSuppressesStep DEF ChildSteps
<1>4. CASE UNCHANGED gatherVars
  <2>1. GatherTypeOK' BY <1>4 DEF gatherVars, GatherInv, GatherTypeOK, Pending
  <2>2. CancelsSeen' BY <1>4 DEF gatherVars, GatherInv, CancelsSeen, Awaiting, GatherOver
  <2>3. NoneLeftBehind' BY <1>4 DEF gatherVars, GatherInv, NoneLeftBehind, GatherOver,
     AllDone, Done
  <2>4. ReportsTasks' BY <1>4 DEF gatherVars, GatherInv, ReportsTasks
  <2> QED BY <2>1, <2>2, <2>3, <2>4 DEF GatherInv
<1> QED BY <1>1, <1>2, <1>3, <1>4

(* Nothing has happened when gather starts. *)
LEMMA GatherInitInv ==
  ASSUME GatherInit
  PROVE  GatherInv
<1>1. cancels \in 0 .. MaxCancels BY GatherAssumption DEF GatherInit
<1>2. GatherTypeOK BY <1>1 DEF GatherInit, GatherTypeOK
<1>3. CancelsSeen BY DEF GatherInit, CancelsSeen, Awaiting, GatherOver
<1>4. NoneLeftBehind BY DEF GatherInit, NoneLeftBehind, GatherOver
<1>5. ReportsTasks BY DEF GatherInit, ReportsTasks
<1> QED BY <1>2, <1>3, <1>4, <1>5 DEF GatherInv

(* Nobody is cancelled in a gather that was not called. *)
NotYet == stage = "idle" => interrupted = FALSE

(* The invariant holds in every reachable state. *)
THEOREM GatherInvariant == GatherSpec => [](GatherInv /\ NotYet)
<1>1. GatherInit => GatherInv /\ NotYet
  BY GatherInitInv DEF GatherInit, NotYet
<1>2. GatherInv /\ NotYet /\ [GatherNext]_gatherVars => GatherInv' /\ NotYet'
  <2> SUFFICES ASSUME GatherInv, NotYet, [GatherNext]_gatherVars
               PROVE  GatherInv' /\ NotYet'
     OBVIOUS
  <2>1. CASE GatherStart
    <3>1. PICK S \in Groups, isSensitive \in BOOLEAN : Gather(S, isSensitive)
      BY <2>1 DEF GatherStart
    <3>2. S \in SUBSET Children BY GatherAssumption
    <3>3. told' \subseteq Pending(Children) /\ interrupted' = FALSE
      BY <2>1 DEF GatherStart, GatherInv, GatherTypeOK, NotYet
    <3> QED BY <3>1, <3>2, <3>3, GatherCall DEF NotYet
  <2>2. CASE CancelGather \/ GatherSteps \/ ChildSteps \/ UNCHANGED gatherVars
    <3>1. GatherInv' BY <2>2, GatherInnerStep
    <3>2. NotYet'
      BY <2>2 DEF NotYet, CancelGather, Awaiting, GatherSteps, FirstEnds, FirstCancelled,
         AllCancelled, AllEnds, GatherOutcome, ChildSteps, ChildEnds, ChildSuppresses,
         gatherVars
    <3> QED BY <3>1, <3>2
  <2> QED BY <2>1, <2>2 DEF GatherNext
<1> QED BY <1>1, <1>2, PTL DEF GatherSpec

(* Every variable keeps its type; only a task that runs is told to stop. *)
THEOREM GatherTypeCorrect == GatherSpec => []GatherTypeOK
<1>1. GatherInv => GatherTypeOK BY DEF GatherInv
<1> QED BY <1>1, GatherInvariant, PTL

(* Whatever fails, suppresses or is cancelled, and however often, gather   *)
(* ends with all its tasks done.                                           *)
THEOREM NoTaskLeftBehind == GatherSpec => []NoneLeftBehind
<1>1. GatherInv => NoneLeftBehind BY DEF GatherInv
<1> QED BY <1>1, GatherInvariant, PTL

(* gather returns results only if no task failed or was cancelled and the  *)
(* caller was not cancelled, and raises only what happened.                *)
THEOREM GatherReports == GatherSpec => []ReportsTasks
<1>1. GatherInv => ReportsTasks BY DEF GatherInv
<1> QED BY <1>1, GatherInvariant, PTL
=============================================================================
