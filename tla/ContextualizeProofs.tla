------------------------ MODULE ContextualizeProofs ------------------------
(***************************************************************************)
(* Proofs about Contextualize, however often the task is cancelled.        *)
(* ContextInv is inductive: PassedOn says where a cancellation is that the *)
(* context received while it waited for its background, Counted what the   *)
(* task's count is made of, and Stages that cancel_task's own request is   *)
(* among those that the background got. One lemma per action.              *)
(***************************************************************************)
EXTENDS Contextualize, TLAPS

(* The parts of ContextTypeOK. *)
ExitType == /\ context \in {"body", "exiting", "over"}
            /\ leaving \in {{}, {"body"}, {"cancelled"}}
            /\ raised \subseteq {"body", "background", "cancelled"}

SignalType == /\ must \in BOOLEAN
              /\ scope \in {0, 1}
              /\ callback \in {"added", "scheduled", "none"}

CountType == count \in 0..(MaxCancels + 2) /\ SignalType

RequestType == /\ background \in {"pending", "value", "error", "cancelled"}
               /\ ready \in BOOLEAN
               /\ requests \in 0..(MaxCancels + 1)

BackgroundType == RequestType /\ told \in BOOLEAN

CancelType == /\ cancels \in 0..MaxCancels
              /\ late \in BOOLEAN
              /\ kind \in [before : {0, 1}, stubborn : BOOLEAN, catches :
                 BOOLEAN]

(* The background starts, and meets the cancellations from before. *)
LEMMA StartBackgroundStep ==
  ASSUME ContextInv, StartBackground
  PROVE  ContextInv'
<1>1. ContextTypeOK'
  <2>1. ExitType'
    BY ContextualizeAssumption DEF ExitType, ContextInv, ContextTypeOK, StartBackground
  <2>2. CountType'
    <3>1. count' \in 0..(MaxCancels + 2)
      BY ContextualizeAssumption DEF ContextInv, ContextTypeOK, StartBackground
    <3>2. SignalType'
      BY DEF SignalType, ContextInv, ContextTypeOK, StartBackground, End
    <3> QED BY <3>1, <3>2 DEF CountType
  <2>3. BackgroundType'
    <3>1. RequestType' BY ContextualizeAssumption DEF RequestType, ContextInv,
       ContextTypeOK, StartBackground, End
    <3>2. told' = FALSE \/ told' = TRUE
      <4>1. CASE requests > 0 BY <4>1 DEF StartBackground, End
      <4>2. CASE ~(requests > 0) BY <4>2 DEF StartBackground, End
      <4> QED BY <4>1, <4>2
    <3>3. told' \in BOOLEAN BY <3>2
    <3> QED BY <3>1, <3>3 DEF BackgroundType
  <2>4. CancelType'
    BY ContextualizeAssumption DEF CancelType, ContextInv, ContextTypeOK,
       StartBackground
  <2> QED BY <2>1, <2>2, <2>3, <2>4 DEF ContextTypeOK, ExitType, CountType, SignalType,
     BackgroundType, RequestType, CancelType
<1>2. Stages' BY ContextualizeAssumption DEF ContextInv, Stages,
   StartBackground, Done
<1>3. Counted' BY ContextualizeAssumption DEF ContextInv, Counted,
   StartBackground, End
<1>4. PassedOn' BY ContextualizeAssumption DEF ContextInv, Stages, PassedOn,
   StartBackground, End, Done
<1>5. BackgroundAwaited' BY ContextualizeAssumption DEF ContextInv,
   BackgroundAwaited, StartBackground
<1>6. CancellationsBalance' BY ContextualizeAssumption DEF ContextInv,
   CancellationsBalance, StartBackground
<1> QED BY <1>1, <1>2, <1>3, <1>4, <1>5, <1>6 DEF ContextInv

(* The background ends, with CancelledError if it was told and cannot resist. *)
LEMMA EndBackgroundStep ==
  ASSUME ContextInv, EndBackground
  PROVE  ContextInv'
<1>1. ContextTypeOK'
  <2>1. ExitType' BY DEF ExitType, ContextInv, ContextTypeOK, EndBackground, End
  <2>2. CountType'
    <3>1. count' \in 0..(MaxCancels + 2) BY DEF ContextInv, ContextTypeOK,
       EndBackground, End
    <3>2. SignalType' BY DEF SignalType, ContextInv, ContextTypeOK, EndBackground, End
    <3> QED BY <3>1, <3>2 DEF CountType
  <2>3. BackgroundType' BY DEF BackgroundType, RequestType, ContextInv, ContextTypeOK,
     EndBackground, End
  <2>4. CancelType' BY DEF CancelType, ContextInv, ContextTypeOK, EndBackground, End
  <2> QED BY <2>1, <2>2, <2>3, <2>4 DEF ContextTypeOK, ExitType, CountType, SignalType,
     BackgroundType, RequestType, CancelType
<1>2. Stages' BY ContextualizeAssumption DEF ContextInv, Stages, EndBackground,
   Done
<1>3. Counted' BY ContextualizeAssumption DEF ContextInv, Counted,
   EndBackground, End
<1>4. PassedOn' BY ContextualizeAssumption DEF ContextInv, PassedOn,
   EndBackground, End, Done
<1>5. BackgroundAwaited' BY ContextualizeAssumption DEF ContextInv,
   BackgroundAwaited, EndBackground
<1>6. CancellationsBalance' BY ContextualizeAssumption DEF ContextInv,
   CancellationsBalance, EndBackground
<1> QED BY <1>1, <1>2, <1>3, <1>4, <1>5, <1>6 DEF ContextInv

(* The background suppresses a CancelledError. *)
LEMMA SuppressBackgroundStep ==
  ASSUME ContextInv, SuppressBackground
  PROVE  ContextInv'
<1>1. ContextTypeOK'
  <2>1. ExitType' BY DEF ExitType, ContextInv, ContextTypeOK, SuppressBackground,
     taskVars
  <2>2. CountType'
    <3>1. count' \in 0..(MaxCancels + 2) BY DEF ContextInv, ContextTypeOK,
       SuppressBackground, taskVars
    <3>2. SignalType' BY DEF SignalType, ContextInv, ContextTypeOK, SuppressBackground,
       taskVars
    <3> QED BY <3>1, <3>2 DEF CountType
  <2>3. BackgroundType' BY DEF BackgroundType, RequestType, ContextInv, ContextTypeOK,
     SuppressBackground, taskVars
  <2>4. CancelType' BY DEF CancelType, ContextInv, ContextTypeOK, SuppressBackground,
     taskVars
  <2> QED BY <2>1, <2>2, <2>3, <2>4 DEF ContextTypeOK, ExitType, CountType, SignalType,
     BackgroundType, RequestType, CancelType
<1>2. Stages' BY ContextualizeAssumption DEF ContextInv, Stages,
   SuppressBackground, Done, taskVars
<1>3. Counted' BY ContextualizeAssumption DEF ContextInv, Counted,
   SuppressBackground, taskVars
<1>4. PassedOn' BY ContextualizeAssumption DEF PassedOn, SuppressBackground
<1>5. BackgroundAwaited' BY ContextualizeAssumption DEF ContextInv,
   BackgroundAwaited, SuppressBackground, taskVars
<1>6. CancellationsBalance' BY ContextualizeAssumption DEF ContextInv,
   CancellationsBalance, SuppressBackground, taskVars
<1> QED BY <1>1, <1>2, <1>3, <1>4, <1>5, <1>6 DEF ContextInv

(* The callback cancels the scope, once at most. *)
LEMMA RunCallbackStep ==
  ASSUME ContextInv, RunCallback
  PROVE  ContextInv'
<1>1. ContextTypeOK'
  <2>1. ExitType'
    BY ContextualizeAssumption DEF ExitType, ContextInv, ContextTypeOK, RunCallback
  <2>2. CountType'
    <3>1. count' \in 0..(MaxCancels + 2)
      BY ContextualizeAssumption DEF ContextInv, ContextTypeOK, Counted, RunCallback,
         ScopeCancel
    <3>2. SignalType'
      <4>1. CASE background = "error" /\ context = "body"
        <5>1. scope = 0 BY <4>1 DEF RunCallback, ContextInv, Counted
        <5> QED BY <4>1, <5>1 DEF RunCallback, ScopeCancel, SignalType
      <4>2. CASE ~(background = "error" /\ context = "body")
        BY <4>2 DEF RunCallback, ContextInv, ContextTypeOK, SignalType
      <4> QED BY <4>1, <4>2
    <3> QED BY <3>1, <3>2 DEF CountType
  <2>3. BackgroundType'
    BY ContextualizeAssumption DEF BackgroundType, RequestType, ContextInv,
       ContextTypeOK, RunCallback, backgroundVars
  <2>4. CancelType'
    BY ContextualizeAssumption DEF CancelType, ContextInv, ContextTypeOK, RunCallback
  <2> QED BY <2>1, <2>2, <2>3, <2>4 DEF ContextTypeOK, ExitType, CountType, SignalType,
     BackgroundType, RequestType, CancelType
<1>2. Stages' BY ContextualizeAssumption DEF ContextInv, Stages, RunCallback,
   backgroundVars, Done
<1>3. Counted' BY ContextualizeAssumption DEF ContextInv, ContextTypeOK, Counted,
   RunCallback, ScopeCancel
<1>4. PassedOn' BY ContextualizeAssumption DEF ContextInv, PassedOn,
   RunCallback, backgroundVars, Done
<1>5. BackgroundAwaited' BY ContextualizeAssumption DEF ContextInv,
   BackgroundAwaited, RunCallback, backgroundVars, Done
<1>6. CancellationsBalance' BY ContextualizeAssumption DEF ContextInv,
   CancellationsBalance, RunCallback
<1> QED BY <1>1, <1>2, <1>3, <1>4, <1>5, <1>6 DEF ContextInv

(* The body suppresses a CancelledError. *)
LEMMA CatchInBodyStep ==
  ASSUME ContextInv, CatchInBody
  PROVE  ContextInv'
<1>1. ContextTypeOK' BY ContextualizeAssumption DEF ContextInv, ContextTypeOK, CatchInBody,
   backgroundVars
<1>2. Stages' BY ContextualizeAssumption DEF ContextInv, Stages, CatchInBody,
   backgroundVars, Done
<1>3. Counted' BY ContextualizeAssumption DEF ContextInv, Counted, CatchInBody
<1>4. PassedOn' BY ContextualizeAssumption DEF PassedOn, CatchInBody
<1>5. BackgroundAwaited' BY ContextualizeAssumption DEF BackgroundAwaited,
   CatchInBody
<1>6. CancellationsBalance' BY ContextualizeAssumption DEF CancellationsBalance,
   CatchInBody
<1> QED BY <1>1, <1>2, <1>3, <1>4, <1>5, <1>6 DEF ContextInv

(* cancel_task goes on once the background is done. *)
LEMMA LeaveContextStep ==
  ASSUME ContextInv, LeaveContext
  PROVE  ContextInv'
<1>1. ContextTypeOK'
  <2>1. ExitType'
    BY ContextualizeAssumption DEF ExitType, ContextInv, ContextTypeOK, LeaveContext,
       Raise, Outcome, Done
  <2>2. CountType'
    <3>1. count' \in 0..(MaxCancels + 2)
      BY ContextualizeAssumption DEF ContextInv, ContextTypeOK, LeaveContext
    <3>2. SignalType'
      BY DEF SignalType, ContextInv, ContextTypeOK, LeaveContext
    <3> QED BY <3>1, <3>2 DEF CountType
  <2>3. BackgroundType'
    BY ContextualizeAssumption DEF BackgroundType, RequestType, ContextInv,
       ContextTypeOK, Stages, LeaveContext
  <2>4. CancelType'
    BY ContextualizeAssumption DEF CancelType, ContextInv, ContextTypeOK, LeaveContext
  <2> QED BY <2>1, <2>2, <2>3, <2>4 DEF ContextTypeOK, ExitType, CountType, SignalType,
     BackgroundType, RequestType, CancelType
<1>2. Stages' BY ContextualizeAssumption DEF ContextInv, ContextTypeOK, Stages,
   LeaveContext
<1>3. Counted' BY ContextualizeAssumption DEF ContextInv, Counted, LeaveContext
<1>4. PassedOn' BY ContextualizeAssumption DEF PassedOn, LeaveContext
<1>5. BackgroundAwaited' BY ContextualizeAssumption DEF ContextInv, ContextTypeOK,
   Stages, BackgroundAwaited, LeaveContext, Raise, Outcome, Done
<1>6. CancellationsBalance'
  <2> SUFFICES ASSUME ~kind.catches, ~kind.stubborn, cancels > 0, ~late
               PROVE  raised' # {}
    BY <1>3 DEF LeaveContext, CancellationsBalance, Counted
  <2>1. CASE leaving # {} BY <2>1 DEF LeaveContext, Raise
  <2>2. CASE leaving = {}
    <3>1. requests > 1 /\ background \in {"error", "cancelled"} BY <2>2 DEF
       LeaveContext, ContextInv, PassedOn
    <3>2. ~Suppressed BY <3>1 DEF Suppressed
    <3>3. Outcome # {} BY <3>1 DEF Outcome
    <3> QED BY <3>2, <3>3 DEF LeaveContext, Raise
  <2> QED BY <2>1, <2>2
<1> QED BY <1>1, <1>2, <1>3, <1>4, <1>5, <1>6 DEF ContextInv

(* Somebody cancels the current task. *)
LEMMA CancelStep ==
  ASSUME ContextInv, CancelCurrent
  PROVE  ContextInv'
<1>1. ContextTypeOK'
  <2>1. ExitType'
    BY ContextualizeAssumption DEF ExitType, ContextInv, ContextTypeOK, CancelCurrent
  <2>2. CountType'
    <3>1. count' \in 0..(MaxCancels + 2)
      BY ContextualizeAssumption DEF ContextInv, ContextTypeOK, Counted, CancelCurrent
    <3>2. SignalType'
      BY DEF SignalType, ContextInv, ContextTypeOK, CancelCurrent
    <3> QED BY <3>1, <3>2 DEF CountType
  <2>3. BackgroundType'
    BY ContextualizeAssumption DEF BackgroundType, RequestType, ContextInv,
       ContextTypeOK, Stages, CancelCurrent, CancelBackground, backgroundVars
  <2>4. CancelType'
    BY ContextualizeAssumption DEF CancelType, ContextInv, ContextTypeOK, CancelCurrent
  <2> QED BY <2>1, <2>2, <2>3, <2>4 DEF ContextTypeOK, ExitType, CountType, SignalType,
     BackgroundType, RequestType, CancelType
<1>2. Stages' BY ContextualizeAssumption DEF ContextInv, ContextTypeOK, Stages, CancelCurrent,
   CancelBackground, backgroundVars, Done
<1>3. Counted' BY ContextualizeAssumption DEF ContextInv, ContextTypeOK, Counted,
   CancelCurrent
<1>4. PassedOn' BY ContextualizeAssumption DEF ContextInv, ContextTypeOK, Stages,
   PassedOn, CancelCurrent, CancelBackground, Done
<1>5. BackgroundAwaited' BY ContextualizeAssumption DEF BackgroundAwaited,
   CancelCurrent
<1>6. CancellationsBalance' BY ContextualizeAssumption DEF CancellationsBalance,
   CancelCurrent
<1> QED BY <1>1, <1>2, <1>3, <1>4, <1>5, <1>6 DEF ContextInv

(* The body ends. *)
LEMMA LeaveStep ==
  ASSUME ContextInv, NEW exceptions \in {{}, {"body"}, {"cancelled"}},
     Leave(exceptions)
  PROVE  ContextInv'
<1>1. ContextTypeOK'
  <2>1. ExitType'
    BY ContextualizeAssumption DEF ExitType, ContextInv, ContextTypeOK, Leave, Through,
       Raise, Outcome, Done
  <2>2. CountType'
    <3>1. count' \in 0..(MaxCancels + 2)
      BY ContextualizeAssumption DEF ContextInv, ContextTypeOK, Counted, Leave,
         Uncancelled
    <3>2. SignalType'
      BY DEF SignalType, ContextInv, ContextTypeOK, Leave
    <3> QED BY <3>1, <3>2 DEF CountType
  <2>3. BackgroundType'
    BY ContextualizeAssumption DEF BackgroundType, RequestType, ContextInv,
       ContextTypeOK, Stages, Leave, CancelBackground, backgroundVars
  <2>4. CancelType'
    BY ContextualizeAssumption DEF CancelType, ContextInv, ContextTypeOK, Leave
  <2> QED BY <2>1, <2>2, <2>3, <2>4 DEF ContextTypeOK, ExitType, CountType, SignalType,
     BackgroundType, RequestType, CancelType
<1>2. Stages' BY ContextualizeAssumption DEF ContextInv, ContextTypeOK, Stages, Leave,
   CancelBackground, backgroundVars, Done
<1>3. Counted' BY ContextualizeAssumption DEF ContextInv, ContextTypeOK, Counted,
   Leave, Uncancelled
<1>4. PassedOn' BY ContextualizeAssumption DEF ContextInv, ContextTypeOK, Counted,
   PassedOn, Leave, Through, Uncancelled, Outcome, CancelBackground
<1>5. BackgroundAwaited'
  <2>1. CASE ~Done BY <2>1 DEF Leave, BackgroundAwaited
  <2>2. CASE Done
    <3>1. raised' = IF Outcome = {} THEN Through(exceptions)
                   ELSE IF Through(exceptions) = {"body"} THEN
                      Through(exceptions) \cup Outcome ELSE Outcome
       BY <2>2 DEF Leave, Raise
    <3>2. Through(exceptions) \in {{}, {"body"}, {"cancelled"}} BY DEF Through
    <3>3. "background" \in raised' <=> background = "error" BY <2>2, <3>1, <3>2
       DEF Outcome, ContextInv, ContextTypeOK, Done
    <3> QED BY <2>2, <3>3 DEF Leave, BackgroundAwaited, backgroundVars, Done,
       ContextInv, Stages
  <2> QED BY <2>1, <2>2
<1>6. CancellationsBalance'
  <2> SUFFICES ASSUME Done, context' = "over", ~kind.catches, ~kind.stubborn,
     cancels > 0
               PROVE  raised' # {}
    BY <1>3 DEF Leave, CancellationsBalance, Counted
  <2>1. exceptions = {"cancelled"} /\ count = kind.before + cancels + scope BY
     DEF Leave, ContextInv, ContextTypeOK, Counted
  <2>2. Through(exceptions) = {"cancelled"} BY <2>1 DEF Through, Uncancelled,
     ContextInv, ContextTypeOK
  <2> QED BY <2>2 DEF Leave, Raise
<1> QED BY <1>1, <1>2, <1>3, <1>4, <1>5, <1>6 DEF ContextInv

(* No step breaks ContextInv. *)
LEMMA ContextStep == ASSUME ContextInv, [ContextNext]_contextVars PROVE ContextInv'
<1>1. CASE LeaveBody BY <1>1, LeaveStep DEF LeaveBody
<1>2. CASE UNCHANGED contextVars
  BY <1>2 DEF contextVars, taskVars, backgroundVars, ContextInv, ContextTypeOK, Stages,
     Counted, PassedOn, BackgroundAwaited, CancellationsBalance, Done
<1> QED BY <1>1, <1>2, StartBackgroundStep, EndBackgroundStep,
   SuppressBackgroundStep, RunCallbackStep, CatchInBodyStep, LeaveContextStep,
   CancelStep DEF ContextNext

(* A context starts with nothing on its way. *)
LEMMA ContextInitial == ASSUME ContextInit PROVE ContextInv
<1>1. kind \in [before : {0, 1}, stubborn : BOOLEAN, catches : BOOLEAN] BY DEF
   ContextInit
<1>2. count \in 0..(MaxCancels + 2)
  <2>1. count \in {0, 1} BY <1>1 DEF ContextInit
  <2> QED BY <2>1, ContextualizeAssumption
<1>3. ContextTypeOK
  <2>1. leaving \in {{}, {"body"}, {"cancelled"}} /\ raised \subseteq {"body",
     "background", "cancelled"} BY DEF ContextInit
  <2>2. requests \in 0..(MaxCancels + 1) /\ cancels \in 0..MaxCancels BY
     ContextualizeAssumption DEF ContextInit
  <2> QED BY <1>1, <1>2, <2>1, <2>2 DEF ContextInit, ContextTypeOK
<1>4. Stages /\ Counted /\ PassedOn /\ BackgroundAwaited /\ CancellationsBalance
  BY <1>1, ContextualizeAssumption DEF ContextInit, Stages, Counted, PassedOn,
     BackgroundAwaited, CancellationsBalance, Done
<1> QED BY <1>3, <1>4 DEF ContextInv

(* Where cancellations are on their way, in any state contextualize reaches *)
(* (GuaranteedTask, cancel_task and use_scope together).                   *)
THEOREM ContextInvariant == ContextSpec => []ContextInv
<1>1. ContextInit => ContextInv BY ContextInitial
<1>2. ContextInv /\ [ContextNext]_contextVars => ContextInv' BY ContextStep
<1> QED BY <1>1, <1>2, PTL DEF ContextSpec

(* Every variable keeps to its values, whatever the context does. *)
THEOREM ContextTypeCorrect == ContextSpec => []ContextTypeOK
<1>1. ContextInv => ContextTypeOK BY DEF ContextInv
<1> QED BY <1>1, ContextInvariant, PTL

(* contextualize never leaves its background running, nor loses what it    *)
(* raised: the body may end before the background's first step.            *)
THEOREM BackgroundIsAwaited == ContextSpec => []BackgroundAwaited
<1>1. ContextInv => BackgroundAwaited BY DEF ContextInv
<1> QED BY <1>1, ContextInvariant, PTL

(* Cancellations of the task are neither lost in contextualize nor left    *)
(* over by its scope, however many there are.                              *)
THEOREM CancellationsBalanced == ContextSpec => []CancellationsBalance
<1>1. ContextInv => CancellationsBalance BY DEF ContextInv
<1> QED BY <1>1, ContextInvariant, PTL
=============================================================================
