---------------------------- MODULE Combinators ----------------------------
(***************************************************************************)
(* The ways to await several awaitables: somebody calls gather, race,      *)
(* amass, concurrent_contexts or map. Each runs its awaitables as tasks of *)
(* the same loop; all but map gather them at the end.                      *)
(***************************************************************************)
EXTENDS Race, Amass, ConcurrentContexts, Map

VARIABLE called  (* which of them was called                                 *)

combinatorsVars == <<gatherVars, raceVars, amassVars, contextsVars, mapVars,
                     called>>

CombinatorsInit == /\ GatherInit
                   /\ RaceInit
                   /\ AmassInit
                   /\ ContextsInit
                   /\ MapInit
                   /\ called \in {"gather", "race", "amass", "concurrent_contexts", "map"}

GatherCalls == /\ GatherStart \/ CancelGather
               /\ called = "gather"
               /\ UNCHANGED <<raceVars, amassVars, contextsVars, mapVars, called>>

RaceCalls == /\ RaceStart \/ CancelRace \/ RaceSteps
             /\ called = "race"
             /\ UNCHANGED <<amassVars, contextsVars, mapVars, called>>

AmassCalls == /\ AmassStart \/ Pull \/ Close \/ CancelAmass \/ AmassSteps
              /\ called = "amass"
              /\ UNCHANGED <<raceVars, contextsVars, mapVars, called>>

ContextsCalls == /\ ContextsStart \/ ContextsSteps \/ BodyEnds \/ HitShield
                 /\ called = "concurrent_contexts"
                 /\ UNCHANGED <<raceVars, amassVars, mapVars, called>>

MapCalls == /\ \/ MapStart \/ Ask \/ CloseMap \/ CancelMap \/ MapSteps
               \/ \E c \in Children :
                    JobSteps(c) \/ (ChildSuppresses(c) /\ UNCHANGED mapVars)
            /\ called = "map"
            /\ UNCHANGED <<raceVars, amassVars, contextsVars, called>>

(* The steps of the gather that race, amass or concurrent_contexts calls. *)
Inner == /\ \/ GatherSteps
            \/ CancelGather /\ (called = "concurrent_contexts" => Unshielded)
            \/ ChildSteps
         /\ called # "map"
         /\ UNCHANGED <<raceVars, amassVars, contextsVars, mapVars, called>>

CombinatorsNext ==
  GatherCalls \/ RaceCalls \/ AmassCalls \/ ContextsCalls \/ MapCalls \/ Inner

CombinatorsSpec == CombinatorsInit /\ [][CombinatorsNext]_combinatorsVars

(* What the loop has to run, and the end of a task that does not suppress  *)
(* its cancellation. Other tasks need not end, nor anybody call anything.  *)
CombinatorSteps ==
  \/ Inner /\ (GatherSteps \/ \E c \in told \ Stubborn : ChildEnds(c))
  \/ RaceCalls /\ RaceSteps
  \/ AmassCalls /\ AmassSteps
  \/ ContextsCalls /\ ContextsSteps
  \/ MapCalls /\ MapSteps

(* No behaviour has infinitely many steps, so that none of these can keep  *)
(* another from being taken.                                               *)
CombinatorsFair == CombinatorsSpec /\ WF_combinatorsVars(CombinatorSteps)

-----------------------------------------------------------------------------
CombinatorsTypeOK ==
  GatherTypeOK /\ RaceTypeOK /\ AmassTypeOK /\ ContextsTypeOK /\ MapTypeOK

(* No combinator leaves its caller waiting for what has happened, or for a *)
(* task that would end if it were cancelled, once another one ended the    *)
(* matter or the caller was cancelled.                                     *)
CombinatorsEnd == GatherStops /\ RaceStops /\ AmassStops /\ ContextsStop /\ MapDelivers
=============================================================================
