-------------------------- MODULE CombinatorsProofs --------------------------
(***************************************************************************)
(* What race, concurrent_contexts, amass and map guarantee, for any        *)
(* awaitables, limits and cancellations. The first three call gather at    *)
(* their end, and rely on its invariant; how far each of them is with      *)
(* respect to its gather is Phases.                                        *)
(***************************************************************************)
EXTENDS Combinators, GatherProofs, FiniteSetTheorems, SequenceTheorems

(* Where each combinator is, when it has not called gather yet.            *)
Phases ==
  /\ called \in {"gather", "race", "amass", "concurrent_contexts", "map"}
  /\ called # "race" => racing = "idle"
  /\ called # "amass" => amassing = "idle"
  /\ called # "concurrent_contexts" => contexts = "idle"
  /\ called # "map" => mapping = "idle"
  /\ called = "race" => (racing \in {"idle", "waiting"} <=> stage = "idle")
  /\ called = "amass" => (amassing # "closing" <=> stage = "idle")
  /\ called = "concurrent_contexts" => (contexts = "idle" <=> stage = "idle")
  /\ called = "map" => stage = "idle"

(* Only who waits can be cancelled before gather is called.                *)
Unhurried ==
  stage = "idle" /\ called # "map" =>
    interrupted = FALSE \/ racing = "waiting" \/ amassing = "waiting"

InnerInv == GatherInv /\ Phases /\ Unhurried

-----------------------------------------------------------------------------
(* race.                                                                   *)

RaceInv ==
  /\ RaceTypeOK
  /\ racing = "idle" => racers = {}
  /\ racing = "won" => winner \in racers /\ Done(winner) /\ tasks \subseteq racers
  /\ racing = "cancelled" => tasks = racers

-----------------------------------------------------------------------------
(* concurrent_contexts.                                                    *)

Untouched(S) == \A c \in S : child[c] = "none"

ExitsOf(S) == {ExitOf[m] : m \in S}

(* Every entry is over before any exit starts, so that Open stands still   *)
(* from then on; and a manager that is not open is never exited.           *)
ContextsInv ==
  /\ ContextsTypeOK
  /\ called = "concurrent_contexts" /\ contexts = "idle" => Untouched(Children)
  /\ contexts \in {"entering", "body"} => tasks = entered /\ Untouched(ExitsOf(Managers))
  /\ contexts = "body" => stage = "returned"
  /\ contexts = "exiting" => /\ tasks = Exits
                             /\ AllDone(entered)
                             /\ Untouched(ExitsOf(Managers \ Open))
  /\ contexts = "exiting" /\ shield # "down" => interrupted = FALSE

-----------------------------------------------------------------------------
(* amass.                                                                  *)

(* What was started is pending, or looked at: it is in the batch, or it    *)
(* was yielded, or it failed.                                              *)
Looked(c) == c \in batch \/ c \in yielded \/ child[c] \in {"error", "cancelled"}

AmassInv ==
  /\ AmassTypeOK
  /\ amassing = "idle" => pending = {} /\ batch = {} /\ yielded = {} /\ ~exhausted
  /\ amassing = "waiting" => batch = {}
  /\ called = "amass" =>
       /\ IsFiniteSet(pending) /\ Cardinality(pending) <= limit
       /\ Pending(Children) \subseteq pending
       /\ Untouched(source)
       /\ amassing = "idle" => Untouched(Children)
       /\ \A c \in Started : c \in pending \/ Looked(c)
       /\ batch \subseteq Started /\ AllDone(batch)
       /\ \A c \in yielded : child[c] = "value"
       /\ amassing = "closing" => tasks = Started
       /\ exhausted => amassing = "closing" /\ source = {} /\ batch = {} /\ pending = {}

-----------------------------------------------------------------------------
(* map.                                                                    *)

Distinct(s) == \A i, j \in 1 .. Len(s) : s[i] = s[j] => i = j

MapTypes ==
  /\ mapping \in {"idle", "waiting", "suspended", "closing"}
  /\ ordered \in BOOLEAN
  /\ maxJobs \in Nat
  /\ iterator \in Seq(Children)
  /\ fetching \in BOOLEAN
  /\ reserved \in Nat
  /\ slot \in [DOMAIN slot -> 1 .. reserved] /\ DOMAIN slot \subseteq Children
  /\ queue \in [DOMAIN queue -> Children] /\ DOMAIN queue \subseteq Nat
  /\ yields \in Seq(Children)
  /\ returns \in Seq(Children)
  /\ current = Len(yields) + 1

(* Every job counts, and so does the one that awaits an item.              *)
JobsCounted ==
  /\ IsFiniteSet(Jobs)
  /\ jobCount = Cardinality(Jobs) + (IF fetching THEN 1 ELSE 0)
  /\ maxJobs # 0 => jobCount <= maxJobs

(* An item has a place once it was taken from the iterator, which has each *)
(* item once.                                                              *)
ItemsFresh ==
  /\ Distinct(iterator)
  /\ \A i \in 1 .. Len(iterator) : iterator[i] \notin DOMAIN slot
  /\ \A c \in Children : child[c] # "none" <=> c \in DOMAIN slot
  /\ mapping = "idle" => Untouched(Children)

(* A result that was returned was yielded, or is in the queue.             *)
Kept(c) == \/ \E j \in 1 .. Len(yields) : yields[j] = c
           \/ \E j \in DOMAIN queue : queue[j] = c

(* In an ordered queue, each result is at the place reserved for its item, *)
(* and for no other.                                                       *)
OrderedPlaces ==
  /\ \A c, d \in DOMAIN slot : slot[c] = slot[d] => c = d
  /\ \A i \in 1 .. Len(returns) : Kept(returns[i])
  /\ \A i \in DOMAIN queue : queue[i] \in DOMAIN slot /\ slot[queue[i]] = i
  /\ \A i \in 1 .. Len(yields) : yields[i] \in DOMAIN slot /\ slot[yields[i]] = i

(* In an unordered one, they are those that were returned and not yielded. *)
UnorderedPlaces ==
  /\ DOMAIN queue = current .. Len(returns)
  /\ Len(yields) <= Len(returns)
  /\ \A i \in DOMAIN queue : queue[i] = returns[i]
  /\ \A i \in 1 .. Len(yields) : yields[i] = returns[i]

ReturnsOnce ==
  /\ Distinct(returns)
  /\ \A i \in 1 .. Len(returns) : child[returns[i]] = "value"

(* Nothing has happened before the generator is asked for the first time.  *)
MapAtRest ==
  mapping = "idle" => /\ ~ordered /\ maxJobs = 0 /\ ~fetching /\ jobCount = 0
                      /\ yields = <<>> /\ returns = <<>> /\ ~closed

Places == IF ordered THEN OrderedPlaces ELSE UnorderedPlaces

MapFlags == maxJobs \in MaxJobs \cup {0} /\ closed \in BOOLEAN /\ pressed \in BOOLEAN

(* The queue is closed by the job that found no item left, the last one.   *)
ClosedLast == closed => iterator = <<>> /\ ~fetching

MapInv ==
  /\ MapAtRest
  /\ MapTypes /\ MapFlags /\ ClosedLast
  /\ called = "map" =>
       /\ JobsCounted
       /\ ItemsFresh
       /\ ReturnsOnce
       /\ Places

-----------------------------------------------------------------------------
(* Their steps, and the invariant of gather.                               *)

(* As long as gather was not called, its invariant is that of its types.   *)
LEMMA UncalledInv ==
  ASSUME GatherTypeOK', stage' = "idle"
  PROVE  GatherInv'
<1> QED BY DEF GatherInv, CancelsSeen, Awaiting, GatherOver, NoneLeftBehind, ReportsTasks

(* Who is not waiting when gather is called was not cancelled.             *)
LEMMA InterruptedWaits ==
  ASSUME InnerInv, stage = "idle" \/ GatherOver, racing # "waiting", amassing # "waiting",
         called # "map"
  PROVE  interrupted = FALSE
<1> QED BY DEF InnerInv, GatherInv, GatherTypeOK, CancelsSeen, GatherOver, Unhurried

LEMMA RaceCallsInner ==
  ASSUME InnerInv, RaceInv, RaceCalls
  PROVE  InnerInv'
<1> USE DEF InnerInv, GatherInv, GatherTypeOK
<1>1. /\ called = "race" /\ called' = called
      /\ UNCHANGED <<amassing, contexts, mapping>>
  BY DEF RaceCalls, amassVars, contextsVars, mapVars
<1>2. CASE RaceStart
  <2>1. stage' = "idle" /\ racing' = "waiting"
    BY <1>1, <1>2 DEF RaceStart, Phases
  <2>2. GatherTypeOK'
    BY <1>2 DEF RaceStart, Pending
  <2>3. GatherInv' BY <2>1, <2>2, UncalledInv
  <2> QED BY <1>1, <2>1, <2>3 DEF Phases, Unhurried
<1>3. CASE CancelRace
  <2>1. stage' = "idle" /\ racing' = "waiting"
    BY <1>1, <1>3 DEF CancelRace, raceVars, Phases
  <2>2. GatherTypeOK'
    BY <1>3, GatherAssumption DEF CancelRace, Interrupt, Pending
  <2>3. GatherInv' BY <2>1, <2>2, UncalledInv
  <2> QED BY <1>1, <2>1, <2>3 DEF Phases, Unhurried
<1>4. CASE RaceSteps
  <2>1. \E S \in SUBSET racers : Gather(S, FALSE)
    BY <1>4 DEF RaceSteps, RaceCancelled, RaceWon, Pending
  <2>2. told' \subseteq Pending(Children) /\ interrupted' = FALSE
    BY <1>4 DEF RaceSteps, RaceCancelled, RaceWon, Pending, RaceInv, RaceTypeOK
  <2>3. racers \subseteq Children
    BY DEF RaceInv, RaceTypeOK
  <2>4. GatherInv'
    BY <2>1, <2>2, <2>3, GatherCall
  <2>5. stage' # "idle" BY <2>1 DEF Gather
  <2>6. racing' \in {"won", "cancelled"}
    BY <1>4 DEF RaceSteps, RaceCancelled, RaceWon
  <2> QED BY <1>1, <2>2, <2>4, <2>5, <2>6 DEF Phases, Unhurried
<1> QED BY <1>2, <1>3, <1>4 DEF RaceCalls

LEMMA ContextsCallsInner ==
  ASSUME InnerInv, ContextsInv, ContextsCalls
  PROVE  InnerInv'
<1> USE DEF InnerInv
<1>1. /\ called = "concurrent_contexts" /\ called' = called
      /\ UNCHANGED <<racing, amassing, mapping>>
  BY DEF ContextsCalls, raceVars, amassVars, mapVars
<1>2. CASE ContextsStart \/ ExitContexts
  <2>1. PICK S \in SUBSET Children : Gather(S, TRUE)
    <3>1. entered \subseteq Managers BY DEF ContextsInv, ContextsTypeOK
    <3> QED BY <1>2, <3>1, ContextsAssumption DEF ContextsStart, ExitContexts, Exits, Open
  <2>2. stage = "idle" \/ GatherOver
    BY <1>1, <1>2 DEF ContextsStart, ExitContexts, Phases, ContextsInv, GatherOver
  <2>3. told' \subseteq Pending(Children) /\ interrupted' = interrupted
    BY <1>2 DEF ContextsStart, ExitContexts, GatherInv, GatherTypeOK
  <2>4. interrupted' = FALSE
    BY <1>1, <2>2, <2>3, InterruptedWaits DEF Phases
  <2>5. GatherInv' BY <2>1, <2>3, <2>4, GatherCall
  <2>6. stage' # "idle" BY <2>1 DEF Gather
  <2>7. contexts' # "idle" BY <1>2 DEF ContextsStart, ExitContexts
  <2> QED BY <1>1, <2>4, <2>5, <2>6, <2>7 DEF Phases, Unhurried
<1>3. CASE EnterBody \/ DropShield \/ HitShield
  <2>1. UNCHANGED gatherVars
    BY <1>3 DEF EnterBody, DropShield, HitShield
  <2>2. GatherInv' BY <2>1, GatherInnerStep
  <2>3. contexts # "idle" => contexts' # "idle"
    BY <1>3 DEF EnterBody, DropShield, HitShield
  <2>4. contexts' # "idle" => contexts # "idle" \/ stage # "idle"
    BY <1>3 DEF EnterBody, DropShield, HitShield
  <2> QED BY <1>1, <2>1, <2>2, <2>3, <2>4 DEF gatherVars, Phases, Unhurried
<1> QED BY <1>2, <1>3 DEF ContextsCalls, ContextsSteps, BodyEnds

LEMMA AmassCallsInner ==
  ASSUME InnerInv, AmassInv, AmassCalls
  PROVE  InnerInv'
<1> USE DEF InnerInv
<1>1. /\ called = "amass" /\ called' = called
      /\ UNCHANGED <<racing, contexts, mapping>>
  BY DEF AmassCalls, raceVars, contextsVars, mapVars
<1>2. ASSUME NEW byItself \in BOOLEAN, Finally(byItself), amassing # "closing",
             interrupted' = FALSE
      PROVE  InnerInv'
  <2>1. Gather(Started, FALSE) /\ Started \subseteq Children
    BY <1>2 DEF Finally, Started
  <2>2. told' \subseteq Pending(Children)
    BY <1>2 DEF Finally, Pending, AmassInv, AmassTypeOK, GatherInv, GatherTypeOK
  <2>3. GatherInv' BY <1>2, <2>1, <2>2, GatherCall
  <2>4. stage' # "idle" BY <2>1 DEF Gather
  <2>5. amassing' = "closing" BY <1>2 DEF Finally
  <2> QED BY <1>1, <1>2, <2>3, <2>4, <2>5 DEF Phases, Unhurried
<1>3. amassing \in {"running", "suspended"} => interrupted = FALSE
  BY <1>1, InterruptedWaits DEF Phases
<1>4. CASE Exhaust
  BY <1>2, <1>3, <1>4 DEF Exhaust
<1>5. CASE AmassCancelled
  BY <1>2, <1>5 DEF AmassCancelled
<1>6. CASE Close
  BY <1>2, <1>3, <1>6 DEF Close
<1>7. CASE \E c \in Children : Take(c) /\ strict /\ child[c] # "value" /\ Finally(FALSE)
  BY <1>2, <1>3, <1>7 DEF Take, Yield
<1>8. CASE Fill \/ CancelAmass
  <2>1. stage' = "idle" /\ amassing' = "waiting"
    BY <1>1, <1>8 DEF Fill, CancelAmass, amassVars, Phases
  <2>2. GatherTypeOK'
    <3>1. CASE Fill
      BY <3>1 DEF Fill, Pending, GatherInv, GatherTypeOK
    <3>2. CASE CancelAmass
      BY <3>2, GatherAssumption DEF CancelAmass, Interrupt, Pending, GatherInv, GatherTypeOK
    <3> QED BY <1>8, <3>1, <3>2
  <2>3. GatherInv' BY <2>1, <2>2, UncalledInv
  <2> QED BY <1>1, <2>1, <2>3 DEF Phases, Unhurried
<1>9. CASE UNCHANGED gatherVars
  <2>1. GatherInv' BY <1>9, GatherInnerStep
  <2>2. /\ amassing \in {"idle", "running", "suspended"} \/ interrupted = FALSE
        /\ amassing' \in {"running", "suspended", "waiting"}
        /\ amassing # "closing"
    BY <1>9, <1>1, <2>1 DEF AmassCalls, AmassStart, Pull, Close, CancelAmass, AmassSteps, Fill,
       Exhaust, SomeEnded, AmassCancelled, Take, Yield, Finally, Phases, gatherVars, Gather,
       Interrupt, GatherInv, GatherTypeOK
  <2>3. interrupted = FALSE
    BY <1>1, <2>2, InterruptedWaits DEF Phases
  <2> QED BY <1>1, <1>9, <2>1, <2>2, <2>3 DEF gatherVars, Phases, Unhurried
<1> QED BY <1>4, <1>5, <1>6, <1>7, <1>8, <1>9 DEF AmassCalls, AmassStart, Pull, AmassSteps,
     SomeEnded, Take, Yield

LEMMA MapCallsInner ==
  ASSUME InnerInv, MapInv, MapCalls
  PROVE  InnerInv'
<1>1. /\ called = "map" /\ called' = called
      /\ UNCHANGED <<racing, contexts, amassing>>
  BY DEF MapCalls, raceVars, contextsVars, amassVars
<1>2. stage = "idle" BY <1>1 DEF InnerInv, Phases
<1>3. GatherTypeOK /\ MapTypes BY <1>1 DEF InnerInv, GatherInv, MapInv
<1>4. /\ UNCHANGED <<stage, tasks, sensitive, failed, cancelled>>
      /\ interrupted' \in BOOLEAN /\ cancels' \in 0 .. MaxCancels
      /\ child' \in [Children -> {"none", "pending", "value", "error", "cancelled"}]
      /\ told' \subseteq Pending(Children)'
  <2> USE <1>3 DEF GatherTypeOK, restVars, gatherVars, Pending, Jobs
  <2>1. CASE UNCHANGED gatherVars BY <2>1
  <2>2. CASE CancelMap BY <2>2, GatherAssumption DEF CancelMap, Interrupt
  <2>3. CASE FetchItem
    <3>1. Head(iterator) \in Children BY <2>3 DEF FetchItem, MapTypes
    <3> QED BY <2>3, <3>1 DEF FetchItem
  <2>4. CASE LeaveGroup BY <2>4 DEF LeaveGroup, Abort
  <2>5. CASE \E c \in Children : JobReturns(c) BY <2>5 DEF JobReturns
  <2>6. CASE \E c \in Children : JobFails(c) BY <2>6 DEF JobFails, Abort
  <2>7. CASE \E c \in Children : JobCancelled(c) BY <2>7 DEF JobCancelled
  <2>8. CASE \E c \in Children : ChildSuppresses(c) BY <2>8 DEF ChildSuppresses
  <2> QED BY <2>1, <2>2, <2>3, <2>4, <2>5, <2>6, <2>7, <2>8 DEF MapCalls, MapStart, Ask,
       CloseMap, MapSteps, FetchNone, WakeUp, Iterate, JobSteps
<1>5. GatherTypeOK'
  BY <1>3, <1>4 DEF GatherTypeOK
<1>6. GatherInv' BY <1>2, <1>4, <1>5, UncalledInv
<1> QED BY <1>1, <1>2, <1>4, <1>6 DEF InnerInv, Phases, Unhurried

(* Somebody calls gather itself, or the gather that another one called     *)
(* goes on.                                                                *)
LEMMA InnerStepInner ==
  ASSUME InnerInv, GatherCalls \/ Inner \/ UNCHANGED combinatorsVars
  PROVE  InnerInv'
<1> USE DEF InnerInv
<1>1. UNCHANGED <<racing, amassing, contexts, mapping, called>>
  BY DEF GatherCalls, Inner, combinatorsVars, raceVars, amassVars, contextsVars, mapVars
<1>2. CASE called = "gather" /\ GatherStart
  <2>1. PICK S \in SUBSET Children, isSensitive \in BOOLEAN : Gather(S, isSensitive)
    BY <1>2, GatherAssumption DEF GatherStart
  <2>2. interrupted = FALSE
    BY <1>2, InterruptedWaits DEF GatherStart, Phases
  <2>3. told' \subseteq Pending(Children) /\ interrupted' = FALSE
    BY <1>2, <2>2 DEF GatherStart, GatherInv, GatherTypeOK
  <2>4. GatherInv' BY <2>1, <2>3, GatherCall
  <2> QED BY <1>1, <1>2, <2>3, <2>4 DEF Phases, Unhurried
<1>3. CASE CancelGather \/ GatherSteps \/ ChildSteps \/ UNCHANGED gatherVars
  <2>1. GatherInv' BY <1>3, GatherInnerStep
  <2>2. stage = "idle" => stage' = "idle" /\ interrupted' = interrupted
    BY <1>3 DEF CancelGather, Awaiting, GatherSteps, FirstEnds, FirstCancelled, AllCancelled,
       AllEnds, ChildSteps, ChildEnds, ChildSuppresses, gatherVars
  <2>3. stage # "idle" => stage' # "idle"
    BY <1>3 DEF CancelGather, Awaiting, GatherSteps, FirstEnds, FirstCancelled, AllCancelled,
       AllEnds, GatherOutcome, ChildSteps, ChildEnds, ChildSuppresses, gatherVars
  <2> QED BY <1>1, <2>1, <2>2, <2>3 DEF Phases, Unhurried
<1> QED BY <1>2, <1>3 DEF GatherCalls, Inner, combinatorsVars

-----------------------------------------------------------------------------
(* What a step leaves alone for the combinators: a task that is done stays *)
(* as it is, and the tasks of a gather are those that it was called with.  *)

LEMMA InnerKeeps ==
  ASSUME GatherInv, Inner
  PROVE  /\ tasks' = tasks
         /\ child' \in [Children -> {"none", "pending", "value", "error", "cancelled"}]
         /\ \A c \in Children :
              /\ Done(c) => child'[c] = child[c]
              /\ child[c] = "none" <=> child'[c] = "none"
<1> USE DEF GatherInv, GatherTypeOK
<1>1. CASE GatherSteps \/ CancelGather
  BY <1>1 DEF GatherSteps, FirstEnds, FirstCancelled, AllCancelled, AllEnds, CancelGather
<1>2. ASSUME NEW c \in Children, ChildEnds(c) \/ ChildSuppresses(c)
      PROVE  /\ tasks' = tasks
             /\ \/ child' = child
                \/ /\ child[c] = "pending"
                   /\ \E o \in {"value", "error", "cancelled"} : child' = [child EXCEPT ![c] = o]
  BY <1>2 DEF ChildEnds, ChildSuppresses, Outcomes
<1>3. CASE ChildSteps
  BY <1>2, <1>3 DEF ChildSteps, Done
<1> QED BY <1>1, <1>3 DEF Inner

LEMMA RaceStep ==
  ASSUME InnerInv, RaceInv, [CombinatorsNext]_combinatorsVars
  PROVE  RaceInv'
<1> USE DEF RaceInv, RaceTypeOK, InnerInv
<1>1. CASE RaceStart
  BY <1>1, GatherAssumption DEF RaceStart
<1>2. CASE CancelRace
  BY <1>2 DEF CancelRace, raceVars
<1>3. CASE RaceCancelled
  BY <1>3 DEF RaceCancelled, Gather
<1>4. CASE RaceWon
  BY <1>4 DEF RaceWon, Gather, Pending, Done
<1>5. CASE Inner
  <2>1. UNCHANGED raceVars BY <1>5 DEF Inner
  <2> QED BY <1>5, <2>1, InnerKeeps DEF raceVars, Done
<1>6. CASE GatherCalls \/ AmassCalls \/ ContextsCalls \/ MapCalls
  <2>1. UNCHANGED raceVars /\ racing = "idle"
    BY <1>6 DEF GatherCalls, AmassCalls, ContextsCalls, MapCalls, Phases
  <2> QED BY <2>1 DEF raceVars
<1>7. CASE UNCHANGED combinatorsVars
  BY <1>7 DEF combinatorsVars, gatherVars, raceVars, Done
<1> QED BY <1>1, <1>2, <1>3, <1>4, <1>5, <1>6, <1>7 DEF CombinatorsNext, RaceCalls, RaceSteps

(* What gather reports, and who won, is what race reports. *)
LEMMA RaceTells ==
  ASSUME InnerInv, RaceInv
  PROVE  RaceReports
<1> USE DEF InnerInv, GatherInv, RaceInv, RaceTypeOK, RaceOver, GatherOver, ReportsTasks
<1> SUFFICES ASSUME RaceOver PROVE RaceReports
  BY DEF RaceReports
<1>1. tasks \subseteq racers /\ winner \in racers \cup {NoChild}
  OBVIOUS
<1>2. racing = "won" => winner \in racers OBVIOUS
<1>3. RaceResult = "value" => /\ child[winner] = "value" /\ cancels = 0
                             /\ \A c \in tasks : child[c] = "value"
  BY DEF RaceResult
<1>4. RaceResult = "error" => \E c \in racers : child[c] = "error"
  BY <1>1, <1>2 DEF RaceResult
<1>5. RaceResult = "cancelled" => \/ racing = "cancelled" \/ cancels > 0
                                 \/ \E c \in racers : child[c] = "cancelled"
  BY <1>1, <1>2 DEF RaceResult
<1> QED BY <1>3, <1>4, <1>5 DEF RaceReports

-----------------------------------------------------------------------------
(* The tasks that exit managers are none of those that enter them, and not *)
(* the same for two of them.                                               *)
LEMMA ExitsApart ==
  ASSUME NEW S \in SUBSET Managers
  PROVE  /\ ExitsOf(S) \subseteq Children \ Managers
         /\ \A m \in Managers : ExitOf[m] \in ExitsOf(S) <=> m \in S
BY ContextsAssumption DEF ExitsOf

LEMMA ExitContextsStep ==
  ASSUME InnerInv, ContextsInv, ExitContexts, called = "concurrent_contexts"
  PROVE  ContextsInv' /\ CleanupShielded'
<1> USE DEF ContextsInv, ContextsTypeOK, InnerInv, GatherInv, GatherTypeOK
<1>1. contexts' = "exiting" /\ UNCHANGED <<told, interrupted, shield, entered>>
  BY DEF ExitContexts
<1>2. Gather(Exits, TRUE) /\ contexts \in {"entering", "body"} /\ GatherOver
  BY DEF ExitContexts, GatherOver
<1>3. tasks = entered /\ AllDone(entered) /\ Untouched(ExitsOf(Managers))
  BY <1>2 DEF NoneLeftBehind
<1>4. Open \subseteq entered /\ entered \subseteq Managers /\ Exits = ExitsOf(Open)
  BY DEF Open, Exits, ExitsOf
<1>5. /\ \A c \in Children \ Exits : child'[c] = child[c]
      /\ tasks' = Exits
  BY <1>2 DEF Gather
<1>6. \A m \in Managers : child'[m] = child[m]
  BY <1>4, <1>5, ExitsApart, ContextsAssumption
<1>7. Open' = Open
  BY <1>1, <1>4, <1>6 DEF Open
<1>8. Exits' = Exits
  BY <1>7 DEF Exits
<1>9. AllDone(entered)'
  BY <1>1, <1>3, <1>4, <1>6 DEF AllDone, Done
<1>10. Untouched(ExitsOf(Managers \ Open))'
  <2> SUFFICES ASSUME NEW m \in Managers \ Open PROVE child'[ExitOf[m]] = "none"
    BY <1>7 DEF Untouched, ExitsOf
  <2>1. ExitOf[m] \in Children /\ ExitOf[m] \notin Exits
    BY <1>4, ExitsApart, ContextsAssumption
  <2>2. child[ExitOf[m]] = "none" BY <1>3 DEF Untouched, ExitsOf
  <2> QED BY <1>5, <2>1, <2>2
<1>11. interrupted = FALSE
  BY <1>2 DEF CancelsSeen
<1>12. told \cap Exits = {}
  BY <1>3, <1>4 DEF Untouched, Pending, ExitsOf
<1>13. ContextsInv'
  BY <1>1, <1>5, <1>8, <1>9, <1>10, <1>11
<1>14. CleanupShielded'
  <2>1. cancels' = 0 BY <1>2 DEF Gather
  <2>2. ContextsOver' => AllDone(Exits)'
    <3>1. stage' = "returned" => Exits = {} BY <1>2 DEF Gather
    <3> QED BY <1>2, <1>8, <3>1 DEF ContextsOver, GatherOver, AllDone, Gather
  <2> QED BY <1>1, <1>5, <1>12, <2>1, <2>2 DEF CleanupShielded
<1> QED BY <1>13, <1>14

LEMMA ContextsCallsStep ==
  ASSUME InnerInv, ContextsInv, CleanupShielded, ContextsCalls
  PROVE  ContextsInv' /\ CleanupShielded'
<1> USE DEF InnerInv, GatherInv, GatherTypeOK
<1>1. called = "concurrent_contexts" BY DEF ContextsCalls
<1>2. CASE ContextsStart
  <2> USE DEF ContextsInv, ContextsTypeOK
  <2>1. Untouched(Children) BY <1>1, <1>2 DEF ContextsStart
  <2>2. PICK S \in SUBSET Managers : entered' = S /\ Gather(S, TRUE)
    BY <1>2 DEF ContextsStart
  <2>3. contexts' = "entering" /\ shield' \in {"up", "down"}
    BY <1>2 DEF ContextsStart
  <2>4. Untouched(ExitsOf(Managers))'
    <3>1. ExitsOf(Managers) \subseteq Children \ Managers BY ExitsApart
    <3>2. \A c \in Children \ Managers : child'[c] = child[c] BY <2>2 DEF Gather
    <3> QED BY <2>1, <3>1, <3>2 DEF Untouched, ExitsOf
  <2>5. tasks' = entered' BY <2>2 DEF Gather
  <2> QED BY <2>2, <2>3, <2>4, <2>5 DEF CleanupShielded
<1>3. CASE EnterBody \/ HitShield \/ DropShield
  <2>1. UNCHANGED <<gatherVars, entered>>
    BY <1>3 DEF EnterBody, DropShield, HitShield
  <2>2. Open' = Open /\ Exits' = Exits
    BY <2>1 DEF Open, Exits, gatherVars
  <2>3. /\ contexts' = contexts \/ (stage = "returned" /\ contexts = "entering" /\ contexts' = "body")
        /\ shield' = shield \/ shield' = "down" \/ (shield = "up" /\ shield' = "hit")
        /\ contexts # "idle" \/ contexts' = "idle"
    BY <1>3 DEF EnterBody, DropShield, HitShield
  <2>4. ContextsInv'
    BY <1>1, <2>1, <2>2, <2>3 DEF ContextsInv, ContextsTypeOK, gatherVars, Untouched, AllDone,
       Done, ExitsOf
  <2>5. NoneLeftBehind /\ (contexts = "exiting" => tasks = Exits)
    BY DEF ContextsInv
  <2>6. CleanupShielded'
    BY <2>1, <2>2, <2>3, <2>5 DEF CleanupShielded, ContextsOver, NoneLeftBehind, GatherOver,
       AllDone, Done, gatherVars
  <2> QED BY <2>4, <2>6
<1> QED BY <1>1, <1>2, <1>3, ExitContextsStep DEF ContextsCalls, ContextsSteps, BodyEnds

LEMMA ContextsStep ==
  ASSUME InnerInv, ContextsInv, CleanupShielded, [CombinatorsNext]_combinatorsVars
  PROVE  ContextsInv' /\ CleanupShielded'
<1>1. CASE ContextsCalls BY <1>1, ContextsCallsStep
<1>2. CASE Inner
  <2> USE DEF InnerInv
  <2>1. UNCHANGED <<contexts, shield, entered, called, tasks>>
    BY <1>2, InnerKeeps DEF Inner, contextsVars
  <2>2. entered \subseteq Managers /\ Managers \subseteq Children
    BY ContextsAssumption DEF ContextsInv, ContextsTypeOK
  <2>3. ASSUME NEW S \in SUBSET Children, Untouched(S) PROVE Untouched(S)'
    BY <1>2, <2>3, InnerKeeps DEF Untouched
  <2>4. ASSUME AllDone(entered)
        PROVE  AllDone(entered)' /\ Open' = Open /\ Exits' = Exits
    <3>1. \A m \in entered : child'[m] = child[m]
      BY <1>2, <2>2, <2>4, InnerKeeps DEF AllDone
    <3> QED BY <2>1, <2>4, <3>1 DEF AllDone, Done, Open, Exits
  <2>5. \A S \in SUBSET Managers : ExitsOf(S) \in SUBSET Children BY ExitsApart
  <2>6. stage = "returned" => stage' = "returned"
    BY <1>2 DEF Inner, GatherSteps, FirstEnds, FirstCancelled, AllCancelled, AllEnds,
       CancelGather, Awaiting, ChildSteps, ChildEnds, ChildSuppresses
  <2>7. contexts = "exiting" /\ shield # "down" => /\ called = "concurrent_contexts"
                                                   /\ ~Unshielded
                                                   /\ interrupted = FALSE
    BY DEF Phases, ContextsInv, Unshielded
  <2>8. contexts = "exiting" /\ shield # "down" => interrupted' = FALSE
    BY <1>2, <2>7 DEF Inner, GatherSteps, FirstEnds, FirstCancelled, AllCancelled, AllEnds,
       ChildSteps, ChildEnds, ChildSuppresses
  <2>9. CleanupShielded'
    <3> SUFFICES ASSUME contexts = "exiting" PROVE CleanupShielded'
      BY <2>1 DEF CleanupShielded
    <3>1. tasks \subseteq Children /\ cancels \in Nat /\ MaxCancels \in Nat
      BY GatherAssumption DEF GatherInv, GatherTypeOK
    <3>2. shield # "down" => cancels' = 0
      BY <1>2, <2>7 DEF CleanupShielded, Inner, GatherSteps, FirstEnds, FirstCancelled,
         AllCancelled, AllEnds, ChildSteps, ChildEnds, ChildSuppresses
    <3>3. ASSUME cancels' = 0, \A c \in tasks : child'[c] \notin {"error", "cancelled"}
          PROVE  told' \cap tasks = {}
      <4>1. \A c \in tasks : child[c] \notin {"error", "cancelled"}
        BY <1>2, <3>1, <3>3, InnerKeeps DEF Done
      <4>2. cancels = 0
        <5>1. cancels' = cancels \/ cancels' = cancels + 1
          BY <1>2 DEF Inner, GatherSteps, FirstEnds, FirstCancelled, AllCancelled,
             AllEnds, CancelGather, Interrupt, ChildSteps, ChildEnds, ChildSuppresses
        <5> QED BY <3>1, <3>3, <5>1
      <4>3. told \cap tasks = {} BY <4>1, <4>2 DEF CleanupShielded
      <4>4. stage \in {"first", "all"} => interrupted = FALSE
        BY <4>2 DEF GatherInv, CancelsSeen, Awaiting
      <4> QED BY <1>2, <4>1, <4>3, <4>4 DEF Inner, GatherSteps, FirstEnds, FirstCancelled,
         AllCancelled, AllEnds, CancelGather, ChildSteps, ChildEnds, ChildSuppresses
    <3>4. ContextsOver' => AllDone(Exits)'
      <4>1. Exits' = Exits /\ tasks = Exits BY <2>4 DEF ContextsInv
      <4>2. CASE GatherOver
        <5>1. AllDone(tasks) BY <4>2 DEF GatherInv, NoneLeftBehind
        <5> QED BY <1>2, <3>1, <4>1, <5>1, InnerKeeps DEF AllDone, Done
      <4>3. CASE ~GatherOver
        <5>1. GatherOver' => AllEnds
          BY <1>2, <4>3 DEF GatherOver, Inner, GatherSteps, FirstEnds, FirstCancelled,
             AllCancelled, CancelGather, ChildSteps, ChildEnds, ChildSuppresses
        <5> QED BY <4>1, <5>1 DEF ContextsOver, AllEnds, AllDone, Done
      <4> QED BY <4>2, <4>3
    <3> QED BY <2>1, <3>2, <3>3, <3>4 DEF CleanupShielded
  <2>10. CASE contexts = "idle"
    BY <2>1, <2>3, <2>9, <2>10 DEF ContextsInv, ContextsTypeOK
  <2>11. CASE contexts \in {"entering", "body"}
    <3>1. Untouched(ExitsOf(Managers))' BY <2>3, <2>5, <2>11 DEF ContextsInv, ExitsOf
    <3> QED BY <2>1, <2>6, <2>9, <2>11, <3>1 DEF ContextsInv, ContextsTypeOK
  <2>12. CASE contexts = "exiting"
    <3>1. AllDone(entered)' /\ Open' = Open /\ Exits' = Exits
      BY <2>4, <2>12 DEF ContextsInv
    <3>2. Untouched(ExitsOf(Managers \ Open))'
      BY <2>3, <2>5, <2>12, <3>1 DEF ContextsInv, ExitsOf
    <3> QED BY <2>1, <2>8, <2>9, <2>12, <3>1, <3>2 DEF ContextsInv, ContextsTypeOK
  <2> QED BY <2>10, <2>11, <2>12 DEF ContextsInv, ContextsTypeOK
<1>3. CASE GatherCalls \/ RaceCalls \/ AmassCalls \/ MapCalls
  <2>1. /\ contexts = "idle" /\ called # "concurrent_contexts"
        /\ UNCHANGED <<contexts, shield, entered, called>>
    BY <1>3 DEF GatherCalls, RaceCalls, AmassCalls, MapCalls, contextsVars, InnerInv, Phases
  <2> QED BY <2>1 DEF ContextsInv, ContextsTypeOK, CleanupShielded
<1>4. CASE UNCHANGED combinatorsVars
  <2>1. UNCHANGED <<gatherVars, contextsVars, called>> BY <1>4 DEF combinatorsVars
  <2>2. Open' = Open /\ Exits' = Exits BY <2>1 DEF Open, Exits, gatherVars, contextsVars
  <2> QED BY <2>1, <2>2 DEF gatherVars, contextsVars, ContextsInv, ContextsTypeOK,
     CleanupShielded, ContextsOver, GatherOver, Untouched, AllDone, Done, ExitsOf
<1> QED BY <1>1, <1>2, <1>3, <1>4 DEF CombinatorsNext

(* Those that were entered are exited, and the body has all of them. *)
LEMMA ContextsBalance ==
  ASSUME InnerInv, ContextsInv
  PROVE  ContextsBalanced
<1> USE DEF InnerInv, GatherInv, ContextsInv, ContextsTypeOK
<1>1. contexts = "body" => Open = entered
  BY DEF ReportsTasks, Open
<1>2. ASSUME ContextsOver, NEW m \in entered PROVE child[m] = "value" <=> Done(ExitOf[m])
  <2>1. tasks = Exits /\ AllDone(tasks) /\ Untouched(ExitsOf(Managers \ Open))
    BY <1>2 DEF ContextsOver, NoneLeftBehind
  <2>2. child[m] = "value" => Done(ExitOf[m])
    BY <2>1 DEF Exits, Open, AllDone
  <2>3. child[m] # "value" => child[ExitOf[m]] = "none"
    BY <2>1 DEF Open, Untouched, ExitsOf
  <2> QED BY <2>2, <2>3 DEF Done
<1> QED BY <1>1, <1>2 DEF ContextsBalanced

-----------------------------------------------------------------------------
(* The tasks that a set of awaitables gives are finite in number if it is. *)
LEMMA PendingIsSmaller ==
  ASSUME NEW S, IsFiniteSet(S), NEW T \in SUBSET S
  PROVE  /\ IsFiniteSet(T)
         /\ Cardinality(T) \in Nat
         /\ Cardinality(T) <= Cardinality(S)
BY FS_Subset, FS_CardinalityType

(* The generator leaves its loop and gathers what it started. *)
LEMMA FinallyStep ==
  ASSUME InnerInv, AmassInv, called = "amass", called' = called,
         NEW byItself \in BOOLEAN, Finally(byItself), UNCHANGED batch,
         byItself => source = {} /\ batch = {} /\ pending = {}
  PROVE  AmassInv'
<1> USE DEF AmassInv, AmassTypeOK
<1>1. /\ Gather(Started, FALSE) /\ amassing' = "closing" /\ exhausted' = byItself
      /\ UNCHANGED <<limit, strict, source, pending, yielded>>
  BY DEF Finally
<1>2. child' = child
  BY <1>1 DEF Gather, Started, InnerInv, GatherInv, GatherTypeOK
<1>3. tasks' = Started /\ Started' = Started
  BY <1>1, <1>2 DEF Gather, Started
<1> QED BY <1>1, <1>2, <1>3 DEF Pending, Untouched, Looked, AllDone, Done

(* As many awaitables are started as there is room for. *)
LEMMA FillStep ==
  ASSUME InnerInv, AmassInv, called = "amass", called' = called, Fill
  PROVE  AmassInv'
<1> USE DEF AmassInv, AmassTypeOK, InnerInv, GatherInv, GatherTypeOK
<1>1. PICK S \in SUBSET source :
        /\ IsFiniteSet(S)
        /\ Cardinality(S) = Room \/ (S = source /\ Cardinality(S) <= Room)
        /\ child' = [c \in Children |-> IF c \in S THEN "pending" ELSE child[c]]
        /\ pending' = pending \cup S
        /\ source' = source \ S
  BY DEF Fill
<1>2. /\ batch = {} /\ amassing' = "waiting"
      /\ UNCHANGED <<limit, strict, batch, yielded, exhausted>>
  BY DEF Fill
<1>3. IsFiniteSet(pending') /\ Cardinality(pending') <= limit'
  <2>1. limit \in Nat BY AmassAssumption
  <2>2. /\ Cardinality(S) \in Nat /\ Cardinality(pending) \in Nat
        /\ Cardinality(S) <= limit - Cardinality(pending)
    BY <1>1, FS_CardinalityType DEF Room
  <2>3. /\ IsFiniteSet(pending \cup S) /\ Cardinality(pending \cap S) \in Nat
        /\ Cardinality(pending \cup S) =
             Cardinality(pending) + Cardinality(S) - Cardinality(pending \cap S)
    BY <1>1, FS_Union, PendingIsSmaller
  <2> QED BY <1>1, <1>2, <2>1, <2>2, <2>3
<1>4. /\ \A c \in S : child[c] = "none" /\ child'[c] = "pending"
      /\ \A c \in Children \ S : child'[c] = child[c]
  BY <1>1 DEF Untouched
<1>5. AmassTypeOK' BY <1>1, <1>2
<1>6. Pending(Children)' \subseteq pending' /\ Untouched(source)'
  BY <1>1, <1>4 DEF Pending, Untouched
<1>7. \A c \in Started' : c \in pending' \/ Looked(c)'
  <2> SUFFICES ASSUME NEW c \in Children, child'[c] # "none" PROVE c \in pending' \/ Looked(c)'
    BY DEF Started
  <2>1. CASE c \in S BY <1>1, <2>1
  <2>2. CASE c \notin S
    <3>1. child'[c] = child[c] /\ (c \in pending \/ Looked(c)) BY <1>4, <2>2 DEF Started
    <3> QED BY <1>1, <1>2, <3>1 DEF Looked
  <2> QED BY <2>1, <2>2
<1>8. \A c \in yielded' : child'[c] = "value"
  BY <1>2, <1>4
<1>9. batch' \subseteq Started' /\ AllDone(batch)'
  BY <1>2 DEF AllDone
<1> QED BY <1>2, <1>3, <1>5, <1>6, <1>7, <1>8, <1>9 DEF Fill

(* The tasks that ended are looked at. *)
LEMMA SomeEndedStep ==
  ASSUME InnerInv, AmassInv, called = "amass", called' = called, SomeEnded
  PROVE  AmassInv'
<1> USE DEF AmassInv, AmassTypeOK, InnerInv, GatherInv, GatherTypeOK, SomeEnded, gatherVars
<1>1. IsFiniteSet(pending') /\ Cardinality(pending') <= limit'
  <2>1. IsFiniteSet(Pending(pending)) /\ Cardinality(Pending(pending)) <= Cardinality(pending)
    BY PendingIsSmaller DEF Pending
  <2>2. Cardinality(Pending(pending)) \in Nat /\ Cardinality(pending) \in Nat
    BY <2>1, FS_CardinalityType
  <2>3. limit \in Nat BY AmassAssumption
  <2> QED BY <2>1, <2>2, <2>3
<1>2. batch' \subseteq Started' /\ AllDone(batch)'
  BY DEF Started, AllDone, Done
<1>3. \A c \in Started' : c \in pending' \/ Looked(c)'
  <2> SUFFICES ASSUME NEW c \in Started PROVE c \in pending' \/ Looked(c)'
    BY DEF Started
  <2>1. c \in Children /\ child[c] # "none" BY DEF Started
  <2>2. CASE c \in pending
    BY <2>1, <2>2 DEF Pending, Looked, Done
  <2>3. CASE Looked(c)
    BY <2>1, <2>3 DEF Looked
  <2> QED BY <2>2, <2>3
<1>4. Pending(Children)' \subseteq pending' BY DEF Pending
<1>5. AmassTypeOK' BY DEF Pending
<1> QED BY <1>1, <1>2, <1>3, <1>4, <1>5 DEF Untouched

(* One of them is looked at. *)
LEMMA TakeStep ==
  ASSUME InnerInv, AmassInv, called = "amass", called' = called, NEW c \in Children, Take(c)
  PROVE  AmassInv'
<1> USE DEF AmassInv, AmassTypeOK, InnerInv, GatherInv, GatherTypeOK
<1>1. c \in batch /\ amassing = "running" /\ Done(c)
  BY DEF Take, AllDone
<1>2. CASE Finally(FALSE) /\ UNCHANGED batch
  BY <1>2, FinallyStep
<1>3. CASE /\ UNCHANGED <<gatherVars, limit, strict, source, pending, exhausted>>
           /\ batch' = batch \ {c} /\ amassing' \in {"running", "suspended"}
           /\ \/ child[c] = "value" /\ yielded' = yielded \cup {c}
              \/ child[c] # "value" /\ yielded' = yielded
  <2>1. \A d \in Started' : d \in pending' \/ Looked(d)'
    BY <1>1, <1>3 DEF Started, Looked, Done, gatherVars
  <2>2. \A d \in yielded' : child'[d] = "value"
    BY <1>3 DEF gatherVars
  <2>3. batch' \subseteq Started' /\ AllDone(batch)'
    BY <1>3 DEF gatherVars, Started, AllDone, Done
  <2> QED BY <1>1, <1>3, <2>1, <2>2, <2>3 DEF gatherVars, Pending, Untouched
<1> QED BY <1>1, <1>2, <1>3 DEF Take, Yield

LEMMA AmassStep ==
  ASSUME InnerInv, AmassInv, [CombinatorsNext]_combinatorsVars
  PROVE  AmassInv'
<1>1. CASE AmassCalls
  <2>1. called = "amass" /\ called' = called BY <1>1 DEF AmassCalls
  <2>2. CASE AmassStart
    BY <2>1, <2>2, FS_EmptySet, AmassAssumption, GatherAssumption DEF AmassStart, AmassInv,
       AmassTypeOK, gatherVars, Pending, Untouched, Started, AllDone
  <2>3. CASE Pull
    BY <2>1, <2>3 DEF Pull, AmassInv, AmassTypeOK, gatherVars, Pending, Untouched, Started,
       AllDone, Done, Looked
  <2>4. CASE CancelAmass
    BY <2>1, <2>4 DEF CancelAmass, amassVars, AmassInv, AmassTypeOK, Pending, Untouched,
       Started, AllDone, Done, Looked
  <2>5. CASE Close \/ AmassCancelled
    BY <2>1, <2>5, FinallyStep DEF Close, AmassCancelled
  <2>6. CASE Exhaust
    BY <2>1, <2>6, FinallyStep DEF Exhaust
  <2> QED BY <1>1, <2>1, <2>2, <2>3, <2>4, <2>5, <2>6, FillStep, SomeEndedStep, TakeStep
     DEF AmassCalls, AmassSteps
<1>2. CASE Inner
  <2> USE DEF AmassInv, AmassTypeOK
  <2>1. UNCHANGED <<amassVars, called, tasks>> BY <1>2, InnerKeeps DEF Inner, InnerInv
  <2>2. Started' = Started BY <1>2, InnerKeeps DEF Started, InnerInv
  <2>3. \A c \in Children : /\ child[c] = child'[c] \/ ~Done(c)
                            /\ child[c] = "none" <=> child'[c] = "none"
    BY <1>2, InnerKeeps DEF InnerInv
  <2>4. \A c \in Children : child[c] # "none" /\ ~Done(c) => child[c] = "pending"
    BY DEF InnerInv, GatherInv, GatherTypeOK, Done
  <2>5. Pending(Children)' \subseteq Pending(Children)
    BY <2>3, <2>4 DEF Pending, Done
  <2>6. ASSUME NEW S \in SUBSET Children
        PROVE  /\ Untouched(S) => Untouched(S)'
               /\ AllDone(S) => AllDone(S)'
    BY <2>3 DEF Untouched, AllDone, Done
  <2>7. \A c \in Children : Looked(c) /\ AllDone(batch) => Looked(c)'
    BY <2>1, <2>3 DEF Looked, Done, amassVars
  <2>8. (\A c \in yielded : child[c] = "value") => \A c \in yielded : child'[c] = "value"
    BY <2>3 DEF Done
  <2>9. Started \subseteq Children BY DEF Started
  <2>10. UNCHANGED <<amassing, limit, strict, source, pending, batch, yielded, exhausted>>
    BY <2>1 DEF amassVars
  <2>11. CASE called = "amass"
    <3>1. Untouched(source)' /\ AllDone(batch)' /\ (amassing = "idle" => Untouched(Children)')
      BY <2>6, <2>10, <2>11
    <3>2. \A c \in Started' : c \in pending' \/ Looked(c)'
      BY <2>2, <2>7, <2>9, <2>10, <2>11
    <3> QED BY <2>1, <2>2, <2>5, <2>8, <2>10, <2>11, <3>1, <3>2
  <2> QED BY <2>1, <2>10, <2>11
<1>3. CASE GatherCalls \/ RaceCalls \/ ContextsCalls \/ MapCalls
  <2>1. UNCHANGED amassVars /\ called' = called /\ called # "amass"
    BY <1>3 DEF GatherCalls, RaceCalls, ContextsCalls, MapCalls
  <2> QED BY <2>1 DEF amassVars, AmassInv, AmassTypeOK
<1>4. CASE UNCHANGED combinatorsVars
  BY <1>4 DEF combinatorsVars, amassVars, gatherVars, AmassInv, AmassTypeOK, Pending,
     Untouched, Started, AllDone, Done, Looked
<1> QED BY <1>1, <1>2, <1>3, <1>4 DEF CombinatorsNext

(* No more run than allowed, and nothing that ended is forgotten. *)
LEMMA AmassCounts ==
  ASSUME InnerInv, AmassInv
  PROVE  AmassAccounts
<1> USE DEF AmassInv, AmassTypeOK, InnerInv
<1>1. ASSUME amassing # "idle" PROVE Cardinality(Pending(Children)) <= limit
  <2>1. called = "amass" BY <1>1 DEF Phases
  <2>2. /\ Cardinality(Pending(Children)) \in Nat
        /\ Cardinality(Pending(Children)) <= Cardinality(pending)
    BY <2>1, PendingIsSmaller
  <2>3. Cardinality(pending) \in Nat /\ limit \in Nat
    BY <2>1, FS_CardinalityType, AmassAssumption
  <2> QED BY <2>1, <2>2, <2>3
<1>2. \A c \in yielded : child[c] = "value"
  BY DEF Phases
<1>3. ASSUME AmassOver, exhausted
      PROVE  /\ source = {}
             /\ yielded = {c \in Started : child[c] = "value"}
             /\ stage = "returned" => yielded = Started
  <2>1. /\ called = "amass" /\ source = {} /\ batch = {} /\ pending = {} /\ tasks = Started
        /\ \A c \in Started : Looked(c)
    BY <1>3 DEF AmassOver, Phases
  <2>2. yielded \subseteq Started BY <1>2 DEF Started
  <2>3. yielded = {c \in Started : child[c] = "value"}
    BY <1>2, <2>1, <2>2 DEF Looked
  <2>4. stage = "returned" => \A c \in Started : child[c] = "value"
    BY <2>1 DEF GatherInv, ReportsTasks
  <2> QED BY <2>1, <2>3, <2>4
<1> QED BY <1>1, <1>2, <1>3 DEF AmassAccounts

-----------------------------------------------------------------------------
(* The steps of the task group and of the queue. What they leave alone     *)
(* keeps its part of the invariant.                                        *)
LEMMA ItemsKept ==
  ASSUME ItemsFresh, ReturnsOnce, UNCHANGED <<child, iterator, slot, returns>>,
         mapping' = "idle" => mapping = "idle"
  PROVE  ItemsFresh' /\ ReturnsOnce'
BY DEF ItemsFresh, ReturnsOnce, Untouched, Distinct

LEMMA PlacesKept ==
  ASSUME Places, UNCHANGED <<ordered, queue, current, slot, yields, returns>>
  PROVE  Places'
BY DEF Places, OrderedPlaces, UnorderedPlaces, Kept

LEMMA TypesKept ==
  ASSUME MapTypes,
         UNCHANGED <<ordered, maxJobs, iterator, reserved, slot, queue, current, yields, returns>>,
         mapping' \in {"idle", "waiting", "suspended", "closing"}, fetching' \in BOOLEAN
  PROVE  MapTypes'
BY DEF MapTypes

(* One job more, or less. *)
LEMMA JobAdded ==
  ASSUME JobsCounted, NEW c, c \notin Jobs, Jobs' = Jobs \cup {c}
  PROVE  /\ IsFiniteSet(Jobs') /\ Cardinality(Jobs) \in Nat
         /\ Cardinality(Jobs') = Cardinality(Jobs) + 1
BY FS_AddElement, FS_CardinalityType DEF JobsCounted

LEMMA JobRemoved ==
  ASSUME JobsCounted, NEW c \in Jobs, Jobs' = Jobs \ {c}
  PROVE  /\ IsFiniteSet(Jobs') /\ Cardinality(Jobs) \in Nat
         /\ Cardinality(Jobs') = Cardinality(Jobs) - 1
BY FS_RemoveElement, FS_CardinalityType DEF JobsCounted

(* The invariant while the generator is called.                            *)
Mapped == MapTypes /\ JobsCounted /\ ItemsFresh /\ ReturnsOnce /\ Places

LEMMA MapStartStep ==
  ASSUME GatherTypeOK, MapAtRest, Mapped, MapStart
  PROVE  Mapped'
<1> USE DEF Mapped, MapStart, queueVars
<1>1. iterator' \in Seq(Children) /\ IsInjective(iterator') /\ maxJobs' \in Nat
  BY MapAssumption
<1>2. Distinct(iterator')
  BY <1>1 DEF IsInjective, Distinct
<1>3. UNCHANGED <<child, slot, reserved, queue, current, yields, returns>>
  BY DEF gatherVars
<1>4. Jobs = {} /\ Jobs' = {}
  BY <1>3 DEF Jobs, Pending, ItemsFresh, Untouched
<1>5. DOMAIN slot = {}
  BY DEF ItemsFresh, Untouched, MapTypes
<1>6. MapTypes' BY <1>1, <1>3 DEF MapTypes
<1>7. JobsCounted'
  BY <1>1, <1>4, FS_EmptySet DEF JobsCounted
<1>8. ItemsFresh' /\ ReturnsOnce'
  BY <1>2, <1>3, <1>5 DEF ItemsFresh, ReturnsOnce
<1>9. yields = <<>> /\ returns = <<>> /\ DOMAIN queue = {} /\ current = 1
  BY DEF MapAtRest, Places, UnorderedPlaces, MapTypes
<1>10. Places'
  BY <1>3, <1>5, <1>9 DEF Places, OrderedPlaces, UnorderedPlaces
<1> QED BY <1>6, <1>7, <1>8, <1>10

(* A place is reserved for the item that a job took. *)
LEMMA FetchItemStep ==
  ASSUME GatherTypeOK, MapAtRest, Mapped, FetchItem
  PROVE  Mapped'
<1> USE DEF Mapped
<1> DEFINE c == Head(iterator)
<1>1. /\ c \in Children /\ c = iterator[1] /\ Len(iterator) \in Nat /\ Len(iterator) # 0
      /\ iterator' \in Seq(Children) /\ Len(iterator') = Len(iterator) - 1
      /\ \A i \in 1 .. Len(iterator') : iterator'[i] = iterator[i + 1]
  BY HeadTailProperties, EmptySeq, LenProperties DEF FetchItem, MapTypes
<1>2. c \notin DOMAIN slot /\ child[c] = "none"
  BY <1>1 DEF ItemsFresh
<1>3. /\ child' = [child EXCEPT ![c] = "pending"]
      /\ fetching /\ fetching' = MayStart /\ mapping # "idle"
      /\ jobCount' = IF MayStart THEN jobCount + 1 ELSE jobCount
      /\ UNCHANGED <<mapping, ordered, maxJobs, queue, current, yields, returns>>
  BY DEF FetchItem, MapAtRest
<1>4. /\ DOMAIN slot' = DOMAIN slot \cup {c}
      /\ slot'[c] = reserved + 1
      /\ \A d \in DOMAIN slot : slot'[d] = slot[d]
      /\ slot' \in [DOMAIN slot' -> 1 .. reserved']
      /\ reserved' = reserved + 1
  BY <1>2 DEF FetchItem, MapTypes
<1>5. child'[c] = "pending" /\ \A d \in Children \ {c} : child'[d] = child[d]
  BY <1>1, <1>3 DEF GatherTypeOK
<1>6. MapTypes'
  <2>1. reserved' \in Nat BY <1>4 DEF MapTypes
  <2>2. fetching' \in BOOLEAN BY <1>3 DEF MayStart
  <2>3. DOMAIN slot' \subseteq Children BY <1>1, <1>4 DEF MapTypes
  <2> QED BY <1>1, <1>3, <1>4, <2>1, <2>2, <2>3 DEF MapTypes
<1>7. JobsCounted'
  <2>1. c \notin Jobs /\ Jobs' = Jobs \cup {c}
    BY <1>1, <1>2, <1>5 DEF Jobs, Pending
  <2>2. /\ IsFiniteSet(Jobs') /\ Cardinality(Jobs) \in Nat
        /\ Cardinality(Jobs') = Cardinality(Jobs) + 1
    BY <2>1, JobAdded
  <2>3. jobCount = Cardinality(Jobs) + 1 /\ maxJobs \in Nat
    BY <1>3 DEF JobsCounted, MapTypes
  <2>4. CASE MayStart
    <3>1. fetching' /\ jobCount' = Cardinality(Jobs') + 1 BY <1>3, <2>2, <2>3, <2>4
    <3>2. maxJobs # 0 => jobCount' <= maxJobs BY <1>3, <2>2, <2>3, <2>4 DEF MayStart
    <3> QED BY <1>3, <2>2, <3>1, <3>2 DEF JobsCounted
  <2>5. CASE ~MayStart
    <3>1. ~fetching' /\ jobCount' = Cardinality(Jobs') BY <1>3, <2>2, <2>3, <2>5
    <3>2. maxJobs # 0 => jobCount' <= maxJobs BY <1>3, <2>5 DEF JobsCounted
    <3> QED BY <1>3, <2>2, <3>1, <3>2 DEF JobsCounted
  <2> QED BY <2>4, <2>5
<1>8. ItemsFresh'
  <2>1. Distinct(iterator')
    BY <1>1 DEF ItemsFresh, Distinct
  <2>2. \A i \in 1 .. Len(iterator') : iterator'[i] \notin DOMAIN slot'
    BY <1>1, <1>4 DEF ItemsFresh, Distinct
  <2>3. \A d \in Children : child'[d] # "none" <=> d \in DOMAIN slot'
    BY <1>1, <1>4, <1>5 DEF ItemsFresh
  <2> QED BY <1>3, <2>1, <2>2, <2>3 DEF ItemsFresh
<1>9. ReturnsOnce'
  <2>1. \A i \in 1 .. Len(returns) : returns[i] \in Children
    BY ElementOfSeq DEF MapTypes
  <2> QED BY <1>2, <1>3, <1>5, <2>1 DEF ReturnsOnce, Distinct
<1>10. Places'
  <2>1. \A d \in DOMAIN slot : slot[d] # reserved + 1
    BY DEF MapTypes
  <2> QED BY <1>3, <1>4, <2>1 DEF Places, OrderedPlaces, UnorderedPlaces, Kept
<1> QED BY <1>6, <1>7, <1>8, <1>9, <1>10

(* A job ends without an item. *)
LEMMA FetchNoneStep ==
  ASSUME GatherTypeOK, MapAtRest, Mapped, FetchNone
  PROVE  Mapped'
<1> USE DEF Mapped
<1>1. /\ fetching /\ fetching' = FALSE /\ jobCount' = jobCount - 1 /\ mapping # "idle"
      /\ UNCHANGED <<child, mapping, ordered, maxJobs, iterator, reserved, slot, queue, current,
                     yields, returns>>
  BY DEF FetchNone, gatherVars, MapAtRest
<1>2. MapTypes' BY <1>1, TypesKept DEF MapTypes
<1>3. Jobs' = Jobs BY <1>1 DEF Jobs, Pending
<1>4. JobsCounted'
  <2>1. jobCount = Cardinality(Jobs) + 1 /\ IsFiniteSet(Jobs) /\ maxJobs \in Nat
    BY <1>1 DEF JobsCounted, MapTypes
  <2>2. Cardinality(Jobs) \in Nat BY <2>1, FS_CardinalityType
  <2>3. jobCount' = Cardinality(Jobs') BY <1>1, <1>3, <2>1, <2>2
  <2>4. maxJobs # 0 => jobCount' <= maxJobs
    BY <1>1, <2>1, <2>2 DEF JobsCounted
  <2> QED BY <1>1, <1>3, <2>1, <2>3, <2>4 DEF JobsCounted
<1>5. ItemsFresh' /\ ReturnsOnce' BY <1>1, ItemsKept
<1>6. Places' BY <1>1, PlacesKept
<1> QED BY <1>2, <1>4, <1>5, <1>6

(* A mapper ends: its job goes, and perhaps the others give up the next    *)
(* item. What was returned stays.                                          *)
LEMMA JobEnds ==
  ASSUME GatherTypeOK, MapAtRest, Mapped, NEW c \in Jobs,
         NEW o \in {"value", "error", "cancelled"}, child' = [child EXCEPT ![c] = o],
         fetching' \in BOOLEAN,
         jobCount' = jobCount - 1 - (IF fetching /\ ~fetching' THEN 1 ELSE 0),
         fetching' => fetching,
         UNCHANGED <<mapping, ordered, maxJobs, iterator, slot>>
  PROVE  /\ JobsCounted'
         /\ ItemsFresh'
         /\ c \in Children /\ c \in DOMAIN slot
         /\ child'[c] = o /\ \A d \in Children \ {c} : child'[d] = child[d]
         /\ \A i \in 1 .. Len(returns) : /\ returns[i] # c
                                        /\ child'[returns[i]] = "value"
<1> USE DEF Mapped
<1>1. c \in Children /\ child[c] = "pending"
  BY DEF Jobs, Pending
<1>2. child'[c] = o /\ \A d \in Children \ {c} : child'[d] = child[d]
  BY <1>1 DEF GatherTypeOK
<1>3. Jobs' = Jobs \ {c}
  BY <1>1, <1>2 DEF Jobs, Pending
<1>4. JobsCounted'
  <2>1. /\ IsFiniteSet(Jobs') /\ Cardinality(Jobs) \in Nat
        /\ Cardinality(Jobs') = Cardinality(Jobs) - 1
    BY <1>3, JobRemoved
  <2>2. jobCount = Cardinality(Jobs) + (IF fetching THEN 1 ELSE 0) /\ maxJobs \in Nat
    BY DEF JobsCounted, MapTypes
  <2>3. jobCount' = Cardinality(Jobs') + (IF fetching' THEN 1 ELSE 0)
    BY <2>1, <2>2
  <2>4. jobCount' <= jobCount /\ jobCount \in Int /\ jobCount' \in Int
    BY <2>1, <2>2
  <2>5. maxJobs # 0 => jobCount' <= maxJobs
    BY <2>2, <2>4 DEF JobsCounted
  <2> QED BY <2>1, <2>3, <2>5 DEF JobsCounted
<1>5. c \in DOMAIN slot
  BY <1>1 DEF ItemsFresh
<1>6. ItemsFresh'
  <2>1. \A d \in Children : child'[d] # "none" <=> child[d] # "none"
    BY <1>1, <1>2
  <2>2. mapping # "idle" BY <1>1 DEF ItemsFresh, Untouched
  <2> QED BY <2>1, <2>2 DEF ItemsFresh
<1>7. ASSUME NEW i \in 1 .. Len(returns)
      PROVE  returns[i] # c /\ child'[returns[i]] = "value"
  <2>1. returns[i] \in Children BY ElementOfSeq DEF MapTypes
  <2> QED BY <1>1, <1>2, <2>1 DEF ReturnsOnce
<1> QED BY <1>1, <1>2, <1>4, <1>5, <1>6, <1>7

(* It raises, or it is cancelled. *)
LEMMA JobStops ==
  ASSUME GatherTypeOK, MapAtRest, Mapped, NEW c \in Children, JobFails(c) \/ JobCancelled(c)
  PROVE  Mapped'
<1> USE DEF Mapped
<1>1. c \in Jobs /\ told \subseteq Jobs
  BY DEF JobFails, JobCancelled, GatherTypeOK, Jobs
<1>2. UNCHANGED <<mapping, ordered, maxJobs, iterator, slot, reserved, queue, current, yields,
                  returns>>
  BY DEF JobFails, JobCancelled, queueVars
<1>3. PICK o \in {"value", "error", "cancelled"} : child' = [child EXCEPT ![c] = o]
  BY DEF JobFails, JobCancelled
<1>4. jobCount \in Int
  BY FS_CardinalityType DEF JobsCounted
<1>5. /\ fetching' \in BOOLEAN /\ (fetching' => fetching)
      /\ jobCount' = jobCount - 1 - (IF fetching /\ ~fetching' THEN 1 ELSE 0)
  <2>1. CASE JobFails(c)
    <3>1. fetching' = FALSE /\ jobCount' = jobCount - 1 - (IF fetching THEN 1 ELSE 0)
      BY <2>1 DEF JobFails, Abort
    <3> QED BY <3>1
  <2>2. CASE JobCancelled(c)
    <3>1. fetching' = fetching /\ jobCount' = jobCount - 1 BY <2>2 DEF JobCancelled
    <3> QED BY <1>4, <3>1 DEF MapTypes
  <2> QED BY <2>1, <2>2
<1>6. /\ JobsCounted' /\ ItemsFresh'
      /\ \A i \in 1 .. Len(returns) : child'[returns[i]] = "value"
  BY <1>1, <1>2, <1>3, <1>5, JobEnds
<1>7. ReturnsOnce' BY <1>2, <1>6 DEF ReturnsOnce, Distinct
<1>8. Places' BY <1>2, PlacesKept
<1>9. MapTypes' BY <1>2, <1>5, TypesKept DEF MapTypes
<1> QED BY <1>6, <1>7, <1>8, <1>9

(* It returns, and the result is put into its place, or into the next one. *)
LEMMA JobReturnsStep ==
  ASSUME GatherTypeOK, MapAtRest, Mapped, NEW c \in Children, JobReturns(c)
  PROVE  Mapped'
<1> USE DEF Mapped
<1> DEFINE p == PutIndex(c)
<1>1. c \in Jobs /\ child' = [child EXCEPT ![c] = "value"]
  BY DEF JobReturns
<1>2. /\ UNCHANGED <<mapping, ordered, maxJobs, iterator, slot, reserved, current, yields, fetching>>
      /\ jobCount' = jobCount - 1
      /\ queue' = [i \in DOMAIN queue \cup {p} |-> IF i = p THEN c ELSE queue[i]]
      /\ returns' = Append(returns, c)
  BY DEF JobReturns
<1>3. jobCount \in Int /\ fetching \in BOOLEAN
  BY FS_CardinalityType DEF JobsCounted, MapTypes
<1>4. jobCount' = jobCount - 1 - (IF fetching /\ ~fetching' THEN 1 ELSE 0)
  BY <1>2, <1>3
<1>5. /\ JobsCounted' /\ ItemsFresh' /\ c \in DOMAIN slot /\ child'[c] = "value"
      /\ \A i \in 1 .. Len(returns) : returns[i] # c /\ child'[returns[i]] = "value"
  BY <1>1, <1>2, <1>3, <1>4, JobEnds
<1>6. /\ Len(returns) \in Nat /\ Len(yields) \in Nat /\ current = Len(yields) + 1
      /\ returns' \in Seq(Children) /\ Len(returns') = Len(returns) + 1
      /\ \A i \in 1 .. Len(returns) : returns'[i] = returns[i]
      /\ returns'[Len(returns) + 1] = c
  BY <1>2, LenProperties, AppendProperties DEF MapTypes
<1>7. ReturnsOnce'
  <2>1. Distinct(returns')
    BY <1>5, <1>6 DEF ReturnsOnce, Distinct
  <2> QED BY <1>5, <1>6, <2>1 DEF ReturnsOnce
<1>8. p = IF ordered THEN slot[c] ELSE Len(returns) + 1
  <2>1. CASE ordered BY <2>1 DEF PutIndex
  <2>2. CASE ~ordered
    <3>1. DOMAIN queue = current .. Len(returns) /\ Len(yields) <= Len(returns)
      BY <2>2 DEF Places, UnorderedPlaces
    <3>2. Cardinality(DOMAIN queue) = Len(returns) - current + 1
      <4>1. current \in Int /\ Len(returns) \in Int /\ current <= Len(returns) + 1
        BY <1>6, <3>1
      <4>2. Cardinality(current .. Len(returns)) =
              IF current > Len(returns) THEN 0 ELSE Len(returns) - current + 1
        BY <4>1, FS_Interval
      <4> QED BY <3>1, <4>1, <4>2
    <3> QED BY <1>6, <2>2, <3>2 DEF PutIndex
  <2> QED BY <2>1, <2>2
<1>9. p \in Nat
  BY <1>5, <1>6, <1>8 DEF MapTypes
<1>10. /\ DOMAIN queue' = DOMAIN queue \cup {p} /\ queue'[p] = c
       /\ \A i \in DOMAIN queue \ {p} : queue'[i] = queue[i]
       /\ queue' \in [DOMAIN queue' -> Children]
  BY <1>2 DEF MapTypes
<1>11. MapTypes'
  BY <1>2, <1>6, <1>9, <1>10 DEF MapTypes
<1>12. Places'
  <2>1. CASE ordered
    <3>1. p = slot[c] BY <1>8, <2>1
    <3>2. OrderedPlaces BY <2>1 DEF Places
    <3>3. ASSUME NEW i \in 1 .. Len(returns) PROVE Kept(returns[i])'
      <4>1. returns'[i] = returns[i] /\ returns[i] # c BY <1>5, <1>6
      <4>2. CASE \E j \in 1 .. Len(yields) : yields[j] = returns[i]
        BY <1>2, <4>1, <4>2 DEF Kept
      <4>3. ASSUME NEW j \in DOMAIN queue, queue[j] = returns[i] PROVE Kept(returns[i])'
        <5>1. j # p BY <1>5, <3>1, <3>2, <4>1, <4>3 DEF OrderedPlaces
        <5> QED BY <1>10, <4>1, <4>3, <5>1 DEF Kept
      <4> QED BY <3>2, <4>2, <4>3 DEF OrderedPlaces, Kept
    <3>4. \A i \in 1 .. Len(returns') : Kept(returns[i])'
      BY <1>6, <1>10, <3>3 DEF Kept
    <3>5. OrderedPlaces' BY <1>2, <1>5, <1>10, <3>1, <3>2, <3>4 DEF OrderedPlaces
    <3> QED BY <1>2, <2>1, <3>5 DEF Places
  <2>2. CASE ~ordered
    <3>1. UnorderedPlaces BY <2>2 DEF Places
    <3>2. p = Len(returns) + 1 BY <1>8, <2>2
    <3>3. DOMAIN queue' = current' .. Len(returns')
      BY <1>2, <1>6, <1>10, <3>1, <3>2 DEF UnorderedPlaces
    <3>4. \A i \in DOMAIN queue' : queue'[i] = returns'[i]
      BY <1>2, <1>6, <1>10, <3>1, <3>2 DEF UnorderedPlaces
    <3>5. Len(yields') <= Len(returns') /\ \A i \in 1 .. Len(yields') : yields'[i] = returns'[i]
      BY <1>2, <1>6, <3>1 DEF UnorderedPlaces
    <3> QED BY <1>2, <2>2, <3>3, <3>4, <3>5 DEF Places, UnorderedPlaces
  <2> QED BY <2>1, <2>2
<1> QED BY <1>5, <1>7, <1>11, <1>12

(* The generator leaves the task group: no item is awaited any more. *)
LEMMA LeaveGroupStep ==
  ASSUME GatherTypeOK, Mapped, LeaveGroup
  PROVE  Mapped'
<1> USE DEF Mapped
<1>1. /\ mapping' = "closing" /\ fetching' = FALSE
      /\ jobCount' = jobCount - 0 - (IF fetching THEN 1 ELSE 0)
      /\ UNCHANGED <<child, ordered, maxJobs, iterator, reserved, slot, queue, current, yields,
                     returns>>
  BY DEF LeaveGroup, Abort, queueVars
<1>2. MapTypes' BY <1>1, TypesKept DEF MapTypes
<1>3. JobsCounted'
  <2>1. Jobs' = Jobs BY <1>1 DEF Jobs, Pending
  <2>2. /\ jobCount = Cardinality(Jobs) + (IF fetching THEN 1 ELSE 0)
        /\ IsFiniteSet(Jobs) /\ maxJobs \in Nat
    BY DEF JobsCounted, MapTypes
  <2>3. Cardinality(Jobs) \in Nat BY <2>2, FS_CardinalityType
  <2>4. jobCount' = Cardinality(Jobs') /\ jobCount' <= jobCount /\ jobCount \in Int
    BY <1>1, <2>1, <2>2, <2>3
  <2>5. maxJobs # 0 => jobCount' <= maxJobs
    BY <2>1, <2>2, <2>3, <2>4 DEF JobsCounted
  <2> QED BY <1>1, <2>1, <2>2, <2>3, <2>4, <2>5 DEF JobsCounted
<1>4. ItemsFresh' /\ ReturnsOnce' BY <1>1, ItemsKept
<1>5. Places' BY <1>1, PlacesKept
<1> QED BY <1>2, <1>3, <1>4, <1>5

(* A result is yielded, in its turn. *)
LEMMA YieldStep ==
  ASSUME GatherTypeOK, Mapped, current \in DOMAIN queue,
         mapping # "idle", mapping' = "suspended",
         yields' = Append(yields, queue[current]),
         queue' = [i \in DOMAIN queue \ {current} |-> queue[i]],
         current' = current + 1,
         UNCHANGED <<gatherVars, ordered, maxJobs, iterator, fetching, jobCount, slot, reserved,
                     returns>>
  PROVE  Mapped'
<1> USE DEF Mapped
<1>1. /\ Len(yields) \in Nat /\ Len(returns) \in Nat /\ current = Len(yields) + 1
      /\ queue[current] \in Children
  BY LenProperties DEF MapTypes
<1>2. /\ yields' \in Seq(Children) /\ Len(yields') = Len(yields) + 1
      /\ \A i \in 1 .. Len(yields) : yields'[i] = yields[i]
      /\ yields'[current] = queue[current]
  BY <1>1, AppendProperties DEF MapTypes
<1>3. /\ DOMAIN queue' = DOMAIN queue \ {current}
      /\ queue' \in [DOMAIN queue' -> Children]
      /\ \A i \in DOMAIN queue' : queue'[i] = queue[i]
  BY DEF MapTypes
<1>4. MapTypes' BY <1>1, <1>2, <1>3 DEF MapTypes
<1>5. JobsCounted' BY DEF JobsCounted, Jobs, Pending, gatherVars
<1>6. ItemsFresh' /\ ReturnsOnce' BY ItemsKept DEF gatherVars
<1>7. Places'
  <2>1. CASE ordered
    <3>1. OrderedPlaces BY <2>1 DEF Places
    <3>2. ASSUME NEW i \in 1 .. Len(returns) PROVE Kept(returns[i])'
      <4>1. Kept(returns[i]) BY <3>1 DEF OrderedPlaces
      <4> QED BY <1>1, <1>2, <1>3, <4>1 DEF Kept
    <3>3. /\ \A i \in DOMAIN queue' : queue'[i] \in DOMAIN slot /\ slot[queue'[i]] = i
          /\ \A i \in 1 .. Len(yields') : yields'[i] \in DOMAIN slot /\ slot[yields'[i]] = i
      BY <1>1, <1>2, <1>3, <3>1 DEF OrderedPlaces
    <3>4. OrderedPlaces' BY <3>1, <3>2, <3>3 DEF OrderedPlaces
    <3> QED BY <2>1, <3>4 DEF Places
  <2>2. CASE ~ordered
    <3>1. UnorderedPlaces BY <2>2 DEF Places
    <3>2. current <= Len(returns) /\ queue[current] = returns[current]
      BY <1>1, <3>1 DEF UnorderedPlaces
    <3>3. DOMAIN queue' = current' .. Len(returns)
      BY <1>1, <1>3, <3>1, <3>2 DEF UnorderedPlaces
    <3>4. \A i \in 1 .. Len(yields') : yields'[i] = returns[i]
      BY <1>1, <1>2, <3>1, <3>2 DEF UnorderedPlaces
    <3>5. \A i \in DOMAIN queue' : queue'[i] = returns[i]
      BY <1>3, <3>1 DEF UnorderedPlaces
    <3>6. Len(yields') <= Len(returns) BY <1>1, <1>2, <3>2
    <3> QED BY <2>2, <3>3, <3>4, <3>5, <3>6 DEF Places, UnorderedPlaces
  <2> QED BY <2>1, <2>2
<1> QED BY <1>4, <1>5, <1>6, <1>7

LEMMA IterateStep ==
  ASSUME GatherTypeOK, Mapped, mapping # "idle", Iterate
  PROVE  Mapped'
<1>1. CASE LeaveGroup BY <1>1, LeaveGroupStep
<1>2. CASE current \in DOMAIN queue /\ ~LeaveGroup
  BY <1>2, YieldStep DEF Iterate
<1>3. CASE current \notin DOMAIN queue /\ ~LeaveGroup
  <2>1. /\ mapping' = "waiting"
        /\ UNCHANGED <<gatherVars, ordered, maxJobs, iterator, fetching, jobCount, slot, reserved,
                       queue, current, yields, returns>>
    BY <1>3 DEF Iterate
  <2>2. MapTypes' BY <2>1, TypesKept DEF Mapped, MapTypes
  <2>3. JobsCounted' BY <2>1 DEF Mapped, JobsCounted, Jobs, Pending, gatherVars
  <2>4. ItemsFresh' /\ ReturnsOnce' BY <2>1, ItemsKept DEF Mapped, gatherVars
  <2>5. Places' BY <2>1, PlacesKept DEF Mapped
  <2> QED BY <2>2, <2>3, <2>4, <2>5 DEF Mapped
<1> QED BY <1>1, <1>2, <1>3

(* Nobody but a job changes what the map is at. *)
LEMMA MapKept ==
  ASSUME Mapped, UNCHANGED <<child, mapVars>>
  PROVE  Mapped'
<1> USE DEF Mapped, mapVars, queueVars
<1>1. MapTypes' BY TypesKept DEF MapTypes
<1>2. JobsCounted' BY DEF JobsCounted, Jobs, Pending
<1>3. ItemsFresh' /\ ReturnsOnce' BY ItemsKept
<1>4. Places' BY PlacesKept
<1> QED BY <1>1, <1>2, <1>3, <1>4

LEMMA FlagsKept ==
  ASSUME MapFlags, MapCalls \/ UNCHANGED mapVars
  PROVE  MapFlags'
<1> USE DEF MapFlags, mapVars, queueVars
<1>1. UNCHANGED maxJobs \/ maxJobs' \in MaxJobs
  BY DEF MapCalls, MapStart, Ask, CloseMap, CancelMap, MapSteps, FetchItem, FetchNone, WakeUp,
     Iterate, LeaveGroup, JobSteps, JobReturns, JobFails, JobCancelled
<1>2. closed' \in BOOLEAN
  BY DEF MapCalls, MapStart, Ask, CloseMap, CancelMap, MapSteps, FetchItem, FetchNone, WakeUp,
     Iterate, LeaveGroup, JobSteps, JobReturns, JobFails, JobCancelled
<1>3. pressed' \in BOOLEAN
  BY DEF MapCalls, MapStart, Ask, CloseMap, CancelMap, MapSteps, FetchItem, FetchNone, WakeUp,
     Iterate, LeaveGroup, JobSteps, JobReturns, JobFails, JobCancelled, Press
<1> QED BY <1>1, <1>2, <1>3

LEMMA ClosedKept ==
  ASSUME MapAtRest, ClosedLast, MapCalls \/ UNCHANGED mapVars
  PROVE  ClosedLast'
<1> USE DEF ClosedLast
<1>1. CASE MapStart BY <1>1 DEF MapStart, MapAtRest, queueVars
<1>2. CASE FetchItem BY <1>2 DEF FetchItem
<1>3. CASE FetchNone BY <1>3 DEF FetchNone
<1>4. ASSUME UNCHANGED <<iterator, closed>>, fetching' => fetching
      PROVE  ClosedLast'
  BY <1>4
<1>5. CASE WakeUp \/ Ask \/ CloseMap
  BY <1>4, <1>5 DEF WakeUp, Ask, CloseMap, Iterate, LeaveGroup, Abort, queueVars
<1>6. CASE UNCHANGED mapVars BY <1>4, <1>6 DEF mapVars, queueVars
<1>7. ASSUME NEW c \in Children, JobSteps(c) PROVE ClosedLast'
  BY <1>4, <1>7 DEF JobSteps, JobReturns, JobFails, JobCancelled, Abort, queueVars
<1> QED BY <1>1, <1>2, <1>3, <1>5, <1>6, <1>7 DEF MapCalls, MapSteps, CancelMap

LEMMA MapStep ==
  ASSUME InnerInv, MapInv, [CombinatorsNext]_combinatorsVars
  PROVE  MapInv'
<1> USE DEF MapInv
<1>1. CASE MapCalls
  <2>1. called = "map" /\ called' = called BY <1>1 DEF MapCalls
  <2>2. GatherTypeOK /\ Mapped BY <2>1 DEF InnerInv, GatherInv, Mapped
  <2>3. mapping # "idle" \/ child' = child
    <3> SUFFICES ASSUME mapping = "idle" PROVE child' = child
      OBVIOUS
    <3>1. ~fetching /\ Jobs = {} /\ told = {}
      BY <2>2 DEF MapAtRest, Mapped, ItemsFresh, Untouched, Jobs, Pending, GatherTypeOK
    <3> QED BY <1>1, <3>1 DEF MapCalls, MapStart, Ask, CloseMap, CancelMap, MapSteps, FetchItem,
       FetchNone, WakeUp, JobSteps, JobReturns, JobFails, JobCancelled, ChildSuppresses, gatherVars
  <2>4. Mapped' /\ (mapping = "idle" => mapping' # "idle" \/ UNCHANGED mapVars)
                /\ (mapping # "idle" => mapping' # "idle")
    <3>1. CASE MapStart BY <2>2, <3>1, MapStartStep DEF MapStart
    <3>2. CASE FetchItem BY <2>2, <3>2, FetchItemStep DEF FetchItem, MapAtRest
    <3>3. CASE FetchNone BY <2>2, <3>3, FetchNoneStep DEF FetchNone, MapAtRest
    <3>4. CASE WakeUp \/ Ask
      BY <2>2, <3>4, IterateStep DEF WakeUp, Ask, Iterate, LeaveGroup
    <3>5. CASE CloseMap BY <2>2, <3>5, LeaveGroupStep DEF CloseMap, LeaveGroup
    <3>6. CASE CancelMap BY <2>2, <3>6, MapKept DEF CancelMap, mapVars
    <3>7. CASE \E c \in Children : ChildSuppresses(c) /\ UNCHANGED mapVars
      BY <2>2, <3>7, MapKept DEF ChildSuppresses, mapVars
    <3>8. ASSUME NEW c \in Children, JobSteps(c) PROVE mapping # "idle" /\ mapping' = mapping
      <4>1. c \in Jobs
        BY <2>2, <3>8 DEF JobSteps, JobReturns, JobFails, JobCancelled, GatherTypeOK, Jobs
      <4>2. mapping # "idle"
        BY <2>2, <4>1 DEF Mapped, ItemsFresh, Untouched, Jobs, Pending
      <4> QED BY <3>8, <4>2 DEF JobSteps, JobReturns, JobFails, JobCancelled
    <3>9. CASE \E c \in Children : JobSteps(c)
      BY <2>2, <3>8, <3>9, JobReturnsStep, JobStops DEF JobSteps
    <3> QED BY <1>1, <3>1, <3>2, <3>3, <3>4, <3>5, <3>6, <3>7, <3>9 DEF MapCalls, MapSteps
  <2> QED BY <1>1, <2>1, <2>4, FlagsKept, ClosedKept DEF Mapped, MapAtRest, mapVars, queueVars
<1>2. CASE GatherCalls \/ RaceCalls \/ AmassCalls \/ ContextsCalls \/ Inner
  <2>1. UNCHANGED mapVars /\ called' = called /\ called # "map"
    BY <1>2 DEF GatherCalls, RaceCalls, AmassCalls, ContextsCalls, Inner
  <2>2. MapTypes' BY <2>1, TypesKept DEF mapVars, queueVars, MapTypes
  <2> QED BY <2>1, <2>2, FlagsKept, ClosedKept DEF mapVars, queueVars, MapAtRest
<1>3. CASE UNCHANGED combinatorsVars
  <2>1. UNCHANGED <<child, mapVars, called>> BY <1>3 DEF combinatorsVars, gatherVars
  <2>2. called = "map" => Mapped' BY <2>1, MapKept DEF Mapped
  <2>3. MapTypes' BY <2>1, TypesKept DEF mapVars, queueVars, MapTypes
  <2> QED BY <2>1, <2>2, <2>3, FlagsKept, ClosedKept DEF mapVars, queueVars, MapAtRest, Mapped
<1> QED BY <1>1, <1>2, <1>3 DEF CombinatorsNext

(* Results come in order, each once, of as many mappers as may run. *)
LEMMA MapCounts ==
  ASSUME InnerInv, MapInv
  PROVE  MapAccounts
<1>1. CASE called # "map"
  <2>1. ~ordered /\ maxJobs = 0 /\ yields = <<>> /\ returns = <<>>
    BY <1>1 DEF InnerInv, Phases, MapInv, MapAtRest
  <2>2. Range(returns) = {} BY <2>1 DEF Range
  <2> QED BY <2>1, <2>2 DEF MapAccounts, IsInjective, IsPrefix
<1>2. CASE called = "map"
  <2> USE <1>2 DEF MapInv
  <2>1. /\ yields \in Seq(Children) /\ returns \in Seq(Children)
        /\ DOMAIN yields = 1 .. Len(yields)
        /\ Len(yields) \in Nat /\ Len(returns) \in Nat
    BY LenProperties DEF MapTypes
  <2>2. maxJobs # 0 => Cardinality(Jobs) <= maxJobs /\ jobCount <= maxJobs
    <3>1. Cardinality(Jobs) \in Nat /\ maxJobs \in Nat
      BY FS_CardinalityType DEF JobsCounted, MapTypes
    <3>2. jobCount = Cardinality(Jobs) + (IF fetching THEN 1 ELSE 0)
      BY DEF JobsCounted
    <3>3. Cardinality(Jobs) <= jobCount BY <3>1, <3>2
    <3> QED BY <3>1, <3>2, <3>3 DEF JobsCounted
  <2>3. CASE ordered
    <3>1. \A i \in DOMAIN yields : slot[yields[i]] = i
      BY <2>1, <2>3 DEF Places, OrderedPlaces
    <3>2. IsInjective(yields) BY <3>1 DEF IsInjective
    <3>3. Range(returns) \subseteq Range(yields) \cup Range(queue)
      BY <2>1, <2>3 DEF Places, OrderedPlaces, Kept, Range
    <3>4. ASSUME ~QueueOpen PROVE iterator = <<>> /\ DOMAIN slot \subseteq Range(yields)
      <4>1. closed /\ current > reserved BY <2>3, <3>4 DEF QueueOpen, MapTypes
      <4>2. ASSUME NEW c \in DOMAIN slot PROVE c \in Range(yields)
        <5>1. slot[c] \in 1 .. Len(yields) BY <2>1, <4>1 DEF MapTypes
        <5>2. yields[slot[c]] = c
          BY <2>3, <5>1 DEF Places, OrderedPlaces
        <5> QED BY <2>1, <5>1, <5>2 DEF Range
      <4> QED BY <4>1, <4>2 DEF ClosedLast
    <3> QED BY <2>2, <2>3, <3>1, <3>2, <3>3, <3>4 DEF MapAccounts
  <2>4. CASE ~ordered
    <3>1. /\ Len(yields) <= Len(returns)
          /\ \A i \in 1 .. Len(yields) : yields[i] = returns[i]
      BY <2>4 DEF Places, UnorderedPlaces
    <3>2. IsInjective(yields)
      BY <2>1, <3>1 DEF IsInjective, ReturnsOnce, Distinct
    <3>3. SubSeq(yields, 1, Len(yields)) = SubSeq(returns, 1, Len(yields))
      <4>1. \A i \in 1 .. Len(yields) : yields[i] \in Children /\ returns[i] \in Children
        BY <2>1, <3>1, ElementOfSeq
      <4> DEFINE s == SubSeq(yields, 1, Len(yields))
                 t == SubSeq(returns, 1, Len(yields))
      <4>2. /\ s \in Seq(Children) /\ Len(s) = Len(yields)
            /\ \A i \in 1 .. Len(yields) : s[i] = yields[i]
        BY <2>1, <4>1, SubSeqProperties
      <4>3. /\ t \in Seq(Children) /\ Len(t) = Len(yields)
            /\ \A i \in 1 .. Len(yields) : t[i] = returns[i]
        BY <2>1, <4>1, SubSeqProperties
      <4> QED BY <3>1, <4>2, <4>3, SeqEqual
    <3>4. Range(returns) \subseteq Range(yields) \cup Range(queue)
      <4> SUFFICES ASSUME NEW i \in 1 .. Len(returns)
                   PROVE  returns[i] \in Range(yields) \cup Range(queue)
        BY <2>1, LenProperties DEF Range
      <4>1. CASE i <= Len(yields)
        BY <2>1, <3>1, <4>1 DEF Range
      <4>2. CASE i > Len(yields)
        <5>1. i \in DOMAIN queue /\ queue[i] = returns[i]
          BY <2>1, <2>4, <4>2 DEF Places, UnorderedPlaces, MapTypes
        <5> QED BY <5>1 DEF Range
      <4> QED BY <2>1, <4>1, <4>2
    <3> QED BY <2>2, <2>4, <3>1, <3>2, <3>3, <3>4 DEF MapAccounts, IsPrefix
  <2> QED BY <2>3, <2>4
<1> QED BY <1>1, <1>2

-----------------------------------------------------------------------------
(* The theorems. *)

CombinatorsInv ==
  /\ InnerInv
  /\ RaceInv
  /\ ContextsInv /\ CleanupShielded
  /\ AmassInv
  /\ MapInv

(* The invariant of gather, the one of each combinator, and how far each   *)
(* of them is with respect to its gather, hold whoever is called and       *)
(* however often it is cancelled.                                          *)
THEOREM CombinatorsInvariant == CombinatorsSpec => []CombinatorsInv
<1>1. CombinatorsInit => CombinatorsInv
  <2> SUFFICES ASSUME CombinatorsInit PROVE CombinatorsInv
    OBVIOUS
  <2> USE DEF CombinatorsInit
  <2>1. GatherInv /\ interrupted = FALSE /\ stage = "idle"
    BY GatherInitInv DEF GatherInit
  <2>2. InnerInv
    BY <2>1 DEF InnerInv, Phases, Unhurried, RaceInit, AmassInit, ContextsInit, MapInit
  <2>3. RaceInv BY DEF RaceInv, RaceTypeOK, RaceInit
  <2>4. Untouched(Children) BY DEF Untouched, GatherInit
  <2>5. ContextsInv /\ CleanupShielded
    BY <2>4 DEF ContextsInv, ContextsTypeOK, ContextsInit, CleanupShielded
  <2>6. AmassInv
    <3>1. Started = {} /\ Pending(Children) = {}
      BY <2>4 DEF Started, Pending, Untouched
    <3>2. /\ amassing = "idle" /\ limit = 0 /\ strict = FALSE /\ source = {} /\ pending = {}
          /\ batch = {} /\ yielded = {} /\ exhausted = FALSE
      BY DEF AmassInit
    <3>3. AmassTypeOK BY <3>2 DEF AmassTypeOK
    <3>4. IsFiniteSet(pending) /\ Cardinality(pending) <= limit
      BY <3>2, FS_EmptySet
    <3> QED BY <2>4, <3>1, <3>2, <3>3, <3>4 DEF AmassInv, Untouched, AllDone
  <2>7. MapTypes
    <3>1. /\ mapping = "idle" /\ ordered = FALSE /\ maxJobs = 0 /\ iterator = <<>>
          /\ fetching = FALSE /\ slot = <<>> /\ reserved = 0 /\ queue = <<>> /\ current = 1
          /\ yields = <<>> /\ returns = <<>>
      BY DEF MapInit
    <3>2. /\ <<>> \in Seq(Children) /\ Len(<<>>) = 0 /\ DOMAIN <<>> = {}
          /\ <<>> \in [DOMAIN <<>> -> Children] /\ <<>> \in [DOMAIN <<>> -> 1 .. reserved]
      BY EmptySeq
    <3>3. slot \in [DOMAIN slot -> 1 .. reserved] /\ DOMAIN slot \subseteq Children
      BY <3>1, <3>2
    <3>4. queue \in [DOMAIN queue -> Children] /\ DOMAIN queue \subseteq Nat
      BY <3>1, <3>2
    <3>5. yields \in Seq(Children) /\ returns \in Seq(Children) /\ iterator \in Seq(Children)
      BY <3>1, <3>2
    <3>6. current = Len(yields) + 1 BY <3>1, <3>2
    <3> QED BY <3>1, <3>3, <3>4, <3>5, <3>6 DEF MapTypes
  <2>8. JobsCounted
    <3>1. Jobs = {} BY <2>4 DEF Jobs, Pending, Untouched
    <3> QED BY <3>1, FS_EmptySet DEF JobsCounted, MapInit
  <2>9. ItemsFresh /\ ReturnsOnce /\ Places
    BY <2>4 DEF ItemsFresh, ReturnsOnce, Places, UnorderedPlaces, Distinct, MapInit, Untouched
  <2>10. MapInv
    BY <2>7, <2>8, <2>9 DEF MapInv, MapFlags, ClosedLast, MapAtRest, MapInit
  <2> QED BY <2>2, <2>3, <2>5, <2>6, <2>10 DEF CombinatorsInv
<1>2. CombinatorsInv /\ [CombinatorsNext]_combinatorsVars => CombinatorsInv'
  <2> SUFFICES ASSUME CombinatorsInv, [CombinatorsNext]_combinatorsVars
               PROVE  CombinatorsInv'
    OBVIOUS
  <2> USE DEF CombinatorsInv
  <2>1. InnerInv'
    BY RaceCallsInner, ContextsCallsInner, AmassCallsInner, MapCallsInner, InnerStepInner
       DEF CombinatorsNext
  <2> QED BY <2>1, RaceStep, ContextsStep, AmassStep, MapStep
<1> QED BY <1>1, <1>2, PTL DEF CombinatorsSpec

(* Every variable of every combinator keeps its type.                      *)
THEOREM CombinatorsTypeCorrect == CombinatorsSpec => []CombinatorsTypeOK
<1>1. CombinatorsInv => CombinatorsTypeOK
  <2> SUFFICES ASSUME CombinatorsInv PROVE CombinatorsTypeOK
    OBVIOUS
  <2> USE DEF CombinatorsInv
  <2>1. GatherTypeOK BY DEF InnerInv, GatherInv
  <2>2. RaceTypeOK /\ ContextsTypeOK /\ AmassTypeOK
    BY DEF RaceInv, ContextsInv, AmassInv
  <2>3. jobCount \in Nat
    <3>1. CASE called = "map"
      BY <3>1, FS_CardinalityType DEF MapInv, JobsCounted, MapTypes
    <3>2. CASE called # "map"
      BY <3>2 DEF InnerInv, Phases, MapInv, MapAtRest
    <3> QED BY <3>1, <3>2
  <2>4. current \in Nat \ {0}
    BY LenProperties DEF MapInv, MapTypes
  <2>5. Range(slot) \subseteq 1 .. reserved /\ Range(queue) \subseteq Children
    BY DEF MapInv, MapTypes, Range
  <2>6. MapTypeOK
    BY <2>3, <2>4, <2>5 DEF MapInv, MapTypes, MapFlags, MapTypeOK
  <2> QED BY <2>1, <2>2, <2>6 DEF CombinatorsTypeOK
<1> QED BY <1>1, CombinatorsInvariant, PTL

(* None of race, amass and concurrent_contexts leaves a task of its gather *)
(* running when it is over, and their gather tells what happened.          *)
THEOREM CombinatorsGather == CombinatorsSpec => [](NoneLeftBehind /\ ReportsTasks)
<1>1. CombinatorsInv => NoneLeftBehind /\ ReportsTasks
  BY DEF CombinatorsInv, InnerInv, GatherInv
<1> QED BY <1>1, CombinatorsInvariant, PTL

(* race reports the outcome of its winner, unless a loser or the caller    *)
(* had another one.                                                        *)
THEOREM RaceReportsIt == CombinatorsSpec => []RaceReports
<1>1. CombinatorsInv => RaceReports BY RaceTells DEF CombinatorsInv
<1> QED BY <1>1, CombinatorsInvariant, PTL

(* concurrent_contexts exits whom it entered, and nobody else.             *)
THEOREM ContextsBalancedAlways == CombinatorsSpec => []ContextsBalanced
<1>1. CombinatorsInv => ContextsBalanced BY ContextsBalance DEF CombinatorsInv
<1> QED BY <1>1, CombinatorsInvariant, PTL

(* Until its caller is cancelled more often than the shield absorbs, only  *)
(* a failing exit stops the others, and it never leaves any of them.       *)
THEOREM CleanupIsShielded == CombinatorsSpec => []CleanupShielded
<1>1. CombinatorsInv => CleanupShielded BY DEF CombinatorsInv
<1> QED BY <1>1, CombinatorsInvariant, PTL

(* amass keeps to its limit and yields every result.                       *)
THEOREM AmassAccountsForAll == CombinatorsSpec => []AmassAccounts
<1>1. CombinatorsInv => AmassAccounts BY AmassCounts DEF CombinatorsInv
<1> QED BY <1>1, CombinatorsInvariant, PTL

(* map keeps to its limit and to its order, yields nothing twice, and      *)
(* keeps what was returned until it yields it, or is closed.               *)
THEOREM MapAccountsForAll == CombinatorsSpec => []MapAccounts
<1>1. CombinatorsInv => MapAccounts BY MapCounts DEF CombinatorsInv
<1> QED BY <1>1, CombinatorsInvariant, PTL
=============================================================================
