------------------------------- MODULE Amass -------------------------------
(***************************************************************************)
(* The asynchronous generator of amass (modules/amass.py): it keeps up to  *)
(* max_concurrent_count awaitables running and yields what they return, as *)
(* they end; when it is closed, or over, it cancels what still runs and    *)
(* gathers all that it started.                                            *)
(*                                                                         *)
(* The awaitables that were never started, which the generator terminates, *)
(* are left as they are: `terminate` closes a coroutine without running it.*)
(***************************************************************************)
EXTENDS Gather

CONSTANT MaxConcurrent  (* the max_concurrent_count arguments                *)

ASSUME AmassAssumption == MaxConcurrent \subseteq Nat \ {0}

VARIABLES
  amassing,   (* where the generator is                                      *)
  limit,      (* max_concurrent_count                                        *)
  strict,     (* its `sensitive`                                             *)
  source,     (* awaitables_iter: those that were not started                *)
  pending,    (* pending_futures                                             *)
  batch,      (* what is left of done_futures                                *)
  yielded,    (* awaitables whose result was yielded                         *)
  exhausted   (* the generator ended because nothing was left                *)

amassVars == <<amassing, limit, strict, source, pending, batch, yielded, exhausted>>

AmassInit == /\ amassing = "idle"
             /\ limit = 0
             /\ strict = FALSE
             /\ source = {}
             /\ pending = {}
             /\ batch = {}
             /\ yielded = {}
             /\ exhausted = FALSE

Started == {c \in Children : child[c] # "none"}

AmassStart == /\ amassing = "idle"
              /\ amassing' = "running"
              /\ limit' \in MaxConcurrent
              /\ strict' \in BOOLEAN
              /\ source' \in Groups
              /\ UNCHANGED <<gatherVars, pending, batch, yielded, exhausted>>

(* The `finally` clause. *)
Finally(endedByItself) ==
  /\ amassing' = "closing"
  /\ exhausted' = endedByItself
  /\ told' = told \cup Pending(pending)
  /\ Gather(Started, FALSE)
  /\ UNCHANGED <<limit, strict, source, pending, yielded>>

(* Mutation of Room: one more awaitable is started than allowed. *)
Room_OffByOne == limit - Cardinality(pending) + 1

Room == limit - Cardinality(pending)

(* Awaitables are started, in any order, until there is no room or none is *)
(* left.                                                                   *)
Fill == /\ amassing = "running"
        /\ batch = {}
        /\ \E S \in SUBSET source :
             /\ IsFiniteSet(S)
             /\ Cardinality(S) = Room \/ (S = source /\ Cardinality(S) <= Room)
             /\ child' = [c \in Children |-> IF c \in S THEN "pending" ELSE child[c]]
             /\ pending' = pending \cup S
             /\ source' = source \ S
        /\ pending' # {}
        /\ amassing' = "waiting"
        /\ UNCHANGED <<told, tasks, sensitive, stage, failed, cancelled, interrupted,
                       cancels, limit, strict, batch, yielded, exhausted>>

Exhaust == /\ amassing = "running"
           /\ batch = {}
           /\ pending = {}
           /\ source = {}
           /\ Finally(TRUE)
           /\ UNCHANGED <<interrupted, batch>>

SomeEnded == /\ amassing = "waiting"
             /\ ~interrupted
             /\ \E c \in pending : Done(c)
             /\ batch' = {c \in pending : Done(c)}
             /\ pending' = Pending(pending)
             /\ amassing' = "running"
             /\ UNCHANGED <<gatherVars, limit, strict, source, yielded, exhausted>>

CancelAmass == /\ amassing = "waiting"
               /\ Interrupt
               /\ UNCHANGED <<amassVars, child, told, tasks, sensitive, stage, failed,
                              cancelled>>

(* The wait is cancelled: pending_futures is not assigned. *)
AmassCancelled == /\ amassing = "waiting"
                  /\ interrupted
                  /\ interrupted' = FALSE
                  /\ Finally(FALSE)
                  /\ UNCHANGED batch

(* Mutation of Yield: what comes after the result is dropped. *)
Yield_Drops(c) == /\ child[c] = "value"
                  /\ yielded' = yielded \cup {c}
                  /\ batch' = {}
                  /\ amassing' = "suspended"
                  /\ UNCHANGED <<gatherVars, limit, strict, source, pending, exhausted>>

Yield(c) == /\ child[c] = "value"
            /\ yielded' = yielded \cup {c}
            /\ batch' = batch \ {c}
            /\ amassing' = "suspended"
            /\ UNCHANGED <<gatherVars, limit, strict, source, pending, exhausted>>

(* A done future is looked at: the exception of one ends the generator if  *)
(* it is sensitive, and is otherwise left to the gather at the end.        *)
Take(c) == /\ amassing = "running"
           /\ c \in batch
           /\ \/ Yield(c)
              \/ /\ child[c] # "value"
                 /\ ~strict
                 /\ batch' = batch \ {c}
                 /\ UNCHANGED <<gatherVars, amassing, limit, strict, source, pending, yielded,
                                exhausted>>
              \/ /\ child[c] # "value"
                 /\ strict
                 /\ Finally(FALSE)
                 /\ UNCHANGED <<interrupted, batch>>

(* The consumer asks for another result, or closes the generator. *)
Pull == /\ amassing = "suspended"
        /\ amassing' = "running"
        /\ UNCHANGED <<gatherVars, limit, strict, source, pending, batch, yielded, exhausted>>

Close == /\ amassing = "suspended"
         /\ Finally(FALSE)
         /\ UNCHANGED <<interrupted, batch>>

AmassSteps == Fill \/ Exhaust \/ SomeEnded \/ AmassCancelled
                \/ \E c \in Children : Take(c)

AmassOver == amassing = "closing" /\ GatherOver

-----------------------------------------------------------------------------
AmassTypeOK ==
  /\ amassing \in {"idle", "running", "waiting", "suspended", "closing"}
  /\ limit \in MaxConcurrent \cup {0}
  /\ strict \in BOOLEAN
  /\ source \subseteq Children
  /\ pending \subseteq Children
  /\ batch \subseteq Children
  /\ yielded \subseteq Children
  /\ exhausted \in BOOLEAN

(* No more awaitables run at a time than allowed; only results are         *)
(* yielded, and a generator that ends by itself has yielded all of them,   *)
(* and reports the exceptions of the others.                               *)
AmassAccounts ==
  /\ amassing # "idle" => Cardinality(Pending(Children)) <= limit
  /\ \A c \in yielded : child[c] = "value"
  /\ AmassOver /\ exhausted =>
       /\ source = {}
       /\ yielded = {c \in Started : child[c] = "value"}
       /\ stage = "returned" => yielded = Started

(* A generator that is closed, or that failed, ends if its tasks take      *)
(* their cancellations.                                                    *)
AmassStops ==
  (amassing = "closing" /\ tasks \cap Stubborn = {}) ~> AmassOver
=============================================================================
