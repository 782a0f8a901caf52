------------------------ MODULE ThreadsafeCondition ------------------------
(***************************************************************************)
(* ThreadsafeCondition of modules/thread_safe_lock.py, over the            *)
(* ThreadsafeLock it creates, used as condition variables are: waiters and *)
(* notifiers enter `with condition`, wait until `flag` is set, and set it  *)
(* and notify.                                                             *)
(*                                                                         *)
(* wait releases the lock, then registers its waiter, with nothing held;   *)
(* notify reads the set of waiters, wakes them, then clears the set. Each  *)
(* of these is a step. Those of a task follow each other in its event loop *)
(* without an await, so no other task of that loop runs between them.      *)
(*                                                                         *)
(* A task whose wait ended without the lock leaves the block that is       *)
(* around it as any other does, by release_async.                          *)
(***************************************************************************)
EXTENDS ThreadsafeLock

CONSTANTS
  Users,        (* the actors that use the condition                         *)
  MaxCancels    (* bounds the cancellation requests a task has at a time     *)

ASSUME ConditionAssumption == Users \subseteq Actors /\ MaxCancels \in Nat

VARIABLES
  condWaiters,  (* actors with a waiter in _waiters                          *)
  signalled,    (* actors whose waiter was released, or has a set_result     *)
  notifier,     (* the actor between the two steps of notify                 *)
  at,           (* where each actor is with respect to wait                  *)
  cancels,      (* Task.cancelling()                                         *)
  shield,       (* "up" while the ShieldContext of wait has a cancellation   *)
                (* to absorb, "hit" once it did, or "none" if it has not any *)
  flag          (* what the waiters wait for, protected by the lock          *)

condVars == <<condWaiters, signalled, notifier, at, cancels, shield, flag>>
conditionVars == <<vars, condVars>>

CondInit == /\ Init
            /\ condWaiters = {}
            /\ signalled = {}
            /\ notifier = NoActor
            /\ at = [a \in Actors |-> "out"]
            /\ cancels = [t \in Tasks |-> 0]
            /\ shield = [t \in Tasks |-> "none"]
            /\ flag = FALSE

(* Between two steps of wait or of notify that no await separates. Without *)
(* a shield, wait calls acquire_async itself; shield_wait makes it a task. *)
InStep(t) == \/ at[t] = "released"
             \/ at[t] = "woken" /\ pc[t] = "idle" /\ shield[t] = "none"
             \/ notifier = t

(* An event loop runs no other task then. *)
Runs(a) == a \in Tasks => \A t \in Tasks \ {a} : LoopOf[t] = LoopOf[a] => ~InStep(t)

(* In the `with` block, where wait may just have returned. *)
Inside(a) == pc[a] = "held" /\ at[a] \in {"out", "woken"}

Acts(a) == Inside(a) /\ Runs(a) /\ notifier # a

-----------------------------------------------------------------------------
(* lock.acquire_*, on entry of the `with` block or at the end of wait. *)
Acquire(a) == /\ at[a] \in {"out", "woken"}
              /\ Runs(a)
              /\ \/ EnterFast(a) \/ FinishFast(a)
                 \/ /\ a \in Threads
                    /\ BlockSync(a) \/ WakeSync(a) \/ UncountSync(a)
                 \/ /\ a \in Tasks
                    /\ BlockAsync(a) \/ RunSetResult(a) \/ Resume(a)
              /\ UNCHANGED condVars

(* Mutation of Leave: a caller that comes back from wait takes the lock to *)
(* be released already.                                                    *)
Leave_Once(a) == /\ Acts(a)
                 /\ IF at[a] = "woken" THEN /\ pc' = [pc EXCEPT ![a] = "idle"]
                                            /\ UNCHANGED <<locked, waiters, stateLock,
                                                 syncLock, syncWaiterCount, fut,
                                                 callbacks, given, mustCancel, closed>>
                                       ELSE Release(a)
                 /\ at' = [at EXCEPT ![a] = "out"]
                 /\ UNCHANGED <<condWaiters, signalled, notifier, cancels, shield, flag>>

(* __exit__, __aexit__ *)
Leave(a) == /\ Acts(a)
            /\ Release(a)
            /\ at' = [at EXCEPT ![a] = "out"]
            /\ UNCHANGED <<condWaiters, signalled, notifier, cancels, shield, flag>>

(* Another user of the condition sees the flag and resets it. *)
Consume(a) == /\ Acts(a)
              /\ flag
              /\ flag' = FALSE
              /\ UNCHANGED <<vars, condWaiters, signalled, notifier, at,
                             cancels, shield>>

(* wait and wait_sync: the lock is released first ... *)
StartWait(a) == /\ Acts(a)
                /\ ~flag
                /\ Release(a)
                /\ at' = [at EXCEPT ![a] = "released"]
                /\ UNCHANGED <<condWaiters, signalled, notifier, cancels, shield, flag>>

(* Mutation of NewShield: wait awaits acquire_async as it is. *)
NewShield_Never(t) == "none"

(* ShieldContext: the one cancellation that `shield` absorbs, less those   *)
(* that the task has already.                                              *)
NewShield(t) == IF cancels[t] = 0 THEN "up" ELSE "none"

(* ... and the waiter is added after that. *)
Register(a) == /\ at[a] = "released"
               /\ condWaiters' = condWaiters \cup {a}
               /\ at' = [at EXCEPT ![a] = "registered"]
               /\ shield' = [t \in Tasks |-> IF t = a THEN NewShield(t) ELSE shield[t]]
               /\ UNCHANGED <<vars, signalled, notifier, cancels, flag>>

(* waiter.acquire returns, or `await future` does. *)
Wake(a) == /\ at[a] = "registered"
           /\ a \in signalled
           /\ Runs(a)
           /\ signalled' = signalled \ {a}
           /\ at' = [at EXCEPT ![a] = "woken"]
           /\ UNCHANGED <<vars, condWaiters, notifier, cancels, shield, flag>>

-----------------------------------------------------------------------------
(* notify: the waiters in the set, less the cancelled futures, are woken. *)
Notify(a) == /\ Acts(a)
             /\ notifier = NoActor
             /\ flag' = TRUE
             /\ notifier' = a
             /\ signalled' = signalled \cup {w \in condWaiters : at[w] = "registered"}
             /\ UNCHANGED <<vars, condWaiters, at, cancels, shield>>

ClearWaiters == /\ notifier # NoActor
                /\ notifier' = NoActor
                /\ condWaiters' = {}
                /\ UNCHANGED <<vars, signalled, at, cancels, shield, flag>>

-----------------------------------------------------------------------------
MayCancel(t) == /\ t \in Cancellable
                /\ Runs(t)
                /\ cancels[t] < MaxCancels
                /\ cancels' = [cancels EXCEPT ![t] = @ + 1]

(* A task is cancelled in `await future`: `finally` takes the lock again,  *)
(* and the waiter stays in the set.                                        *)
CancelSleep(t) == /\ MayCancel(t)
                  /\ at[t] = "registered"
                  /\ at' = [at EXCEPT ![t] = "woken"]
                  /\ signalled' = signalled \ {t}
                  /\ UNCHANGED <<vars, condWaiters, notifier, shield, flag>>

(* A task is cancelled while it takes the lock again. The shield absorbs   *)
(* that, or acquire_async itself is cancelled, if need be before its task  *)
(* has started, and wait raises without the lock.                          *)
CancelReacquire(t) ==
  /\ MayCancel(t)
  /\ at[t] = "woken"
  /\ pc[t] = "awaiting" \/ (pc[t] = "idle" /\ shield[t] # "none")
  /\ \/ /\ shield[t] = "up"
        /\ shield' = [shield EXCEPT ![t] = "hit"]
        /\ UNCHANGED <<vars, at>>
     \/ /\ shield[t] # "up"
        /\ at' = [at EXCEPT ![t] = "lost"]
        /\ IF pc[t] = "awaiting" THEN Cancel(t) ELSE UNCHANGED vars
        /\ UNCHANGED shield
  /\ UNCHANGED <<condWaiters, signalled, notifier, flag>>

(* acquire_async raises in the task that lost the lock. *)
RaiseLost(t) == /\ at[t] = "lost"
                /\ Runs(t)
                /\ RaiseCancelled(t) \/ RunSetResult(t)
                /\ UNCHANGED condVars

(* Then wait does, and __aexit__ releases the lock for that task, which    *)
(* does not have it unless it was given it too late. The task ends.        *)
LeaveLost(t) == /\ at[t] = "lost"
                /\ pc[t] \in {"idle", "gone"}
                /\ Runs(t)
                /\ ReleaseAsync(t)
                /\ at' = [at EXCEPT ![t] = IF t \in given THEN "left" ELSE "strayed"]
                /\ UNCHANGED <<pc, condWaiters, signalled, notifier, cancels, shield, flag>>

(* Whoever cancelled a task that is back in the block withdraws that, as   *)
(* asyncio.timeout does.                                                   *)
Uncancel(t) == /\ Acts(t)
               /\ cancels[t] > 0
               /\ cancels' = [cancels EXCEPT ![t] = @ - 1]
               /\ UNCHANGED <<vars, condWaiters, signalled, notifier, at, shield, flag>>

-----------------------------------------------------------------------------
CondNext == \/ \E a \in Users :
                 \/ Acquire(a) \/ Leave(a) \/ Consume(a) \/ StartWait(a)
                 \/ Register(a) \/ Wake(a) \/ Notify(a)
            \/ \E t \in Users \cap Tasks :
                 \/ CancelSleep(t) \/ CancelReacquire(t) \/ RaiseLost(t)
                 \/ LeaveLost(t) \/ Uncancel(t)
            \/ ClearWaiters

CondSpec == CondInit /\ [][CondNext]_conditionVars

-----------------------------------------------------------------------------
CondTypeOK ==
  /\ condWaiters \subseteq Actors
  /\ signalled \subseteq Actors
  /\ notifier \in Actors \cup {NoActor}
  /\ at \in [Actors -> {"out", "released", "registered", "woken", "lost", "left", "strayed"}]
  /\ cancels \in [Tasks -> 0 .. MaxCancels]
  /\ shield \in [Tasks -> {"none", "up", "hit"}]
  /\ flag \in BOOLEAN

(* Some task released the lock on leaving the block without having it.     *)
Strayed == \E t \in Tasks : at[t] = "strayed"

(* A task with one cancellation request, wherever in wait it met it, and   *)
(* even if it had it before, does not come out of wait without the lock,   *)
(* which the block around would then release for somebody else.            *)
WaitKeepsLock == \A t \in Tasks : at[t] \in {"lost", "strayed"} => cancels[t] > 1

(* A task that was woken comes back with the lock, and one that waits to   *)
(* enter gets in, as long as nobody is cancelled out of acquire_async and  *)
(* takes the lock along.                                                   *)
WokenReturns ==
  [](Undisturbed /\ \A t \in Tasks : at[t] \notin {"lost", "left", "strayed"})
    => \A t \in Users \cap Tasks : at[t] = "woken" \/ pc[t] = "awaiting" ~> Inside(t)

(* Nobody sleeps on while the flag is set, unless notify is about to wake  *)
(* it: what a condition is for. It fails: a notifier that gets the lock    *)
(* between the release and the registration of a waiter misses it.         *)
NoLostWakeup ==
  \A a \in Actors :
    flag /\ notifier = NoActor /\ at[a] = "registered" => a \in signalled

(* Two users are never both in the block. It fails: a task that comes out  *)
(* of wait without the lock releases that of another on leaving the block. *)
OneInside == \A a, b \in Actors : Inside(a) /\ Inside(b) => a = b
=============================================================================
