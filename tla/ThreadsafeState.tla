-------------------------- MODULE ThreadsafeState --------------------------
(***************************************************************************)
(* ThreadsafeState of modules/thread_safe_state.py: a value that threads   *)
(* and asyncio tasks of several event loops wait on.                       *)
(*                                                                         *)
(* Everything but `await` and Condition.wait runs with `_condition` held,  *)
(* so a step is the body of one `with self._condition`. A loop has at most *)
(* one registered future, which all its tasks share, each behind a shield  *)
(* of its own: the future is named by the set of the tasks that await it.  *)
(***************************************************************************)
EXTENDS Naturals, FiniteSets

CONSTANTS
  Values,       (* the values of the state                                   *)
  InitialValue,
  Predicates,   (* the functions passed to wait_until, as sets of values     *)
  Threads,      (* callers of wait_until_sync                                *)
  Tasks,        (* callers of wait_until                                     *)
  Loops,        (* event loops                                               *)
  LoopOf,       (* the loop a task runs in                                   *)
  Cancellable,  (* tasks that somebody may cancel while they wait            *)
  Closing       (* loops that may be closed under the tasks that wait        *)

Actors == Threads \cup Tasks

ASSUME StateAssumption ==
  /\ InitialValue \in Values
  /\ Predicates \subseteq SUBSET Values
  /\ Threads \cap Tasks = {}
  /\ LoopOf \in [Tasks -> Loops]
  /\ Cancellable \subseteq Tasks
  /\ Closing \subseteq Loops

VARIABLES
  value,            (* value                                                 *)
  futures,          (* _futures: per loop, the tasks that await its future   *)
  blocked,          (* threads inside _condition.wait, not notified          *)
  signalled,        (* tasks whose future has a set_result queued, or ran    *)
  pc,               (* where each actor is                                   *)
  want,             (* the values on which its `fn` is true                  *)
  asked,            (* tasks that were cancelled since they called           *)
  closed            (* loops that are closed                                 *)

vars == <<value, futures, blocked, signalled, pc, want, asked, closed>>

waitVars == <<blocked, signalled, futures>>

States == {"idle", "waiting", "returned", "raised", "cancelled"}

Init == /\ value = InitialValue
        /\ futures = [l \in Loops |-> {}]
        /\ blocked = {}
        /\ signalled = {}
        /\ pc = [a \in Actors |-> "idle"]
        /\ want = [a \in Actors |-> {}]
        /\ asked = {}
        /\ closed = {}

CanRun(a) == a \in Tasks => LoopOf[a] \notin closed

-----------------------------------------------------------------------------
(* One pass of the loop of wait_until_sync or _observe: the value is       *)
(* looked at and, under the same lock, the caller registers.               *)
Register(a) ==
  /\ blocked' = IF a \in Threads THEN blocked \cup {a} ELSE blocked
  /\ futures' = [l \in Loops |-> IF a \in Tasks /\ l = LoopOf[a]
                                   THEN futures[l] \cup {a} ELSE futures[l]]

Look(a, set) ==
  \/ /\ value \in set
     /\ pc' = [pc EXCEPT ![a] = "returned"]
     /\ UNCHANGED <<blocked, futures>>
  \/ /\ value \notin set
     /\ pc' = [pc EXCEPT ![a] = "waiting"]
     /\ Register(a)

(* wait_until and wait_until_sync are called, maybe again. *)
Call(a, fn) == /\ pc[a] # "waiting"
               /\ CanRun(a)
               /\ want' = [want EXCEPT ![a] = fn]
               /\ asked' = asked \ {a}
               /\ Look(a, fn)
               /\ UNCHANGED <<value, signalled, closed>>

Observe(a) == \E fn \in Predicates : Call(a, fn)

(* _condition.wait returns, or the shielded future is done: the loop looks *)
(* again, "in case the value was restored before being awakened".          *)
Awake(a) == IF a \in Threads THEN a \notin blocked ELSE a \in signalled

Resume(a) == /\ pc[a] = "waiting"
             /\ CanRun(a)
             /\ Awake(a)
             /\ Look(a, want[a])
             /\ signalled' = signalled \ {a}
             /\ UNCHANGED <<value, want, asked, closed>>

-----------------------------------------------------------------------------
(* Mutations of Signal: the RuntimeError of a closed loop is not caught;   *)
(* the futures stay registered.                                            *)
Signal_Aborts == IF \E l \in closed : futures[l] # {}
                   THEN UNCHANGED <<signalled, futures>>
                   ELSE /\ signalled' = signalled \cup UNION {futures[l] : l \in Loops}
                        /\ futures' = [l \in Loops |-> {}]
Signal_KeepsFutures == /\ signalled' = signalled \cup
                                         UNION {futures[l] : l \in Loops \ closed}
                       /\ UNCHANGED futures

(* call_soon_threadsafe queues set_result in the loops that are open, and  *)
(* its RuntimeError is ignored for the others; no future stays registered. *)
Signal == /\ signalled' = signalled \cup
                            UNION {futures[l] : l \in Loops \ closed}
          /\ futures' = [l \in Loops |-> {}]

(* update_value, by anybody, with a function that returns v; set_value is  *)
(* the case of a constant function. Nobody wakes when nothing changed.     *)
Update(v) == /\ v # value
             /\ value' = v
             /\ blocked' = {}
             /\ Signal
             /\ UNCHANGED <<pc, want, asked, closed>>

(* wait: in a thread with no running loop, asyncio.get_running_loop raises *)
(* RuntimeError; with one, the method does.                                *)
Wait(a) == /\ pc[a] # "waiting"
           /\ CanRun(a)
           /\ pc' = [pc EXCEPT ![a] = "raised"]
           /\ UNCHANGED <<value, waitVars, want, asked, closed>>

-----------------------------------------------------------------------------
(* Mutation of Withdraw: without the shield, cancelling a task cancels the *)
(* future, and so every task that awaits it.                               *)
Withdraw_Shared(S) ==
  LET all == S \cup UNION {futures[l] : l \in {LoopOf[t] : t \in S}}
  IN  /\ futures' = [l \in Loops |-> futures[l] \ all]
      /\ signalled' = signalled \ all
      /\ pc' = [a \in Actors |-> IF a \in all THEN "cancelled" ELSE pc[a]]

(* A waiting task is cancelled: its shield is, the shared future is not.   *)
Withdraw(S) == /\ futures' = [l \in Loops |-> futures[l] \ S]
               /\ signalled' = signalled \ S
               /\ pc' = [a \in Actors |-> IF a \in S THEN "cancelled" ELSE pc[a]]

Cancel(t) == /\ t \in Cancellable
             /\ pc[t] = "waiting"
             /\ CanRun(t)
             /\ asked' = asked \cup {t}
             /\ Withdraw({t})
             /\ UNCHANGED <<value, blocked, want, closed>>

CloseLoop(l) == /\ l \in Closing \ closed
                /\ closed' = closed \cup {l}
                /\ UNCHANGED <<value, waitVars, pc, want, asked>>

-----------------------------------------------------------------------------
Next == \/ \E a \in Actors : Observe(a) \/ Resume(a) \/ Wait(a)
        \/ \E v \in Values : Update(v)
        \/ \E t \in Tasks : Cancel(t)
        \/ \E l \in Loops : CloseLoop(l)

Spec == Init /\ [][Next]_vars

-----------------------------------------------------------------------------
TypeOK ==
  /\ value \in Values
  /\ futures \in [Loops -> SUBSET Tasks]
  /\ blocked \subseteq Threads
  /\ signalled \subseteq Tasks
  /\ pc \in [Actors -> States]
  /\ want \in [Actors -> SUBSET Values]
  /\ asked \subseteq Tasks
  /\ closed \subseteq Loops

(* Nobody sleeps through the value it waits for: a caller that nothing is  *)
(* on its way to wake, in a loop that is open, waits on a value its `fn`   *)
(* rejects. So it is whatever updates, cancellations and closings of other *)
(* loops ran between its look at the value and now.                        *)
NoMissedWakeup ==
  \A a \in Actors :
    pc[a] = "waiting" /\ CanRun(a) /\ ~Awake(a) => value \notin want[a]

(* Every task that waits can be reached: its future is registered with its *)
(* own loop and no other, or is being set, and never both.                 *)
Reachable ==
  \A t \in Tasks : pc[t] = "waiting" /\ CanRun(t) =>
    /\ t \in futures[LoopOf[t]] <=> t \notin signalled
    /\ \A l \in Loops \ {LoopOf[t]} : t \notin futures[l]

(* A task ends cancelled only if it was cancelled itself: cancelling a     *)
(* task leaves those that share its loop's future alone.                   *)
CancelIsOwn == \A t \in Tasks : pc[t] = "cancelled" => t \in asked

(* The parts of the state that name the same wait agree: only a caller     *)
(* that waits is blocked, registered with its own loop, or signalled, and  *)
(* a future that is being set is not registered any more.                  *)
Consistent ==
  /\ \A s \in blocked : pc[s] = "waiting"
  /\ \A l \in Loops : \A t \in futures[l] : LoopOf[t] = l /\ pc[t] = "waiting"
  /\ \A t \in signalled : pc[t] = "waiting" /\ t \notin futures[LoopOf[t]]

(* The inductive invariant of the four critical sections. *)
StateInv == /\ TypeOK
            /\ Consistent
            /\ Reachable
            /\ NoMissedWakeup
            /\ CancelIsOwn

(* A caller returns once its `fn` is true of the value for good.           *)
EventuallyReturns ==
  \A a \in Actors \ Cancellable :
    <>[](value \in want[a] /\ CanRun(a)) => []<>(pc[a] # "waiting")
=============================================================================
