------------------------------- MODULE Locks -------------------------------
(***************************************************************************)
(* The two ways to use a ThreadsafeLock: it is taken and released as it    *)
(* is, or through the ThreadsafeCondition that has it.                     *)
(***************************************************************************)
EXTENDS ThreadsafeCondition

VARIABLE through  (* "lock" or "condition"                                   *)

locksVars == <<conditionVars, through>>

LocksInit == CondInit /\ through \in {"lock", "condition"}

LocksNext == \/ /\ through = "lock"
                /\ Next
                /\ UNCHANGED <<condVars, through>>
             \/ /\ through = "condition"
                /\ CondNext
                /\ UNCHANGED through

LocksSpec == LocksInit /\ [][LocksNext]_locksVars

-----------------------------------------------------------------------------
(* What is left of the lock if release_async is called by a task that does *)
(* not have it, as on leaving a block whose wait lost the lock: the queue, *)
(* the flags and the counter are right for good, the owner until then.     *)
LocksInv == /\ QueueInv
            /\ CondTypeOK
            /\ Strayed \/ OwnersInv

(* Exclusion, of callers that wait and notify inside as well.              *)
LocksExclude == Strayed \/ MutualExclusion

(* No acquisition of _sync_lock blocks with _state_lock held, not even     *)
(* after that; and no release raises RuntimeError before.                  *)
LocksNeverBlockOrRaise == NeverBlocks /\ (Strayed \/ NeverRaises)

(* _sync_lock is never left locked for nobody: a hand-over by wait or by   *)
(* the exit of a block, its wait cancelled or not, is to somebody alive.   *)
LocksHandOver == [][Strayed' \/ HandsOver]_vars

(* Each lock is an abstract mutex, until somebody else releases it.        *)
LocksAreMutexes == M!Init /\ [][Strayed' \/ M!Next]_(M!vars)

(* Waiters of a lock that is used by itself are served. For the condition, *)
(* whose users wait in other ways as well, WokenReturns says so.           *)
LocksServe == through = "lock" => LockServes

-----------------------------------------------------------------------------
(* Threads and event loops keep running, and a caller that got the lock    *)
(* gives it back: one at a time has it, or is about to. Nobody is obliged  *)
(* to ask for the lock or to cancel. The operating system wakes some       *)
(* thread that blocks on _sync_lock, not a given one; and a loop runs      *)
(* something that is ready.                                                *)
LoopGoesOn(l) ==
  \E t \in Tasks : LoopOf[t] = l /\ (RunSetResult(t) \/ Resume(t) \/ RaiseCancelled(t))

LockFairness ==
  /\ WF_vars(through = "lock" /\ \E a \in Actors : FinishFast(a) \/ Release(a))
  /\ WF_vars(through = "lock" /\ \E s \in Threads : WakeSync(s))
  /\ WF_vars(through = "lock" /\ \E s \in Threads : UncountSync(s))
  /\ \A l \in Loops : WF_vars(through = "lock" /\ LoopGoesOn(l))

(* Whoever is inside comes out, and who was woken gets to try for the      *)
(* lock: `_state_lock` is only ever held for a moment, and no other task   *)
(* of the loop is always between the two steps of wait or of notify.       *)
CondFairness ==
  /\ WF_conditionVars(through = "condition" /\ ClearWaiters)
  /\ WF_conditionVars(through = "condition" /\ \E a \in Users : Register(a) \/ Wake(a))
  /\ SF_conditionVars(through = "condition" /\ \E a \in Users : Leave(a) \/ StartWait(a))
  /\ \A a \in Users :
       /\ SF_conditionVars(through = "condition" /\ at[a] = "woken" /\ Acquire(a))
       /\ WF_conditionVars(through = "condition" /\ pc[a] # "idle" /\ Acquire(a))

LocksFair == LocksSpec /\ LockFairness /\ CondFairness
=============================================================================
