----------------------------- MODULE LocksProofs -----------------------------
(***************************************************************************)
(* A ThreadsafeCondition uses its lock as anybody does, but for one step:  *)
(* a task that comes out of wait without the lock releases it on leaving   *)
(* the block. What is proved of the lock holds of the lock inside a        *)
(* condition until a task does so without having been given the lock, and  *)
(* what _state_lock guards holds even after that.                          *)
(***************************************************************************)
EXTENDS Locks, ThreadsafeLockProofs

(* Such a step gives the lock back, as far as release_async can tell.      *)
LEMMA LostGivesBack ==
  ASSUME NEW t \in Tasks, LeaveLost(t)
  PROVE  GivesBack(t) /\ (t \in given \/ at' = [at EXCEPT ![t] = "strayed"])
BY DEF LeaveLost, GivesBack

(* Otherwise a user does to the lock acquire_*, release_* or nothing. *)
LEMMA CondStep ==
  ASSUME CondNext
  PROVE  [Next]_vars \/ \E t \in Tasks : LeaveLost(t)
<1> USE ConditionAssumption DEF Next, ThreadNext, TaskNext
<1>1. ASSUME NEW a \in Users, Acquire(a)
      PROVE  [Next]_vars
  <2>1. a \in Actors OBVIOUS
  <2> QED BY <1>1, <2>1 DEF Acquire
<1>2. ASSUME NEW a \in Users, Leave(a) \/ StartWait(a)
      PROVE  [Next]_vars
  <2>1. a \in Actors OBVIOUS
  <2>2. Release(a) BY <1>2 DEF Leave, StartWait
  <2> QED BY <2>1, <2>2
<1>3. ASSUME NEW a \in Users, Consume(a) \/ Register(a) \/ Wake(a) \/ Notify(a)
      PROVE  [Next]_vars
  BY <1>3 DEF Consume, Register, Wake, Notify
<1>4. ASSUME NEW t \in Users \cap Tasks,
             CancelSleep(t) \/ CancelReacquire(t) \/ RaiseLost(t) \/ Uncancel(t)
      PROVE  [Next]_vars
  BY <1>4 DEF CancelSleep, CancelReacquire, RaiseLost, Uncancel
<1>5. CASE ClearWaiters BY <1>5 DEF ClearWaiters
<1> QED BY <1>1, <1>2, <1>3, <1>4, <1>5 DEF CondNext

(* The same of whoever uses the lock. *)
LEMMA LocksStep ==
  ASSUME [LocksNext]_locksVars
  PROVE  [Next]_vars \/ \E t \in Tasks : LeaveLost(t)
<1>1. CASE CondNext BY <1>1, CondStep
<1>2. CASE UNCHANGED locksVars BY <1>2 DEF locksVars, conditionVars
<1> QED BY <1>1, <1>2 DEF LocksNext

(* Whether it is used as it is or by a condition, the lock behaves as      *)
(* ThreadsafeLock says, but for who leaves a block whose wait lost it.     *)
THEOREM LocksUseLock ==
  LocksSpec => Init /\ [][Next \/ \E t \in Tasks : LeaveLost(t)]_vars
<1>1. LocksInit => Init BY DEF LocksInit, CondInit
<1>2. [LocksNext]_locksVars => [Next \/ \E t \in Tasks : LeaveLost(t)]_vars
  BY LocksStep
<1> QED BY <1>1, <1>2, PTL DEF LocksSpec

-----------------------------------------------------------------------------
(* The condition.                                                          *)

(* From the registration of its waiter until it has the lock again.        *)
InWait(t) == at[t] = "registered" \/ (at[t] = "woken" /\ pc[t] # "held")

(* A wait has no cancellation to absorb if there was one before or in it.  *)
ShieldCounts == \A t \in Tasks : InWait(t) /\ shield[t] # "up" => cancels[t] > 0

(* Who sleeps let go of the lock, and who lost it never gets it.           *)
SleepersOutside ==
  \A a \in Actors :
    /\ at[a] \in {"released", "registered"} => pc[a] = "idle"
    /\ at[a] \in {"lost", "left", "strayed"} => pc[a] \in {"idle", "awaiting", "gone"}

(* Only who sleeps is woken: an old notification wakes no later wait.      *)
SignalsAreFresh == \A a \in signalled : at[a] = "registered"

(* Who notifies has the lock, until the set of waiters is cleared.         *)
NotifierInside == notifier # NoActor => Inside(notifier)

CondInv == /\ CondTypeOK
           /\ ShieldCounts
           /\ WaitKeepsLock
           /\ SleepersOutside
           /\ SignalsAreFresh
           /\ NotifierInside

(* Who strayed does nothing any more.                                      *)
LEMMA StrayedStays ==
  ASSUME CondTypeOK, Strayed, [LocksNext]_locksVars
  PROVE  Strayed'
<1> USE ConditionAssumption DEF CondTypeOK
<1>1. PICK t \in Tasks : at[t] = "strayed" BY DEF Strayed
<1>2. ASSUME UNCHANGED at \/ \E a \in Actors : at[a] # "strayed" /\ \E p : at' = [at EXCEPT ![a] = p]
      PROVE  at'[t] = "strayed"
  BY <1>1, <1>2 DEF Actors
<1>3. ASSUME UNCHANGED locksVars PROVE at'[t] = "strayed"
  BY <1>2, <1>3 DEF locksVars, conditionVars, condVars
<1>4. ASSUME through = "lock" /\ UNCHANGED condVars PROVE at'[t] = "strayed"
  BY <1>2, <1>4 DEF condVars
<1>5. ASSUME ClearWaiters PROVE at'[t] = "strayed"
  BY <1>2, <1>5 DEF ClearWaiters
<1>6. ASSUME NEW a \in Users,
             \/ Acquire(a) \/ Leave(a) \/ Consume(a) \/ StartWait(a)
             \/ Register(a) \/ Wake(a) \/ Notify(a)
      PROVE  at'[t] = "strayed"
  BY <1>2, <1>6 DEF Acquire, Leave, Consume, StartWait, Register, Wake, Notify, Acts, Inside,
     condVars
<1>7. ASSUME NEW u \in Users \cap Tasks,
             \/ CancelSleep(u) \/ CancelReacquire(u) \/ RaiseLost(u)
             \/ LeaveLost(u) \/ Uncancel(u)
      PROVE  at'[t] = "strayed"
  BY <1>2, <1>7 DEF CancelSleep, CancelReacquire, RaiseLost, LeaveLost, Uncancel, Acts, Inside,
     condVars
<1>8. at'[t] = "strayed"
  BY <1>3, <1>4, <1>5, <1>6, <1>7 DEF LocksNext, CondNext
<1> QED BY <1>8 DEF Strayed

(* acquire_*, of somebody who is out or comes back from wait.              *)
LEMMA AcquireInv ==
  ASSUME QueueInv, CondInv, NEW a \in Users, Acquire(a)
  PROVE  CondInv'
<1> USE LockAssumption, ConditionAssumption
<1>1. \A b \in Actors \ {a} : pc'[b] = pc[b]
  BY DEF Acquire, EnterFast, FinishFast, BlockSync, WakeSync, UncountSync, BlockAsync,
     RunSetResult, Resume, QueueInv, TypeOK
<1>2. pc[a] = "held" => pc'[a] = "held"
  BY DEF Acquire, EnterFast, FinishFast, BlockSync, WakeSync, UncountSync, BlockAsync,
     RunSetResult, Resume
<1>3. UNCHANGED condVars /\ at[a] \in {"out", "woken"}
  BY DEF Acquire
<1>4. SleepersOutside'
  BY <1>1, <1>3 DEF condVars, CondInv, SleepersOutside
<1>5. NotifierInside'
  BY <1>1, <1>2, <1>3 DEF condVars, CondInv, CondTypeOK, NotifierInside, Inside
<1>6. ShieldCounts'
  BY <1>1, <1>2, <1>3 DEF condVars, CondInv, ShieldCounts, InWait, Actors
<1> QED BY <1>3, <1>4, <1>5, <1>6 DEF condVars, CondInv, CondTypeOK, WaitKeepsLock,
     SignalsAreFresh

(* The lock is released, at the end of the block or by wait.               *)
LEMMA ReleaseCondInv ==
  ASSUME QueueInv, CondInv, NEW a \in Users, Leave(a) \/ StartWait(a)
  PROVE  CondInv'
<1> USE LockAssumption, ConditionAssumption
<1>1. /\ Release(a) /\ Acts(a)
      /\ UNCHANGED <<condWaiters, signalled, notifier, cancels, shield, flag>>
  BY DEF Leave, StartWait
<1>2. pc' = [pc EXCEPT ![a] = "idle"] /\ pc \in [Actors -> States]
  BY <1>1 DEF Release, QueueInv, TypeOK
<1>3. \E place \in {"out", "released"} : at' = [at EXCEPT ![a] = place]
  BY DEF Leave, StartWait
<1>4. CondTypeOK'
  BY <1>1, <1>3 DEF CondInv, CondTypeOK
<1>5. ShieldCounts'
  BY <1>1, <1>2, <1>3 DEF CondInv, CondTypeOK, ShieldCounts, InWait, Actors
<1>6. WaitKeepsLock'
  BY <1>1, <1>3 DEF CondInv, CondTypeOK, WaitKeepsLock
<1>7. SleepersOutside'
  BY <1>2, <1>3 DEF CondInv, CondTypeOK, SleepersOutside
<1>8. SignalsAreFresh'
  BY <1>1, <1>3 DEF CondInv, CondTypeOK, SignalsAreFresh, Acts, Inside
<1>9. NotifierInside'
  BY <1>1, <1>2, <1>3 DEF CondInv, CondTypeOK, NotifierInside, Acts, Inside
<1> QED BY <1>4, <1>5, <1>6, <1>7, <1>8, <1>9 DEF CondInv

(* The steps that leave the lock alone.                                    *)
LEMMA SleepCondInv ==
  ASSUME QueueInv, CondInv, NEW a \in Users, Consume(a) \/ Register(a) \/ Wake(a)
  PROVE  CondInv'
<1> USE ConditionAssumption DEF CondInv, CondTypeOK, vars
<1>1. CASE Consume(a)
  BY <1>1 DEF Consume, ShieldCounts, InWait, WaitKeepsLock, SleepersOutside, SignalsAreFresh,
     NotifierInside, Inside
<1>2. CASE Register(a) \/ Wake(a)
  <2>1. /\ UNCHANGED <<pc, notifier, cancels, flag>>
        /\ signalled' \subseteq signalled /\ (at'[a] = "registered" \/ a \notin signalled')
        /\ condWaiters' \subseteq Actors
        /\ at[a] \in {"released", "registered"}
        /\ \E place \in {"registered", "woken"} : at' = [at EXCEPT ![a] = place]
        /\ \A t \in Tasks \ {a} : shield'[t] = shield[t]
    BY <1>2 DEF Register, Wake
  <2>2. CondTypeOK'
    BY <1>2, <2>1 DEF Register, Wake, NewShield
  <2>3. SleepersOutside' BY <2>1 DEF SleepersOutside
  <2>4. SignalsAreFresh' BY <2>1 DEF SignalsAreFresh
  <2>5. NotifierInside'
    BY <2>1 DEF NotifierInside, Inside
  <2>6. ShieldCounts'
    <3>1. CASE Register(a)
      BY <2>1, <3>1 DEF Register, NewShield, ShieldCounts, InWait, Actors
    <3>2. CASE Wake(a)
      BY <2>1, <3>2 DEF Wake, ShieldCounts, InWait, Actors
    <3> QED BY <1>2, <3>1, <3>2
  <2>7. WaitKeepsLock'
    BY <2>1 DEF WaitKeepsLock, Actors
  <2> QED BY <2>2, <2>3, <2>4, <2>5, <2>6, <2>7
<1> QED BY <1>1, <1>2

LEMMA NotifyInv ==
  ASSUME CondInv, (\E a \in Users : Notify(a)) \/ ClearWaiters
  PROVE  CondInv'
<1> USE ConditionAssumption DEF CondInv, CondTypeOK, vars
<1>1. UNCHANGED <<pc, at, cancels, shield>>
  BY DEF Notify, ClearWaiters
<1>2. CASE \E a \in Users : Notify(a)
  <2>1. PICK a \in Users : Notify(a) BY <1>2
  <2>2. Inside(a) /\ notifier' = a BY <2>1 DEF Notify, Acts
  <2>3. \A b \in signalled' : b \in Actors /\ at[b] = "registered"
    BY <2>1 DEF Notify, SignalsAreFresh
  <2>4. NotifierInside' BY <1>1, <2>2 DEF NotifierInside, Inside
  <2>5. SignalsAreFresh' BY <1>1, <2>3 DEF SignalsAreFresh
  <2>6. CondTypeOK'
    BY <1>1, <2>1, <2>3 DEF Notify
  <2> QED BY <1>1, <2>4, <2>5, <2>6 DEF ShieldCounts, InWait, WaitKeepsLock, SleepersOutside
<1>3. CASE ClearWaiters
  BY <1>1, <1>3 DEF ClearWaiters, ShieldCounts, InWait, WaitKeepsLock, SleepersOutside,
     SignalsAreFresh, NotifierInside, Inside
<1> QED BY <1>2, <1>3

(* A task is cancelled asleep.                                             *)
LEMMA CancelSleepInv ==
  ASSUME CondInv, NEW t \in Users \cap Tasks, CancelSleep(t)
  PROVE  CondInv'
<1> USE LockAssumption, ConditionAssumption DEF CondInv, CondTypeOK
<1>1. /\ UNCHANGED <<pc, condWaiters, notifier, shield, flag>>
      /\ signalled' = signalled \ {t}
      /\ at[t] = "registered" /\ at' = [at EXCEPT ![t] = "woken"]
      /\ cancels[t] < MaxCancels
      /\ cancels' = [cancels EXCEPT ![t] = cancels[t] + 1]
  BY DEF CancelSleep, MayCancel, vars
<1>2. t \in Actors BY DEF Actors
<1>3. CondTypeOK' BY <1>1
<1>4. ShieldCounts' /\ WaitKeepsLock'
  BY <1>1, <1>2 DEF ShieldCounts, InWait, WaitKeepsLock, Actors
<1>5. SleepersOutside' /\ SignalsAreFresh'
  BY <1>1, <1>2 DEF SleepersOutside, SignalsAreFresh
<1>6. NotifierInside'
  BY <1>1, <1>2 DEF NotifierInside, Inside
<1> QED BY <1>3, <1>4, <1>5, <1>6

(* A task is cancelled while it takes the lock again. *)
LEMMA CancelReacquireInv ==
  ASSUME QueueInv, CondInv, NEW t \in Users \cap Tasks, CancelReacquire(t)
  PROVE  CondInv'
<1> USE LockAssumption, ConditionAssumption DEF CondInv, CondTypeOK
<1>1. /\ UNCHANGED <<pc, condWaiters, signalled, notifier, flag>>
      /\ at[t] = "woken" /\ pc[t] \in {"idle", "awaiting"}
      /\ cancels[t] < MaxCancels
      /\ cancels' = [cancels EXCEPT ![t] = cancels[t] + 1]
      /\ \/ at' = at /\ shield' = [shield EXCEPT ![t] = "hit"]
         \/ /\ at' = [at EXCEPT ![t] = "lost"]
            /\ shield[t] # "up" /\ shield' = shield
  BY DEF CancelReacquire, MayCancel, Cancel, vars
<1>2. t \in Actors BY DEF Actors
<1>3. CondTypeOK' BY <1>1
<1>4. ShieldCounts'
  BY <1>1, <1>2 DEF ShieldCounts, InWait, Actors
<1>5. WaitKeepsLock'
  <2> SUFFICES ASSUME NEW u \in Tasks, at'[u] \in {"lost", "strayed"} PROVE cancels'[u] > 1
    BY DEF WaitKeepsLock
  <2>1. cancels[u] \in Nat /\ cancels[t] \in Nat OBVIOUS
  <2>2. CASE u # t \/ at' = at
    <3>1. at[u] \in {"lost", "strayed"} BY <1>1, <2>2 DEF Actors
    <3> QED BY <1>1, <2>1, <3>1 DEF WaitKeepsLock
  <2>3. CASE u = t /\ at' # at
    <3>1. cancels[t] > 0 BY <1>1, <2>3 DEF ShieldCounts, InWait
    <3> QED BY <1>1, <2>1, <2>3, <3>1
  <2> QED BY <2>2, <2>3
<1>6. SleepersOutside' /\ SignalsAreFresh'
  BY <1>1, <1>2 DEF SleepersOutside, SignalsAreFresh
<1>7. NotifierInside'
  BY <1>1, <1>2 DEF NotifierInside, Inside
<1> QED BY <1>3, <1>4, <1>5, <1>6, <1>7

(* A task that lost the lock raises and leaves the block. *)
LEMMA LostCondInv ==
  ASSUME QueueInv, CondInv, NEW t \in Users \cap Tasks, RaiseLost(t) \/ LeaveLost(t)
  PROVE  CondInv'
<1> USE LockAssumption, ConditionAssumption DEF CondInv, CondTypeOK
<1>1. t \in Actors BY DEF Actors
<1>2. /\ UNCHANGED <<condWaiters, signalled, notifier, cancels, shield, flag>>
      /\ at[t] = "lost" /\ \A a \in Actors \ {t} : at'[a] = at[a] /\ pc'[a] = pc[a]
      /\ at'[t] \in {"lost", "left", "strayed"}
      /\ at' \in [Actors -> {"out", "released", "registered", "woken", "lost", "left",
                             "strayed"}]
      /\ pc'[t] \in {"idle", "awaiting", "gone"}
  <2>1. CASE RaiseLost(t)
    BY <1>1, <2>1 DEF RaiseLost, RaiseCancelled, RunSetResult, condVars, QueueInv, TypeOK,
       SleepersOutside
  <2>2. CASE LeaveLost(t)
    BY <1>1, <2>2 DEF LeaveLost
  <2> QED BY <2>1, <2>2
<1>3. CondTypeOK' BY <1>2
<1>4. ShieldCounts' /\ WaitKeepsLock'
  BY <1>2 DEF ShieldCounts, InWait, WaitKeepsLock, Actors
<1>5. SleepersOutside' /\ SignalsAreFresh'
  BY <1>2 DEF SleepersOutside, SignalsAreFresh
<1>6. NotifierInside'
  BY <1>2 DEF NotifierInside, Inside
<1> QED BY <1>3, <1>4, <1>5, <1>6

(* A cancellation is withdrawn from a task that is back in the block. *)
LEMMA UncancelInv ==
  ASSUME CondInv, NEW t \in Users \cap Tasks, Uncancel(t)
  PROVE  CondInv'
<1> USE LockAssumption, ConditionAssumption DEF CondInv, CondTypeOK
<1>1. /\ UNCHANGED <<pc, condWaiters, signalled, notifier, at, shield, flag>>
      /\ Inside(t) /\ cancels[t] > 0
      /\ cancels' = [cancels EXCEPT ![t] = cancels[t] - 1]
  BY DEF Uncancel, Acts, vars
<1>2. CondTypeOK' BY <1>1
<1>3. ShieldCounts' /\ WaitKeepsLock'
  BY <1>1 DEF ShieldCounts, InWait, WaitKeepsLock, Inside
<1>4. SleepersOutside' /\ SignalsAreFresh' /\ NotifierInside'
  BY <1>1 DEF SleepersOutside, SignalsAreFresh, NotifierInside, Inside
<1> QED BY <1>2, <1>3, <1>4

(* Used as it is, the lock leaves the condition at rest.                   *)
CondAtRest ==
  through = "lock" => signalled = {} /\ notifier = NoActor /\ at = [a \in Actors |-> "out"]

(* The invariants of the lock and of the condition together. *)
AllInv == LocksInv /\ CondInv /\ CondAtRest

LEMMA LocksInitInv == LocksInit => AllInv
<1> SUFFICES ASSUME LocksInit PROVE AllInv OBVIOUS
<1>1. CondInit BY DEF LocksInit
<1>2. CondTypeOK
  <2>1. cancels \in [Tasks -> 0 .. MaxCancels]
    BY <1>1, ConditionAssumption, 0 \in 0 .. MaxCancels DEF CondInit
  <2>2. shield \in [Tasks -> {"none", "up", "hit"}]
    BY <1>1 DEF CondInit
  <2>3. at \in [Actors -> {"out", "released", "registered", "woken", "lost", "left", "strayed"}]
    BY <1>1 DEF CondInit
  <2>4. /\ condWaiters \subseteq Actors /\ signalled \subseteq Actors
        /\ notifier \in Actors \cup {NoActor} /\ flag \in BOOLEAN
    BY <1>1 DEF CondInit
  <2> QED BY <2>1, <2>2, <2>3, <2>4 DEF CondTypeOK
<1>3. /\ ShieldCounts /\ WaitKeepsLock /\ SleepersOutside /\ SignalsAreFresh
      /\ NotifierInside
  BY <1>1 DEF CondInit, ShieldCounts, InWait, WaitKeepsLock, SleepersOutside, SignalsAreFresh,
     NotifierInside, Actors
<1>4. CondAtRest BY <1>1 DEF CondInit, CondAtRest
<1>5. LockInv BY <1>1, InitInv DEF CondInit
<1> QED BY <1>2, <1>3, <1>4, <1>5 DEF AllInv, LocksInv, LockInv, CondInv

LEMMA LocksStepInv == AllInv /\ [LocksNext]_locksVars => AllInv'
<1> SUFFICES ASSUME AllInv, [LocksNext]_locksVars PROVE AllInv'
  OBVIOUS
<1> USE DEF AllInv
<1>1. CondInv' /\ CondAtRest'
  <2>1. CASE UNCHANGED locksVars
    BY <2>1 DEF locksVars, conditionVars, condVars, vars, CondInv, CondTypeOK, ShieldCounts,
       InWait, WaitKeepsLock, SleepersOutside, SignalsAreFresh, NotifierInside, Inside, CondAtRest
  <2>2. CASE through = "condition" /\ CondNext /\ UNCHANGED through
    <3>1. CondInv'
      BY <2>2, AcquireInv, ReleaseCondInv, SleepCondInv, NotifyInv, CancelSleepInv,
         CancelReacquireInv, LostCondInv, UncancelInv DEF CondNext, LocksInv
    <3> QED BY <2>2, <3>1 DEF CondAtRest
  <2>3. CASE through = "lock" /\ UNCHANGED <<condVars, through>>
    <3>1. /\ signalled' = {} /\ notifier' = NoActor
          /\ \A a \in Actors : at'[a] = "out"
      BY <2>3 DEF condVars, CondAtRest
    <3>2. SleepersOutside' BY <3>1 DEF SleepersOutside
    <3>3. /\ SignalsAreFresh' /\ NotifierInside' /\ ShieldCounts'
      BY <3>1 DEF SignalsAreFresh, NotifierInside, ShieldCounts, InWait, Actors
    <3>4. CondTypeOK' /\ WaitKeepsLock'
      BY <2>3 DEF condVars, CondInv, CondTypeOK, WaitKeepsLock
    <3> QED BY <2>3, <3>2, <3>3, <3>4 DEF condVars, CondInv, CondAtRest
  <2> QED BY <2>1, <2>2, <2>3 DEF LocksNext
<1>2. QueueInv' /\ (Strayed' \/ OwnersInv')
  <2>1. CASE [Next]_vars
    BY <2>1, NextInv, StrayedStays DEF LocksInv
  <2>2. ASSUME NEW t \in Tasks, LeaveLost(t) PROVE QueueInv' /\ (Strayed' \/ OwnersInv')
    <3>1. t \in Actors BY DEF Actors
    <3>2. QueueInv' /\ (OwnersInv /\ Owner(t) => OwnersInv')
      BY <2>2, <3>1, LostGivesBack, GiveBackInv DEF LocksInv
    <3>3. CASE t \in given
      BY <3>2, <3>3, StrayedStays DEF LocksInv, Owner
    <3>4. CASE at' = [at EXCEPT ![t] = "strayed"]
      BY <3>1, <3>2, <3>4 DEF LocksInv, CondTypeOK, Strayed
    <3> QED BY <2>2, <3>3, <3>4, LostGivesBack
  <2> QED BY <2>1, <2>2, LocksStep
<1> QED BY <1>1, <1>2 DEF LocksInv, CondInv

(* The invariant of the lock, and of wait and notify, however it is used.  *)
THEOREM LocksInvariant == LocksSpec => [](LocksInv /\ CondInv)
<1>1. AllInv => LocksInv /\ CondInv BY DEF AllInv
<1> QED BY <1>1, LocksInitInv, LocksStepInv, PTL DEF LocksSpec

(* Users of a condition exclude each other, until a task that does not     *)
(* have the lock releases it.                                              *)
THEOREM LocksExclusion == LocksSpec => []LocksExclude
<1>1. LocksInv => LocksExclude
  BY OwnersExclude DEF LocksInv, LocksExclude
<1> QED BY <1>1, LocksInvariant, PTL

(* _sync_lock is never acquired with _state_lock held but when it is free, *)
(* and, until then, never released but when it is locked.                  *)
THEOREM LocksCritical == LocksSpec => []LocksNeverBlockOrRaise
<1>1. LocksInv => LocksNeverBlockOrRaise
  BY SyncLockSafe DEF LocksInv, LocksNeverBlockOrRaise
<1> QED BY <1>1, LocksInvariant, PTL

(* Until then a lock that is locked is so for somebody who was alive when  *)
(* it was locked for him.                                                  *)
THEOREM LocksHandOverAlways == LocksSpec => LocksHandOver
<1> DEFINE Owned == Strayed \/ OwnedWhileLocked
<1>1. LocksInit => Owned
  BY DEF LocksInit, CondInit, Init, OwnedWhileLocked
<1>2. AllInv /\ Owned /\ [LocksNext]_locksVars => Strayed' \/ HandsOver
  <2> SUFFICES ASSUME AllInv, Owned, [LocksNext]_locksVars, ~Strayed'
               PROVE  HandsOver
    OBVIOUS
  <2>1. QueueInv /\ CondTypeOK BY DEF AllInv, LocksInv
  <2>2. OwnedWhileLocked BY <2>1, StrayedStays
  <2>3. CASE [Next]_vars BY <2>1, <2>2, <2>3, StepHandsOver
  <2>4. ASSUME NEW t \in Tasks, LeaveLost(t) PROVE HandsOver
    BY <2>1, <2>4, LostGivesBack, GiveBackHandsOver DEF Actors
  <2> QED BY <2>3, <2>4, LocksStep
<1>3. Strayed' \/ HandsOver => Owned'
  BY DEF HandsOver, OwnedWhileLocked
<1>4. LocksSpec => []AllInv
  BY LocksInitInv, LocksStepInv, PTL DEF LocksSpec
<1> QED BY <1>1, <1>2, <1>3, <1>4, PTL DEF LocksSpec, LocksHandOver

(* The lock inside a condition is an abstract mutex as well, until then.   *)
THEOREM LocksMutex == LocksSpec => LocksAreMutexes
<1>1. LocksInit => M!Init
  BY InitRefines DEF LocksInit, CondInit
<1>2. AllInv /\ [LocksNext]_locksVars => [Strayed' \/ M!Next]_(M!vars)
  <2> SUFFICES ASSUME AllInv, [LocksNext]_locksVars, ~Strayed'
               PROVE  [M!Next]_(M!vars)
    OBVIOUS
  <2>1. LockInv BY StrayedStays DEF AllInv, LocksInv, LockInv
  <2>2. CASE [Next]_vars BY <2>1, <2>2, StepRefines
  <2>3. ASSUME NEW t \in Tasks, LeaveLost(t) PROVE [M!Next]_(M!vars)
    BY <2>3 DEF LeaveLost, M!vars, Requesting, Holders
  <2> QED BY <2>2, <2>3, LocksStep
<1>3. LocksSpec => []AllInv
  BY LocksInitInv, LocksStepInv, PTL DEF LocksSpec
<1> QED BY <1>1, <1>2, <1>3, PTL DEF LocksSpec, LocksAreMutexes

(* A task with one cancellation request does not come out of wait without  *)
(* the lock, whenever it got it.                                           *)
THEOREM WaitHasLock == LocksSpec => []WaitKeepsLock
<1>1. CondInv => WaitKeepsLock BY DEF CondInv
<1> QED BY <1>1, LocksInvariant, PTL

(* notify and wait never meet another notify halfway: whoever is inside    *)
(* finds the set of waiters cleared, since the notifier still has the lock,*)
(* unless it was released for him.                                         *)
NotifyIsWhole ==
  Strayed \/ \A a \in Actors : Inside(a) /\ a # notifier => notifier = NoActor

THEOREM NotifiersApart == LocksSpec => []NotifyIsWhole
<1>1. LocksInv /\ CondInv => NotifyIsWhole
  BY DEF LocksInv, OwnersInv, OwnerUnique, Owner, CondInv, CondTypeOK, NotifierInside, Inside,
     NotifyIsWhole
<1> QED BY <1>1, LocksInvariant, PTL
=============================================================================
