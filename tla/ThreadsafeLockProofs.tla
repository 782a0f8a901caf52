------------------------ MODULE ThreadsafeLockProofs ------------------------
(***************************************************************************)
(* What ThreadsafeLock guarantees for any number of threads, tasks and     *)
(* loops, with tasks cancelled and loops closed at any time: it excludes,  *)
(* never blocks with _state_lock held, never raises, and implements the    *)
(* abstract mutex. Only a task cancelled at the wrong time can lose it.    *)
(*                                                                         *)
(* The proof is by LockInv: an Owner is whoever is inside or was           *)
(* promised the lock, and owners are unique. One lemma per critical        *)
(* section shows that it keeps every part of the invariant.                *)
(***************************************************************************)
EXTENDS ThreadsafeLock, FiniteSetTheorems, SequenceTheorems, TLAPS

(* The threads that _sync_waiter_count counts are finitely many. *)
LEMMA CountedFinite ==
  ASSUME QueueInv
  PROVE  IsFiniteSet(Counted)
BY LockAssumption, FS_Subset DEF Counted

(* The counter is not zero while a thread is blocked. *)
LEMMA CountedBlocked ==
  ASSUME QueueInv, NEW s \in Threads, pc[s] \in {"syncWait", "syncGot"}
  PROVE  syncWaiterCount # 0
BY CountedFinite, FS_EmptySet DEF QueueInv, CountIsRight, Counted

(* The fast path, up to _sync_lock.acquire. *)
LEMMA EnterFastInv ==
  ASSUME QueueInv, NEW a \in Actors, EnterFast(a)
  PROVE  QueueInv' /\ (OwnersInv => OwnersInv')
<1> USE LockAssumption DEF QueueInv
<1>1. TypeOK'
  BY DEF EnterFast, States, taskVars, TypeOK
<1>2. ASSUME OwnersInv PROVE OwnerUnique'
  BY <1>2 DEF EnterFast, taskVars, OwnerUnique, Owner, OwnersInv
<1>3. ASSUME OwnersInv PROVE OwnerHasLock'
  BY <1>3 DEF EnterFast, taskVars, OwnerHasLock, Owner, OwnersInv
<1>4. LockedWhileUsed'
  BY DEF EnterFast, LockedWhileUsed
<1>5. FastInside'
  BY DEF EnterFast, FastInside, CanRun, LoopRuns, taskVars
<1>6. WaitersUnserved'
  BY DEF EnterFast, taskVars, WaitersUnserved
<1>7. FuturesAwaited'
  BY DEF EnterFast, taskVars, FuturesAwaited
<1>8. PlacesOfActors'
  BY DEF EnterFast, PlacesOfActors
<1>9. CountIsRight'
  BY DEF EnterFast, Actors, TypeOK, CountIsRight, Counted
<1> QED BY <1>1, <1>2, <1>3, <1>4, <1>5, <1>6, <1>7, <1>8, <1>9 DEF OwnersInv

(* The rest of the fast path: the caller becomes the owner. *)
LEMMA FinishFastInv ==
  ASSUME QueueInv, NEW a \in Actors, FinishFast(a)
  PROVE  QueueInv' /\ (OwnersInv => OwnersInv')
<1> USE LockAssumption DEF QueueInv
<1>1. TypeOK'
  BY DEF FinishFast, States, taskVars, TypeOK
<1>2. ASSUME OwnersInv PROVE OwnerUnique'
  BY <1>2 DEF FinishFast, taskVars, OwnerUnique, OwnerHasLock, Owner, OwnersInv
<1>3. ASSUME OwnersInv PROVE OwnerHasLock'
  BY <1>3 DEF FinishFast, OwnerHasLock, OwnersInv
<1>4. LockedWhileUsed'
  BY DEF FinishFast, LockedWhileUsed
<1>5. FastInside'
  BY DEF FinishFast, TypeOK, FastInside
<1>6. WaitersUnserved'
  BY DEF FinishFast, taskVars, WaitersUnserved
<1>7. FuturesAwaited'
  BY DEF FinishFast, taskVars, FuturesAwaited
<1>8. PlacesOfActors'
  BY DEF FinishFast, PlacesOfActors
<1>9. CountIsRight'
  BY DEF FinishFast, Actors, TypeOK, CountIsRight, Counted
<1> QED BY <1>1, <1>2, <1>3, <1>4, <1>5, <1>6, <1>7, <1>8, <1>9 DEF OwnersInv

(* Who calls release_async: a holder, who is out then, or a task whose     *)
(* acquire_async raised and that takes no further part.                    *)
GivesBack(a) ==
  /\ ReleaseAsync(a)
  /\ \/ pc[a] = "held" /\ pc' = [pc EXCEPT ![a] = "idle"]
     \/ pc[a] \in {"idle", "gone"} /\ pc' = pc

(* The caller is out, and all others are where they were. *)
LEMMA CallerIsOut ==
  ASSUME QueueInv, NEW a \in Actors, GivesBack(a)
  PROVE  /\ pc' \in [Actors -> States]
         /\ pc[a] \in {"held", "idle", "gone"} /\ pc'[a] \in {"idle", "gone"}
         /\ pc[a] = "gone" <=> pc'[a] = "gone"
         /\ \A b \in Actors \ {a} : pc'[b] = pc[b]
         /\ Counted' = Counted
         /\ stateLock = NoActor
         /\ UNCHANGED <<stateLock, syncWaiterCount, fut, mustCancel, closed>>
<1> USE DEF QueueInv, TypeOK
<1>1. /\ pc' \in [Actors -> States]
      /\ pc[a] \in {"held", "idle", "gone"} /\ pc'[a] \in {"idle", "gone"}
      /\ pc[a] = "gone" <=> pc'[a] = "gone"
      /\ \A b \in Actors \ {a} : pc'[b] = pc[b]
  BY DEF GivesBack, States
<1>2. Counted' = Counted
  BY <1>1 DEF Counted, Actors
<1> QED BY <1>1, <1>2 DEF GivesBack, ReleaseAsync

(* A release that gives the lock to the k-th future: that task is the      *)
(* owner now, if the caller was, and the futures before it are dropped.    *)
LEMMA HandOverInv ==
  ASSUME QueueInv, NEW a \in Actors, GivesBack(a),
         NEW k \in DOMAIN waiters, Reachable(waiters[k]), HandOff(a, k)
  PROVE  QueueInv' /\ (OwnersInv /\ Owner(a) => OwnersInv')
<1> USE LockAssumption DEF QueueInv
<1>1. /\ waiters' \in Seq(Tasks)
        /\ Len(waiters') = Len(waiters) - k
        /\ \A i \in 1 .. Len(waiters) - k : waiters'[i] = waiters[i + k]
  <2>1. /\ waiters \in Seq(Tasks) /\ Len(waiters) \in Nat
        /\ k \in 1 .. Len(waiters)
    BY DEF TypeOK
  <2>2. \A i \in k + 1 .. Len(waiters) : waiters[i] \in Tasks
    BY <2>1
  <2>3. k + 1 \in Int /\ Len(waiters) \in Int
    BY <2>1
  <2>4. /\ SubSeq(waiters, k + 1, Len(waiters)) \in Seq(Tasks)
        /\ Len(SubSeq(waiters, k + 1, Len(waiters))) = Len(waiters) - k
        /\ \A i \in 1 .. Len(waiters) - k :
             SubSeq(waiters, k + 1, Len(waiters))[i] = waiters[k + i]
    BY <2>1, <2>2, <2>3, SubSeqProperties, Z3
  <2> QED BY <2>1, <2>4 DEF HandOff
<1>2. /\ callbacks' = callbacks \cup {waiters[k]}
      /\ given' = (given \ {a}) \cup {waiters[k]}
      /\ UNCHANGED <<locked, syncLock>>
  BY DEF HandOff
<1>3. /\ waiters[k] \in Tasks /\ fut[waiters[k]] = "pending"
      /\ pc[waiters[k]] = "awaiting" /\ waiters[k] # a
      /\ k \in Nat /\ DOMAIN waiters' \subseteq Nat
  <2>1. waiters[k] \in Tasks /\ fut[waiters[k]] = "pending" /\ k \in Nat
    BY <1>1 DEF TypeOK, Reachable, WaitersUnserved
  <2>2. pc[waiters[k]] = "awaiting"
    BY <2>1 DEF FuturesAwaited
  <2>3. waiters[k] # a
    BY <2>2, CallerIsOut
  <2>4. DOMAIN waiters' \subseteq Nat
    BY <1>1
  <2> QED BY <2>1, <2>2, <2>3, <2>4
<1>4. TypeOK'
  BY <1>1, <1>2, <1>3, CallerIsOut DEF TypeOK
<1>5. ASSUME OwnersInv, Owner(a) PROVE OwnersInv'
  <2>1. \A b \in Actors : Owner(b)' => b = waiters[k]
    BY <1>2, <1>5, CallerIsOut DEF OwnersInv, OwnerUnique, Owner
  <2> QED BY <1>2, <1>5, <2>1 DEF OwnersInv, OwnerUnique, OwnerHasLock
<1>6. LockedWhileUsed'
  BY <1>2, CallerIsOut DEF LockedWhileUsed, Actors
<1>7. FastInside'
  BY <1>2, CallerIsOut DEF FastInside
<1>8. ASSUME NEW i \in DOMAIN waiters'
       PROVE  /\ i + k \in DOMAIN waiters /\ i + k # k
              /\ waiters'[i] = waiters[i + k]
  BY <1>1
<1>9. FuturesAwaited'
  BY <1>2, <1>3, CallerIsOut DEF FuturesAwaited, Actors, TypeOK
<1>10. PlacesOfActors'
  BY CallerIsOut DEF PlacesOfActors, Actors
<1>11. CountIsRight'
  BY CallerIsOut DEF CountIsRight
<1>12. WaitersUnserved'
  <2>1. ASSUME NEW i \in DOMAIN waiters'
        PROVE  /\ fut'[waiters'[i]] \in {"pending", "cancelled"}
               /\ waiters'[i] \notin callbacks' \cup given'
    <3>1. /\ i + k \in DOMAIN waiters /\ i + k # k
          /\ waiters'[i] = waiters[i + k]
      BY <1>8
    <3>2. waiters[i + k] # waiters[k]
      BY <3>1 DEF WaitersUnserved
    <3> QED BY <3>1, <3>2, <1>2, CallerIsOut DEF WaitersUnserved
  <2>2. ASSUME NEW i \in DOMAIN waiters', NEW j \in DOMAIN waiters',
               waiters'[i] = waiters'[j]
        PROVE  i = j
    <3>1. /\ i + k \in DOMAIN waiters /\ j + k \in DOMAIN waiters
          /\ waiters[i + k] = waiters[j + k]
      BY <2>2, <1>8
    <3>2. i + k = j + k
      BY <3>1 DEF WaitersUnserved
    <3> QED BY <3>2, <1>3
  <2> QED BY <2>1, <2>2 DEF WaitersUnserved
<1> QED BY <1>4, <1>5, <1>6, <1>7, <1>9, <1>10, <1>11, <1>12

(* A release that finds no future to give the lock to. *)
LEMMA OpenInv ==
  ASSUME QueueInv, NEW a \in Actors, GivesBack(a), Unlock(a)
  PROVE  QueueInv' /\ (OwnersInv /\ Owner(a) => OwnersInv')
<1> USE LockAssumption, CallerIsOut DEF QueueInv
<1>1. TypeOK'
  BY EmptySeq DEF Unlock, TypeOK
<1>2. ASSUME OwnersInv, Owner(a) PROVE OwnersInv'
  <2>1. \A b \in Actors : ~Owner(b)'
    BY <1>2 DEF OwnersInv, OwnerUnique, Owner, Unlock
  <2> QED BY <2>1 DEF OwnersInv, OwnerUnique, OwnerHasLock
<1>3. LockedWhileUsed'
  <2>1. (\E s \in Threads : pc'[s] = "syncWait") => \E s \in Threads : pc[s] = "syncWait"
    BY DEF Actors
  <2> QED BY <2>1, CountedBlocked DEF Unlock, TypeOK, LockedWhileUsed
<1>4. FastInside'
  BY DEF FastInside, Unlock
<1>5. WaitersUnserved'
  BY DEF Unlock, WaitersUnserved
<1>6. FuturesAwaited'
  BY DEF Unlock, FuturesAwaited, Actors, TypeOK
<1>7. PlacesOfActors'
  BY DEF PlacesOfActors, Actors
<1>8. CountIsRight'
  BY DEF CountIsRight
<1> QED BY <1>1, <1>2, <1>3, <1>4, <1>5, <1>6, <1>7, <1>8

(* release_async keeps the queue right whoever calls it, and the owner, if *)
(* the caller has the lock: it either hands the lock over or opens it.     *)
LEMMA GiveBackInv ==
  ASSUME QueueInv, NEW a \in Actors, GivesBack(a)
  PROVE  QueueInv' /\ (OwnersInv /\ Owner(a) => OwnersInv')
BY HandOverInv, OpenInv DEF GivesBack, ReleaseAsync

(* A thread counts itself before it blocks. *)
LEMMA BlockSyncInv ==
  ASSUME QueueInv, NEW s \in Threads, BlockSync(s)
  PROVE  QueueInv' /\ (OwnersInv => OwnersInv')
<1> USE LockAssumption DEF QueueInv
<1>1. TypeOK'
  BY DEF BlockSync, Actors, States, taskVars, TypeOK
<1>2. ASSUME OwnersInv PROVE OwnerUnique'
  BY <1>2 DEF BlockSync, taskVars, OwnerUnique, Owner, OwnersInv
<1>3. ASSUME OwnersInv PROVE OwnerHasLock'
  BY <1>3 DEF BlockSync, taskVars, OwnerHasLock, Owner, OwnersInv
<1>4. LockedWhileUsed'
  BY DEF BlockSync, LockedWhileUsed
<1>5. FastInside'
  BY DEF BlockSync, FastInside
<1>6. WaitersUnserved'
  BY DEF BlockSync, taskVars, WaitersUnserved
<1>7. FuturesAwaited'
  BY DEF BlockSync, taskVars, FuturesAwaited
<1>8. PlacesOfActors'
  BY DEF BlockSync, PlacesOfActors
<1>9. Counted' = Counted \cup {s} /\ s \notin Counted
  BY DEF BlockSync, Counted, Actors, TypeOK
<1>10. CountIsRight'
  BY <1>9, CountedFinite, FS_AddElement DEF BlockSync, CountIsRight
<1> QED BY <1>1, <1>2, <1>3, <1>4, <1>5, <1>6, <1>7, <1>8, <1>10 DEF OwnersInv

(* A blocked thread takes _sync_lock, and is the owner. *)
LEMMA WakeSyncInv ==
  ASSUME QueueInv, NEW s \in Threads, WakeSync(s)
  PROVE  QueueInv' /\ (OwnersInv => OwnersInv')
<1> USE LockAssumption DEF QueueInv
<1>1. TypeOK'
  BY DEF WakeSync, States, taskVars, TypeOK
<1>2. ASSUME OwnersInv PROVE OwnerUnique'
  BY <1>2 DEF WakeSync, taskVars, OwnerUnique, OwnerHasLock, Owner, OwnersInv
<1>3. ASSUME OwnersInv PROVE OwnerHasLock'
  BY <1>3 DEF WakeSync, OwnerHasLock, OwnersInv
<1>4. LockedWhileUsed'
  BY DEF WakeSync, LockedWhileUsed
<1>5. FastInside'
  BY DEF WakeSync, FastInside, taskVars
<1>6. WaitersUnserved'
  BY DEF WakeSync, taskVars, WaitersUnserved
<1>7. FuturesAwaited'
  BY DEF WakeSync, taskVars, FuturesAwaited
<1>8. PlacesOfActors'
  BY DEF WakeSync, PlacesOfActors
<1>9. CountIsRight'
  BY DEF WakeSync, CountIsRight, Counted
<1> QED BY <1>1, <1>2, <1>3, <1>4, <1>5, <1>6, <1>7, <1>8, <1>9 DEF OwnersInv

(* It takes itself off the count. *)
LEMMA UncountSyncInv ==
  ASSUME QueueInv, NEW s \in Threads, UncountSync(s)
  PROVE  QueueInv' /\ (OwnersInv => OwnersInv')
<1> USE LockAssumption DEF QueueInv
<1>1. Counted' = Counted \ {s} /\ s \in Counted
  BY DEF UncountSync, Counted, Actors, TypeOK
<1>2. syncWaiterCount' = Cardinality(Counted') /\ syncWaiterCount' \in Nat
  <2>1. pc[s] = "syncGot" /\ syncWaiterCount' = syncWaiterCount - 1
    BY DEF UncountSync
  <2>2. syncWaiterCount \in Nat \ {0}
    BY <2>1, CountedBlocked DEF TypeOK
  <2>3. Cardinality(Counted') = Cardinality(Counted) - 1
    BY <1>1, CountedFinite, FS_RemoveElement
  <2> QED BY <2>1, <2>2, <2>3 DEF CountIsRight
<1>3. TypeOK'
  BY <1>2 DEF UncountSync, States, taskVars, TypeOK
<1>4. ASSUME OwnersInv PROVE OwnerUnique'
  BY <1>4 DEF UncountSync, taskVars, OwnerUnique, Owner, OwnersInv
<1>5. ASSUME OwnersInv PROVE OwnerHasLock'
  BY <1>5 DEF UncountSync, taskVars, OwnerHasLock, Owner, OwnersInv
<1>6. LockedWhileUsed'
  BY DEF UncountSync, LockedWhileUsed
<1>7. FastInside'
  BY DEF UncountSync, FastInside
<1>8. WaitersUnserved'
  BY DEF UncountSync, taskVars, WaitersUnserved
<1>9. FuturesAwaited'
  BY DEF UncountSync, taskVars, FuturesAwaited
<1>10. PlacesOfActors'
  BY DEF UncountSync, PlacesOfActors
<1>11. CountIsRight'
  BY <1>2 DEF CountIsRight
<1> QED BY <1>3, <1>4, <1>5, <1>6, <1>7, <1>8, <1>9, <1>10, <1>11 DEF OwnersInv

(* A task queues its future. *)
LEMMA BlockAsyncInv ==
  ASSUME QueueInv, NEW t \in Tasks, BlockAsync(t)
  PROVE  QueueInv' /\ (OwnersInv => OwnersInv')
<1> USE LockAssumption DEF QueueInv
<1>1. TypeOK'
  BY DEF BlockAsync, Actors, States, TypeOK
<1>2. ASSUME OwnersInv PROVE OwnerUnique'
  BY <1>2 DEF BlockAsync, OwnerUnique, Owner, OwnersInv
<1>3. ASSUME OwnersInv PROVE OwnerHasLock'
  BY <1>3 DEF BlockAsync, OwnerHasLock, Owner, OwnersInv
<1>4. LockedWhileUsed'
  BY DEF BlockAsync, LockedWhileUsed
<1>5. FastInside'
  BY DEF BlockAsync, FastInside
<1>6. WaitersUnserved'
  BY DEF BlockAsync, TypeOK, WaitersUnserved, FuturesAwaited
<1>7. FuturesAwaited'
  BY DEF BlockAsync, Actors, TypeOK, FuturesAwaited
<1>8. PlacesOfActors'
  BY DEF BlockAsync, PlacesOfActors
<1>9. CountIsRight'
  BY DEF BlockAsync, Actors, TypeOK, CountIsRight, Counted
<1> QED BY <1>1, <1>2, <1>3, <1>4, <1>5, <1>6, <1>7, <1>8, <1>9 DEF OwnersInv

(* A future gets its result, unless it was cancelled meanwhile. *)
LEMMA RunSetResultInv ==
  ASSUME QueueInv, NEW t \in Tasks, RunSetResult(t)
  PROVE  QueueInv' /\ (OwnersInv => OwnersInv')
<1> USE LockAssumption DEF QueueInv
<1>1. TypeOK'
  BY DEF RunSetResult, TypeOK
<1>2. ASSUME OwnersInv PROVE OwnerUnique'
  BY <1>2 DEF RunSetResult, OwnerUnique, Owner, OwnersInv
<1>3. ASSUME OwnersInv PROVE OwnerHasLock'
  BY <1>3 DEF RunSetResult, OwnerHasLock, Owner, OwnersInv
<1>4. LockedWhileUsed'
  BY DEF RunSetResult, LockedWhileUsed
<1>5. FastInside'
  BY DEF RunSetResult, FastInside
<1>6. WaitersUnserved'
  BY DEF RunSetResult, WaitersUnserved
<1>7. FuturesAwaited'
  BY DEF RunSetResult, FuturesAwaited
<1>8. PlacesOfActors'
  BY DEF RunSetResult, PlacesOfActors
<1>9. CountIsRight'
  BY DEF RunSetResult, CountIsRight, Counted
<1> QED BY <1>1, <1>2, <1>3, <1>4, <1>5, <1>6, <1>7, <1>8, <1>9 DEF OwnersInv

(* A task returns from its wait. *)
LEMMA ResumeInv ==
  ASSUME QueueInv, NEW t \in Tasks, Resume(t)
  PROVE  QueueInv' /\ (OwnersInv => OwnersInv')
<1> USE LockAssumption DEF QueueInv
<1>1. TypeOK'
  BY DEF Resume, States, TypeOK
<1>2. ASSUME OwnersInv PROVE OwnerUnique'
  BY <1>2 DEF Resume, OwnerUnique, Owner, OwnersInv, FuturesAwaited, Actors, TypeOK
<1>3. ASSUME OwnersInv PROVE OwnerHasLock'
  BY <1>3 DEF Resume, OwnerHasLock, Owner, OwnersInv, FuturesAwaited, Actors, TypeOK
<1>4. LockedWhileUsed'
  BY DEF Resume, LockedWhileUsed
<1>5. FastInside'
  BY DEF Resume, FastInside
<1>6. WaitersUnserved'
  BY DEF Resume, WaitersUnserved
<1>7. FuturesAwaited'
  BY DEF Resume, Actors, TypeOK, FuturesAwaited
<1>8. PlacesOfActors'
  BY DEF Resume, PlacesOfActors
<1>9. CountIsRight'
  BY DEF Resume, Actors, TypeOK, CountIsRight, Counted
<1> QED BY <1>1, <1>2, <1>3, <1>4, <1>5, <1>6, <1>7, <1>8, <1>9 DEF OwnersInv

(* A task is cancelled before or after its future got its result. *)
LEMMA CancelInv ==
  ASSUME QueueInv, NEW t \in Tasks, Cancel(t)
  PROVE  QueueInv' /\ (OwnersInv => OwnersInv')
<1> USE LockAssumption DEF QueueInv
<1>1. TypeOK'
  BY DEF Cancel, TypeOK
<1>2. ASSUME OwnersInv PROVE OwnerUnique'
  BY <1>2 DEF Cancel, TypeOK, OwnerUnique, Owner, OwnersInv
<1>3. ASSUME OwnersInv PROVE OwnerHasLock'
  BY <1>3 DEF Cancel, TypeOK, OwnerHasLock, Owner, OwnersInv
<1>4. LockedWhileUsed'
  BY DEF Cancel, LockedWhileUsed
<1>5. FastInside'
  BY DEF Cancel, FastInside
<1>6. WaitersUnserved'
  BY DEF Cancel, TypeOK, WaitersUnserved
<1>7. FuturesAwaited'
  BY DEF Cancel, TypeOK, FuturesAwaited
<1>8. PlacesOfActors'
  BY DEF Cancel, PlacesOfActors
<1>9. CountIsRight'
  BY DEF Cancel, CountIsRight, Counted
<1> QED BY <1>1, <1>2, <1>3, <1>4, <1>5, <1>6, <1>7, <1>8, <1>9 DEF OwnersInv

(* A cancelled task leaves. *)
LEMMA RaiseCancelledInv ==
  ASSUME QueueInv, NEW t \in Tasks, RaiseCancelled(t)
  PROVE  QueueInv' /\ (OwnersInv => OwnersInv')
<1> USE LockAssumption DEF QueueInv
<1>1. TypeOK'
  BY DEF RaiseCancelled, States, taskVars, TypeOK
<1>2. ASSUME OwnersInv PROVE OwnerUnique'
  BY <1>2 DEF RaiseCancelled, taskVars, OwnerUnique, Owner, OwnersInv
<1>3. ASSUME OwnersInv PROVE OwnerHasLock'
  BY <1>3 DEF RaiseCancelled, taskVars, OwnerHasLock, Owner, OwnersInv
<1>4. LockedWhileUsed'
  BY DEF RaiseCancelled, LockedWhileUsed
<1>5. FastInside'
  BY DEF RaiseCancelled, FastInside, taskVars
<1>6. WaitersUnserved'
  BY DEF RaiseCancelled, taskVars, WaitersUnserved
<1>7. FuturesAwaited'
  BY DEF RaiseCancelled, taskVars, FuturesAwaited
<1>8. PlacesOfActors'
  BY DEF RaiseCancelled, PlacesOfActors
<1>9. Counted' = Counted
  BY DEF RaiseCancelled, Counted
<1>10. CountIsRight'
  BY <1>9 DEF RaiseCancelled, CountIsRight
<1> QED BY <1>1, <1>2, <1>3, <1>4, <1>5, <1>6, <1>7, <1>8, <1>10 DEF OwnersInv

(* A loop is closed. *)
LEMMA CloseLoopInv ==
  ASSUME QueueInv, NEW l \in Loops, CloseLoop(l)
  PROVE  QueueInv' /\ (OwnersInv => OwnersInv')
<1> USE LockAssumption DEF QueueInv
<1>1. TypeOK'
  BY DEF CloseLoop, TypeOK
<1>2. ASSUME OwnersInv PROVE OwnerUnique'
  BY <1>2 DEF CloseLoop, OwnerUnique, Owner, OwnersInv
<1>3. ASSUME OwnersInv PROVE OwnerHasLock'
  BY <1>3 DEF CloseLoop, OwnerHasLock, Owner, OwnersInv
<1>4. LockedWhileUsed'
  BY DEF CloseLoop, LockedWhileUsed
<1>5. FastInside'
  BY DEF CloseLoop, LoopRuns, FastInside
<1>6. WaitersUnserved'
  BY DEF CloseLoop, WaitersUnserved
<1>7. FuturesAwaited'
  BY DEF CloseLoop, FuturesAwaited
<1>8. PlacesOfActors'
  BY DEF CloseLoop, PlacesOfActors
<1>9. CountIsRight'
  BY DEF CloseLoop, CountIsRight, Counted
<1> QED BY <1>1, <1>2, <1>3, <1>4, <1>5, <1>6, <1>7, <1>8, <1>9 DEF OwnersInv

(* A release by its holder. *)
LEMMA ReleaseInv ==
  ASSUME QueueInv, NEW a \in Actors, Release(a)
  PROVE  QueueInv' /\ (OwnersInv => OwnersInv')
<1>1. GivesBack(a) /\ Owner(a)
  BY DEF Release, GivesBack, Owner
<1> QED BY <1>1, GiveBackInv

(* Every step of the lock's own keeps both. *)
LEMMA NextInv ==
  ASSUME QueueInv, [Next]_vars
  PROVE  QueueInv' /\ (OwnersInv => OwnersInv')
<1>1. ASSUME NEW a \in Actors, EnterFast(a) \/ FinishFast(a) \/ Release(a)
      PROVE  QueueInv' /\ (OwnersInv => OwnersInv')
  BY <1>1, EnterFastInv, FinishFastInv, ReleaseInv
<1>2. ASSUME NEW s \in Threads, ThreadNext(s)
      PROVE  QueueInv' /\ (OwnersInv => OwnersInv')
  BY <1>2, BlockSyncInv, WakeSyncInv, UncountSyncInv DEF ThreadNext
<1>3. ASSUME NEW t \in Tasks, TaskNext(t)
      PROVE  QueueInv' /\ (OwnersInv => OwnersInv')
  BY <1>3, BlockAsyncInv, RunSetResultInv, ResumeInv, CancelInv,
     RaiseCancelledInv DEF TaskNext
<1>4. CASE \E l \in Loops : CloseLoop(l)
  BY <1>4, CloseLoopInv
<1>5. CASE UNCHANGED vars
  BY <1>5 DEF vars, QueueInv, OwnersInv, TypeOK, OwnerUnique, OwnerHasLock,
     LockedWhileUsed, Owner, FastInside, WaitersUnserved, FuturesAwaited,
     PlacesOfActors, CountIsRight, Counted
<1> QED BY <1>1, <1>2, <1>3, <1>4, <1>5 DEF Next

-----------------------------------------------------------------------------
(* At first nobody has the lock, or waits for it. *)
LEMMA InitInv == Init => LockInv
<1> SUFFICES ASSUME Init PROVE LockInv
  OBVIOUS
<1>1. TypeOK
  BY LockAssumption, EmptySeq DEF Init, TypeOK, States
<1>2. WaitersUnserved
  BY DEF Init, WaitersUnserved
<1>3. CountIsRight
  <2>1. Counted = {}
    BY DEF Init, Counted, Actors
  <2> QED BY <2>1, FS_EmptySet DEF Init, CountIsRight
<1>4. /\ OwnerUnique /\ OwnerHasLock /\ LockedWhileUsed
      /\ FastInside /\ FuturesAwaited /\ PlacesOfActors
  BY LockAssumption DEF Init, OwnerUnique, OwnerHasLock, LockedWhileUsed,
     Owner, FastInside, FuturesAwaited, PlacesOfActors, Actors
<1> QED BY <1>1, <1>2, <1>3, <1>4 DEF LockInv, QueueInv, OwnersInv

(* The invariant of the lock holds whatever is called in whatever order. *)
THEOREM LockInvariant == Spec => []LockInv
<1>1. Init => LockInv
  BY InitInv
<1>2. LockInv /\ [Next]_vars => LockInv'
  BY NextInv DEF LockInv
<1> QED BY <1>1, <1>2, PTL DEF Spec

(* Every variable of ThreadsafeLock keeps its type; _sync_waiter_count     *)
(* never goes below zero.                                                  *)
THEOREM TypeCorrect == Spec => []TypeOK
<1>1. LockInv => TypeOK
  BY DEF LockInv, QueueInv
<1> QED BY <1>1, LockInvariant, PTL

(* Owners are alone, so whoever is inside is. *)
LEMMA OwnersExclude == OwnersInv => MutualExclusion
BY DEF OwnersInv, OwnerUnique, Owner, MutualExclusion

(* Threads and tasks that acquire the lock exclude each other. *)
THEOREM Exclusion == Spec => []MutualExclusion
<1>1. LockInv => MutualExclusion
  BY OwnersExclude DEF LockInv
<1> QED BY <1>1, LockInvariant, PTL

(* What follows for the acquisition and the release of _sync_lock. *)
LEMMA SyncLockSafe == QueueInv => NeverBlocks /\ (OwnersInv => NeverRaises)
<1>1. QueueInv => NeverBlocks
  BY DEF QueueInv, LockedWhileUsed, FastInside, NeverBlocks
<1>2. QueueInv /\ OwnersInv => NeverRaises
  BY DEF QueueInv, OwnersInv, OwnerHasLock, Owner, LockedWhileUsed, NeverRaises
<1> QED BY <1>1, <1>2

(* The fast path never blocks with _state_lock held, and release_async     *)
(* never unlocks an unlocked _sync_lock.                                   *)
THEOREM CriticalSections == Spec => [](NeverBlocks /\ NeverRaises)
<1>1. LockInv => NeverBlocks /\ NeverRaises
  BY SyncLockSafe DEF LockInv
<1> QED BY <1>1, LockInvariant, PTL

-----------------------------------------------------------------------------
(* If _sync_lock was locked for somebody, a release gives it to a task     *)
(* that is alive, or unlocks it.                                           *)
LEMMA GiveBackHandsOver ==
  ASSUME QueueInv, NEW a \in Actors, GivesBack(a)
  PROVE  HandsOver
<1> USE LockAssumption DEF QueueInv
<1>1. CASE Unlock(a)
  BY <1>1 DEF Unlock, HandsOver
<1>2. ASSUME NEW k \in DOMAIN waiters, Reachable(waiters[k]), HandOff(a, k)
      PROVE  HandsOver
  <2>1. /\ waiters[k] \in Tasks /\ fut[waiters[k]] = "pending"
        /\ LoopOf[waiters[k]] \notin closed
    BY <1>2 DEF TypeOK, Reachable, WaitersUnserved
  <2>2. pc[waiters[k]] = "awaiting" /\ ~mustCancel[waiters[k]]
    BY <2>1 DEF FuturesAwaited, TypeOK
  <2>3. waiters[k] # a
    BY <2>2, CallerIsOut
  <2>4. /\ waiters[k] \in given' /\ waiters[k] \in Actors
        /\ pc'[waiters[k]] = "awaiting"
        /\ UNCHANGED <<fut, mustCancel, closed>>
    BY <1>2, <2>1, <2>2, <2>3, CallerIsOut DEF HandOff, Actors
  <2> QED BY <2>1, <2>2, <2>4 DEF HandsOver, LiveOwner, Owner
<1> QED BY <1>1, <1>2 DEF GivesBack, ReleaseAsync

(* If _sync_lock is locked for somebody before a step of the lock's, it is *)
(* after it, too.                                                          *)
OwnedWhileLocked == syncLock => \E a \in Actors : Owner(a)

LEMMA StepHandsOver ==
  ASSUME QueueInv, OwnedWhileLocked, [Next]_vars
  PROVE  HandsOver
<1> USE LockAssumption DEF QueueInv
<1>1. CASE \E a \in Actors : EnterFast(a)
  BY <1>1 DEF EnterFast, TypeOK, OwnedWhileLocked, HandsOver, Owner, taskVars
<1>2. ASSUME NEW a \in Actors, FinishFast(a) PROVE HandsOver
  <2>1. Owner(a)' /\ pc'[a] # "gone"
    BY <1>2 DEF FinishFast, TypeOK, Owner
  <2>2. ASSUME a \in Tasks
        PROVE  fut'[a] # "cancelled" /\ ~mustCancel'[a] /\ LoopOf[a] \notin closed'
    BY <1>2, <2>2 DEF FinishFast, FuturesAwaited, FastInside, taskVars
  <2> QED BY <2>1, <2>2 DEF HandsOver, LiveOwner
<1>3. ASSUME NEW a \in Actors, Release(a) PROVE HandsOver
  <2>1. GivesBack(a) BY <1>3 DEF Release, GivesBack
  <2> QED BY <2>1, GiveBackHandsOver
<1>4. ASSUME NEW s \in Threads, BlockSync(s) \/ UncountSync(s) PROVE HandsOver
  BY <1>4 DEF BlockSync, UncountSync, TypeOK, OwnedWhileLocked, HandsOver, Owner, Actors,
     taskVars
<1>5. ASSUME NEW s \in Threads, WakeSync(s) PROVE HandsOver
  <2>1. s \in Actors /\ s \notin Tasks /\ pc'[s] = "syncGot"
    BY <1>5 DEF WakeSync, TypeOK, Actors
  <2> QED BY <2>1 DEF HandsOver, LiveOwner, Owner
<1>6. ASSUME NEW t \in Tasks, BlockAsync(t) \/ RunSetResult(t) \/ Cancel(t)
      PROVE HandsOver
  BY <1>6 DEF BlockAsync, RunSetResult, Cancel, TypeOK, OwnedWhileLocked, HandsOver, Owner,
     Actors
<1>7. ASSUME NEW t \in Tasks, Resume(t) PROVE HandsOver
  <2>1. t \in given BY <1>7 DEF Resume, FuturesAwaited
  <2> QED BY <1>7, <2>1 DEF Resume, TypeOK, OwnedWhileLocked, HandsOver, Owner, Actors
<1>8. ASSUME NEW t \in Tasks, RaiseCancelled(t) PROVE HandsOver
  BY <1>8 DEF RaiseCancelled, TypeOK, OwnedWhileLocked, HandsOver, Owner, Actors, taskVars
<1>9. CASE (\E l \in Loops : CloseLoop(l)) \/ UNCHANGED vars
  BY <1>9 DEF CloseLoop, vars, OwnedWhileLocked, HandsOver, Owner
<1> QED
  BY <1>1, <1>2, <1>3, <1>4, <1>5, <1>6, <1>7, <1>8, <1>9
  DEF Next, ThreadNext, TaskNext

(* _sync_lock is locked for an actor that has it, or that was alive when   *)
(* release_async chose it: only a task that is cancelled, or whose loop is *)
(* closed, after that takes the lock along.                                *)
THEOREM HandOver == Spec => LockHandsOver
<1>1. Init => OwnedWhileLocked
  BY DEF Init, OwnedWhileLocked
<1>2. HandsOver => OwnedWhileLocked'
  BY DEF HandsOver, OwnedWhileLocked
<1>3. LockInv /\ OwnedWhileLocked /\ [Next]_vars => HandsOver
  BY StepHandsOver DEF LockInv
<1> QED BY <1>1, <1>2, <1>3, LockInvariant, PTL DEF Spec, LockHandsOver

-----------------------------------------------------------------------------
(* A step of the lock is a step of the abstract mutex or changes nothing   *)
(* that its callers see.                                                   *)
LEMMA StepRefines ==
  ASSUME LockInv, [Next]_vars
  PROVE  [M!Next]_(M!vars)
<1> USE LockAssumption DEF LockInv, QueueInv, OwnersInv
<1>1. CASE \E a \in Actors : EnterFast(a)
  <2> PICK a \in Actors : EnterFast(a) BY <1>1
  <2>1. Requesting' = Requesting \cup {a} /\ a \notin Requesting \cup Holders /\
     Holders' = Holders
    BY DEF EnterFast, TypeOK, Requesting, Holders
  <2> QED BY <2>1 DEF M!Next, M!Request
<1>2. CASE \E a \in Actors : FinishFast(a)
  <2> PICK a \in Actors : FinishFast(a) BY <1>2
  <2>0. Holders = {}
    BY DEF FinishFast, OwnerHasLock, Owner, Holders
  <2>1. Requesting' = Requesting \ {a} /\ a \in Requesting /\ Holders' = {a}
    BY <2>0 DEF FinishFast, TypeOK, Requesting, Holders
  <2> QED BY <2>0, <2>1 DEF M!Next, M!Grant
<1>3. CASE \E a \in Actors : Release(a)
  <2> PICK a \in Actors : Release(a) BY <1>3
  <2>1. Requesting' = Requesting /\ a \in Holders /\ Holders' = Holders \ {a}
    BY DEF Release, TypeOK, Requesting, Holders
  <2> QED BY <2>1 DEF M!Next, M!Release
<1>4. CASE \E s \in Threads : BlockSync(s)
  <2> PICK s \in Threads : BlockSync(s) BY <1>4
  <2>1. Requesting' = Requesting \cup {s} /\ s \notin Requesting \cup Holders /\
     Holders' = Holders
    BY DEF BlockSync, TypeOK, Requesting, Holders, Actors
  <2> QED BY <2>1 DEF M!Next, M!Request, Actors
<1>5. CASE \E s \in Threads : WakeSync(s)
  <2>1. Requesting' = Requesting /\ Holders' = Holders
    BY <1>5 DEF WakeSync, TypeOK, Requesting, Holders, Actors
  <2> QED BY <2>1 DEF M!vars
<1>6. CASE \E s \in Threads : UncountSync(s)
  <2> PICK s \in Threads : UncountSync(s) BY <1>6
  <2>0. Holders = {}
    BY DEF UncountSync, OwnerUnique, Owner, Holders, Actors
  <2>1. Requesting' = Requesting \ {s} /\ s \in Requesting /\ Holders' = {s}
    BY <2>0 DEF UncountSync, TypeOK, Requesting, Holders, Actors
  <2> QED BY <2>0, <2>1 DEF M!Next, M!Grant, Actors
<1>7. CASE \E t \in Tasks : BlockAsync(t)
  <2> PICK t \in Tasks : BlockAsync(t) BY <1>7
  <2>1. Requesting' = Requesting \cup {t} /\ t \notin Requesting \cup Holders /\
     Holders' = Holders
    BY DEF BlockAsync, TypeOK, Requesting, Holders, Actors
  <2> QED BY <2>1 DEF M!Next, M!Request, Actors
<1>8. CASE \E t \in Tasks : Resume(t)
  <2> PICK t \in Tasks : Resume(t) BY <1>8
  <2>0. Holders = {}
    BY DEF Resume, OwnerUnique, Owner, FuturesAwaited, Holders, Actors
  <2>1. Requesting' = Requesting \ {t} /\ t \in Requesting /\ Holders' = {t}
    BY <2>0 DEF Resume, TypeOK, Requesting, Holders, Actors
  <2> QED BY <2>0, <2>1 DEF M!Next, M!Grant, Actors
<1>9. CASE \E t \in Tasks : RaiseCancelled(t)
  <2> PICK t \in Tasks : RaiseCancelled(t) BY <1>9
  <2>1. Requesting' = Requesting \ {t} /\ t \in Requesting /\ Holders' = Holders
    BY DEF RaiseCancelled, TypeOK, Requesting, Holders, Actors
  <2> QED BY <2>1 DEF M!Next, M!Abandon, Actors
<1>10. CASE UNCHANGED pc
  BY <1>10 DEF M!vars, Requesting, Holders
<1>11. Next => \/ \E a \in Actors : EnterFast(a) \/ FinishFast(a) \/ Release(a)
               \/ \E s \in Threads : BlockSync(s) \/ WakeSync(s) \/
                  UncountSync(s)
               \/ \E t \in Tasks : BlockAsync(t) \/ Resume(t) \/
                  RaiseCancelled(t)
               \/ UNCHANGED pc
  BY DEF Next, ThreadNext, TaskNext, RunSetResult, Cancel, CloseLoop
<1> QED
  BY <1>1, <1>2, <1>3, <1>4, <1>5, <1>6, <1>7, <1>8, <1>9, <1>10, <1>11 DEF vars

(* Nobody asks for the lock at first. *)
LEMMA InitRefines == Init => M!Init
BY DEF Init, M!Init, Requesting, Holders

(* ThreadsafeLock implements Mutex. *)
THEOREM Refinement == Spec => ImplementsMutex
<1>1. LockInv /\ [Next]_vars => [M!Next]_(M!vars)
  BY StepRefines
<1> QED BY <1>1, InitRefines, LockInvariant, PTL DEF Spec, ImplementsMutex,
   M!Spec
=============================================================================
