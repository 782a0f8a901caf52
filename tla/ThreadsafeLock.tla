--------------------------- MODULE ThreadsafeLock ---------------------------
(***************************************************************************)
(* ThreadsafeLock of modules/thread_safe_lock.py: one lock taken both by   *)
(* threads that block (acquire_sync) and by asyncio tasks of several event *)
(* loops that await a future (acquire_async).                              *)
(*                                                                         *)
(* A step is what runs between two points where another thread can get in: *)
(* the body of `with self._state_lock`, an acquisition of `_sync_lock`, or *)
(* a callback of an event loop. The body of acquire_* is two steps when it *)
(* takes `_sync_lock`, since it could block there with `_state_lock` held. *)
(*                                                                         *)
(* A thread, and a task, may lock and unlock for ever. A task whose wait   *)
(* was cancelled takes no further part, so the future that acquire_async   *)
(* creates is named by its task.                                           *)
(***************************************************************************)
EXTENDS Naturals, Sequences, FiniteSets

CONSTANTS
  Threads,      (* callers of acquire_sync, each a thread of its own         *)
  Tasks,        (* callers of acquire_async                                  *)
  Loops,        (* event loops                                               *)
  LoopOf,       (* the loop a task runs in                                   *)
  Cancellable,  (* tasks that somebody may cancel while they wait            *)
  Closing,      (* loops that may be closed under the tasks that wait        *)
  NoActor       (* `_state_lock` is free                                     *)

Actors == Threads \cup Tasks

ASSUME LockAssumption ==
  /\ IsFiniteSet(Threads)
  /\ Threads \cap Tasks = {}
  /\ LoopOf \in [Tasks -> Loops]
  /\ Cancellable \subseteq Tasks
  /\ Closing \subseteq Loops
  /\ NoActor \notin Actors

VARIABLES
  locked,           (* _locked                                               *)
  waiters,          (* _waiters, the futures of tasks, oldest first          *)
  stateLock,        (* the actor that holds _state_lock between two steps    *)
  syncLock,         (* _sync_lock is locked                                  *)
  syncWaiterCount,  (* _sync_waiter_count                                    *)
  pc,               (* where each actor is                                   *)
  fut,              (* the state of the future a task awaits                 *)
  callbacks,        (* tasks whose set_result is queued in their loop        *)
  given,            (* history: tasks that release_async gave the lock to,   *)
                    (* until they take it or give it back                    *)
  mustCancel,       (* Task._must_cancel: cancelled after its future is done *)
  closed            (* loops that are closed                                 *)

vars == <<locked, waiters, stateLock, syncLock, syncWaiterCount,
          pc, fut, callbacks, given, mustCancel, closed>>

taskVars == <<fut, callbacks, given, mustCancel, closed>>

States == {"idle", "fast", "syncWait", "syncGot", "awaiting", "held", "gone"}

-----------------------------------------------------------------------------
Init == /\ locked = FALSE
        /\ waiters = <<>>
        /\ stateLock = NoActor
        /\ syncLock = FALSE
        /\ syncWaiterCount = 0
        /\ pc = [a \in Actors |-> "idle"]
        /\ fut = [t \in Tasks |-> "none"]
        /\ callbacks = {}
        /\ given = {}
        /\ mustCancel = [t \in Tasks |-> FALSE]
        /\ closed = {}

(* The thread of an event loop runs one thing at a time: nothing else runs *)
(* in it while one of its tasks is between the two steps of the fast path, *)
(* and nothing at all once the loop is closed.                             *)
LoopRuns(l) == /\ l \notin closed
               /\ \A t \in Tasks : LoopOf[t] = l => pc[t] # "fast"

CanRun(a) == a \in Tasks => LoopRuns(LoopOf[a])

-----------------------------------------------------------------------------
(* acquire_sync and acquire_async: `if not self._locked`, up to the call   *)
(* of _sync_lock.acquire.                                                  *)
EnterFast(a) == /\ pc[a] = "idle"
                /\ CanRun(a)
                /\ stateLock = NoActor
                /\ ~locked
                /\ stateLock' = a
                /\ pc' = [pc EXCEPT ![a] = "fast"]
                /\ UNCHANGED <<locked, waiters, syncLock, syncWaiterCount, taskVars>>

(* Mutation of FinishFast: `_locked` is set and `_sync_lock` is not taken. *)
FinishFast_OnlyFlag(a) ==
  /\ pc[a] = "fast"
  /\ locked' = TRUE
  /\ stateLock' = NoActor
  /\ pc' = [pc EXCEPT ![a] = "held"]
  /\ UNCHANGED <<waiters, syncLock, syncWaiterCount, taskVars>>

(* The rest of that branch, once _sync_lock.acquire returned. *)
FinishFast(a) == /\ pc[a] = "fast"
                 /\ ~syncLock
                 /\ syncLock' = TRUE
                 /\ locked' = TRUE
                 /\ stateLock' = NoActor
                 /\ pc' = [pc EXCEPT ![a] = "held"]
                 /\ UNCHANGED <<waiters, syncWaiterCount, taskVars>>

(* Mutation of BlockSync: the thread blocks without counting itself. *)
BlockSync_Uncounted(s) ==
  /\ pc[s] = "idle"
  /\ stateLock = NoActor
  /\ locked
  /\ pc' = [pc EXCEPT ![s] = "syncWait"]
  /\ UNCHANGED <<locked, waiters, stateLock, syncLock, syncWaiterCount, taskVars>>

(* acquire_sync on a locked lock: the thread counts itself and blocks. *)
BlockSync(s) == /\ pc[s] = "idle"
                /\ stateLock = NoActor
                /\ locked
                /\ syncWaiterCount' = syncWaiterCount + 1
                /\ pc' = [pc EXCEPT ![s] = "syncWait"]
                /\ UNCHANGED <<locked, waiters, stateLock, syncLock, taskVars>>

WakeSync(s) == /\ pc[s] = "syncWait"
               /\ ~syncLock
               /\ syncLock' = TRUE
               /\ pc' = [pc EXCEPT ![s] = "syncGot"]
               /\ UNCHANGED <<locked, waiters, stateLock, syncWaiterCount, taskVars>>

UncountSync(s) == /\ pc[s] = "syncGot"
                  /\ stateLock = NoActor
                  /\ syncWaiterCount' = syncWaiterCount - 1
                  /\ pc' = [pc EXCEPT ![s] = "held"]
                  /\ UNCHANGED <<locked, waiters, stateLock, syncLock, taskVars>>

(* Mutation of BlockAsync: the newest future is served first. *)
BlockAsync_Lifo(t) ==
  /\ pc[t] = "idle"
  /\ CanRun(t)
  /\ stateLock = NoActor
  /\ locked
  /\ waiters' = <<t>> \o waiters
  /\ fut' = [fut EXCEPT ![t] = "pending"]
  /\ pc' = [pc EXCEPT ![t] = "awaiting"]
  /\ UNCHANGED <<locked, stateLock, syncLock, syncWaiterCount,
                 callbacks, given, mustCancel, closed>>

(* acquire_async on a locked lock: the task queues a future and awaits it. *)
BlockAsync(t) == /\ pc[t] = "idle"
                 /\ CanRun(t)
                 /\ stateLock = NoActor
                 /\ locked
                 /\ waiters' = Append(waiters, t)
                 /\ fut' = [fut EXCEPT ![t] = "pending"]
                 /\ pc' = [pc EXCEPT ![t] = "awaiting"]
                 /\ UNCHANGED <<locked, stateLock, syncLock, syncWaiterCount,
                                callbacks, given, mustCancel, closed>>

-----------------------------------------------------------------------------
(* Mutation of Reachable: the lock is passed to cancelled futures, too. *)
Reachable_Cancelled(t) == LoopOf[t] \notin closed

(* `future.cancelled()` is false, and call_soon_threadsafe does not raise. *)
Reachable(t) == /\ fut[t] # "cancelled"
                /\ LoopOf[t] \notin closed

(* Mutation of HandOff: the lock is passed to the future and unlocked.     *)
HandOff_Unlocks(a, k) ==
  /\ waiters' = SubSeq(waiters, k + 1, Len(waiters))
  /\ callbacks' = callbacks \cup {waiters[k]}
  /\ given' = (given \ {a}) \cup {waiters[k]}
  /\ syncLock' = FALSE
  /\ UNCHANGED locked

(* The loop of release_async that finds a future: those before it are      *)
(* dropped, and the lock passes to its task without being unlocked.        *)
HandOff(a, k) ==
  /\ waiters' = SubSeq(waiters, k + 1, Len(waiters))
  /\ callbacks' = callbacks \cup {waiters[k]}
  /\ given' = (given \ {a}) \cup {waiters[k]}
  /\ UNCHANGED <<locked, syncLock>>

(* Mutation of Unlock: `_locked` is reset with threads still blocked. *)
Unlock_Always(a) == /\ waiters' = <<>>
                    /\ locked' = FALSE
                    /\ syncLock' = FALSE
                    /\ given' = given \ {a}
                    /\ UNCHANGED callbacks

(* The `else` of that loop: no future is left to give the lock to. The     *)
(* release of a _sync_lock that is not locked raises, and changes nothing. *)
Unlock(a) == /\ waiters' = <<>>
             /\ locked' = (locked /\ syncWaiterCount # 0)
             /\ syncLock' = FALSE
             /\ given' = given \ {a}
             /\ UNCHANGED callbacks

(* release_async, called by an actor that should have the lock. *)
ReleaseAsync(a) ==
  /\ CanRun(a)
  /\ stateLock = NoActor
  /\ \/ \E k \in DOMAIN waiters :
          /\ Reachable(waiters[k])
          /\ \A i \in 1 .. k - 1 : ~Reachable(waiters[i])
          /\ HandOff(a, k)
     \/ /\ \A i \in DOMAIN waiters : ~Reachable(waiters[i])
        /\ Unlock(a)
  /\ UNCHANGED <<stateLock, syncWaiterCount, fut, mustCancel, closed>>

(* __exit__, __aexit__, release_sync and release_async, of who has it. *)
Release(a) ==
  /\ pc[a] = "held"
  /\ ReleaseAsync(a)
  /\ pc' = [pc EXCEPT ![a] = "idle"]

-----------------------------------------------------------------------------
(* The event loop runs the queued future.set_result. On a cancelled future *)
(* it raises InvalidStateError, which the loop reports and drops.          *)
RunSetResult(t) ==
  /\ t \in callbacks
  /\ CanRun(t)
  /\ callbacks' = callbacks \ {t}
  /\ fut' = [fut EXCEPT ![t] = IF @ = "pending" THEN "done" ELSE @]
  /\ UNCHANGED <<locked, waiters, stateLock, syncLock, syncWaiterCount,
                 pc, given, mustCancel, closed>>

(* `await future` returns: acquire_async is over. *)
Resume(t) == /\ pc[t] = "awaiting"
             /\ CanRun(t)
             /\ fut[t] = "done"
             /\ ~mustCancel[t]
             /\ fut' = [fut EXCEPT ![t] = "none"]
             /\ pc' = [pc EXCEPT ![t] = "held"]
             /\ given' = given \ {t}
             /\ UNCHANGED <<locked, waiters, stateLock, syncLock, syncWaiterCount,
                            callbacks, mustCancel, closed>>

(* Task.cancel on a task that awaits: it cancels the future, or, when the  *)
(* future is done and the task not yet resumed, it marks the task.         *)
Cancel(t) == /\ t \in Cancellable
             /\ pc[t] = "awaiting"
             /\ CanRun(t)
             /\ \/ /\ fut[t] = "pending"
                   /\ fut' = [fut EXCEPT ![t] = "cancelled"]
                   /\ UNCHANGED mustCancel
                \/ /\ fut[t] = "done"
                   /\ ~mustCancel[t]
                   /\ mustCancel' = [mustCancel EXCEPT ![t] = TRUE]
                   /\ UNCHANGED fut
             /\ UNCHANGED <<locked, waiters, stateLock, syncLock, syncWaiterCount,
                            pc, callbacks, given, closed>>

(* `await future` raises CancelledError: acquire_async has no handler. *)
RaiseCancelled(t) == /\ pc[t] = "awaiting"
                     /\ CanRun(t)
                     /\ fut[t] = "cancelled" \/ mustCancel[t]
                     /\ pc' = [pc EXCEPT ![t] = "gone"]
                     /\ UNCHANGED <<locked, waiters, stateLock, syncLock,
                                    syncWaiterCount, taskVars>>

(* loop.close with tasks still waiting, none of which is inside the lock. *)
CloseLoop(l) == /\ l \in Closing
                /\ LoopRuns(l)
                /\ \A t \in Tasks : LoopOf[t] = l => pc[t] # "held"
                /\ closed' = closed \cup {l}
                /\ UNCHANGED <<locked, waiters, stateLock, syncLock, syncWaiterCount,
                               pc, fut, callbacks, given, mustCancel>>

-----------------------------------------------------------------------------
ThreadNext(s) == BlockSync(s) \/ WakeSync(s) \/ UncountSync(s)

TaskNext(t) == \/ BlockAsync(t) \/ RunSetResult(t) \/ Resume(t)
               \/ Cancel(t) \/ RaiseCancelled(t)

Next == \/ \E a \in Actors : EnterFast(a) \/ FinishFast(a) \/ Release(a)
        \/ \E s \in Threads : ThreadNext(s)
        \/ \E t \in Tasks : TaskNext(t)
        \/ \E l \in Loops : CloseLoop(l)

Spec == Init /\ [][Next]_vars

-----------------------------------------------------------------------------
(* Every variable keeps its type; in particular the counter of blocked     *)
(* threads never goes below zero, whatever the order in which threads      *)
(* count and uncount themselves.                                           *)
TypeOK ==
  /\ locked \in BOOLEAN
  /\ waiters \in Seq(Tasks)
  /\ stateLock \in Actors \cup {NoActor}
  /\ syncLock \in BOOLEAN
  /\ syncWaiterCount \in Nat
  /\ pc \in [Actors -> States]
  /\ fut \in [Tasks -> {"none", "pending", "done", "cancelled"}]
  /\ callbacks \subseteq Tasks
  /\ given \subseteq Tasks
  /\ mustCancel \in [Tasks -> BOOLEAN]
  /\ closed \subseteq Loops

(* Whom the lock is for: the actor took _sync_lock, or release_async gave  *)
(* its future the lock.                                                    *)
Owner(a) == pc[a] \in {"syncGot", "held"} \/ a \in given

(* ... and nothing keeps that actor from entering. *)
LiveOwner(a) == /\ Owner(a)
                /\ pc[a] # "gone"
                /\ a \in Tasks => /\ fut[a] # "cancelled"
                                  /\ ~mustCancel[a]
                                  /\ LoopOf[a] \notin closed

(* Two callers, threads or tasks of whatever loops, are never both between *)
(* a successful acquire and the matching release, cancelled or closed      *)
(* waiters notwithstanding.                                                *)
MutualExclusion ==
  \A a, b \in Actors : pc[a] = "held" /\ pc[b] = "held" => a = b

(* The fast path takes _sync_lock with _state_lock held: were _sync_lock   *)
(* locked there, every thread and every event loop that touches the lock   *)
(* would block behind it. It never is, not even with a thread that was     *)
(* let in by release_async and has not uncounted itself yet.               *)
NeverBlocks == \A a \in Actors : pc[a] = "fast" => ~syncLock

(* Nor does release_async ever release an unlocked _sync_lock, which would *)
(* raise RuntimeError: while anybody is inside, both flags are set.        *)
NeverRaises ==
  (\E a \in Actors : pc[a] \in {"syncGot", "held"}) => syncLock /\ locked

(* _sync_lock is locked for somebody: whenever it is, then for an actor    *)
(* that it was locked for already, or for one that was alive when it got   *)
(* it. No release chooses a task that was cancelled or whose loop is       *)
(* closed, so only one that is cancelled afterwards can take it along.     *)
HandsOver ==
  syncLock' => \E a \in Actors : Owner(a)' /\ (Owner(a) \/ LiveOwner(a)')

LockHandsOver == [][HandsOver]_vars

(* The lock is never lost: its owner, if it has one, gets in. It fails: a  *)
(* task that is cancelled after release_async chose it never releases.     *)
NoLostLock == syncLock => \E a \in Actors : LiveOwner(a)

(* Nothing was cancelled and nothing closed so far. *)
Undisturbed == /\ \A t \in Tasks : /\ fut[t] # "cancelled"
                                   /\ ~mustCancel[t]
                                   /\ pc[t] # "gone"
               /\ closed = {}

(* A task that waits gets the lock, however many threads compete with it:  *)
(* release_async serves the tasks first, oldest first. And while anybody   *)
(* waits, somebody gets in: a release always lets go of _sync_lock or      *)
(* passes the lock to a future.                                            *)
LockServes ==
  []Undisturbed =>
    /\ \A t \in Tasks : pc[t] = "awaiting" ~> pc[t] = "held"
    /\ (\E a \in Actors : pc[a] \in {"syncWait", "awaiting"})
         ~> (\E a \in Actors : pc[a] = "held")

(* ThreadsafeLock implements an abstract mutex. An actor requests when it  *)
(* enters acquire, is granted the lock when acquire returns, and abandons  *)
(* when acquire raises CancelledError.                                     *)
Requesting == {a \in Actors : pc[a] \in {"fast", "syncWait", "syncGot", "awaiting"}}
Holders == {a \in Actors : pc[a] = "held"}

M == INSTANCE Mutex WITH requesting <- Requesting, holders <- Holders

ImplementsMutex == M!Spec

-----------------------------------------------------------------------------
(* The invariant by which these hold. Whoever has the lock, or was given   *)
(* it, is alone; a queued future was not served yet; the flag and the      *)
(* counter agree with the program counters.                                *)
OwnerUnique == \A a, b \in Actors : Owner(a) /\ Owner(b) => a = b

OwnerHasLock == \A a \in Actors : Owner(a) => syncLock

LockedWhileUsed ==
  syncLock \/ (\E s \in Threads : pc[s] = "syncWait") => locked

FastInside ==
  \A a \in Actors : pc[a] = "fast" => /\ stateLock = a /\ ~locked
                                      /\ a \in Tasks => LoopOf[a] \notin closed

WaitersUnserved ==
  /\ \A i \in DOMAIN waiters : /\ fut[waiters[i]] \in {"pending", "cancelled"}
                               /\ waiters[i] \notin callbacks \cup given
  /\ \A i, j \in DOMAIN waiters : waiters[i] = waiters[j] => i = j

FuturesAwaited ==
  \A t \in Tasks :
    /\ t \in callbacks => fut[t] \in {"pending", "cancelled"}
    /\ t \in callbacks /\ fut[t] = "pending" => t \in given
    /\ fut[t] = "done" /\ pc[t] = "awaiting" => t \in given
    /\ t \in given => pc[t] \in {"awaiting", "gone"}
    /\ fut[t] # "none" <=> pc[t] \in {"awaiting", "gone"}
    /\ fut[t] = "pending" => pc[t] = "awaiting"
    /\ mustCancel[t] => fut[t] = "done"

PlacesOfActors ==
  /\ \A s \in Threads : pc[s] \notin {"awaiting", "gone"}
  /\ \A t \in Tasks : pc[t] \notin {"syncWait", "syncGot"}

Counted == {s \in Threads : pc[s] \in {"syncWait", "syncGot"}}

CountIsRight == syncWaiterCount = Cardinality(Counted)

(* What acquire_* and release_* keep, even if release_async is called by   *)
(* who does not have the lock: _state_lock guards all of it.               *)
QueueInv == /\ TypeOK
            /\ LockedWhileUsed
            /\ FastInside
            /\ WaitersUnserved
            /\ FuturesAwaited
            /\ PlacesOfActors
            /\ CountIsRight

(* What they keep if only who has the lock releases it.                    *)
OwnersInv == OwnerUnique /\ OwnerHasLock

(* The inductive invariant of acquire_* and release_*: every part of it    *)
(* above, which no single critical section of the code establishes alone.  *)
LockInv == QueueInv /\ OwnersInv
=============================================================================
