# Verification of aiodrive

This directory models [aiodrive](../src/readme.md), a library of asyncio
utilities, in TLA+. TLC checks the models on small instances; TLAPS proves every safety
property of the runs for every value of the constants. `PROJECT.json` maps each
definition to the lines of source it stands for, names the runs and their
properties, and for each property a mutation of the model, that is, a plausible
bug, which violates it.

Run a configuration with `tlc -config X.cfg M`, a proof with `tlapm M.tla`.
`M_Name` beside a definition `M` ("Mutation of M") is the form it has with that
bug; nothing uses it but the mutation runs.

## The system

`src/src/aiodrive/modules` holds some forty utilities, mostly independent of
each other. Their core logic is coordination: threads, event loops and tasks
that wait for each other while any of them may be cancelled. Three facts of
asyncio shape all of it, and all the models.

* A task runs until an `await` that suspends; everything else is one step with
  respect to the other tasks of its loop, but not to other threads.
* Cancelling a task that awaits a future cancels that future, and the task gets
  `CancelledError` when it is woken; if the future was done already, the error
  is thrown at the task's next step instead, and hides the result. A task that
  awaits another *task* passes its cancellation on to it.
* A cancelled future is done. Setting its result afterwards is an error, which
  in a callback is logged and otherwise lost.

### Inventory

What is *modelled* has its safety properties proved, and its liveness checked by
TLC.

| Component (source in `modules/`) | State | Operations | Hard behaviour | What makes it correct | Here |
|---|---|---|---|---|---|
| `ThreadsafeLock` (`thread_safe_lock.py`) | `_locked`, `_waiters`, `_state_lock`, `_sync_lock`, `_sync_waiter_count` | `acquire_sync/async`, `release_sync/async` | threads and tasks interleave between two inner locks; a waiter is cancelled, or its loop closed, around the hand-off | mutual exclusion; no critical section blocks; the lock is not lost; waiters get in | modelled |
| `ThreadsafeCondition` (same file) | `_waiters`, the lock | `wait`, `wait_sync`, `notify` | release and registration are two steps; cancelled while it takes the lock back, or before; the block is left whether or not `wait` came out with the lock | whoever is in the block holds the lock; no lost wake-up | modelled |
| `ThreadsafeState` (`thread_safe_state.py`) | `value`, `_futures` per loop, a condition | `set_value`, `update_value`, `wait`, `wait_until(_sync)` | value changed and restored before the waiter looks; a future shared by the tasks of a loop; closed loops | nobody sleeps through its value; a cancellation stays with its task | modelled |
| thread launch (`thread_loop.py`, `thread_sync.py`, `future_state.py`) | `result`, `stage`, `task`, the new loop's queue | launch, `finish`, and what wraps them | two threads share plain variables ordered only by `stage`; cancellations while starting, waiting or joining | the target has started, its outcome is reported, no cancellation is lost | modelled |
| `gather` (`gather.py`) | its tasks, `cancelled`, `failed` | one call | failure, completion and cancellation in any order | no task left behind; reports what happened | modelled |
| `race` (`race.py`) | winner, pending tasks | one call | outcome of the winner mixed with that of the losers it cancels | reports the winner; does not wait for losers | modelled |
| `amass` (`amass.py`) | pending, done, limit | generator: next, close | closed, failed or cancelled with awaitables running | limit kept; every result yielded | modelled |
| `concurrent_contexts`, `cleaned_up` (`concurrent_contexts.py`, `cleanup.py`, `shield.py`) | managers that were entered, the shield | enter, exit | partial failure of entering; second cancellation during the cleanup | exactly what was entered is exited | modelled |
| `map` (`map.py`, `internal/queue.py`, `task_group.py`, `button.py`) | iterator, jobs, queue, button | generator: next, close | jobs end in any order, before or after the consumer asks | order kept, no result of an ordered map lost, consumer woken | modelled |
| `contextualize`, `use_scope` (`contextualize.py`, `scope.py`) | background task, scope's count, the task's own count | enter, exit | background and body fail, end or are cancelled in the same round of the loop | the background is awaited, its failure raised, counts balanced | modelled |
| `GuaranteedTask`, `cancel_task`, `suppress`, `ensure_correct_cancellation` (`guaranteed_task.py`, `cancel.py`) | cancellation counts | `cancel`, `uncancel`, one call | cancelled before its first step; cancelled while cancelling | the awaitable is awaited; others' cancellations come back | as `contextualize` and `Process.wait` use them |
| `ThreadManager` (`thread_manager.py`) | `_tasks`, the thread's group | `spawn(_sync)`, enter, exit | spawn, cancellation and exit race across loops | a spawn ends with its target; exit waits for the tasks | modelled |
| `MultiprocessingProcess` (`multiprocessing.py`) | parent's and child's `_tasks`, two streams | `spawn`, enter, exit | cancel, finish and shutdown cross each other; the child dies | as above; pending spawns fail if the child dies | modelled |
| `shield`, `shield_wait`, `shield_wait_forever`, `ShieldContext` (`shield.py`) | a count, a flag | one call | cancelled repeatedly, also at the moment of the result, or the awaitable is cancelled itself | the awaitable is awaited to its end; no cancellation is lost | modelled |
| `watch_path` (`watch.py`, `kqueue.py`) | watched path, last report, queued event, scheduled call | kernel events, timers, exit | the file system changes between any two of its system calls; debouncing | what was last reported is what exists | modelled |
| file lock (`lock.py`, `kqueue.py`, `button.py`) | what the kernel holds, a button | acquire, release | unlocked between an attempt and the registration of an event | no unlocking is missed | modelled |
| `NestableLock` (`nestable_lock.py`) | level per context, an `asyncio.Lock` | enter, exit | a context is copied into a child task that outlives its parent's level | exclusion between families of tasks | modelled |
| `Latch`, buffered iterators (`latch.py`, `aiter.py`, `prime.py`) | `_set`, `_future` | `set`, `unset`, waits | none that several steps could get wrong | | not modelled, see below |
| `zip` (`zip.py`, `internal/sized.py`) | iterators | next | one ends while others run | lengths agree | not modelled, see below |
| processes (`process.py`) | asyncio's transport, the operating system's process | `wait`, `reap_child_process`, `wait_for_process` | the exit, its report and a cancellation race; three ways to be told | the outcome is the process's; the loop does not block | modelled |
| signals (`signals.py`) | `handled_signal_code`, a scope | `handle_signal`, `wait_for_signal`, `watch_signal` | a signal arrives as the body ends, or with somebody's cancellation | raised if handled; counts balanced | modelled |
| TCP server, streams (`tcp.py`, `io.py`, `task_group.py`) | the server, its connections and their task group | listen, accept, exit | accept or failure of a handler during the exit; cancelled again | no handler is left; connections are closed, failures raised | server modelled, `io.py` is I/O |
| daemon handles (`handle.py`, `daemon.py`) | a context | enter, exit | that of `contextualize`, advanced by two tasks | | as the server uses it |
| `run.py`, `repeat.py`, `closing.py`, `checkpoint.py`, `awaitable.py`, `event_loop.py`, `file_modes.py`, ... | none | | | | no state of their own, not modelled |
| `experiments/` (`rw_lock.py`, `smart_lock.py`, `loop.py`, ...) | readers, writers, owners | `acquire`, `release` | cancelled in the queue or while it is granted | a writer is alone; the lock is handed on | read-write lock modelled, the rest is unfinished |

How they interact: the condition takes and releases a `ThreadsafeLock`; the
launch meets its thread on a `ThreadsafeState`; `race`, `amass` and
`concurrent_contexts` end in a `gather`; `map` runs its jobs in a volatile task
group; `contextualize` runs a `GuaranteedTask` and ends in `cancel_task`; the
thread manager is a launched thread whose context is `contextualize`; both
managers forward cancellations behind a `shield`; the TCP server is the
background of a `contextualize`, with a task group whose parent is the task that
entered it; the file lock waits on a button that a kqueue presses. Nothing else
shares state.

## Modules

| Module | Models | Composition |
|---|---|---|
| `Mutex` | what a lock promises: request, grant, release, abandon | abstract |
| `ThreadsafeLock` | every step of the four operations | implements `Mutex` |
| `ThreadsafeCondition` | `wait`, `wait_sync`, `notify` and the exit of the block, step by step | EXTENDS `ThreadsafeLock` |
| `Locks` | the lock is used as it is, or through its condition | EXTENDS `ThreadsafeCondition`, implements `Mutex` until a lost wait is left |
| `ThreadsafeState` | one step per `with self._condition` | |
| `RWLock` | the read-write lock, one step per `with self._state_lock` | |
| `NestableLock` | levels, contexts that tasks inherit, `asyncio.Lock` | |
| `Flock` | the file lock, one step per system call | |
| `Watch` | the watched path, one step per system call of its handler | |
| `Shield` | one shielded call, its caller and its awaitable | |
| `Signals` | one use of a signal handler, the loop and the system | |
| `ProcessWait` | one process, asyncio's transport, who waits for it | |
| `Contextualize` | the context, its background `GuaranteedTask`, the scope, `cancel_task` | |
| `TcpServer` | the server, its handlers and connections | EXTENDS `Contextualize` |
| `Primitives` | one of these ten (from the state on) is used | EXTENDS them |
| `Gather` | the call and its tasks | |
| `Race`, `Amass`, `ConcurrentContexts` | the caller around one or two gathers | EXTEND `Gather` |
| `Map` | the generator, its jobs, the ordered or unordered queue | EXTENDS `Gather` for the tasks |
| `Combinators` | one of the five is called | EXTENDS all of these |
| `RemoteSpawn` | what the two kinds of `spawn` share: caller, future, forwarding, target | |
| `ThreadManager`, `MultiprocessingProcess` | the thread's group; the child and the parent's reader | EXTEND `RemoteSpawn` |
| `RemoteCall` | what a call that runs its target elsewhere promises | abstract |
| `Remote` | a behaviour has one of the two | EXTENDS both, implements `RemoteCall` |
| `ThreadLaunch` | the launching caller, the thread and its loop's ready queue | `Stage == INSTANCE ThreadsafeState` |
| `Tasks` | a combinator, a manager or a launch runs tasks for a caller | EXTENDS `Combinators`, `Remote`, `ThreadLaunch` |
| `ThreadsafeLockProofs`, `ThreadsafeStateProofs`, `GatherProofs`, `ContextualizeProofs` | theorems about a component by itself | EXTEND its module |
| `LocksProofs`, `PrimitivesProofs`, `CombinatorsProofs`, `TasksProofs` | theorems about what the runs check | EXTEND `Locks`, `Primitives`, `Combinators`, `Tasks`; the proofs of the lock; of gather; of the combinators |
| `MC*` | instances for TLC | EXTEND their module |

`Locks`, `Primitives` and `Tasks` put what plays the same part in the library
next to each other, so that one run asks the same question of all of it. Their
members share no state (but for the compositions of the table), so a behaviour
uses one of them, chosen in the initial state, and leaves the others idle.
Interleaving two would only multiply states.

### How state and actions correspond to the code

*Lock.* `stateLock` is held across two steps only where the code may block
with it held, that is, on the fast path. `ReleaseAsync` is the body of
`release_*`: it pops waiters up to the first that can be given the lock and
schedules its `set_result` (`HandOff`), or releases `_sync_lock` (`Unlock`).
`given` is a history variable, of the tasks chosen that way until they go on or
give the lock back. `callbacks` holds the tasks whose `set_result` was scheduled with
`call_soon_threadsafe`; `Cancel` tells apart a task whose future is pending (the
future is cancelled) from one whose future is done (`_must_cancel`). `CloseLoop`
drops a loop's callbacks and tasks.

*Condition.* Between the release and the registration of a waiter, and between
the loop over the waiters and `clear()` in `notify`, other threads run. The
lock's steps are those of `ThreadsafeLock`. `flag` is the condition that the
users wait for, so that a lost wake-up can be told from an early one. `cancels` is
`Task.cancelling()`, which whoever cancelled a task may lower again while it is in
its block (`Uncancel`), and `shield` what the `ShieldContext` of a wait still
absorbs: one request, less those that the task had when it called `wait`. A task
that is cancelled beyond that comes out of `wait` without the lock (`"lost"`), and
then runs the exit of its `async with` like any other (`LeaveLost`): it calls
`release_async`, and unless it had been given the lock too late to notice
(`"left"`), it releases that of somebody else, or of nobody (`"strayed"`). There its
part ends.

*State.* A loop's future is named by the tasks that await it, each behind
`asyncio.shield`. `Update` hands every loop's future its `set_result` and wakes
the threads; `Resume` is `_observe` reading the value again.

*Launch.* `ready` is the new loop's queue, in order, because the code relies on
`set_value("running")` coming after the target's first step. `caller` follows
`launch_in_thread_loop`, then `finish`, and the synchronous variants.

*Gather and the others.* `child` is the state of each task, `told` those with a
CancelledError on its way, `stage` the `asyncio.wait` that the caller is in, and
`interrupted` a CancelledError that the caller gets when it goes on. `Stubborn`
tasks may suppress their cancellations, as any awaitable can.

*Contextualize.* `count` is `current_task.cancelling()`, `scope` the scope's own
count, `requests` the count that GuaranteedTask keeps. `must` and `told` are
errors on their way. The current task may have been cancelled before it entered
(`kind.before`), as it is in a `finally` block. What the context raises is a set,
so that an exception group is the union.

*Remote.* `requests` is the thread loop's ready queue or the pipe to the child,
`answers` what is on its way back. In the thread, the wrapper task `create_task`
and the inner GuaranteedTask have states of their own, since the group's
shutdown tells them apart. In the child, `created` and `running` differ in what
a cancellation does.

*Read-write lock.* `rwAsks`, `rwPc` and `rwGranted` are what each `async with`
knows of itself; the other four variables are the lock's. `Release` is the whole of
`release()`, for an owner, for a caller that was granted the lock and is
cancelled before it goes on, and for one that never was.

*Nestable lock.* `nestBase` is the level that a task found in its copied context,
so that it can only leave what it entered. `nestHolder` and `nestQueue` are the
`asyncio.Lock`, which passes to the first waiter when it is released.

*File lock, watched path.* A step is a system call, since others change the file
system between two of them; events gather in the kqueue until the loop gets to
them. In `Watch`, a path is the levels of its directories; a descriptor keeps
its level after what it names was moved (`named`).

*Shield.* `bare` is the await without a shield after the last iteration of
`shield_wait`, where a cancellation reaches the awaitable. `woken` and
`interrupted` are a caller that will go on with a result or a CancelledError.

*Signals.* A signal is with the loop (`sigArrived`), then a scheduled handler
(`sigReady`), then `handled`. The scope's count is `sigScope`.

*Processes.* `transport` is asyncio's view, which lags behind the system's; where
the running version wakes a waiter before the transport lets go of the process,
`eager` allows both.

*Server.* The generator of `listen` is advanced once by the task that enters, and
then by the background, whence the group cancels the current task when a handler
fails, and the counts of both are kept. `orphan` is a connection whose task was
cancelled before its first step, or not created any more: nobody closes it.

## Runs

The three *pass* runs check safety and liveness of all the components, the nine
*violation* runs one statement of the repository each that the code breaks.

| Run | Instance | Shows |
|---|---|---|
| `locks` | lock: 2 threads, 3 tasks in 2 loops, 2 of them cancellable, 1 loop that closes; condition: 1 thread, 2 tasks in 2 loops, one of them with up to 3 cancellation requests at a time, from before or in a `wait` | until a task that lost the lock in `wait` releases that of another: exclusion, no critical section blocks or raises, the lock is only given to who can take it, refinement of `Mutex`. In spite of such a task: the queue, the flags and the counter are right and nothing blocks. Out of `wait` without the lock comes only who had two cancellation requests; waiters are served while nobody takes the lock along (`LocksServe` of the lock by itself, `WokenReturns` of a condition's tasks that enter or were woken) |
| `primitives` | one of the ten *Things*, below | for each the row of the inventory: no missed value, unlocking, report or signal; exclusion; outcomes and cancellation counts; all of them end |
| `tasks` | up to 3 awaitables in a call, one of them stubborn, 2 cancellations per gather, limits 1 and 2; or 2 spawners, one with a stubborn target, exit or crash at any time; or each variant of the launch, with 3 cancellations | no task is left behind; what is reported happened; no cancellation is lost; refinement of `RemoteCall`: a target lives only while its caller waits; calls end once their tasks can |
| `lock_cancelled` | that of `locks`, one cancellable task, no closing loop | the lock is lost for good when a task is cancelled between the release that chose it and its wake-up |
| `condition_lost_wakeup` | that of the condition, without cancellations | a notifier that comes between release and registration wakes nobody |
| `condition_stray` | that of the condition with two tasks in a loop and a thread, 2 cancellations | a task cancelled twice comes out of `wait` without the lock, releases it on leaving the block, and two are inside |
| `launch_sync_start` | the synchronous launch | the launcher waits for a stage that has already passed |
| `race_loses` | that of `tasks` | `race` raises CancelledError instead of the winner's value |
| `map_stalls` | that of `tasks` | the consumer of a limited ordered map waits for ever |
| `shield_forever` | that of `primitives` | `shield_wait_forever` spins without suspending once its awaitable is cancelled |
| `process` | that of `primitives` | `Process.wait` raises ProcessLookupError |
| `server` | that of `primitives`, the current task not cancelled | a server is left listening when a handler fails during its exit |

### Bounds, and why they are enough

*Lock, condition, state.* Two threads and two tasks of different loops are what
every critical section tells apart; the third task of the lock is one behind
another in the queue, with its loop closing. The state has two tasks that share a
loop's future, and three values, so that one can be replaced or restored before a
waiter looks. A waiting cannot be cancelled in more than three ways (before, at
and after the hand-off), so three cancellations (`MaxCancels` of the condition, which
bounds the requests that a task has at a time, `MaxShieldCancels`, `MaxProcessCancels`, `MaxLaunchCancels`) show each, and two
(`MaxCancels` of the combinators, `MaxSpawnCancels`) the second one that arrives
while the first is being handled.

*Other locks.* `MaxIds = 4` acquisitions of the read-write lock are an owner, and
a reader, a writer and a cancelled one behind it. Three tasks of a `Family` are
one that inherits, its parent and a stranger, `MaxLevel = 3` an inner level
between two others. Three processes of which two are `Exclusives` compete in each
way that `flock` tells apart.

*Path.* `Depth = 2`: the target, its directory, and the root, so that what is
watched can be above, at, or below what exists. Both kinds of `Debounces`;
`CallImmediately = {TRUE}`, because without it nothing is ever reported (see
below).

*Signals, server.* Two signals: the second arrives when the first is handled.
Two `Connections`: one handler fails while the other runs, starts or closes. Its
background obeys; the stubborn one is that of `contextualize`.

*Tasks.* A third awaitable is one that neither wins nor fails; the stubborn
child may suppress its cancellation.

No symmetry is used, since most runs check liveness. `CHECK_DEADLOCK FALSE` is
set where a behaviour may stop, as the comment in the configuration says: calls
are over, bounded requests are used up, or somebody waits for a target that need
not end.

### Fairness

Weak fairness of what an event loop or a thread does by itself: a callback that
is scheduled runs, a task that is woken goes on, a thread that is not blocked
goes on, an event of the system is delivered. It is stated for the component
that the behaviour uses, over its own variables, in `LockFairness`,
`CondFairness`, `Fairness` of `Primitives` and `TasksFair`. No fairness on calls,
cancellations, closings, crashes, changes of files or signals, nor on the end of a
target, of a body or of a process, unless it was told to stop and obeys.

`threading.Lock` lets some thread in, not a given one, so `WakeSync` is fair for
the threads together; tasks are served by the code in the order of their queue.
The condition needs strong fairness of taking `_state_lock` and of the steps
`Leave` and `StartWait`, which other users disable for a moment over and over:
the lock's inner mutex is only held for moments, and a task that is ready is run
by its loop however often others run before. Whoever is inside a lock's section
leaves it (only in `Locks`, where serving others means nothing otherwise, and stated of all
callers together, since one at a time is inside); of
the file lock, `FlockServes` assumes instead that the others leave it alone for
good, since the code retries and may starve.

## Proofs

TLAPS 1.4.5 checks them; nothing is assumed but the named assumptions on the
constants (`LockAssumption`, `StateAssumption`, `GatherAssumption`, ...), which
TLC evaluates in the runs. Every safety property that a passing run checks is
proved, of the specification that the run checks (but its fairness, which safety
does not need): the invariants, and that the lock implements `Mutex` and the
managers implement `RemoteCall`; and so is, beyond the runs, that a notifier is alone
(`NotifyIsWhole`). Hardly any of them is inductive as it stands; what
had to be added tells where a cancellation, a message or a wake-up is while it is
on its way. Each invariant is a conjunction of named parts, with a lemma per
action.

The first four modules prove a component by itself. In the runs it is a part of
`Locks`, `Primitives` or `Tasks`, whose members that are not used stand still,
so that a behaviour of these is one of each member, or nearly: `CondStep` and
`LocksUseLock`, the `...Idle` lemmas, `TasksImplementParts`.

* `ThreadsafeLockProofs`. `MutualExclusion` is not inductive: after a hand-off
  the next owner is a future with a callback scheduled, not a program counter.
  `LockInv` has two parts. `QueueInv` holds whoever calls `release_async`: `_locked`
  is set whenever somebody is in or waits, a queued future was not served yet, and
  the counter equals the number of threads that wait. `OwnersInv` needs that only
  the owner does: there is at most one `Owner`, a notion that covers those on their
  way (`given`), and `_sync_lock` is locked for it. One lemma per action, then the
  theorems by `PTL`. `HandOver` adds that a locked `_sync_lock` has an owner at all,
  and is about steps: the next owner is the last one, or was alive when it was
  chosen. `Refinement` maps each action to a step of `Mutex` or to stuttering,
  under `LockInv`.
* `LocksProofs`. Whatever a condition does to its lock is a step of
  `ThreadsafeLock`, none, or `LeaveLost` (`LocksUseLock`). That last one keeps
  `QueueInv`; it keeps `OwnersInv` only if the task had been given the lock, and
  otherwise the behaviour is `Strayed` for good (`StrayedStays`). So what follows from
  `QueueInv` holds always, and the rest until somebody strays, which the run
  `condition_stray` shows to happen. `CondInv` says when it cannot: who sleeps is
  outside of the lock (`SleepersOutside`), only who sleeps is signalled, who notifies
  is inside until the set of waiters is cleared (`NotifierInside`, whence
  `NotifyIsWhole`, again until somebody strays), and a wait whose shield does not
  absorb has a cancellation already (`ShieldCounts`), without which it could end
  without its lock after one.
* `ThreadsafeStateProofs`. `StateInv` ties the three sets in which a waiter can
  be (registered with its loop, blocked, signalled) to the value: a waiter whose
  predicate accepts the value is being woken, or its loop is closed.
* `GatherProofs`. `GatherInv` strengthens the properties by `CancelsSeen`:
  while gather waits, `cancelled` or the error on its way accounts for every
  cancellation, without which "returned only if nobody cancelled" is not preserved
  by the last step. Since the other combinators take the same steps on `Gather`'s
  variables, the lemmas are stated for single actions.
* `CombinatorsProofs`. `Phases` says how far a combinator and the gather it ends in
  are with respect to each other. On top of it, `RaceInv`: the winner is done and
  among the racers, and the others are what is gathered; `ContextsInv`: all
  entries are over before an exit starts, and the exit of a manager that is not
  open never does; `AmassInv`: what was started is pending, or was looked at;
  `MapInv`: every job counts (`JobsCounted`), an item has a place once it was taken
  (`ItemsFresh`), a result is in the place of its item, or of its return
  (`OrderedPlaces`, `UnorderedPlaces`), it stays in the queue until it is yielded
  (`Kept`), and an ordered queue is closed when all items were taken
  (`ClosedLast`). Limits are about cardinalities, and
  the order about sequences, of any length.
* `ContextualizeProofs`. That no cancellation is lost is a statement about the
  end of a context, and says nothing of the way there. `ContextInv` adds to the
  properties where each is meanwhile: `Counted` (in the body, the task's count is
  what it had, plus others' cancellations, plus the scope's, and a CancelledError
  is due for the latter two), `Stages` (while `cancel_task` waits, its own request
  is one of those that the background got) and `PassedOn` (one that came
  meanwhile is a second request, which the background has met or will meet, also
  if it has not started yet).
* `PrimitivesProofs`. `UnlockSeen` is inductive with the program counters'
  range. `ProcessInv` adds that asyncio knows only of exits that happened
  (`ProcessKnown`) and that each cancellation is yet to be met or was
  (`WaitCounts`). `ShieldInv` counts iterations against cancellations: each
  iteration but the first was begun by one (`CancelsCounted`), so that the
  awaitable is only told after all of them (`Iterations`). `SignalInv` splits the
  task's count into what it had, others' cancellations and the scope's
  (`SignalCounts`). `NestInv` keeps the queue free of duplicates, of tasks that
  inherited the lock, and of the holder (`NestShape`), and so `RWInv` the queues of
  the read-write lock of whoever was granted it (`InQueues`), whose owners
  are of the lock's mode (`Owned`). `WatchInv` says where the handler of a path is
  between two system calls (`Places`: it rests only if nothing appeared below what
  is watched that an event will not tell) and that what was last reported, or
  will be by the calls that are scheduled, agrees with what is watched (`Reports`).
  `ServerInv` ties the stages of the server's background to its group
  (`ServerStages`: nobody joins a group that was left) and says that, unless
  the task is cancelled, only a failing handler disturbs it, and only before it
  waits for the others (`Undisturbed`).
* `TasksProofs`. `RemoteInv` follows a spawn through both queues: a target is asked
  for once, before it exists (`RequestsFresh`); an answer is that of a target that
  ended, and comes once (`AnswersFresh`); a future tells how the target ended or is
  pending (`FuturesTrue`); in the thread, the group knows every target that has no
  answer on its way (`Supervised`); a dead child runs nothing (`DeadIsGone`).
  `SpawnsNested` maps each step to one of `RemoteCall`, or none: it needs that a
  caller stays until its future is done, or the child is dead and receives no more
  (`CallersStay`), so that nothing starts for a caller that has gone.
  `LaunchInv` orders what the two threads of a launch do without a lock: the target's
  first step is ahead of "running" in the queue, and the main task is not woken
  before the target ended (`QueueInOrder`); each stage tells what was assigned before
  (`ThreadInOrder`), and the caller is past a wait only if its stage was reached
  (`CallerInOrder`); a cancellation is noted, or will be (`CancelsRemembered`).

Only model-checked: the six liveness properties (`LocksServe`, `WokenReturns`,
`PrimitivesServe`, `CombinatorsEnd`, `RemoteEnds`, `LaunchEnds`). They need fairness
and ENABLED, which the installed provers cannot reason about. There are no
RECURSIVE definitions in the modules.

## What the code does not do

Beyond the nine violation runs, the models show, or reading the code does,
behaviours that differ from what a reader may expect. The properties exclude
them by name rather than by leaving them out of the model.

* `contextualize.py`: a `CancelledError` that the body raises because something
  it awaited had been cancelled is swallowed if the task itself never was
  (`scope.py:57`); a body that suppresses the scope's CancelledError leaves the
  count raised (line 21 says the task "is uncancelled once the scope is exited");
  a cancellation in the round in which the background ended is lost
  (`guaranteed_task.py:28-37`, `cancel.py:28-32`).
* `cancel.py`: of a task that is done and cancelled, `cancel_task` raises the
  CancelledError that line 13 says is suppressed.
* `thread_manager.py`: `cancelled` is never set, so a value may be returned to a
  caller that was cancelled; a spawn that meets the exit waits for ever; ids are
  read and written without a lock (the models take them to be unique).
* `multiprocessing.py`: a child that receives a task and its cancellation at once
  never answers; spawns pending at the exit are not resolved, contrary to the
  comment on lines 155-156, because the reading loop is unwound first; `read(n)`
  may return fewer bytes (messages are whole in the model).
* `thread_safe_state.py`: `wait` never returns a value (lines 59-80).
* `map.py`, `internal/queue.py`: an unordered queue that is closed wakes nobody,
  and ends although mappers run, whose results are lost. `MapAccounts` claims no more
  for it than that what is queued stays until the end.
* `concurrent_contexts.py:99`: the exits are gathered with `sensitive=True`, so
  that a failing exit cancels the others, contrary to lines 54-56. The properties
  demand neither: exits may be cancelled once one failed (`CleanupShielded`), and the
  context is over when all exits are (`ContextsStop`).
* `shield.py:120-121`: `shield_wait_forever` raises CancelledError in place of the
  result if its caller was cancelled, although line 95 and line 29 of `readme.md`
  say that it ignores cancellation requests, and line 106 that it returns the
  result. `ShieldReports` leaves open which.
* `signals.py:76-79`: a signal that the loop has not looked at when the body ends
  raises nothing, although line 28 says that the exception is raised if control is
  never yielded back to the loop: the handler, which is removed then, never runs.
* `thread_safe_lock.py:136, 142`: a wait loses the lock at the first cancellation
  while it takes it back, if the task had a cancellation request when it called
  `wait`, as in a `finally` block; then as in the run `condition_stray`.
* `watch.py`: with `call_immediately=False` the first event leaves
  `last_reported_exists` unset, so that every later one is taken for a first and
  none is reported (lines 70-75); without debouncing, the exit cancels only the
  call scheduled last, and the others are made afterwards (lines 79, 90, 207);
  a directory moved away above the one that is watched goes unseen.
* `scope.py`: a body that raises another exception after a cancellation by
  the scope leaves the task's count raised (also in `handle_signal`).
* `experiments/rw_lock.py`: a caller cancelled in the queue stays there, is granted
  the lock later and never lets go, although lines 43-45 consider the case.
* `experiments/smart_lock.py`: a shared request is granted to the first owner
  again and the loop left (lines 88-97), granting again resets its scope, and an
  owner that is not weak may be cancelled (lines 99-114).
* `tcp.py`: a connection that is made while the group aborts, or whose task
  is cancelled before its first step, is closed by its client only; the server
  waits for it if the version of Python waits for connections at all.
* `handle.py:43`: the assertion of `DaemonHandle.__aenter__` cannot hold.
* `zip.py:75`: StopAsyncIteration raised in a generator becomes a RuntimeError.
* `aiter.py:45-52`: `buffer_aiter` yields one item and ends; an empty iterable
  ends in a RuntimeError, which may hide an item.

## Not modelled

Within the modelled components: payloads, messages and texts of exceptions; the
buffers and the bytes of streams (sending is one step); how many workers an
executor has; garbage collection; interpreters without a global lock; which of
several equal signals is which; what a task does after it was cancelled out of a
lock or a condition and left its block; two cancellation requests that asyncio
delivers as one, since the first was not yet met; a mapper that raises
CancelledError by itself, or an iterable whose next item is an exception
(`map.py:83`, `92-94`), which would leave its place in the queue empty; a
notification of a waiter whose loop is closed (`thread_safe_lock.py:106-109`),
which the code drops. A target whose outcome cannot be pickled is one that fails.
The server follows the task groups of Python 3.12.

Of the repository:

* `zip`: a loop around `gather`, whose model already says what a round does; the
  end of an iterator is not an interleaving question (see above).
* `Latch`, the iterators of `aiter.py`, `prime.py`: a latch is one future and a
  flag, changed in single steps of one loop; `buffer_aiter` never gets to use its
  queue; the others keep nothing between two calls.
* `io.py`: registers callbacks and moves bytes.
* `run_in_thread_loop*`, `to_thread*`, `contextualized` variants of the launch:
  calls of the launch, and of what it returns, in sequence.
* `suppress` by itself, `DaemonHandle`, `start_process`, `send_signal`,
  `try_wait`: single calls of what is modelled or of asyncio.
* `run.py`, `repeat.py`, `closing.py`, `checkpoint.py`, `awaitable.py`,
  `event_loop.py`, `file_modes.py` and the like: stateless wrappers.
* `experiments/` but the read-write lock: unfinished (to-dos where the behaviour
  in question would be decided, a loop that sleeps for two seconds in place of
  running, a future that is never resolved) and not part of the package.

## Plan

Abstract specifications that the models could be shown to implement, beside
`Mutex` and `RemoteCall`: a condition variable, which `ThreadsafeCondition` implements when nobody
is cancelled; a queue, which the ordered and the unordered `Map` implement.
