------------------------------- MODULE Remote -------------------------------
(***************************************************************************)
(* Spawning targets into another loop, that of a ThreadManager's thread or *)
(* that of a MultiprocessingProcess's child: `remote` says which one this  *)
(* behaviour has.                                                          *)
(***************************************************************************)
EXTENDS ThreadManager, MultiprocessingProcess

remoteVars == <<spawnVars, wrapper>>

RemoteInit == /\ SpawnInit
              /\ ManagerInit
              /\ remote \in {"thread", "process"}

SpawnCaller(s) == IF remote = "thread" THEN ForwardToThread(s) \/ Finish(s, future[s])
                                       ELSE ForwardToProcess(s) \/ Finish(s, Result(s))

Calls == /\ \E s \in Spawners :
              \/ remote = "thread" /\ SpawnInThread(s)
              \/ remote = "process" /\ SpawnInProcess(s)
              \/ CancelSpawn(s)
         /\ UNCHANGED wrapper

CallersRun == (\E s \in Spawners : SpawnCaller(s)) /\ UNCHANGED wrapper

ThreadSteps == /\ remote = "thread"
               /\ \/ \E s \in Spawners : ThreadRuns(s)
                  \/ Deliver /\ UNCHANGED wrapper
                  \/ LeaveTaskGroup \/ CloseLoop

ProcessSteps == /\ remote = "process"
                /\ \/ \E s \in Spawners : ChildRuns(s)
                   \/ ReadAnswer \/ ReadEOF \/ ReadShutdown \/ ChildExits
                /\ UNCHANGED wrapper

Unforced == \/ /\ remote = "thread"
               /\ ExitManager \/ \E s \in Spawners : ThreadMay(s)
            \/ /\ remote = "process"
               /\ ExitProcess \/ Crash \/ \E s \in Spawners : ChildMay(s)
               /\ UNCHANGED wrapper

RemoteNext == Calls \/ CallersRun \/ ThreadSteps \/ ProcessSteps \/ Unforced

RemoteSpec == RemoteInit /\ [][RemoteNext]_remoteVars

(* Each loop runs what is ready, and messages arrive. A target need not    *)
(* end, unless it was told to and does not suppress that; nor need anybody *)
(* call, cancel or exit. No behaviour has infinitely many steps, so that   *)
(* no step of a loop can keep another from being taken.                    *)
RemoteSteps == CallersRun \/ ThreadSteps \/ ProcessSteps

RemoteFair == RemoteSpec /\ WF_remoteVars(RemoteSteps)

-----------------------------------------------------------------------------
RemoteTypeOK == SpawnTypeOK /\ ManagerTypeOK /\ ProcessTypeOK

(* The target of a spawn lives while its caller waits: it starts once, not *)
(* after the caller has gone, and the caller does not go while it runs,    *)
(* whatever is cancelled, exited or killed. A task that was created counts *)
(* as running.                                                             *)
Nested == INSTANCE RemoteCall
           WITH Callers <- Spawners, call <- spawn,
                run <- [s \in Spawners |->
                          IF target[s] = "created" THEN "running" ELSE target[s]]

SpawnsAreNested == Nested!Spec

(* No caller waits for ever for what happened, or for what would happen if *)
(* its target obeyed its cancellation; nor does the manager's exit.        *)
RemoteEnds == ManagerEnds /\ ProcessEnds
=============================================================================
