----------------------------- MODULE RemoteSpawn -----------------------------
(***************************************************************************)
(* What ThreadManager.spawn (modules/thread_manager.py) and                *)
(* MultiprocessingProcess.spawn (modules/multiprocessing.py) have in       *)
(* common: a task asks another loop to run a target, awaits a future       *)
(* behind a shield, and forwards its cancellations, until the target's     *)
(* outcome comes back. Each spawn has an id of its own.                    *)
(***************************************************************************)
EXTENDS Naturals, Sequences, SequencesExt

CONSTANTS
  Spawners,        (* tasks, each of which spawns one target               *)
  StubbornTargets, (* those whose target may suppress its cancellations    *)
  MaxSpawnCancels  (* bounds how often all of them are cancelled           *)

ASSUME RemoteAssumption == StubbornTargets \subseteq Spawners /\ MaxSpawnCancels \in Nat

VARIABLES
  remote,          (* "thread" or "process": which of the two this is      *)
  remoteStage,     (* how far the remote side's start and stop are         *)
  spawn,           (* where each call of spawn is, or how it ended         *)
  future,          (* its future                                           *)
  must,            (* spawners to get a CancelledError at their next step  *)
  forwarded,       (* spawners that sent a cancellation                    *)
  spawnCancels,    (* how often anybody was cancelled                      *)
  requests,        (* on the way to the remote loop, in order              *)
  answers,         (* spawners whose outcome is on the way back, in order  *)
  target,          (* its target's task: not created, created (no step made*)
                   (* yet), running, or how it ended                       *)
  targetTold       (* targets to get a CancelledError at their next step   *)

callVars == <<spawn, future, must, forwarded, spawnCancels>>
targetVars == <<target, targetTold>>
spawnVars == <<remote, remoteStage, callVars, requests, answers, targetVars>>

SpawnOutcomes == {"value", "error", "cancelled"}
Ended(s) == target[s] \in SpawnOutcomes
Over(s) == spawn[s] \in SpawnOutcomes \cup {"lost"}
Resolved(s) == future[s] \in SpawnOutcomes \cup {"lost"}

SpawnInit == /\ remoteStage = "open"
             /\ spawn = [s \in Spawners |-> "idle"]
             /\ future = [s \in Spawners |-> "none"]
             /\ must = {}
             /\ forwarded = {}
             /\ spawnCancels = 0
             /\ requests = <<>>
             /\ answers = <<>>
             /\ target = [s \in Spawners |-> "none"]
             /\ targetTold = {}

-----------------------------------------------------------------------------
(* The spawner's side.                                                     *)

Request(what, s) == requests' = Append(requests, <<what, s>>)

(* spawn, up to its first await. *)
Call(s) == /\ spawn[s] = "idle"
           /\ spawn' = [spawn EXCEPT ![s] = "waiting"]
           /\ future' = [future EXCEPT ![s] = "pending"]
           /\ Request("create", s)
           /\ UNCHANGED <<remote, remoteStage, must, forwarded, spawnCancels, answers,
                          targetVars>>

(* The request cannot be sent: spawn raises what sending it raises. *)
Refuse(s) == /\ spawn[s] \in {"idle", "waiting"}
             /\ spawn' = [spawn EXCEPT ![s] = "lost"]
             /\ must' = must \ {s}
             /\ UNCHANGED <<remote, remoteStage, future, forwarded, spawnCancels, requests,
                            answers, targetVars>>

CancelSpawn(s) == /\ spawn[s] = "waiting"
                  /\ spawnCancels < MaxSpawnCancels
                  /\ spawnCancels' = spawnCancels + 1
                  /\ must' = must \cup {s}
                  /\ UNCHANGED <<remote, remoteStage, spawn, future, forwarded, requests,
                                 answers, targetVars>>

(* Mutation of Forward: the cancellation ends the call at once. *)
Forward_Leaves(s, sends) == /\ s \in must
                            /\ must' = must \ {s}
                            /\ forwarded' = forwarded \cup {s}
                            /\ spawn' = [spawn EXCEPT ![s] = "cancelled"]
                            /\ Request("cancel", s)
                            /\ UNCHANGED <<remote, remoteStage, future, spawnCancels, answers,
                                           targetVars>>

(* CancelledError in `await shield(future)`, the future being pending. *)
Forward(s, sends) == /\ s \in must
                     /\ ~Resolved(s)
                     /\ must' = must \ {s}
                     /\ forwarded' = forwarded \cup {s}
                     /\ IF sends THEN Request("cancel", s) ELSE UNCHANGED requests
                     /\ UNCHANGED <<remote, remoteStage, spawn, future, spawnCancels, answers,
                                    targetVars>>

(* The future is done: spawn raises CancelledError if the task was         *)
(* cancelled since, or ends as the future did.                             *)
Finish(s, outcome) ==
  /\ spawn[s] = "waiting"
  /\ Resolved(s)
  /\ spawn' = [spawn EXCEPT ![s] = IF s \in must THEN "cancelled" ELSE outcome]
  /\ must' = must \ {s}
  /\ UNCHANGED <<remote, remoteStage, future, forwarded, spawnCancels, requests, answers,
                 targetVars>>

(* FutureState.transfer, of the answer at place i. *)
Resolve(i) ==
  /\ future' = [future EXCEPT ![answers[i]] = target[answers[i]]]
  /\ answers' = RemoveAt(answers, i)
  /\ UNCHANGED <<remote, remoteStage, spawn, must, forwarded, spawnCancels, requests,
                 targetVars>>

-----------------------------------------------------------------------------
(* The target's side.                                                      *)

(* The next request is this one. *)
Receive(what, s) == /\ requests # <<>>
                    /\ Head(requests) = <<what, s>>
                    /\ requests' = Tail(requests)

StartTarget(s) == /\ target[s] = "created"
                  /\ target' = [target EXCEPT ![s] = "running"]
                  /\ UNCHANGED targetTold

(* A target that was told to stop may only suppress it if it is stubborn. *)
EndTarget(s) == /\ target[s] = "running"
                /\ \E outcome \in SpawnOutcomes :
                     /\ s \in targetTold /\ s \notin StubbornTargets => outcome # "value"
                     /\ target' = [target EXCEPT ![s] = outcome]
                /\ targetTold' = targetTold \ {s}

SuppressTarget(s) == /\ target[s] = "running"
                     /\ s \in targetTold \cap StubbornTargets
                     /\ targetTold' = targetTold \ {s}
                     /\ UNCHANGED target

-----------------------------------------------------------------------------
SpawnTypeOK ==
  /\ remote \in {"thread", "process"}
  /\ spawn \in [Spawners -> {"idle", "waiting", "lost"} \cup SpawnOutcomes]
  /\ future \in [Spawners -> {"none", "pending", "lost"} \cup SpawnOutcomes]
  /\ must \subseteq Spawners
  /\ forwarded \subseteq Spawners
  /\ spawnCancels \in 0..MaxSpawnCancels
  /\ requests \in Seq({"create", "cancel", "shutdown"} \X (Spawners \cup {"all"}))
  /\ answers \in Seq(Spawners)
  /\ target \in [Spawners -> {"none", "created", "running", "gone"} \cup SpawnOutcomes]
  /\ targetTold \subseteq Spawners

(* A spawn never lets go of its target: unless the remote side is lost, it *)
(* ends only when the target did and in the same way, or with              *)
(* CancelledError if somebody cancelled it; of another process, always     *)
(* with CancelledError if that was forwarded before a value came back. An  *)
(* answer comes once, as FutureState.transfer asserts.                     *)
SpawnReports ==
  \A s \in Spawners :
    /\ spawn[s] \in {"value", "error"} => target[s] = spawn[s]
    /\ spawn[s] = "cancelled" => /\ Ended(s) \/ future[s] = "lost"
                                 /\ target[s] = "cancelled" \/ spawnCancels > 0
    /\ remote = "process" /\ s \in forwarded => spawn[s] # "value"
    /\ (\E i \in DOMAIN answers : answers[i] = s) => future[s] = "pending"
=============================================================================
