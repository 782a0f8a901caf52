---------------------------- MODULE TasksProofs ----------------------------
(***************************************************************************)
(* What the callers of Tasks are promised, for any number of awaitables,   *)
(* spawners and cancellations. Whichever of the combinators, the spawns    *)
(* and the launches a behaviour has, it behaves as the module of each      *)
(* says, so that they are proved one by one.                               *)
(***************************************************************************)
EXTENDS Tasks, CombinatorsProofs

(* The parts of Tasks do not disturb each other. *)
THEOREM TasksImplementParts == TasksSpec => CombinatorsSpec /\ RemoteSpec /\ LaunchSpec
<1>1. TasksInit => CombinatorsInit /\ RemoteInit /\ LaunchInit
  BY DEF TasksInit
<1>2. [TasksNext]_tasksVars => /\ [CombinatorsNext]_combinatorsVars
                               /\ [RemoteNext]_remoteVars
                               /\ [LaunchNext]_launchVars
  BY DEF TasksNext, Runs, tasksVars
<1> QED BY <1>1, <1>2, PTL DEF TasksSpec, CombinatorsSpec, RemoteSpec, LaunchSpec

-----------------------------------------------------------------------------
(* ThreadManager and MultiprocessingProcess.                               *)

(* A target is asked for once, before it exists.                           *)
RequestsFresh ==
  \A i \in 1 .. Len(requests) : \A s \in Spawners :
    requests[i] = <<"create", s>> =>
      /\ target[s] = "none" /\ future[s] \in {"pending", "lost"}
      /\ \A j \in 1 .. Len(requests) : requests[j] = <<"create", s>> => j = i

(* An answer is that of a target that has ended, and comes once.           *)
AnswersFresh ==
  \A i \in 1 .. Len(answers) :
    /\ Ended(answers[i]) /\ future[answers[i]] = "pending"
    /\ remote = "thread" => wrapper[answers[i]] = "over"
    /\ \A j \in 1 .. Len(answers) : answers[j] = answers[i] => j = i

(* A future tells how the target ended. It is pending as long as that runs,*)
(* and lost only if the child died.                                        *)
FuturesTrue ==
  \A s \in Spawners :
    /\ future[s] \in SpawnOutcomes => target[s] = future[s]
    /\ target[s] \in {"created", "running"} => future[s] = "pending"
    /\ future[s] = "lost" => remote = "process" /\ remoteStage \in {"eof", "closed"}
    /\ spawn[s] = "idle" => future[s] = "none"
    /\ future[s] = "none" => target[s] = "none"

(* Only who waits is cancelled.                                            *)
CancelsKnown ==
  /\ \A s \in must : spawn[s] = "waiting"
  /\ spawnCancels = 0 => must = {} /\ forwarded = {}

(* The task group of the thread answers for the targets it supervises; the *)
(* one of the main task has left it before the others are cancelled.       *)
Supervised ==
  \A s \in Spawners :
    /\ remote = "process" => wrapper[s] = "none"
    /\ wrapper[s] \in {"created", "waiting"} => future[s] = "pending"
    /\ wrapper[s] = "over" => /\ Ended(s)
                              /\ Resolved(s) \/ \E i \in 1 .. Len(answers) : answers[i] = s
    /\ remote = "thread" /\ remoteStage # "open" => wrapper[s] # "created"
    /\ remote = "thread" /\ remoteStage \in {"finalizing", "closed"} => wrapper[s] # "waiting"

(* Nothing runs in a child that died.                                      *)
DeadIsGone == remote = "process" /\ remoteStage \in {"crashed", "eof", "closed"} => Alive = {}

RemoteInv ==
  /\ RemoteTypeOK
  /\ RequestsFresh
  /\ AnswersFresh
  /\ FuturesTrue
  /\ CancelsKnown
  /\ Supervised
  /\ DeadIsGone
  /\ SpawnReports

-----------------------------------------------------------------------------
(* What happens to the two queues.                                         *)

Messages == {"create", "cancel", "shutdown"} \X (Spawners \cup {"all"})

LEMMA QueueLengths ==
  ASSUME SpawnTypeOK
  PROVE  /\ requests \in Seq(Messages) /\ Len(requests) \in Nat
         /\ answers \in Seq(Spawners) /\ Len(answers) \in Nat
         /\ \A i \in 1 .. Len(answers) : answers[i] \in Spawners
BY LenProperties, ElementOfSeq DEF SpawnTypeOK, Messages

LEMMA RequestSent ==
  ASSUME SpawnTypeOK, NEW what \in {"create", "cancel", "shutdown"},
         NEW s \in Spawners \cup {"all"}, Request(what, s)
  PROVE  /\ requests' \in Seq(Messages) /\ Len(requests') = Len(requests) + 1
         /\ \A i \in 1 .. Len(requests) : requests'[i] = requests[i]
         /\ requests'[Len(requests) + 1] = <<what, s>>
<1>1. <<what, s>> \in Messages BY DEF Messages
<1> QED BY <1>1, QueueLengths, AppendProperties DEF Request

LEMMA RequestReceived ==
  ASSUME SpawnTypeOK, NEW what, NEW s, Receive(what, s)
  PROVE  /\ requests' \in Seq(Messages) /\ Len(requests') = Len(requests) - 1
         /\ Len(requests) \in Nat /\ Len(requests) > 0
         /\ \A i \in 1 .. Len(requests') : requests'[i] = requests[i + 1]
         /\ requests[1] = <<what, s>>
BY QueueLengths, HeadTailProperties, EmptySeq DEF Receive

(* An answer that is delivered leaves the queue, and nothing else does.    *)
LEMMA AnswerTaken ==
  ASSUME SpawnTypeOK, NEW i \in 1 .. Len(answers), answers' = RemoveAt(answers, i)
  PROVE  /\ answers' \in Seq(Spawners) /\ Len(answers') = Len(answers) - 1
         /\ \A j \in 1 .. Len(answers') :
              answers'[j] = IF j < i THEN answers[j] ELSE answers[j + 1]
<1> DEFINE before == SubSeq(answers, 1, i - 1)
           after == SubSeq(answers, i + 1, Len(answers))
<1>1. Len(answers) \in Nat /\ i \in Nat /\ 1 <= i /\ i <= Len(answers)
  BY QueueLengths
<1>2. /\ before \in Seq(Spawners) /\ Len(before) = i - 1
      /\ \A j \in 1 .. i - 1 : before[j] = answers[j]
  BY <1>1, QueueLengths, SubSeqProperties
<1>3. /\ after \in Seq(Spawners) /\ Len(after) = Len(answers) - i
      /\ \A j \in 1 .. Len(answers) - i : after[j] = answers[i + j]
  <2>1. \A j \in (i + 1) .. Len(answers) : answers[j] \in Spawners BY <1>1, QueueLengths
  <2>2. /\ after \in Seq(Spawners)
        /\ Len(after) = IF i + 1 <= Len(answers) THEN Len(answers) - (i + 1) + 1 ELSE 0
        /\ \A j \in 1 .. Len(answers) - (i + 1) + 1 : after[j] = answers[i + 1 + j - 1]
    BY <1>1, <2>1, SubSeqProperties
  <2> QED BY <1>1, <2>2
<1>4. answers' = before \o after BY DEF RemoveAt
<1>5. /\ answers' \in Seq(Spawners) /\ Len(answers') = Len(answers) - 1
      /\ \A j \in 1 .. Len(answers) - 1 :
           answers'[j] = IF j <= i - 1 THEN before[j] ELSE after[j - (i - 1)]
  <2>1. /\ before \o after \in Seq(Spawners)
        /\ Len(before \o after) = Len(before) + Len(after)
        /\ \A j \in 1 .. Len(before) + Len(after) :
             (before \o after)[j] = IF j <= Len(before) THEN before[j] ELSE after[j - Len(before)]
    BY <1>2, <1>3, ConcatProperties
  <2> HIDE DEF before, after
  <2>2. Len(before) + Len(after) = Len(answers) - 1 BY <1>1, <1>2, <1>3
  <2> QED BY <1>2, <1>4, <2>1, <2>2
<1> HIDE DEF before, after
<1> QED BY <1>1, <1>2, <1>3, <1>5

-----------------------------------------------------------------------------
(* The steps of the callers leave the remote side alone.                   *)
RemoteKept == UNCHANGED <<remote, remoteStage, answers, targetVars, wrapper>>

(* What the remote side did stays true for callers that let a future alone.*)
LEMMA CallerKeeps ==
  ASSUME RemoteInv, RemoteKept, UNCHANGED future
  PROVE  /\ AnswersFresh' /\ Supervised' /\ DeadIsGone'
         /\ ManagerTypeOK' /\ ProcessTypeOK'
         /\ \A s \in Spawners :
              (\E i \in DOMAIN answers' : answers'[i] = s) => future'[s] = "pending"
<1> USE DEF RemoteInv, RemoteKept, targetVars
<1>1. AnswersFresh' BY DEF AnswersFresh, Ended
<1>2. Supervised' BY DEF Supervised, Ended, Resolved
<1>3. DeadIsGone' BY DEF DeadIsGone, Alive
<1>4. ManagerTypeOK' /\ ProcessTypeOK' BY DEF RemoteTypeOK, ManagerTypeOK, ProcessTypeOK
<1>5. \A s \in Spawners : (\E i \in DOMAIN answers' : answers'[i] = s) => future'[s] = "pending"
  BY DEF SpawnReports
<1> QED BY <1>1, <1>2, <1>3, <1>4, <1>5

(* spawn sends its request. *)
LEMMA CallStep ==
  ASSUME RemoteInv, NEW s \in Spawners, Call(s), UNCHANGED wrapper
  PROVE  RemoteInv'
<1> USE DEF RemoteInv
<1>1. SpawnTypeOK BY DEF RemoteTypeOK
<1>2. /\ spawn[s] = "idle" /\ future[s] = "none" /\ target[s] = "none"
      /\ spawn' = [spawn EXCEPT ![s] = "waiting"]
      /\ future' = [future EXCEPT ![s] = "pending"]
      /\ Request("create", s)
      /\ UNCHANGED <<remote, remoteStage, must, forwarded, spawnCancels, answers, target,
                     targetTold, wrapper>>
  BY DEF Call, FuturesTrue, targetVars
<1>3. /\ requests' \in Seq(Messages) /\ Len(requests') = Len(requests) + 1
      /\ Len(requests) \in Nat
      /\ \A i \in 1 .. Len(requests) : requests'[i] = requests[i]
      /\ requests'[Len(requests) + 1] = <<"create", s>>
  BY <1>1, <1>2, RequestSent, QueueLengths
<1>4. /\ spawn'[s] = "waiting" /\ future'[s] = "pending"
      /\ \A r \in Spawners \ {s} : spawn'[r] = spawn[r] /\ future'[r] = future[r]
  BY <1>1, <1>2 DEF SpawnTypeOK
<1>5. RemoteTypeOK'
  BY <1>1, <1>2, <1>3 DEF RemoteTypeOK, SpawnTypeOK, ManagerTypeOK, ProcessTypeOK, Messages
<1>6. RequestsFresh'
  <2> SUFFICES ASSUME NEW i \in 1 .. Len(requests'), NEW r \in Spawners,
                      requests'[i] = <<"create", r>>
               PROVE  /\ target'[r] = "none" /\ future'[r] \in {"pending", "lost"}
                      /\ \A j \in 1 .. Len(requests') : requests'[j] = <<"create", r>> => j = i
    BY DEF RequestsFresh
  <2>1. \A j \in 1 .. Len(requests) : requests[j] # <<"create", s>>
    BY <1>2 DEF RequestsFresh
  <2>2. CASE i = Len(requests) + 1
    BY <1>2, <1>3, <1>4, <2>1, <2>2
  <2>3. CASE i # Len(requests) + 1
    <3>1. i \in 1 .. Len(requests) /\ requests[i] = <<"create", r>> /\ r # s
      BY <1>3, <2>1, <2>3
    <3>2. /\ target[r] = "none" /\ future[r] \in {"pending", "lost"}
          /\ \A j \in 1 .. Len(requests) : requests[j] = <<"create", r>> => j = i
      BY <3>1 DEF RequestsFresh
    <3>3. requests'[Len(requests) + 1] # <<"create", r>> BY <1>3, <3>1
    <3>4. \A j \in 1 .. Len(requests') : requests'[j] = <<"create", r>> => j = i
      BY <1>3, <3>2, <3>3
    <3> QED BY <1>2, <1>4, <3>1, <3>2, <3>4
  <2> QED BY <2>2, <2>3
<1>7. AnswersFresh'
  BY <1>1, <1>2, <1>4, QueueLengths DEF AnswersFresh, Ended
<1>8. FuturesTrue' BY <1>2, <1>4 DEF FuturesTrue, SpawnOutcomes
<1>9. CancelsKnown' BY <1>1, <1>2, <1>4 DEF CancelsKnown, SpawnTypeOK
<1>10. Supervised' BY <1>2, <1>4 DEF Supervised, Ended, Resolved, SpawnOutcomes
<1>11. DeadIsGone' BY <1>2 DEF DeadIsGone, Alive
<1>12. SpawnReports' BY <1>2, <1>4 DEF SpawnReports, Ended, SpawnOutcomes
<1> QED BY <1>5, <1>6, <1>7, <1>8, <1>9, <1>10, <1>11, <1>12

(* A spawn ends: as its future did, cancelled, or without an answer.       *)
LEMMA SpawnEnds ==
  ASSUME RemoteInv, NEW s \in Spawners, NEW how \in SpawnOutcomes \cup {"lost"},
         spawn' = [spawn EXCEPT ![s] = how], must' = must \ {s},
         UNCHANGED <<future, forwarded, spawnCancels, requests, wrapper>>,
         RemoteKept,
         how \in {"value", "error"} => target[s] = how,
         how = "cancelled" => /\ Ended(s) \/ future[s] = "lost"
                              /\ target[s] = "cancelled" \/ spawnCancels > 0,
         remote = "process" /\ s \in forwarded => how # "value"
  PROVE  RemoteInv'
<1> USE DEF RemoteInv
<1>1. SpawnTypeOK BY DEF RemoteTypeOK
<1>2. /\ spawn'[s] = how
      /\ \A r \in Spawners \ {s} : spawn'[r] = spawn[r]
  BY <1>1 DEF SpawnTypeOK
<1>3. UNCHANGED <<remote, remoteStage, answers, target, targetTold>> BY DEF RemoteKept, targetVars
<1>4. SpawnTypeOK' BY <1>1, <1>3 DEF SpawnTypeOK
<1>5. RequestsFresh' BY <1>3 DEF RequestsFresh
<1>6. FuturesTrue' BY <1>2, <1>3 DEF FuturesTrue, SpawnOutcomes
<1>7. CancelsKnown' BY <1>1, <1>2 DEF CancelsKnown, SpawnTypeOK
<1>8. SpawnReports'
  <2> SUFFICES ASSUME NEW r \in Spawners
               PROVE  /\ spawn'[r] \in {"value", "error"} => target'[r] = spawn'[r]
                      /\ spawn'[r] = "cancelled" =>
                            /\ Ended(r)' \/ future'[r] = "lost"
                            /\ target'[r] = "cancelled" \/ spawnCancels' > 0
                      /\ remote' = "process" /\ r \in forwarded' => spawn'[r] # "value"
    BY CallerKeeps DEF SpawnReports
  <2>1. CASE r = s BY <1>2, <1>3, <2>1 DEF Ended
  <2>2. CASE r # s BY <1>2, <1>3, <2>2 DEF Ended, SpawnReports
  <2> QED BY <2>1, <2>2
<1> QED BY <1>4, <1>5, <1>6, <1>7, <1>8, CallerKeeps DEF RemoteTypeOK

(* A caller is cancelled, or passes that on.                               *)
LEMMA CancelSpawnStep ==
  ASSUME RemoteInv, NEW s \in Spawners, CancelSpawn(s), UNCHANGED wrapper
  PROVE  RemoteInv'
<1> USE DEF RemoteInv
<1>1. /\ RemoteKept /\ UNCHANGED <<future, spawn, forwarded, requests>>
      /\ must' = must \cup {s} /\ spawnCancels' = spawnCancels + 1 /\ spawn[s] = "waiting"
      /\ spawnCancels < MaxSpawnCancels
  BY DEF CancelSpawn, RemoteKept
<1>2. UNCHANGED <<remote, remoteStage, answers, target, targetTold>>
  BY <1>1 DEF RemoteKept, targetVars
<1>3. spawnCancels \in Nat /\ SpawnTypeOK /\ MaxSpawnCancels \in Nat
  BY RemoteAssumption DEF RemoteTypeOK, SpawnTypeOK
<1>4. SpawnTypeOK' BY <1>1, <1>2, <1>3 DEF SpawnTypeOK
<1>5. RequestsFresh' BY <1>1, <1>2 DEF RequestsFresh
<1>6. FuturesTrue' BY <1>1, <1>2 DEF FuturesTrue
<1>7. CancelsKnown' BY <1>1, <1>3 DEF CancelsKnown
<1>8. SpawnReports' BY <1>1, <1>2, <1>3 DEF SpawnReports, Ended
<1> QED BY <1>1, <1>4, <1>5, <1>6, <1>7, <1>8, CallerKeeps DEF RemoteTypeOK

LEMMA ForwardStep ==
  ASSUME RemoteInv, NEW s \in Spawners, NEW sends \in BOOLEAN, Forward(s, sends),
         UNCHANGED wrapper
  PROVE  RemoteInv'
<1> USE DEF RemoteInv
<1>1. /\ RemoteKept /\ UNCHANGED <<future, spawn, spawnCancels>>
      /\ s \in must /\ must' = must \ {s} /\ forwarded' = forwarded \cup {s}
      /\ Request("cancel", s) \/ UNCHANGED requests
  BY DEF Forward, RemoteKept
<1>2. UNCHANGED <<remote, remoteStage, answers, target, targetTold>>
  BY <1>1 DEF RemoteKept, targetVars
<1>3. SpawnTypeOK /\ spawn[s] = "waiting" /\ Len(requests) \in Nat
  BY <1>1, QueueLengths DEF RemoteTypeOK, CancelsKnown
<1>4. /\ requests' \in Seq(Messages) /\ Len(requests') \in {Len(requests), Len(requests) + 1}
      /\ \A i \in 1 .. Len(requests) : requests'[i] = requests[i]
      /\ Len(requests') # Len(requests) => requests'[Len(requests) + 1] = <<"cancel", s>>
  <2>1. CASE Request("cancel", s) BY <1>3, <2>1, RequestSent
  <2>2. CASE UNCHANGED requests BY <1>3, <2>2, QueueLengths
  <2> QED BY <1>1, <2>1, <2>2
<1>5. SpawnTypeOK' BY <1>1, <1>2, <1>3, <1>4 DEF SpawnTypeOK, Messages
<1>6. RequestsFresh'
  <2> SUFFICES ASSUME NEW i \in 1 .. Len(requests'), NEW r \in Spawners,
                      requests'[i] = <<"create", r>>
               PROVE  /\ target'[r] = "none" /\ future'[r] \in {"pending", "lost"}
                      /\ \A j \in 1 .. Len(requests') : requests'[j] = <<"create", r>> => j = i
    BY DEF RequestsFresh
  <2>1. \A j \in 1 .. Len(requests') : requests'[j] = <<"create", r>> =>
          j \in 1 .. Len(requests) /\ requests[j] = <<"create", r>>
    BY <1>3, <1>4
  <2> QED BY <1>1, <1>2, <2>1 DEF RequestsFresh
<1>7. FuturesTrue' BY <1>1, <1>2 DEF FuturesTrue
<1>8. CancelsKnown' BY <1>1 DEF CancelsKnown
<1>9. SpawnReports' BY <1>1, <1>2, <1>3 DEF SpawnReports, Ended
<1> QED BY <1>1, <1>5, <1>6, <1>7, <1>8, <1>9, CallerKeeps DEF RemoteTypeOK

(* Everything that a caller does. *)
LEMMA CallersStep ==
  ASSUME RemoteInv, Calls \/ CallersRun
  PROVE  RemoteInv'
<1> USE DEF RemoteInv
<1>1. UNCHANGED wrapper BY DEF Calls, CallersRun
<1>2. ASSUME NEW s \in Spawners, Refuse(s) PROVE RemoteInv'
  <2>1. RemoteKept BY <1>1, <1>2 DEF Refuse, RemoteKept
  <2> QED BY <1>1, <1>2, <2>1, SpawnEnds DEF Refuse
<1>3. ASSUME NEW s \in Spawners, NEW outcome \in SpawnOutcomes \cup {"lost"},
             Finish(s, outcome), outcome = IF remote = "thread" THEN future[s] ELSE Result(s)
      PROVE  RemoteInv'
  <2> DEFINE how == IF s \in must THEN "cancelled" ELSE outcome
  <2>1. RemoteKept BY <1>1, <1>3 DEF Finish, RemoteKept
  <2>2. /\ spawn' = [spawn EXCEPT ![s] = how] /\ must' = must \ {s} /\ Resolved(s)
        /\ UNCHANGED <<future, forwarded, spawnCancels, requests, wrapper>>
    BY <1>1, <1>3 DEF Finish
  <2>3. how \in SpawnOutcomes \cup {"lost"} BY DEF SpawnOutcomes
  <2>4. spawnCancels \in Nat BY DEF RemoteTypeOK, SpawnTypeOK
  <2>5. s \in must \/ s \in forwarded => spawnCancels > 0
    BY <2>4 DEF CancelsKnown
  <2>6. future[s] # "lost" => Ended(s) /\ target[s] = future[s]
    BY <2>2 DEF Resolved, FuturesTrue, Ended
  <2>7. how \in {"value", "error"} => target[s] = how
    BY <1>3, <2>6 DEF Result
  <2>8. how = "cancelled" => /\ Ended(s) \/ future[s] = "lost"
                             /\ target[s] = "cancelled" \/ spawnCancels > 0
    BY <1>3, <2>5, <2>6 DEF Result
  <2>9. remote = "process" /\ s \in forwarded => how # "value"
    BY <1>3 DEF Result
  <2> HIDE DEF how
  <2> QED BY <2>1, <2>2, <2>3, <2>7, <2>8, <2>9, SpawnEnds
<1>4. ASSUME NEW s \in Spawners, Finish(s, future[s]) \/ Finish(s, Result(s))
      PROVE  future[s] \in SpawnOutcomes \cup {"lost"} /\ Result(s) \in SpawnOutcomes \cup {"lost"}
  BY <1>4 DEF Finish, Resolved, Result, SpawnOutcomes
<1>5. CASE Calls
  BY <1>1, <1>2, <1>5, CallStep, CancelSpawnStep DEF Calls, SpawnInThread, SpawnInProcess
<1>6. ASSUME NEW s \in Spawners, SpawnCaller(s) PROVE RemoteInv'
  <2>1. CASE ForwardToThread(s)
    BY <1>1, <2>1, ForwardStep DEF ForwardToThread
  <2>2. CASE ForwardToProcess(s)
    BY <1>1, <1>2, <2>2, ForwardStep DEF ForwardToProcess
  <2>3. CASE remote = "thread" /\ Finish(s, future[s])
    <3>1. future[s] \in SpawnOutcomes \cup {"lost"} BY <1>4, <2>3
    <3> QED BY <1>3, <2>3, <3>1
  <2>4. CASE remote # "thread" /\ Finish(s, Result(s))
    <3>1. Result(s) \in SpawnOutcomes \cup {"lost"} BY <1>4, <2>4
    <3> QED BY <1>3, <2>4, <3>1
  <2> QED BY <1>6, <2>1, <2>2, <2>3, <2>4 DEF SpawnCaller
<1> QED BY <1>5, <1>6 DEF CallersRun

-----------------------------------------------------------------------------
(* The steps of the remote side leave the callers alone, but for what they *)
(* tell them. A target is created when it is asked for, starts and ends.   *)
Moves(s) ==
  \/ target'[s] = target[s]
  \/ target[s] \in {"created", "running"} /\ target'[s] \in {"running", "gone"} \cup SpawnOutcomes
  \/ /\ target[s] = "none" /\ target'[s] = "created"
     /\ future[s] = "pending" /\ Receive("create", s)

Answers(s) ==
  /\ answers' = Append(answers, s)
  /\ Ended(s)' /\ future[s] = "pending"
  /\ remote = "thread" => wrapper'[s] = "over"
  /\ \A i \in 1 .. Len(answers) : answers[i] # s

(* The queue of the requests gets shorter, or stays.                       *)
LEMMA RequestsShrink ==
  ASSUME SpawnTypeOK,
         \/ UNCHANGED requests \/ requests' = <<>>
         \/ requests # <<>> /\ requests' = Tail(requests)
  PROVE  /\ requests' \in Seq(Messages)
         /\ \E k \in Nat : \A i \in 1 .. Len(requests') :
              i + k \in 1 .. Len(requests) /\ requests'[i] = requests[i + k]
         /\ requests # <<>> /\ requests' = Tail(requests) =>
              \A i \in 1 .. Len(requests') :
                i + 1 \in 2 .. Len(requests) /\ requests'[i] = requests[i + 1]
<1>1. requests \in Seq(Messages) /\ Len(requests) \in Nat BY QueueLengths
<1>2. CASE UNCHANGED requests /\ ~(requests # <<>> /\ requests' = Tail(requests))
  <2>1. \A i \in 1 .. Len(requests') : i + 0 \in 1 .. Len(requests) /\ requests'[i] = requests[i + 0]
    BY <1>1, <1>2
  <2> QED BY <1>1, <1>2, <2>1
<1>3. CASE requests' = <<>> /\ ~(requests # <<>> /\ requests' = Tail(requests))
  <2>1. requests' \in Seq(Messages) /\ Len(requests') = 0 BY <1>3
  <2>2. \A i \in 1 .. Len(requests') : i + 0 \in 1 .. Len(requests) /\ requests'[i] = requests[i + 0]
    BY <2>1
  <2> QED BY <1>3, <2>1, <2>2
<1>4. CASE requests # <<>> /\ requests' = Tail(requests)
  <2>1. requests' \in Seq(Messages) /\ Len(requests') = Len(requests) - 1
        /\ \A i \in 1 .. Len(requests') : requests'[i] = requests[i + 1]
    BY <1>1, <1>4, HeadTailProperties
  <2>2. \A i \in 1 .. Len(requests') :
          i + 1 \in 2 .. Len(requests) /\ requests'[i] = requests[i + 1]
    BY <1>1, <2>1
  <2>3. \A i \in 1 .. Len(requests') :
          i + 1 \in 1 .. Len(requests) /\ requests'[i] = requests[i + 1]
    BY <2>2
  <2> QED BY <2>1, <2>2, <2>3
<1> QED BY <1>2, <1>3, <1>4

LEMMA RemoteMoves ==
  ASSUME RemoteInv,
         UNCHANGED <<remote, callVars>>,
         target' \in [Spawners -> {"none", "created", "running", "gone"} \cup SpawnOutcomes],
         targetTold' \subseteq Spawners,
         \A s \in Spawners : Moves(s),
         \A s \in Spawners : wrapper[s] = "over" => wrapper'[s] = "over",
         remote = "process" /\ remoteStage \in {"eof", "closed"} =>
            remoteStage' \in {"eof", "closed"},
         \/ UNCHANGED requests \/ requests' = <<>>
         \/ requests # <<>> /\ requests' = Tail(requests),
         UNCHANGED answers \/ \E s \in Spawners : Answers(s)
  PROVE  /\ SpawnTypeOK' /\ RequestsFresh' /\ AnswersFresh' /\ FuturesTrue' /\ CancelsKnown'
         /\ SpawnReports'
         /\ \A s \in Spawners : Ended(s) => Ended(s)'
         /\ \A i \in 1 .. Len(answers) : i \in 1 .. Len(answers') /\ answers'[i] = answers[i]
<1> USE DEF RemoteInv
<1>1. SpawnTypeOK BY DEF RemoteTypeOK
<1>2. UNCHANGED <<remote, spawn, future, must, forwarded, spawnCancels>> BY DEF callVars
<1>3. \A s \in Spawners : target[s] # "none" => \/ target'[s] = target[s]
                                               \/ /\ target[s] \in {"created", "running"}
                                                  /\ target'[s] # "created"
                                                  /\ target'[s] # "none"
  BY DEF Moves, SpawnOutcomes
<1>4. \A s \in Spawners : target[s] \in SpawnOutcomes \cup {"gone"} => target'[s] = target[s]
  BY DEF Moves, SpawnOutcomes
<1>5. \A s \in Spawners : Ended(s) => Ended(s)' BY <1>4 DEF Ended
<1>6. /\ answers' \in Seq(Spawners)
      /\ Len(answers) \in Nat
      /\ \A i \in 1 .. Len(answers) : i \in 1 .. Len(answers') /\ answers'[i] = answers[i]
      /\ \/ UNCHANGED answers
         \/ \E s \in Spawners : /\ Answers(s)
                                /\ Len(answers') = Len(answers) + 1
                                /\ answers'[Len(answers) + 1] = s
  <2>1. CASE UNCHANGED answers BY <1>1, <2>1, QueueLengths
  <2>2. ASSUME NEW s \in Spawners, Answers(s) 
        PROVE  /\ answers' \in Seq(Spawners)
               /\ Len(answers) \in Nat
               /\ \A i \in 1 .. Len(answers) : i \in 1 .. Len(answers') /\ answers'[i] = answers[i]
               /\ Len(answers') = Len(answers) + 1
               /\ answers'[Len(answers) + 1] = s
    <3>1. answers \in Seq(Spawners) /\ answers' = Append(answers, s) /\ Len(answers) \in Nat
      BY <1>1, <2>2, QueueLengths DEF Answers
    <3> QED BY <3>1, AppendProperties
  <2> QED BY <2>1, <2>2
<1>7. SpawnTypeOK'
  BY <1>1, <1>2, <1>6, RequestsShrink DEF SpawnTypeOK, Messages
<1>8. RequestsFresh'
  <2> SUFFICES ASSUME NEW i \in 1 .. Len(requests'), NEW s \in Spawners,
                      requests'[i] = <<"create", s>>
               PROVE  /\ target'[s] = "none" /\ future[s] \in {"pending", "lost"}
                      /\ \A j \in 1 .. Len(requests') : requests'[j] = <<"create", s>> => j = i
    BY <1>2 DEF RequestsFresh
  <2>1. PICK k \in Nat : \A j \in 1 .. Len(requests') :
           j + k \in 1 .. Len(requests) /\ requests'[j] = requests[j + k]
    BY <1>1, RequestsShrink
  <2>2. /\ target[s] = "none" /\ future[s] \in {"pending", "lost"}
        /\ \A j \in 1 .. Len(requests) : requests[j] = <<"create", s>> => j = i + k
    BY <2>1 DEF RequestsFresh
  <2>3. \A j \in 1 .. Len(requests') : requests'[j] = <<"create", s>> => j = i
    <3> SUFFICES ASSUME NEW j \in 1 .. Len(requests'), requests'[j] = <<"create", s>> PROVE j = i
      OBVIOUS
    <3>1. j + k = i + k BY <2>1, <2>2
    <3>2. i \in Int /\ j \in Int /\ k \in Int OBVIOUS
    <3> QED BY <3>1, <3>2
  <2>4. ~Receive("create", s)
    <3> SUFFICES ASSUME Receive("create", s) PROVE FALSE OBVIOUS
    <3>1. requests # <<>> /\ requests' = Tail(requests) BY DEF Receive
    <3>2. i + 1 \in 2 .. Len(requests) /\ requests[i + 1] = <<"create", s>>
      BY <1>1, <3>1, RequestsShrink
    <3>3. 1 \in 1 .. Len(requests) /\ requests[1] = <<"create", s>>
      BY <1>1, RequestReceived
    <3>4. i + 1 = i + k /\ 1 = i + k
      BY <2>2, <3>2, <3>3
    <3> QED BY <3>2, <3>4
  <2> QED BY <2>2, <2>3, <2>4 DEF Moves
<1>9. AnswersFresh'
  <2> SUFFICES ASSUME NEW i \in 1 .. Len(answers')
               PROVE  /\ target'[answers'[i]] \in SpawnOutcomes /\ future[answers'[i]] = "pending"
                      /\ remote = "thread" => wrapper'[answers'[i]] = "over"
                      /\ \A j \in 1 .. Len(answers') : answers'[j] = answers'[i] => j = i
    BY <1>2 DEF AnswersFresh, Ended
  <2>0. \A j \in 1 .. Len(answers) :
          /\ answers[j] \in Spawners
          /\ target[answers[j]] \in SpawnOutcomes /\ future[answers[j]] = "pending"
          /\ remote = "thread" => wrapper[answers[j]] = "over"
          /\ \A m \in 1 .. Len(answers) : answers[m] = answers[j] => m = j
    BY <1>1, QueueLengths DEF AnswersFresh, Ended
  <2>1. CASE UNCHANGED answers BY <1>4, <2>0, <2>1
  <2>2. ASSUME NEW s \in Spawners, Answers(s), Len(answers') = Len(answers) + 1,
               answers'[Len(answers) + 1] = s
        PROVE  /\ target'[answers'[i]] \in SpawnOutcomes /\ future[answers'[i]] = "pending"
               /\ remote = "thread" => wrapper'[answers'[i]] = "over"
               /\ \A j \in 1 .. Len(answers') : answers'[j] = answers'[i] => j = i
    <3>1. target'[s] \in SpawnOutcomes /\ future[s] = "pending" /\ (remote = "thread" => wrapper'[s] = "over")
          /\ \A j \in 1 .. Len(answers) : answers[j] # s
      BY <2>2 DEF Answers, Ended
    <3>2. CASE i = Len(answers) + 1
      <4>1. answers'[i] = s BY <2>2, <3>2
      <4>2. \A j \in 1 .. Len(answers') : answers'[j] = s => j = i
        BY <1>6, <2>2, <3>1, <3>2
      <4> QED BY <3>1, <4>1, <4>2
    <3>3. CASE i # Len(answers) + 1
      <4>1. i \in 1 .. Len(answers) /\ answers'[i] = answers[i] BY <1>6, <2>2, <3>3
      <4>2. \A j \in 1 .. Len(answers') : answers'[j] = answers[i] => j = i
        BY <1>6, <2>0, <2>2, <3>1, <4>1
      <4> QED BY <1>4, <2>0, <4>1, <4>2
    <3> QED BY <3>2, <3>3
  <2> QED BY <1>6, <2>1, <2>2
<1>10. FuturesTrue'
  <2> SUFFICES ASSUME NEW s \in Spawners
               PROVE  /\ future[s] \in SpawnOutcomes => target'[s] = future[s]
                      /\ target'[s] \in {"created", "running"} => future[s] = "pending"
                      /\ future[s] = "lost" => remote = "process" /\ remoteStage' \in {"eof", "closed"}
                      /\ spawn[s] = "idle" => future[s] = "none"
                      /\ future[s] = "none" => target'[s] = "none"
    BY <1>2 DEF FuturesTrue
  <2> QED BY <1>2, <1>4 DEF FuturesTrue, Moves, SpawnOutcomes
<1>11. CancelsKnown' BY <1>2 DEF CancelsKnown
<1>12. SpawnReports'
  <2>1. \A i \in DOMAIN answers' : future'[answers'[i]] = "pending"
    <3>1. DOMAIN answers' = 1 .. Len(answers') BY <1>6, LenProperties
    <3> QED BY <1>9, <3>1 DEF AnswersFresh
  <2> SUFFICES ASSUME NEW s \in Spawners
               PROVE  /\ spawn'[s] \in {"value", "error"} => target'[s] = spawn'[s]
                      /\ spawn'[s] = "cancelled" =>
                            /\ Ended(s)' \/ future'[s] = "lost"
                            /\ target'[s] = "cancelled" \/ spawnCancels' > 0
                      /\ remote' = "process" /\ s \in forwarded' => spawn'[s] # "value"
    BY <2>1 DEF SpawnReports
  <2>2. /\ spawn[s] \in {"value", "error"} => target[s] = spawn[s]
        /\ spawn[s] = "cancelled" => /\ Ended(s) \/ future[s] = "lost"
                                     /\ target[s] = "cancelled" \/ spawnCancels > 0
        /\ remote = "process" /\ s \in forwarded => spawn[s] # "value"
    BY DEF SpawnReports
  <2> QED BY <1>2, <1>4, <1>5, <2>2 DEF SpawnOutcomes
<1> QED BY <1>5, <1>6, <1>7, <1>8, <1>9, <1>10, <1>11, <1>12

-----------------------------------------------------------------------------
(* The thread.                                                             *)

(* What RemoteMoves leaves to show of a step of the thread. *)
LEMMA ThreadMoves ==
  ASSUME RemoteInv, remote = "thread",
         UNCHANGED <<remote, callVars>>,
         target' \in [Spawners -> {"none", "created", "running", "gone"} \cup SpawnOutcomes],
         targetTold' \subseteq Spawners,
         \A s \in Spawners : Moves(s),
         \/ UNCHANGED requests \/ requests' = <<>>
         \/ requests # <<>> /\ requests' = Tail(requests),
         UNCHANGED answers \/ \E s \in Spawners : Answers(s),
         remoteStage' \in {"open", "closing", "finalizing", "closed"},
         wrapper' \in [Spawners -> {"none", "created", "waiting", "over", "dropped", "late"}],
         \A s \in Spawners :
            /\ wrapper'[s] \in {"created", "waiting"} => future[s] = "pending"
            /\ wrapper[s] = "over" => wrapper'[s] = "over"
            /\ wrapper'[s] = "over" => wrapper[s] = "over" \/ Answers(s)
            /\ remoteStage' # "open" => wrapper'[s] # "created"
            /\ remoteStage' \in {"finalizing", "closed"} => wrapper'[s] # "waiting"
  PROVE  RemoteInv'
<1>1. /\ SpawnTypeOK' /\ RequestsFresh' /\ AnswersFresh' /\ FuturesTrue' /\ CancelsKnown'
      /\ SpawnReports'
      /\ \A s \in Spawners : Ended(s) => Ended(s)'
      /\ \A i \in 1 .. Len(answers) : i \in 1 .. Len(answers') /\ answers'[i] = answers[i]
  BY RemoteMoves
<1>2. ManagerTypeOK' /\ ProcessTypeOK' BY DEF ManagerTypeOK, ProcessTypeOK
<1>3. Supervised'
  <2> SUFFICES ASSUME NEW s \in Spawners, wrapper'[s] = "over"
               PROVE  /\ target'[s] \in SpawnOutcomes
                      /\ \/ future[s] \in SpawnOutcomes \cup {"lost"}
                         \/ \E i \in 1 .. Len(answers') : answers'[i] = s
    BY DEF Supervised, Ended, Resolved, callVars
  <2>1. CASE Answers(s)
    <3>1. answers' = Append(answers, s) /\ target'[s] \in SpawnOutcomes BY <2>1 DEF Answers, Ended
    <3>2. answers \in Seq(Spawners) /\ Len(answers) \in Nat
      BY QueueLengths DEF RemoteInv, RemoteTypeOK
    <3>3. Len(answers') = Len(answers) + 1 /\ answers'[Len(answers) + 1] = s
      BY <3>1, <3>2, AppendProperties
    <3>4. Len(answers) + 1 \in 1 .. Len(answers') BY <3>2, <3>3
    <3> QED BY <3>1, <3>3, <3>4
  <2>2. CASE wrapper[s] = "over"
    <3>1. /\ target[s] \in SpawnOutcomes
          /\ \/ future[s] \in SpawnOutcomes \cup {"lost"}
             \/ \E i \in 1 .. Len(answers) : answers[i] = s
      BY <2>2 DEF RemoteInv, Supervised, Ended, Resolved
    <3>2. target'[s] \in SpawnOutcomes BY <1>1, <3>1 DEF Ended
    <3> QED BY <1>1, <3>1, <3>2
  <2> QED BY <2>1, <2>2
<1>4. DeadIsGone' BY DEF DeadIsGone
<1> QED BY <1>1, <1>2, <1>3, <1>4 DEF RemoteInv, RemoteTypeOK

(* What a message asks for. *)
LEMMA Asked ==
  ASSUME RemoteInv, NEW s \in Spawners, Receive("create", s)
  PROVE  /\ target[s] = "none" /\ future[s] \in {"pending", "lost"}
         /\ wrapper[s] # "over"
<1>1. /\ SpawnTypeOK /\ RequestsFresh /\ Supervised BY DEF RemoteInv, RemoteTypeOK
<1>2. 1 \in 1 .. Len(requests) /\ requests[1] = <<"create", s>> BY <1>1, RequestReceived
<1>3. target[s] = "none" /\ future[s] \in {"pending", "lost"} BY <1>1, <1>2 DEF RequestsFresh
<1> QED BY <1>1, <1>3 DEF Supervised, Ended, SpawnOutcomes

LEMMA ThreadRunsStep ==
  ASSUME RemoteInv, remote = "thread", NEW s \in Spawners, ThreadRuns(s) \/ ThreadMay(s)
  PROVE  RemoteInv'
<1>1. /\ SpawnTypeOK /\ ManagerTypeOK /\ Supervised /\ FuturesTrue /\ AnswersFresh
  BY DEF RemoteInv, RemoteTypeOK
<1>2. /\ target \in [Spawners -> {"none", "created", "running", "gone"} \cup SpawnOutcomes]
      /\ targetTold \subseteq Spawners
      /\ remoteStage \in {"open", "closing", "finalizing", "closed"}
      /\ wrapper \in [Spawners -> {"none", "created", "waiting", "over", "dropped", "late"}]
      /\ \A r \in Spawners :
            /\ wrapper[r] \in {"created", "waiting"} => future[r] = "pending"
            /\ wrapper[r] = "over" => target[r] \in SpawnOutcomes
            /\ remoteStage # "open" => wrapper[r] # "created"
            /\ remoteStage \in {"finalizing", "closed"} => wrapper[r] # "waiting"
  BY <1>1 DEF SpawnTypeOK, ManagerTypeOK, Supervised, Ended
<1>3. CASE RunCreate(s)
  <2>1. /\ Receive("create", s) /\ target' = [target EXCEPT ![s] = "created"]
        /\ UNCHANGED <<remote, remoteStage, callVars, answers, targetTold>>
        /\ requests # <<>> /\ requests' = Tail(requests)
    BY <1>3 DEF RunCreate, Receive
  <2>2. PICK w \in {"created", "late", "none"} :
           /\ wrapper' = [wrapper EXCEPT ![s] = w] /\ (w = "created" => remoteStage = "open")
    BY <1>3 DEF RunCreate
  <2>3. target[s] = "none" /\ future[s] = "pending" /\ wrapper[s] # "over"
    BY <1>1, <1>2, <2>1, Asked DEF FuturesTrue, SpawnOutcomes
  <2>4. /\ target'[s] = "created" /\ wrapper'[s] = w
        /\ \A r \in Spawners \ {s} : target'[r] = target[r] /\ wrapper'[r] = wrapper[r]
    BY <1>2, <2>1, <2>2
  <2>5. \A r \in Spawners : Moves(r) BY <2>1, <2>3, <2>4 DEF Moves
  <2> QED BY <1>2, <2>1, <2>2, <2>3, <2>4, <2>5, ThreadMoves
<1>4. CASE RunCancel(s)
  <2>1. /\ UNCHANGED <<remote, remoteStage, callVars, answers, target, wrapper>>
        /\ requests # <<>> /\ requests' = Tail(requests)
        /\ targetTold' = targetTold \cup ({s} \cap Unfinished)
    BY <1>4 DEF RunCancel, Receive
  <2>2. \A r \in Spawners : Moves(r) BY <2>1 DEF Moves
  <2> QED BY <1>2, <2>1, <2>2, ThreadMoves
<1>5. CASE AwaitInner(s)
  <2>1. /\ UNCHANGED <<remote, remoteStage, callVars, answers, target, requests, targetTold>>
        /\ wrapper[s] = "created" /\ wrapper' = [wrapper EXCEPT ![s] = "waiting"]
    BY <1>5 DEF AwaitInner, spawnVars, targetVars
  <2>2. \A r \in Spawners : Moves(r) BY <2>1 DEF Moves
  <2>3. wrapper'[s] = "waiting" /\ \A r \in Spawners \ {s} : wrapper'[r] = wrapper[r]
    BY <1>2, <2>1
  <2> QED BY <1>2, <2>1, <2>2, <2>3, ThreadMoves
<1>6. CASE Answer(s)
  <2>1. /\ UNCHANGED <<remote, remoteStage, callVars, target, requests, targetTold>>
        /\ wrapper[s] = "waiting" /\ wrapper' = [wrapper EXCEPT ![s] = "over"]
        /\ answers' = Append(answers, s) /\ Ended(s)
    BY <1>6 DEF Answer, targetVars
  <2>2. \A r \in Spawners : Moves(r) BY <2>1 DEF Moves
  <2>3. wrapper'[s] = "over" /\ \A r \in Spawners \ {s} : wrapper'[r] = wrapper[r]
    BY <1>2, <2>1
  <2>4. \A i \in 1 .. Len(answers) : answers[i] # s BY <1>1, <2>1 DEF AnswersFresh
  <2>5. Answers(s) BY <1>2, <2>1, <2>3, <2>4 DEF Answers, Ended
  <2> QED BY <1>2, <2>1, <2>2, <2>3, <2>5, ThreadMoves
<1>7. CASE InThread /\ (StartTarget(s) \/ EndTarget(s) \/ SuppressTarget(s))
  <2>1. /\ UNCHANGED <<remote, remoteStage, callVars, requests, answers, wrapper>>
        /\ targetTold' \subseteq Spawners
    BY <1>2, <1>7 DEF InThread, StartTarget, EndTarget, SuppressTarget
  <2>2. /\ target' \in [Spawners -> {"none", "created", "running", "gone"} \cup SpawnOutcomes]
        /\ \A r \in Spawners : Moves(r)
    BY <1>2, <1>7 DEF StartTarget, EndTarget, SuppressTarget, Moves, SpawnOutcomes
  <2> QED BY <1>2, <2>1, <2>2, ThreadMoves
<1> QED BY <1>3, <1>4, <1>5, <1>6, <1>7 DEF ThreadRuns, ThreadMay

(* The exit of the manager. *)
LEMMA ManagerExitsStep ==
  ASSUME RemoteInv, remote = "thread", ExitManager \/ LeaveTaskGroup \/ CloseLoop
  PROVE  RemoteInv'
<1>1. /\ SpawnTypeOK /\ ManagerTypeOK /\ Supervised
  BY DEF RemoteInv, RemoteTypeOK
<1>2. /\ target \in [Spawners -> {"none", "created", "running", "gone"} \cup SpawnOutcomes]
      /\ targetTold \subseteq Spawners /\ Unfinished \subseteq Spawners
      /\ wrapper \in [Spawners -> {"none", "created", "waiting", "over", "dropped", "late"}]
      /\ \A r \in Spawners :
            /\ wrapper[r] \in {"created", "waiting"} => future[r] = "pending"
            /\ remoteStage # "open" => wrapper[r] # "created"
            /\ remoteStage \in {"finalizing", "closed"} => wrapper[r] # "waiting"
  BY <1>1 DEF SpawnTypeOK, ManagerTypeOK, Supervised, Unfinished
<1>3. CASE ExitManager
  <2>1. /\ UNCHANGED <<remote, callVars, requests, answers, target>> /\ remoteStage' = "closing"
        /\ targetTold' \subseteq Spawners
        /\ wrapper' = [s \in Spawners |-> IF wrapper[s] = "created" THEN "dropped" ELSE wrapper[s]]
    BY <1>2, <1>3 DEF ExitManager
  <2>2. \A r \in Spawners : Moves(r) BY <2>1 DEF Moves
  <2>3. wrapper' \in [Spawners -> {"none", "created", "waiting", "over", "dropped", "late"}]
    BY <1>2, <2>1
  <2>4. \A s \in Spawners : wrapper'[s] = IF wrapper[s] = "created" THEN "dropped" ELSE wrapper[s]
    BY <2>1
  <2> QED BY <1>2, <2>1, <2>2, <2>3, <2>4, ThreadMoves
<1>4. CASE LeaveTaskGroup
  <2>1. /\ UNCHANGED <<remote, callVars, requests, answers, target, wrapper>>
        /\ remoteStage = "closing" /\ remoteStage' = "finalizing"
        /\ targetTold' \subseteq Spawners /\ \A s \in Spawners : wrapper[s] # "waiting"
    BY <1>2, <1>4 DEF LeaveTaskGroup
  <2>2. \A r \in Spawners : Moves(r) BY <2>1 DEF Moves
  <2> QED BY <1>2, <2>1, <2>2, ThreadMoves
<1>5. CASE CloseLoop
  <2>1. /\ UNCHANGED <<remote, callVars, answers, wrapper>> /\ requests' = <<>>
        /\ remoteStage = "finalizing" /\ remoteStage' = "closed" /\ targetTold' = {}
        /\ target' = [s \in Spawners |-> IF s \in Unfinished THEN "gone" ELSE target[s]]
    BY <1>5 DEF CloseLoop
  <2>2. \A r \in Spawners : Moves(r) BY <2>1 DEF Moves, Unfinished
  <2>3. target' \in [Spawners -> {"none", "created", "running", "gone"} \cup SpawnOutcomes]
    BY <1>2, <2>1
  <2> QED BY <1>2, <2>1, <2>2, <2>3, ThreadMoves
<1> QED BY <1>3, <1>4, <1>5

(* An answer arrives, and the future of its caller is done.                *)
LEMMA ResolveStep ==
  ASSUME RemoteInv, NEW i \in 1 .. Len(answers), Resolve(i), UNCHANGED wrapper
  PROVE  RemoteInv'
<1> USE DEF RemoteInv
<1> DEFINE s == answers[i]
<1>1. SpawnTypeOK BY DEF RemoteTypeOK
<1>2. /\ s \in Spawners /\ target[s] \in SpawnOutcomes /\ future[s] = "pending"
      /\ \A j \in 1 .. Len(answers) : answers[j] = s => j = i
  BY <1>1, QueueLengths DEF AnswersFresh, Ended
<1>3. /\ future' = [future EXCEPT ![s] = target[s]] /\ answers' = RemoveAt(answers, i)
      /\ UNCHANGED <<remote, remoteStage, spawn, must, forwarded, spawnCancels, requests,
                     target, targetTold, wrapper>>
  BY DEF Resolve, targetVars
<1>4. /\ answers' \in Seq(Spawners) /\ Len(answers') = Len(answers) - 1
      /\ \A j \in 1 .. Len(answers') : answers'[j] = IF j < i THEN answers[j] ELSE answers[j + 1]
      /\ Len(answers) \in Nat
  BY <1>1, <1>3, AnswerTaken, QueueLengths
<1>5. /\ future'[s] = target[s] /\ \A r \in Spawners \ {s} : future'[r] = future[r]
  BY <1>1, <1>3 DEF SpawnTypeOK
<1> HIDE DEF s
<1>6. \A j \in 1 .. Len(answers') : answers'[j] # s
  <2> SUFFICES ASSUME NEW j \in 1 .. Len(answers'), answers'[j] = s PROVE FALSE OBVIOUS
  <2>1. CASE j < i
    <3>1. j \in 1 .. Len(answers) /\ answers[j] = s BY <1>4, <2>1
    <3> QED BY <1>2, <2>1, <3>1
  <2>2. CASE ~(j < i)
    <3>1. j + 1 \in 1 .. Len(answers) /\ answers[j + 1] = s BY <1>4, <2>2
    <3> QED BY <1>2, <2>2, <3>1
  <2> QED BY <2>1, <2>2
<1>7. \A r \in Spawners \ {s} : (\E j \in 1 .. Len(answers) : answers[j] = r) =>
                                    \E j \in 1 .. Len(answers') : answers'[j] = r
  <2> SUFFICES ASSUME NEW r \in Spawners \ {s}, NEW j \in 1 .. Len(answers), answers[j] = r
               PROVE  \E k \in 1 .. Len(answers') : answers'[k] = r
    OBVIOUS
  <2>1. j # i BY DEF s
  <2>2. CASE j < i
    <3>1. j \in 1 .. Len(answers') /\ answers'[j] = r BY <1>4, <2>2
    <3> QED BY <3>1
  <2>3. CASE j > i
    <3>1. /\ j - 1 \in 1 .. Len(answers') /\ ~(j - 1 < i) /\ (j - 1) + 1 = j BY <1>4, <2>3
    <3>2. answers'[j - 1] = r BY <1>4, <3>1
    <3> QED BY <3>1, <3>2
  <2> QED BY <2>1, <2>2, <2>3
<1>8. SpawnTypeOK'
  BY <1>1, <1>2, <1>3, <1>4 DEF SpawnTypeOK
<1>9. RequestsFresh'
  <2> SUFFICES ASSUME NEW j \in 1 .. Len(requests), NEW r \in Spawners,
                      requests[j] = <<"create", r>>
               PROVE  /\ target[r] = "none" /\ future'[r] \in {"pending", "lost"}
                      /\ \A k \in 1 .. Len(requests) : requests[k] = <<"create", r>> => k = j
    BY <1>3 DEF RequestsFresh
  <2>1. /\ target[r] = "none" /\ future[r] \in {"pending", "lost"}
        /\ \A k \in 1 .. Len(requests) : requests[k] = <<"create", r>> => k = j
    BY DEF RequestsFresh
  <2>2. r # s BY <1>2, <2>1 DEF SpawnOutcomes
  <2> QED BY <1>5, <2>1, <2>2
<1>10. AnswersFresh'
  <2> SUFFICES ASSUME NEW j \in 1 .. Len(answers')
               PROVE  /\ target[answers'[j]] \in SpawnOutcomes /\ future'[answers'[j]] = "pending"
                      /\ remote = "thread" => wrapper[answers'[j]] = "over"
                      /\ \A k \in 1 .. Len(answers') : answers'[k] = answers'[j] => k = j
    BY <1>3 DEF AnswersFresh, Ended
  <2> DEFINE from(k) == IF k < i THEN k ELSE k + 1
  <2>1. \A k \in 1 .. Len(answers') :
          from(k) \in 1 .. Len(answers) /\ answers'[k] = answers[from(k)]
    BY <1>4
  <2>2. \A k \in 1 .. Len(answers') : from(k) = from(j) => k = j BY <1>4
  <2> HIDE DEF from
  <2>3. /\ target[answers'[j]] \in SpawnOutcomes /\ future[answers'[j]] = "pending"
        /\ remote = "thread" => wrapper[answers'[j]] = "over"
        /\ \A k \in 1 .. Len(answers) : answers[k] = answers'[j] => k = from(j)
    BY <2>1 DEF AnswersFresh, Ended
  <2>4. answers'[j] \in Spawners \ {s}
    <3>1. answers'[j] \in Spawners BY <1>4, ElementOfSeq
    <3> QED BY <1>6, <3>1
  <2> QED BY <1>5, <2>1, <2>2, <2>3, <2>4
<1>11. FuturesTrue'
  <2> SUFFICES ASSUME NEW r \in Spawners
               PROVE  /\ future'[r] \in SpawnOutcomes => target[r] = future'[r]
                      /\ target[r] \in {"created", "running"} => future'[r] = "pending"
                      /\ future'[r] = "lost" => remote = "process" /\ remoteStage \in {"eof", "closed"}
                      /\ spawn[r] = "idle" => future'[r] = "none"
                      /\ future'[r] = "none" => target[r] = "none"
    BY <1>3 DEF FuturesTrue
  <2>1. CASE r = s BY <1>2, <1>5, <2>1 DEF FuturesTrue, SpawnOutcomes
  <2>2. CASE r # s BY <1>5, <2>2 DEF FuturesTrue
  <2> QED BY <2>1, <2>2
<1>12. CancelsKnown' BY <1>3 DEF CancelsKnown
<1>13. Supervised'
  <2> SUFFICES ASSUME NEW r \in Spawners
               PROVE  /\ remote = "process" => wrapper[r] = "none"
                      /\ wrapper[r] \in {"created", "waiting"} => future'[r] = "pending"
                      /\ wrapper[r] = "over" =>
                            /\ target[r] \in SpawnOutcomes
                            /\ \/ future'[r] \in SpawnOutcomes \cup {"lost"}
                               \/ \E j \in 1 .. Len(answers') : answers'[j] = r
                      /\ remote = "thread" /\ remoteStage # "open" => wrapper[r] # "created"
                      /\ remote = "thread" /\ remoteStage \in {"finalizing", "closed"} =>
                            wrapper[r] # "waiting"
    BY <1>3 DEF Supervised, Ended, Resolved
  <2>1. /\ remote = "process" => wrapper[r] = "none"
        /\ wrapper[r] \in {"created", "waiting"} => future[r] = "pending"
        /\ wrapper[r] = "over" =>
              /\ target[r] \in SpawnOutcomes
              /\ \/ future[r] \in SpawnOutcomes \cup {"lost"}
                 \/ \E j \in 1 .. Len(answers) : answers[j] = r
        /\ remote = "thread" /\ remoteStage # "open" => wrapper[r] # "created"
        /\ remote = "thread" /\ remoteStage \in {"finalizing", "closed"} => wrapper[r] # "waiting"
    BY DEF Supervised, Ended, Resolved
  <2>2. CASE r = s
    <3>1. remote = "thread" => wrapper[s] = "over" BY DEF AnswersFresh, s
    <3>2. remote \in {"thread", "process"} BY <1>1 DEF SpawnTypeOK
    <3>3. wrapper[s] \notin {"created", "waiting"} BY <2>1, <2>2, <3>1, <3>2
    <3> QED BY <1>2, <1>5, <2>1, <2>2, <3>3
  <2>3. CASE r # s BY <1>5, <1>7, <2>1, <2>3
  <2> QED BY <2>2, <2>3
<1>14. DeadIsGone' BY <1>3 DEF DeadIsGone, Alive
<1>15. SpawnReports'
  <2>1. \A j \in DOMAIN answers' : future'[answers'[j]] = "pending"
    <3>1. DOMAIN answers' = 1 .. Len(answers') BY <1>4, LenProperties
    <3> QED BY <1>10, <3>1 DEF AnswersFresh
  <2> SUFFICES ASSUME NEW r \in Spawners
               PROVE  /\ spawn[r] \in {"value", "error"} => target[r] = spawn[r]
                      /\ spawn[r] = "cancelled" =>
                            /\ target[r] \in SpawnOutcomes \/ future'[r] = "lost"
                            /\ target[r] = "cancelled" \/ spawnCancels > 0
                      /\ remote = "process" /\ r \in forwarded => spawn[r] # "value"
    BY <1>3, <2>1 DEF SpawnReports, Ended
  <2> QED BY <1>2, <1>5 DEF SpawnReports, Ended
<1>16. ManagerTypeOK' /\ ProcessTypeOK' BY <1>3 DEF RemoteTypeOK, ManagerTypeOK, ProcessTypeOK
<1> QED BY <1>8, <1>9, <1>10, <1>11, <1>12, <1>13, <1>14, <1>15, <1>16 DEF RemoteTypeOK

-----------------------------------------------------------------------------
(* The child process.                                                      *)

(* What RemoteMoves leaves to show of a step of the child. *)
LEMMA ChildMoves ==
  ASSUME RemoteInv, remote = "process",
         UNCHANGED <<remote, callVars, wrapper>>,
         target' \in [Spawners -> {"none", "created", "running", "gone"} \cup SpawnOutcomes],
         targetTold' \subseteq Spawners,
         \A s \in Spawners : Moves(s),
         \/ UNCHANGED requests \/ requests' = <<>>
         \/ requests # <<>> /\ requests' = Tail(requests),
         UNCHANGED answers \/ \E s \in Spawners : Answers(s),
         remoteStage' \in {"open", "closing", "terminating", "crashed", "eof", "closed"},
         remoteStage \in {"eof", "closed"} => remoteStage' \in {"eof", "closed"},
         remoteStage' \in {"crashed", "eof", "closed"} => Alive' = {}
  PROVE  RemoteInv'
<1>1. /\ SpawnTypeOK' /\ RequestsFresh' /\ AnswersFresh' /\ FuturesTrue' /\ CancelsKnown'
      /\ SpawnReports'
  BY RemoteMoves
<1>2. ManagerTypeOK' /\ ProcessTypeOK'
  BY DEF ManagerTypeOK, ProcessTypeOK, RemoteInv, RemoteTypeOK
<1>3. Supervised' BY DEF Supervised, RemoteInv
<1>4. DeadIsGone' BY DEF DeadIsGone
<1> QED BY <1>1, <1>2, <1>3, <1>4 DEF RemoteInv, RemoteTypeOK

LEMMA ChildStep ==
  ASSUME RemoteInv, remote = "process", UNCHANGED wrapper,
         NEW s \in Spawners, ChildRuns(s) \/ ChildMay(s)
  PROVE  RemoteInv'
<1>1. /\ SpawnTypeOK /\ ProcessTypeOK /\ DeadIsGone /\ FuturesTrue /\ AnswersFresh
  BY DEF RemoteInv, RemoteTypeOK
<1>2. /\ target \in [Spawners -> {"none", "created", "running", "gone"} \cup SpawnOutcomes]
      /\ targetTold \subseteq Spawners /\ Alive \subseteq Spawners
      /\ remoteStage \in {"open", "closing", "terminating", "crashed", "eof", "closed"}
      /\ remoteStage \in {"crashed", "eof", "closed"} => Alive = {}
  BY <1>1 DEF SpawnTypeOK, ProcessTypeOK, DeadIsGone, Alive
<1>3. CASE ReadCreate(s)
  <2>1. /\ Receive("create", s) /\ target' = [target EXCEPT ![s] = "created"]
        /\ UNCHANGED <<remote, remoteStage, callVars, answers, targetTold>>
        /\ requests # <<>> /\ requests' = Tail(requests) /\ remoteStage \in {"open", "closing"}
    BY <1>3 DEF ReadCreate, Receive, Serving
  <2>2. target[s] = "none" /\ future[s] = "pending"
    BY <1>1, <2>1, Asked DEF FuturesTrue
  <2>3. \A r \in Spawners : Moves(r) BY <1>2, <2>1, <2>2 DEF Moves
  <2> QED BY <1>2, <2>1, <2>3, ChildMoves
<1>4. CASE ReadCancel(s)
  <2>1. /\ UNCHANGED <<remote, remoteStage, callVars, answers>>
        /\ target' = IF target[s] = "created" THEN Gone({s}) ELSE target
        /\ requests # <<>> /\ requests' = Tail(requests) /\ remoteStage \in {"open", "closing"}
        /\ targetTold' \subseteq Spawners
    BY <1>2, <1>4 DEF ReadCancel, Receive, Serving
  <2>2. /\ target' \in [Spawners -> {"none", "created", "running", "gone"} \cup SpawnOutcomes]
        /\ \A r \in Spawners : Moves(r)
    BY <1>2, <2>1 DEF Moves, Gone
  <2> QED BY <1>2, <2>1, <2>2, ChildMoves
<1>5. CASE InProcess /\ (StartTarget(s) \/ SuppressTarget(s))
  <2>1. /\ UNCHANGED <<remote, remoteStage, callVars, requests, answers>>
        /\ targetTold' \subseteq Spawners
        /\ target[s] = "running" \/ target[s] = "created"
        /\ target' = target \/ target' = [target EXCEPT ![s] = "running"]
    BY <1>2, <1>5 DEF InProcess, StartTarget, SuppressTarget
  <2>2. s \in Alive BY <2>1 DEF Alive
  <2>3. /\ target' \in [Spawners -> {"none", "created", "running", "gone"} \cup SpawnOutcomes]
        /\ \A r \in Spawners : Moves(r)
    BY <1>2, <2>1 DEF Moves
  <2> QED BY <1>2, <2>1, <2>2, <2>3, ChildMoves
<1>6. CASE EndTask(s)
  <2>1. PICK outcome \in SpawnOutcomes : target' = [target EXCEPT ![s] = outcome]
    BY <1>6 DEF EndTask, EndTarget
  <2>2. /\ UNCHANGED <<remote, remoteStage, callVars, requests>>
        /\ target[s] = "running" /\ answers' = Append(answers, s)
        /\ targetTold' \subseteq Spawners
    BY <1>2, <1>6 DEF EndTask, EndTarget
  <2>3. s \in Alive BY <2>2 DEF Alive
  <2>4. target'[s] = outcome /\ \A r \in Spawners \ {s} : target'[r] = target[r]
    BY <1>2, <2>1
  <2>5. target' \in [Spawners -> {"none", "created", "running", "gone"} \cup SpawnOutcomes]
    BY <1>2, <2>1
  <2>6. \A r \in Spawners : Moves(r) BY <2>2, <2>4 DEF Moves
  <2>7. future[s] = "pending" BY <1>1, <2>2 DEF FuturesTrue
  <2>8. \A i \in 1 .. Len(answers) : answers[i] # s
    BY <1>1, <2>2 DEF AnswersFresh, Ended, SpawnOutcomes
  <2>9. Answers(s) BY <2>2, <2>4, <2>7, <2>8 DEF Answers, Ended
  <2> QED BY <1>2, <2>2, <2>3, <2>5, <2>6, <2>9, ChildMoves
<1> QED BY <1>3, <1>4, <1>5, <1>6 DEF ChildRuns, ChildMay

(* The end of the child, and the parent's exit from a dead one.            *)
LEMMA ProcessEndsStep ==
  ASSUME RemoteInv, remote = "process", UNCHANGED wrapper,
         \/ ReadShutdown \/ ChildExits \/ Crash
         \/ remoteStage \in {"crashed", "eof"} /\ ExitProcess
  PROVE  RemoteInv'
<1>1. SpawnTypeOK /\ DeadIsGone
  BY DEF RemoteInv, RemoteTypeOK
<1>2. /\ target \in [Spawners -> {"none", "created", "running", "gone"} \cup SpawnOutcomes]
      /\ targetTold \subseteq Spawners /\ Alive \subseteq Spawners
      /\ remoteStage \in {"crashed", "eof", "closed"} => Alive = {}
  BY <1>1 DEF SpawnTypeOK, DeadIsGone, Alive
<1>3. CASE ReadShutdown
  <2>1. /\ UNCHANGED <<remote, callVars, answers>> /\ remoteStage' = "terminating"
        /\ target' = Gone({s \in Alive : target[s] = "created"})
        /\ requests # <<>> /\ requests' = Tail(requests) /\ remoteStage \in {"open", "closing"}
        /\ targetTold' \subseteq Spawners
    BY <1>2, <1>3 DEF ReadShutdown, Receive, Serving
  <2>2. /\ target' \in [Spawners -> {"none", "created", "running", "gone"} \cup SpawnOutcomes]
        /\ \A r \in Spawners : Moves(r)
    BY <1>2, <2>1 DEF Moves, Gone, Alive
  <2> QED BY <1>2, <2>1, <2>2, ChildMoves
<1>4. CASE ChildExits \/ (remoteStage \in {"crashed", "eof"} /\ ExitProcess)
  <2>1. /\ UNCHANGED <<remote, callVars, answers, requests, target, targetTold>>
        /\ remoteStage' = "closed" /\ Alive = {}
    BY <1>2, <1>4 DEF ChildExits, ExitProcess, targetVars
  <2>2. Alive' = {} BY <2>1 DEF Alive
  <2>3. \A r \in Spawners : Moves(r) BY <2>1 DEF Moves
  <2> QED BY <1>2, <2>1, <2>2, <2>3, ChildMoves
<1>5. CASE Crash
  <2>1. /\ UNCHANGED <<remote, callVars, answers>> /\ remoteStage' \in {"crashed", "closed"}
        /\ remoteStage \in {"open", "closing", "terminating"}
        /\ target' = Gone(Alive) /\ requests' = <<>> /\ targetTold' = {}
    BY <1>5 DEF Crash
  <2>2. /\ target' \in [Spawners -> {"none", "created", "running", "gone"} \cup SpawnOutcomes]
        /\ \A r \in Spawners : Moves(r)
    BY <1>2, <2>1 DEF Moves, Gone, Alive
  <2>3. Alive' = {} BY <1>2, <2>1 DEF Alive, Gone
  <2> QED BY <1>2, <2>1, <2>2, <2>3, ChildMoves
<1> QED BY <1>3, <1>4, <1>5

(* The parent asks the child to shut down. *)
LEMMA ExitProcessStep ==
  ASSUME RemoteInv, remote = "process", UNCHANGED wrapper, remoteStage = "open", ExitProcess
  PROVE  RemoteInv'
<1> USE DEF RemoteInv
<1>1. /\ remoteStage' = "closing" /\ Request("shutdown", "all")
      /\ UNCHANGED <<remote, spawn, future, must, forwarded, spawnCancels, answers, target,
                     targetTold, wrapper>>
  BY DEF ExitProcess, callVars, targetVars
<1>2. SpawnTypeOK BY DEF RemoteTypeOK
<1>3. /\ requests' \in Seq(Messages) /\ Len(requests') = Len(requests) + 1
      /\ Len(requests) \in Nat
      /\ \A i \in 1 .. Len(requests) : requests'[i] = requests[i]
      /\ requests'[Len(requests) + 1] = <<"shutdown", "all">>
  BY <1>1, <1>2, RequestSent, QueueLengths
<1>4. SpawnTypeOK' BY <1>1, <1>2, <1>3 DEF SpawnTypeOK, Messages
<1>5. RequestsFresh'
  <2> SUFFICES ASSUME NEW i \in 1 .. Len(requests'), NEW r \in Spawners,
                      requests'[i] = <<"create", r>>
               PROVE  /\ target'[r] = "none" /\ future'[r] \in {"pending", "lost"}
                      /\ \A j \in 1 .. Len(requests') : requests'[j] = <<"create", r>> => j = i
    BY DEF RequestsFresh
  <2>1. \A j \in 1 .. Len(requests') : requests'[j] = <<"create", r>> =>
          j \in 1 .. Len(requests) /\ requests[j] = <<"create", r>>
    BY <1>3
  <2> QED BY <1>1, <2>1 DEF RequestsFresh
<1>6. AnswersFresh' BY <1>1 DEF AnswersFresh, Ended
<1>7. FuturesTrue' BY <1>1 DEF FuturesTrue
<1>8. CancelsKnown' BY <1>1 DEF CancelsKnown
<1>9. Supervised' BY <1>1 DEF Supervised, Ended, Resolved
<1>10. DeadIsGone' BY <1>1 DEF DeadIsGone
<1>11. SpawnReports' BY <1>1 DEF SpawnReports, Ended
<1>12. ManagerTypeOK' /\ ProcessTypeOK' BY <1>1 DEF RemoteTypeOK, ManagerTypeOK, ProcessTypeOK
<1> QED BY <1>4, <1>5, <1>6, <1>7, <1>8, <1>9, <1>10, <1>11, <1>12 DEF RemoteTypeOK

(* The parent finds that the child is dead, behind its last answer.        *)
LEMMA ReadEOFStep ==
  ASSUME RemoteInv, remote = "process", UNCHANGED wrapper, ReadEOF
  PROVE  RemoteInv'
<1> USE DEF RemoteInv
<1>1. /\ remoteStage = "crashed" /\ remoteStage' = "eof" /\ answers = <<>>
      /\ future' = [s \in Spawners |-> IF future[s] = "pending" THEN "lost" ELSE future[s]]
      /\ UNCHANGED <<remote, spawn, must, forwarded, spawnCancels, requests, answers, target,
                     targetTold, wrapper>>
  BY DEF ReadEOF, targetVars
<1>2. /\ SpawnTypeOK /\ Alive = {} /\ \A s \in Spawners : wrapper[s] = "none"
  BY <1>1 DEF RemoteTypeOK, DeadIsGone, Supervised
<1>3. \A s \in Spawners : future'[s] = IF future[s] = "pending" THEN "lost" ELSE future[s]
  BY <1>1
<1>4. \A s \in Spawners : target[s] \notin {"created", "running"} BY <1>2 DEF Alive
<1>5. SpawnTypeOK' BY <1>1, <1>2 DEF SpawnTypeOK
<1>6. RequestsFresh' BY <1>1, <1>3 DEF RequestsFresh
<1>7. AnswersFresh' BY <1>1 DEF AnswersFresh
<1>8. FuturesTrue' BY <1>1, <1>3, <1>4 DEF FuturesTrue, SpawnOutcomes
<1>9. CancelsKnown' BY <1>1 DEF CancelsKnown
<1>10. Supervised' BY <1>1, <1>2 DEF Supervised
<1>11. DeadIsGone' BY <1>1, <1>2 DEF DeadIsGone, Alive
<1>12. SpawnReports' BY <1>1, <1>3 DEF SpawnReports, Ended
<1>13. ManagerTypeOK' /\ ProcessTypeOK' BY <1>1 DEF RemoteTypeOK, ManagerTypeOK, ProcessTypeOK
<1> QED BY <1>5, <1>6, <1>7, <1>8, <1>9, <1>10, <1>11, <1>12, <1>13 DEF RemoteTypeOK

-----------------------------------------------------------------------------
LEMMA RemoteInitInv == ASSUME RemoteInit PROVE RemoteInv
<1> USE DEF RemoteInit, SpawnInit, ManagerInit
<1>1. RemoteTypeOK
  BY RemoteAssumption DEF RemoteTypeOK, SpawnTypeOK, ManagerTypeOK, ProcessTypeOK
<1>2. RequestsFresh /\ AnswersFresh BY DEF RequestsFresh, AnswersFresh
<1>3. FuturesTrue BY DEF FuturesTrue, SpawnOutcomes
<1>4. CancelsKnown /\ Supervised /\ DeadIsGone BY DEF CancelsKnown, Supervised, DeadIsGone
<1>5. SpawnReports BY DEF SpawnReports
<1> QED BY <1>1, <1>2, <1>3, <1>4, <1>5 DEF RemoteInv

LEMMA RemoteStep == ASSUME RemoteInv, [RemoteNext]_remoteVars PROVE RemoteInv'
<1>0. remote = "thread" \/ remote = "process"
  BY DEF RemoteInv, RemoteTypeOK, SpawnTypeOK
<1>1. CASE Calls \/ CallersRun BY <1>1, CallersStep
<1>2. CASE ThreadSteps
  <2>1. ASSUME Deliver, UNCHANGED wrapper PROVE RemoteInv'
    <3>1. PICK i \in DOMAIN answers : Resolve(i) BY <2>1 DEF Deliver
    <3>2. i \in 1 .. Len(answers)
      BY QueueLengths, LenProperties DEF RemoteInv, RemoteTypeOK
    <3> QED BY <2>1, <3>1, <3>2, ResolveStep
  <2> QED BY <1>2, <2>1, ThreadRunsStep, ManagerExitsStep DEF ThreadSteps
<1>3. CASE ProcessSteps
  <2>1. ASSUME ReadAnswer, UNCHANGED wrapper PROVE RemoteInv'
    <3>1. answers \in Seq(Spawners) /\ answers # <<>> /\ Resolve(1)
      BY <2>1, QueueLengths DEF ReadAnswer, RemoteInv, RemoteTypeOK
    <3>2. Len(answers) \in Nat /\ Len(answers) # 0 BY <3>1, EmptySeq, LenProperties
    <3>3. 1 \in 1 .. Len(answers) BY <3>2
    <3> QED BY <2>1, <3>1, <3>3, ResolveStep
  <2> QED BY <1>3, <2>1, ChildStep, ProcessEndsStep, ReadEOFStep DEF ProcessSteps
<1>4. CASE Unforced
  <2>1. ASSUME ExitProcess, remote = "process", UNCHANGED wrapper PROVE RemoteInv'
    BY <2>1, ExitProcessStep, ProcessEndsStep DEF ExitProcess
  <2> QED
    BY <1>4, <2>1, ThreadRunsStep, ManagerExitsStep, ChildStep, ProcessEndsStep DEF Unforced
<1>5. CASE UNCHANGED remoteVars
  <2>1. RemoteKept /\ UNCHANGED <<spawn, future, must, forwarded, spawnCancels, requests, wrapper>>
    BY <1>5 DEF remoteVars, spawnVars, callVars, RemoteKept
  <2>2. UNCHANGED <<remote, remoteStage, answers, target, targetTold>>
    BY <2>1 DEF RemoteKept, targetVars
  <2> USE DEF RemoteInv
  <2>3. SpawnTypeOK' BY <2>1, <2>2 DEF RemoteTypeOK, SpawnTypeOK
  <2>4. RequestsFresh' BY <2>1, <2>2 DEF RequestsFresh
  <2>5. FuturesTrue' BY <2>1, <2>2 DEF FuturesTrue
  <2>6. CancelsKnown' BY <2>1 DEF CancelsKnown
  <2>7. SpawnReports' BY <2>1, <2>2 DEF SpawnReports, Ended
  <2> QED BY <2>1, <2>3, <2>4, <2>5, <2>6, <2>7, CallerKeeps DEF RemoteTypeOK
<1> QED BY <1>1, <1>2, <1>3, <1>4, <1>5 DEF RemoteNext

(* What is always true of the spawns. *)
THEOREM RemoteInvariant == RemoteSpec => []RemoteInv
<1>1. RemoteInit => RemoteInv BY RemoteInitInv
<1>2. RemoteInv /\ [RemoteNext]_remoteVars => RemoteInv' BY RemoteStep
<1> QED BY <1>1, <1>2, PTL DEF RemoteSpec

(* The variables of the spawns have their types. *)
THEOREM RemoteTypeCorrect == RemoteSpec => []RemoteTypeOK
<1>1. RemoteInv => RemoteTypeOK BY DEF RemoteInv
<1> QED BY <1>1, RemoteInvariant, PTL

(* ThreadManager.spawn and MultiprocessingProcess.spawn end only when      *)
(* their target did and in the same way, unless they were cancelled or the *)
(* child was lost, and an answer never finds a future that is done.        *)
THEOREM SpawnsReport == TasksSpec => []SpawnReports
<1>1. RemoteInv => SpawnReports BY DEF RemoteInv
<1> QED BY <1>1, RemoteInvariant, TasksImplementParts, PTL

(* Once ThreadManager's exit is over, so are the targets that its task     *)
(* group supervised, and each was answered for.                            *)
THEOREM ManagerAnswers == TasksSpec => []ManagerWaits
<1>1. ASSUME RemoteInv PROVE ManagerWaits
  <2> SUFFICES ASSUME remote = "thread", remoteStage = "closed", NEW s \in Spawners,
                      wrapper[s] \notin {"none", "dropped", "late"}
               PROVE  Ended(s) /\ (Resolved(s) \/ \E i \in DOMAIN answers : answers[i] = s)
    BY DEF ManagerWaits
  <2>1. wrapper[s] \in {"none", "created", "waiting", "over", "dropped", "late"}
    BY <1>1 DEF RemoteInv, RemoteTypeOK, ManagerTypeOK
  <2>2. wrapper[s] = "over" BY <1>1, <2>1 DEF RemoteInv, Supervised
  <2>3. DOMAIN answers = 1 .. Len(answers)
    BY <1>1, QueueLengths, LenProperties DEF RemoteInv, RemoteTypeOK
  <2> QED BY <1>1, <2>2, <2>3 DEF RemoteInv, Supervised
<1> QED BY <1>1, RemoteInvariant, TasksImplementParts, PTL

-----------------------------------------------------------------------------
(* Spawns are nested: the refinement of RemoteCall.                        *)

(* A caller is there until its future is done or the child is dead, when   *)
(* nothing starts any more.                                                *)
CallersStay ==
  \A s \in Spawners : future[s] = "pending" =>
    spawn[s] = "waiting" \/ (remote = "process" /\ remoteStage \in {"crashed", "eof", "closed"})

(* The target as RemoteCall sees it.                                       *)
Run == [s \in Spawners |-> IF target[s] = "created" THEN "running" ELSE target[s]]

(* What each kind of step is to RemoteCall. First those of the targets.    *)
LEMMA NestedStart ==
  ASSUME SpawnTypeOK, NEW s \in Spawners, spawn[s] = "waiting", target[s] = "none",
         target' = [target EXCEPT ![s] = "created"], UNCHANGED spawn
  PROVE  Nested!Next
<1>1. Run[s] = "none" /\ Run' = [Run EXCEPT ![s] = "running"]
  BY DEF Run, SpawnTypeOK
<1>2. Nested!Start(s) BY <1>1 DEF Nested!Start, Run
<1> QED BY <1>2 DEF Nested!Next

LEMMA NestedEnd ==
  ASSUME SpawnTypeOK, NEW s \in Spawners, EndTarget(s), UNCHANGED spawn
  PROVE  Nested!Next
<1>1. PICK outcome \in SpawnOutcomes : target' = [target EXCEPT ![s] = outcome]
  BY DEF EndTarget
<1>2. Run[s] = "running" /\ Run' = [Run EXCEPT ![s] = outcome]
  BY <1>1 DEF Run, SpawnTypeOK, EndTarget, SpawnOutcomes
<1>3. outcome \in Nested!Outcomes BY DEF SpawnOutcomes, Nested!Outcomes
<1>4. Nested!End(s) BY <1>2, <1>3 DEF Nested!End, Run
<1> QED BY <1>4 DEF Nested!Next

LEMMA NestedDrop ==
  ASSUME SpawnTypeOK, NEW S \in SUBSET Alive, target' = Gone(S), UNCHANGED spawn
  PROVE  Nested!Next
<1>1. S \in SUBSET {s \in Spawners : Run[s] = "running"} BY DEF Alive, Run
<1>2. Run' = [s \in Spawners |-> IF s \in S THEN "gone" ELSE Run[s]]
  BY DEF Gone, Run, Alive, SpawnTypeOK
<1>3. Nested!Drop BY <1>1, <1>2 DEF Nested!Drop, Run
<1> QED BY <1>3 DEF Nested!Next

LEMMA NestedStutter ==
  ASSUME SpawnTypeOK, UNCHANGED spawn,
         UNCHANGED target \/ \E s \in Spawners : StartTarget(s)
  PROVE  UNCHANGED Nested!vars
<1>1. Run' = Run BY DEF StartTarget, Run, SpawnTypeOK
<1> QED BY <1>1 DEF Nested!vars, Run

(* Then those of the callers. *)
LEMMA NestedAsk ==
  ASSUME SpawnTypeOK, NEW s \in Spawners, Call(s)
  PROVE  Nested!Next
<1>1. Nested!Ask(s) BY DEF Call, targetVars, Nested!Ask
<1> QED BY <1>1 DEF Nested!Next

LEMMA NestedLose ==
  ASSUME SpawnTypeOK, NEW s \in Spawners, NEW outcome \in {"lost", "cancelled"},
         spawn[s] \in {"idle", "waiting"}, target[s] \notin {"created", "running"},
         spawn' = [spawn EXCEPT ![s] = outcome], UNCHANGED target
  PROVE  Nested!Next
<1>1. Run[s] # "running" /\ Run' = Run BY DEF Run
<1>2. Nested!Lose(s) BY <1>1 DEF Nested!Lose, Run
<1> QED BY <1>2 DEF Nested!Next

LEMMA NestedReturn ==
  ASSUME SpawnTypeOK, NEW s \in Spawners, Ended(s), NEW outcome \in {target[s], "cancelled"},
         spawn[s] = "waiting", spawn' = [spawn EXCEPT ![s] = outcome], UNCHANGED target
  PROVE  Nested!Next
<1>1. Run[s] = target[s] /\ Run' = Run BY DEF Run, Ended, SpawnOutcomes
<1>2. Run[s] \in Nested!Outcomes BY <1>1 DEF Ended, SpawnOutcomes, Nested!Outcomes
<1>3. Nested!Return(s) BY <1>1, <1>2 DEF Nested!Return, Run
<1> QED BY <1>3 DEF Nested!Next

(* A call that is refused has no target, or that is gone with the child.   *)
LEMMA NestedRefuse ==
  ASSUME RemoteInv, NEW s \in Spawners, Refuse(s),
         spawn[s] = "idle" \/ (remote = "process" /\ remoteStage \in {"crashed", "eof", "closed"})
  PROVE  Nested!Next
<1>1. target[s] \notin {"created", "running"}
  BY DEF RemoteInv, FuturesTrue, DeadIsGone, Alive
<1>2. /\ spawn[s] \in {"idle", "waiting"}
      /\ spawn' = [spawn EXCEPT ![s] = "lost"]
      /\ UNCHANGED target
  BY DEF Refuse, targetVars
<1>3. SpawnTypeOK BY DEF RemoteInv, RemoteTypeOK
<1> QED BY <1>1, <1>2, <1>3, NestedLose

LEMMA NestedFinish ==
  ASSUME RemoteInv, NEW s \in Spawners, NEW outcome \in {future[s], "cancelled"},
         Finish(s, outcome)
  PROVE  Nested!Next
<1>1. PICK o \in {outcome, "cancelled"} :
        spawn[s] = "waiting" /\ spawn' = [spawn EXCEPT ![s] = o] /\ UNCHANGED target
  BY DEF Finish, targetVars
<1>2. SpawnTypeOK BY DEF RemoteInv, RemoteTypeOK
<1>3. CASE future[s] \in SpawnOutcomes
  <2>1. Ended(s) /\ target[s] = future[s] BY <1>3 DEF RemoteInv, FuturesTrue, Ended
  <2> QED BY <1>1, <1>2, <2>1, NestedReturn
<1>4. CASE future[s] = "lost"
  <2>1. target[s] \notin {"created", "running"}
    BY <1>4 DEF RemoteInv, FuturesTrue
  <2>2. o \in {"lost", "cancelled"} BY <1>4
  <2> QED BY <1>1, <1>2, <2>1, <2>2, NestedLose
<1> QED BY <1>3, <1>4 DEF Finish, Resolved

LEMMA NestedCallers ==
  ASSUME RemoteInv, Calls \/ CallersRun
  PROVE  [Nested!Next]_(Nested!vars)
<1>1. SpawnTypeOK BY DEF RemoteInv, RemoteTypeOK
<1>2. ASSUME NEW s \in Spawners,
             \/ CancelSpawn(s) \/ Forward(s, remoteStage # "closed")
             \/ Forward(s, remoteStage = "open")
      PROVE  UNCHANGED Nested!vars
  <2>1. UNCHANGED <<spawn, target>> BY <1>2 DEF CancelSpawn, Forward, targetVars
  <2> QED BY <1>1, <2>1, NestedStutter
<1>3. CASE Calls
  <2>1. PICK s \in Spawners : SpawnInThread(s) \/ SpawnInProcess(s) \/ CancelSpawn(s)
    BY <1>3 DEF Calls
  <2>2. CASE SpawnInThread(s) \/ SpawnInProcess(s)
    BY <1>1, <2>2, NestedAsk, NestedRefuse DEF SpawnInThread, SpawnInProcess
  <2> QED BY <1>2, <2>1, <2>2
<1>4. CASE CallersRun
  <2>1. PICK s \in Spawners : SpawnCaller(s) BY <1>4 DEF CallersRun
  <2>2. CASE Finish(s, future[s]) BY <2>2, NestedFinish
  <2>3. CASE Finish(s, Result(s))
    <3>1. Result(s) \in {future[s], "cancelled"} BY DEF Result
    <3> QED BY <2>3, <3>1, NestedFinish
  <2>4. CASE ForwardToThread(s) BY <1>2, <2>4 DEF ForwardToThread
  <2>5. CASE remote = "process" /\ ForwardToProcess(s)
    BY <1>2, <2>5, NestedRefuse DEF ForwardToProcess
  <2>6. remote # "thread" => remote = "process" BY <1>1 DEF SpawnTypeOK
  <2> QED BY <2>1, <2>2, <2>3, <2>4, <2>5, <2>6 DEF SpawnCaller
<1> QED BY <1>3, <1>4

(* A request that arrives is that of a caller who waits. *)
LEMMA NestedCreate ==
  ASSUME RemoteInv, CallersStay, NEW s \in Spawners, Receive("create", s),
         remote = "thread" \/ Serving,
         target' = [target EXCEPT ![s] = "created"], UNCHANGED spawn
  PROVE  Nested!Next
<1>1. SpawnTypeOK BY DEF RemoteInv, RemoteTypeOK
<1>2. 1 \in 1 .. Len(requests) /\ requests[1] = <<"create", s>>
  BY <1>1, RequestReceived
<1>3. target[s] = "none" /\ future[s] \in {"pending", "lost"}
  BY <1>2 DEF RemoteInv, RequestsFresh
<1>4. ~(remote = "process" /\ remoteStage \in {"crashed", "eof", "closed"})
  BY DEF Serving
<1>5. future[s] = "pending" BY <1>3, <1>4 DEF RemoteInv, FuturesTrue
<1>6. spawn[s] = "waiting" BY <1>4, <1>5 DEF CallersStay
<1> QED BY <1>1, <1>3, <1>6, NestedStart

LEMMA NestedRemote ==
  ASSUME RemoteInv, CallersStay, ThreadSteps \/ ProcessSteps \/ Unforced
  PROVE  [Nested!Next]_(Nested!vars)
<1>1. SpawnTypeOK BY DEF RemoteInv, RemoteTypeOK
<1>2. UNCHANGED spawn
  BY DEF ThreadSteps, ProcessSteps, Unforced, ThreadRuns, ThreadMay, ChildRuns, ChildMay,
     RunCreate, RunCancel, AwaitInner, Answer, InThread, Deliver, Resolve, LeaveTaskGroup,
     CloseLoop, ReadCreate, ReadCancel, InProcess, EndTask, ReadAnswer, ReadEOF,
     ReadShutdown, ChildExits, ExitManager, ExitProcess, Crash, callVars, spawnVars
<1>3. ASSUME UNCHANGED target \/ \E s \in Spawners : StartTarget(s)
      PROVE  UNCHANGED Nested!vars
  BY <1>1, <1>2, <1>3, NestedStutter
<1>4. ASSUME NEW S \in SUBSET Alive, target' = Gone(S) PROVE Nested!Next
  BY <1>1, <1>2, <1>4, NestedDrop
<1>5. Unfinished = Alive BY DEF Unfinished, Alive
<1>6. CASE ThreadSteps
  <2>1. ASSUME NEW s \in Spawners, ThreadRuns(s) PROVE [Nested!Next]_(Nested!vars)
    <3>1. CASE RunCreate(s)
      BY <1>2, <1>6, <3>1, NestedCreate DEF RunCreate, ThreadSteps
    <3>2. CASE RunCancel(s) \/ AwaitInner(s) \/ Answer(s) \/ StartTarget(s)
      <4>1. UNCHANGED target \/ StartTarget(s)
        BY <3>2 DEF RunCancel, AwaitInner, Answer, spawnVars, targetVars
      <4> QED BY <1>3, <4>1
    <3>3. CASE EndTarget(s) BY <1>1, <1>2, <3>3, NestedEnd
    <3> QED BY <2>1, <3>1, <3>2, <3>3 DEF ThreadRuns
  <2>2. CASE Deliver \/ LeaveTaskGroup
    <3>1. UNCHANGED target BY <2>2 DEF Deliver, Resolve, LeaveTaskGroup, targetVars
    <3> QED BY <1>3, <3>1
  <2>3. CASE CloseLoop
    <3>1. target' = Gone(Alive) BY <1>5, <2>3 DEF CloseLoop, Gone
    <3> QED BY <1>4, <3>1
  <2> QED BY <1>6, <2>1, <2>2, <2>3 DEF ThreadSteps
<1>7. CASE ProcessSteps
  <2>1. ASSUME NEW s \in Spawners, ChildRuns(s) PROVE [Nested!Next]_(Nested!vars)
    <3>1. CASE ReadCreate(s)
      BY <1>2, <3>1, NestedCreate DEF ReadCreate
    <3>2. CASE ReadCancel(s)
      <4>1. CASE target[s] = "created"
        <5>1. target' = Gone({s}) /\ {s} \in SUBSET Alive
          BY <3>2, <4>1 DEF ReadCancel, Alive
        <5> QED BY <1>4, <5>1
      <4>2. CASE target[s] # "created"
        <5>1. UNCHANGED target BY <3>2, <4>2 DEF ReadCancel
        <5> QED BY <1>3, <5>1
      <4> QED BY <4>1, <4>2
    <3>3. CASE StartTarget(s) BY <1>3, <3>3
    <3>4. CASE EndTask(s) BY <1>1, <1>2, <3>4, NestedEnd DEF EndTask
    <3> QED BY <2>1, <3>1, <3>2, <3>3, <3>4 DEF ChildRuns
  <2>2. CASE ReadAnswer \/ ReadEOF \/ ChildExits
    <3>1. UNCHANGED target BY <2>2 DEF ReadAnswer, Resolve, ReadEOF, ChildExits, targetVars
    <3> QED BY <1>3, <3>1
  <2>3. CASE ReadShutdown
    <3> DEFINE S == {s \in Alive : target[s] = "created"}
    <3>1. target' = Gone(S) /\ S \in SUBSET Alive BY <2>3 DEF ReadShutdown
    <3> QED BY <1>4, <3>1
  <2> QED BY <1>7, <2>1, <2>2, <2>3 DEF ProcessSteps
<1>8. CASE Unforced
  <2>1. CASE ExitManager \/ ExitProcess
    <3>1. UNCHANGED target BY <2>1 DEF ExitManager, ExitProcess, targetVars
    <3> QED BY <1>3, <3>1
  <2>2. CASE Crash
    <3>1. target' = Gone(Alive) BY <2>2 DEF Crash
    <3> QED BY <1>4, <3>1
  <2>3. ASSUME NEW s \in Spawners, ThreadMay(s) \/ ChildMay(s)
        PROVE  [Nested!Next]_(Nested!vars)
    <3>1. CASE EndTarget(s) BY <1>1, <1>2, <3>1, NestedEnd
    <3>2. CASE SuppressTarget(s) BY <1>3, <3>2 DEF SuppressTarget
    <3> QED BY <2>3, <3>1, <3>2 DEF ThreadMay, ChildMay, EndTask
  <2> QED BY <1>8, <2>1, <2>2, <2>3 DEF Unforced
<1> QED BY <1>6, <1>7, <1>8

LEMMA CallersStayStep ==
  ASSUME RemoteInv, CallersStay, [RemoteNext]_remoteVars
  PROVE  CallersStay'
<1> DEFINE Dead == remote = "process" /\ remoteStage \in {"crashed", "eof", "closed"}
<1>1. SpawnTypeOK BY DEF RemoteInv, RemoteTypeOK
<1>2. SUFFICES ASSUME NEW s \in Spawners, future'[s] = "pending"
               PROVE  spawn'[s] = "waiting" \/ Dead'
  BY DEF CallersStay
<1>3. UNCHANGED remote
  BY DEF RemoteNext, Calls, CallersRun, ThreadSteps, ProcessSteps, Unforced, SpawnInThread,
     SpawnInProcess, Call, Refuse, CancelSpawn, SpawnCaller, ForwardToThread,
     ForwardToProcess, Forward, Finish, ThreadRuns, ThreadMay, ChildRuns, ChildMay,
     RunCreate, RunCancel, AwaitInner, Answer, InThread, Deliver, Resolve, LeaveTaskGroup,
     CloseLoop, ReadCreate, ReadCancel, InProcess, EndTask, ReadAnswer, ReadEOF,
     ReadShutdown, ChildExits, ExitManager, ExitProcess, Crash, remoteVars, spawnVars
<1>4. CASE Calls \/ CallersRun
  <2>1. UNCHANGED remoteStage
    BY <1>4 DEF Calls, CallersRun, SpawnInThread, SpawnInProcess, Call, Refuse, CancelSpawn,
       SpawnCaller, ForwardToThread, ForwardToProcess, Forward, Finish
  <2>2. PICK c \in Spawners :
          \/ Call(c) \/ CancelSpawn(c)
          \/ Forward(c, remoteStage # "closed") \/ Forward(c, remoteStage = "open")
          \/ \E outcome : Finish(c, outcome)
          \/ Refuse(c) /\ (spawn[c] = "idle" \/ Dead)
    BY <1>1, <1>4 DEF Calls, CallersRun, SpawnInThread, SpawnInProcess, SpawnCaller,
       ForwardToThread, ForwardToProcess, SpawnTypeOK
  <2>3. CASE Call(c) BY <1>1, <1>2, <1>3, <2>1, <2>3 DEF Call, CallersStay, SpawnTypeOK
  <2>4. CASE CancelSpawn(c) \/ Forward(c, remoteStage # "closed")
               \/ Forward(c, remoteStage = "open")
    <3>1. UNCHANGED <<spawn, future>> BY <2>4 DEF CancelSpawn, Forward
    <3> QED BY <1>2, <1>3, <2>1, <3>1 DEF CallersStay
  <2>5. ASSUME NEW outcome, Finish(c, outcome) PROVE spawn'[s] = "waiting" \/ Dead'
    <3>1. /\ UNCHANGED future /\ future[c] # "pending"
          /\ \A d \in Spawners \ {c} : spawn'[d] = spawn[d]
      BY <1>1, <2>5 DEF Finish, Resolved, SpawnOutcomes, SpawnTypeOK
    <3> QED BY <1>2, <1>3, <2>1, <3>1 DEF CallersStay
  <2>6. CASE Refuse(c) /\ (spawn[c] = "idle" \/ Dead)
    <3>1. /\ UNCHANGED future /\ (future[c] # "pending" \/ Dead)
          /\ \A d \in Spawners \ {c} : spawn'[d] = spawn[d]
      BY <1>1, <2>6 DEF Refuse, SpawnTypeOK, RemoteInv, FuturesTrue
    <3> QED BY <1>2, <1>3, <2>1, <3>1 DEF CallersStay
  <2> QED BY <2>2, <2>3, <2>4, <2>5, <2>6
<1>5. CASE ThreadSteps \/ ProcessSteps \/ Unforced \/ UNCHANGED remoteVars
  <2>1. UNCHANGED spawn
    BY <1>5 DEF ThreadSteps, ProcessSteps, Unforced, ThreadRuns, ThreadMay, ChildRuns,
       ChildMay, RunCreate, RunCancel, AwaitInner, Answer, InThread, Deliver, Resolve,
       LeaveTaskGroup, CloseLoop, ReadCreate, ReadCancel, InProcess, EndTask, ReadAnswer,
       ReadEOF, ReadShutdown, ChildExits, ExitManager, ExitProcess, Crash, callVars,
       spawnVars, remoteVars
  <2>2. Dead => Dead'
    BY <1>3, <1>5 DEF ThreadSteps, ProcessSteps, Unforced, ChildRuns,
       ChildMay, Resolve, ReadCreate, ReadCancel, InProcess, EndTask, ReadAnswer,
       ReadEOF, ReadShutdown, ChildExits, ExitProcess, Crash, Serving, spawnVars, remoteVars
  <2>3. future[s] = "pending"
    <3>1. CASE UNCHANGED future BY <1>2, <3>1
    <3>2. CASE ReadEOF BY <1>2, <3>2 DEF ReadEOF
    <3>3. ASSUME NEW i \in DOMAIN answers, Resolve(i) PROVE future[s] = "pending"
      <4>1. i \in 1 .. Len(answers) /\ answers[i] \in Spawners
        BY <1>1, <3>3, QueueLengths, LenProperties DEF SpawnTypeOK
      <4>2. Ended(answers[i]) BY <4>1 DEF RemoteInv, AnswersFresh
      <4>3. future' = [future EXCEPT ![answers[i]] = target[answers[i]]]
        BY <3>3 DEF Resolve
      <4> QED BY <1>1, <1>2, <4>1, <4>2, <4>3 DEF Ended, SpawnOutcomes, SpawnTypeOK
    <3>4. CASE ReadAnswer
      <4>1. answers \in Seq(Spawners) /\ answers # <<>> /\ Resolve(1)
        BY <1>1, <3>4 DEF ReadAnswer, SpawnTypeOK
      <4>2. 1 \in DOMAIN answers BY <4>1, EmptySeq, LenProperties
      <4> QED BY <3>3, <4>1, <4>2
    <3>5. UNCHANGED future \/ ReadEOF \/ ReadAnswer \/ Deliver
      BY <1>5 DEF ThreadSteps, ProcessSteps, Unforced, ThreadRuns, ThreadMay, ChildRuns,
         ChildMay, RunCreate, RunCancel, AwaitInner, Answer, InThread,
         LeaveTaskGroup, CloseLoop, ReadCreate, ReadCancel, InProcess, EndTask,
         ReadShutdown, ChildExits, ExitManager, ExitProcess, Crash, callVars,
         spawnVars, remoteVars
    <3> QED BY <3>1, <3>2, <3>3, <3>4, <3>5 DEF Deliver
  <2> QED BY <2>1, <2>2, <2>3 DEF CallersStay
<1> QED BY <1>4, <1>5 DEF RemoteNext

(* Whatever is cancelled, exited or killed, a target lives only while its  *)
(* caller waits, for any number of spawners and cancellations.             *)
THEOREM SpawnsNested == TasksSpec => SpawnsAreNested
<1>1. RemoteInit => Nested!Init /\ CallersStay
  <2> SUFFICES ASSUME RemoteInit PROVE Nested!Init /\ CallersStay
    OBVIOUS
  <2>1. SpawnInit BY DEF RemoteInit
  <2>2. Run = [s \in Spawners |-> "none"] BY <2>1 DEF SpawnInit, Run
  <2>3. Nested!Init BY <2>1, <2>2 DEF SpawnInit, Nested!Init, Run
  <2>4. CallersStay BY <2>1 DEF SpawnInit, CallersStay
  <2> QED BY <2>3, <2>4
<1>2. RemoteInv /\ CallersStay /\ [RemoteNext]_remoteVars
        => CallersStay' /\ [Nested!Next]_(Nested!vars)
  <2> SUFFICES ASSUME RemoteInv, CallersStay, [RemoteNext]_remoteVars
               PROVE  CallersStay' /\ [Nested!Next]_(Nested!vars)
    OBVIOUS
  <2>1. CallersStay' BY CallersStayStep
  <2>2. CASE UNCHANGED remoteVars
    <3>1. UNCHANGED <<spawn, target>>
      BY <2>2 DEF remoteVars, spawnVars, callVars, targetVars
    <3>2. SpawnTypeOK BY DEF RemoteInv, RemoteTypeOK
    <3> QED BY <2>1, <3>1, <3>2, NestedStutter
  <2>3. CASE RemoteNext
    BY <2>1, <2>3, NestedCallers, NestedRemote DEF RemoteNext
  <2> QED BY <2>2, <2>3
<1> QED BY <1>1, <1>2, TasksImplementParts, RemoteInvariant, PTL
     DEF RemoteSpec, SpawnsAreNested, Nested!Spec

-----------------------------------------------------------------------------
(* launch_in_thread_loop and launch_in_thread_loop_sync.                   *)

CallerPC == pc[LaunchCaller]
CallerWants == want[LaunchCaller]

(* The order of what thread_main does: the loop ends only once the target  *)
(* did, the result is stored once it did, and "join" is announced then.    *)
ThreadInOrder ==
  /\ thread \in {"none", "started"} <=> task = "none"
  /\ steps => task # "none"
  /\ LaunchOver(task) => steps
  /\ thread \in {"closed", "returning", "over"} => LaunchOver(task)
  /\ thread \in {"returning", "over"} => result # "none"
  /\ result # "none" => result = task /\ thread \in {"closed", "returning", "over"}

(* Nobody hears of "running" before the target's first step, as that is    *)
(* queued first; nor does the main task go on before the target has ended. *)
QueueInOrder ==
  /\ launchStage # "preparing" => steps
  /\ launchStage = "join" <=> thread \in {"returning", "over"}
  /\ thread = "looping" /\ ~steps => ready # <<>> /\ Head(ready) = "target"
  /\ \A i \in DOMAIN ready : ready[i] = "main" => LaunchOver(task)

(* The caller went past a wait only if the stage it asked for was reached. *)
CallerInOrder ==
  /\ CallerWants \in {{}, LaunchStarted, {"join"}}
  /\ caller = "idle" => thread = "none"
  /\ caller \in {"idle", "submitted"} => CallerPC = "idle"
  /\ caller \in {"starting", "finishing"} => CallerPC \in {"waiting", "returned", "cancelled"}
  /\ caller \notin {"idle", "submitted", "starting", "finishing"} => CallerPC = "returned"
  /\ CallerPC = "returned" => /\ launchStage # "preparing"
                              /\ CallerWants = {"join"} => launchStage = "join"
  /\ caller \notin {"idle", "submitted", "starting"} => launchStage # "preparing"
  /\ caller = "finishing" => CallerWants = {"join"}
  /\ caller = "joining" => launchStage = "join"

(* No cancellation is forgotten: whoever was cancelled knows, or will. *)
CancelsRemembered ==
  Async /\ launchCancels > 0 => launchCancelled \/ late \/ CallerPC = "cancelled"

LaunchInv ==
  /\ LaunchTypeOK
  /\ ThreadInOrder
  /\ QueueInOrder
  /\ CallerInOrder
  /\ CancelsRemembered
  /\ ReportsTarget
  /\ CancelNotLost

(* What the caller does to its stage. *)
Looks == CallerPC' = IF launchStage \in CallerWants' THEN "returned" ELSE "waiting"

LEMMA CallerTyped ==
  ASSUME LaunchTypeOK
  PROVE  /\ LaunchCaller \in Stage!Actors /\ LaunchStarted \in SUBSET Stages
         /\ (UNCHANGED kind => LaunchCaller' = LaunchCaller /\ LaunchStarted' = LaunchStarted)
BY DEF LaunchCaller, Stage!Actors, LaunchStarted, Stages, Async

LEMMA StageCalled ==
  ASSUME LaunchTypeOK, UNCHANGED kind, NEW fn \in SUBSET Stages, Stage!Call(LaunchCaller, fn)
  PROVE  Stage!TypeOK' /\ UNCHANGED launchStage /\ CallerWants' = fn /\ Looks
<1>1. Stage!TypeOK /\ LaunchCaller \in Stage!Actors /\ LaunchCaller' = LaunchCaller
  BY CallerTyped DEF LaunchTypeOK
<1>2. /\ want' = [want EXCEPT ![LaunchCaller] = fn] /\ asked' = asked \ {LaunchCaller}
      /\ UNCHANGED <<launchStage, signalled, launchClosed>>
      /\ pc' = [pc EXCEPT ![LaunchCaller] =
                  IF launchStage \in fn THEN "returned" ELSE "waiting"]
      /\ UNCHANGED <<blocked, futures>> \/ Stage!Register(LaunchCaller)
  BY DEF Stage!Call, Stage!Look
<1>3. futures' \in [{CallerLoop} -> SUBSET {AsyncCaller}] /\ blocked' \subseteq {SyncCaller}
  BY <1>1, <1>2 DEF Stage!TypeOK, Stage!Register, Stage!Actors
<1>4. Stage!TypeOK' BY <1>1, <1>2, <1>3 DEF Stage!TypeOK, Stage!Actors, Stage!States
<1> QED BY <1>1, <1>2, <1>4 DEF Stage!TypeOK, Looks, CallerPC, CallerWants

LEMMA StageResumed ==
  ASSUME LaunchTypeOK, UNCHANGED kind, Stage!Resume(LaunchCaller)
  PROVE  /\ Stage!TypeOK' /\ UNCHANGED launchStage /\ UNCHANGED CallerWants /\ Looks
         /\ CallerPC = "waiting"
<1>1. Stage!TypeOK /\ LaunchCaller \in Stage!Actors /\ LaunchCaller' = LaunchCaller
  BY CallerTyped DEF LaunchTypeOK
<1>2. /\ UNCHANGED <<launchStage, want, asked, launchClosed>>
      /\ signalled' = signalled \ {LaunchCaller} /\ pc[LaunchCaller] = "waiting"
      /\ pc' = [pc EXCEPT ![LaunchCaller] =
                  IF launchStage \in want[LaunchCaller] THEN "returned" ELSE "waiting"]
      /\ UNCHANGED <<blocked, futures>> \/ Stage!Register(LaunchCaller)
  BY DEF Stage!Resume, Stage!Look
<1>3. futures' \in [{CallerLoop} -> SUBSET {AsyncCaller}] /\ blocked' \subseteq {SyncCaller}
  BY <1>1, <1>2 DEF Stage!TypeOK, Stage!Register, Stage!Actors
<1>4. Stage!TypeOK' BY <1>1, <1>2, <1>3 DEF Stage!TypeOK, Stage!Actors, Stage!States
<1> QED BY <1>1, <1>2, <1>4 DEF Stage!TypeOK, Looks, CallerPC, CallerWants

LEMMA StageSet ==
  ASSUME LaunchTypeOK, UNCHANGED kind, NEW v \in Stages, SetStage(v)
  PROVE  /\ Stage!TypeOK' /\ launchStage' = v
         /\ UNCHANGED CallerPC /\ UNCHANGED CallerWants
<1>1. Stage!TypeOK /\ LaunchCaller' = LaunchCaller
  BY CallerTyped DEF LaunchTypeOK
<1>2. CASE launchStage = v
  BY <1>1, <1>2 DEF SetStage, stageVars, Stage!TypeOK, CallerPC, CallerWants
<1>3. CASE launchStage # v
  <2>1. /\ launchStage' = v /\ blocked' = {} /\ UNCHANGED <<pc, want, asked, launchClosed>>
        /\ signalled' = signalled \cup UNION {futures[k] : k \in {CallerLoop} \ launchClosed}
        /\ futures' = [k \in {CallerLoop} |-> {}]
    BY <1>3 DEF SetStage, Stage!Update, Stage!Signal
  <2>2. UNION {futures[k] : k \in {CallerLoop} \ launchClosed} \subseteq {AsyncCaller}
    BY <1>1 DEF Stage!TypeOK
  <2>3. Stage!TypeOK' BY <1>1, <2>1, <2>2 DEF Stage!TypeOK
  <2> QED BY <1>1, <2>1, <2>3 DEF CallerPC, CallerWants
<1> QED BY <1>2, <1>3

LEMMA StageCancelled ==
  ASSUME LaunchTypeOK, UNCHANGED kind, Stage!Cancel(LaunchCaller)
  PROVE  /\ Stage!TypeOK' /\ UNCHANGED launchStage /\ UNCHANGED CallerWants
         /\ CallerPC = "waiting" /\ CallerPC' = "cancelled"
<1>1. Stage!TypeOK /\ LaunchCaller \in Stage!Actors /\ LaunchCaller' = LaunchCaller
  BY CallerTyped DEF LaunchTypeOK
<1>2. /\ UNCHANGED <<launchStage, want, blocked, launchClosed>> /\ pc[LaunchCaller] = "waiting"
      /\ signalled' = signalled \ {LaunchCaller} /\ asked' = asked \cup {LaunchCaller}
      /\ LaunchCaller \in {AsyncCaller}
      /\ pc' = [a \in Stage!Actors |-> IF a = LaunchCaller THEN "cancelled" ELSE pc[a]]
      /\ futures' = [k \in {CallerLoop} |-> futures[k] \ {LaunchCaller}]
  BY DEF Stage!Cancel, Stage!Withdraw
<1>3. Stage!TypeOK' BY <1>1, <1>2 DEF Stage!TypeOK, Stage!Actors, Stage!States
<1> QED BY <1>1, <1>2, <1>3 DEF CallerPC, CallerWants

-----------------------------------------------------------------------------
(* The ready queue of the thread's loop.                                   *)

Callbacks == {"target", "running", "cancel", "main"}

LEMMA Popped ==
  ASSUME LaunchTypeOK, NEW what, Pop(what)
  PROVE  /\ Tail(ready) \in Seq(Callbacks) /\ ready # <<>> /\ Head(ready) = what
         /\ 1 \in DOMAIN ready /\ ready[1] = what
         /\ \A i \in DOMAIN Tail(ready) : \E j \in DOMAIN ready : Tail(ready)[i] = ready[j]
<1>1. ready \in Seq(Callbacks) /\ ready # <<>> /\ Head(ready) = what /\ Len(ready) \in Nat
      /\ DOMAIN ready = 1 .. Len(ready)
  BY LenProperties DEF LaunchTypeOK, Callbacks, Pop
<1>2. /\ Tail(ready) \in Seq(Callbacks) /\ Len(Tail(ready)) = Len(ready) - 1
      /\ \A i \in 1 .. Len(Tail(ready)) : Tail(ready)[i] = ready[i + 1]
      /\ Head(ready) = ready[1] /\ Len(ready) # 0
  BY <1>1, HeadTailProperties, EmptySeq
<1>3. DOMAIN Tail(ready) = 1 .. Len(Tail(ready)) BY <1>2, LenProperties
<1>4. \A i \in DOMAIN Tail(ready) : i + 1 \in DOMAIN ready /\ Tail(ready)[i] = ready[i + 1]
  BY <1>1, <1>2, <1>3
<1> QED BY <1>1, <1>2, <1>4

LEMMA Pushed ==
  ASSUME NEW q \in Seq(Callbacks), NEW what \in Callbacks
  PROVE  /\ Append(q, what) \in Seq(Callbacks) /\ Append(q, what) # <<>>
         /\ q # <<>> => Head(Append(q, what)) = Head(q)
         /\ \A i \in DOMAIN Append(q, what) :
              \/ Append(q, what)[i] = what
              \/ \E j \in DOMAIN q : Append(q, what)[i] = q[j]
<1> DEFINE longer == Append(q, what)
<1>1. /\ longer \in Seq(Callbacks) /\ Len(longer) = Len(q) + 1 /\ longer # <<>>
      /\ longer[Len(q) + 1] = what /\ \A i \in 1 .. Len(q) : longer[i] = q[i]
      /\ Len(q) \in Nat /\ DOMAIN q = 1 .. Len(q)
  BY AppendProperties, LenProperties
<1> HIDE DEF longer
<1>2. DOMAIN longer = 1 .. Len(q) + 1 BY <1>1, LenProperties
<1>3. q # <<>> => Head(longer) = Head(q)
  <2> SUFFICES ASSUME q # <<>> PROVE Head(longer) = Head(q) OBVIOUS
  <2>1. Len(q) # 0 /\ Head(q) = q[1] BY <1>1, HeadTailProperties, EmptySeq
  <2>2. Head(longer) = longer[1] BY <1>1, HeadTailProperties
  <2> QED BY <1>1, <2>1, <2>2
<1>4. \A i \in DOMAIN longer : longer[i] = what \/ \E j \in DOMAIN q : longer[i] = q[j]
  BY <1>1, <1>2
<1> QED BY <1>1, <1>3, <1>4 DEF longer

-----------------------------------------------------------------------------
(* The thread.                                                             *)

(* The steps of the thread take nothing from the caller. *)
LEMMA ThreadKeeps ==
  ASSUME LaunchInv, UNCHANGED kind, UNCHANGED callerVars,
         UNCHANGED CallerPC, UNCHANGED CallerWants,
         launchStage # "preparing" => launchStage' # "preparing",
         launchStage = "join" => launchStage' = "join",
         thread = "none" => thread' = "none",
         thread = "over" => thread' = "over" /\ UNCHANGED task,
         steps => steps'
  PROVE  CallerInOrder' /\ CancelsRemembered' /\ ReportsTarget' /\ CancelNotLost'
<1> USE DEF LaunchInv
<1>1. UNCHANGED <<caller, launchCancelled, late, launchCancels>> BY DEF callerVars
<1>2. LaunchStarted' = LaunchStarted /\ Async' = Async BY CallerTyped DEF Async
<1>3. CallerInOrder' BY <1>1, <1>2 DEF CallerInOrder
<1>4. CancelsRemembered' BY <1>1, <1>2 DEF CancelsRemembered
<1>5. ReportsTarget'
  <2>1. /\ caller \notin {"idle", "submitted", "starting"} => steps
        /\ LaunchOver(caller) => thread = "over" /\ LaunchOver(task)
        /\ caller = "error" => task = "error"
        /\ caller = "value" => task \in IF Async THEN {"value"} ELSE {"value", "cancelled"}
    BY DEF ReportsTarget
  <2>2. LaunchOver(caller) => thread' = "over" /\ task' = task BY <2>1
  <2> QED BY <1>1, <1>2, <2>1, <2>2 DEF ReportsTarget, LaunchOver
<1>6. CancelNotLost' BY <1>1, <1>2 DEF CancelNotLost
<1> QED BY <1>3, <1>4, <1>5, <1>6

LEMMA StageKept ==
  ASSUME LaunchTypeOK, UNCHANGED kind, UNCHANGED stageVars
  PROVE  Stage!TypeOK' /\ UNCHANGED launchStage /\ UNCHANGED CallerPC /\ UNCHANGED CallerWants
BY CallerTyped DEF LaunchTypeOK, stageVars, Stage!TypeOK, CallerPC, CallerWants

LEMMA LaunchThreadStep ==
  ASSUME LaunchInv, UNCHANGED kind, ThreadNext \/ WakeTarget
  PROVE  LaunchInv'
<1> USE DEF LaunchInv
<1>0. /\ thread \in {"none", "started", "looping", "closed", "returning", "over"}
      /\ ready \in Seq(Callbacks)
      /\ task \in {"none", "pending", "value", "error", "cancelled"}
      /\ launchTold \in BOOLEAN /\ steps \in BOOLEAN
      /\ result \in {"none", "value", "error", "cancelled"}
      /\ launchStage \in Stages
  BY DEF LaunchTypeOK, Callbacks, Stage!TypeOK
<1>a. SUFFICES LaunchTypeOK' /\ ThreadInOrder' /\ QueueInOrder' /\ CallerInOrder'
               /\ CancelsRemembered' /\ ReportsTarget' /\ CancelNotLost'
  OBVIOUS
<1>b. ASSUME UNCHANGED callerVars, Stage!TypeOK',
             thread' \in {"none", "started", "looping", "closed", "returning", "over"},
             ready' \in Seq(Callbacks),
             task' \in {"none", "pending", "value", "error", "cancelled"},
             launchTold' \in BOOLEAN, steps' \in BOOLEAN,
             result' \in {"none", "value", "error", "cancelled"}
      PROVE  LaunchTypeOK'
  BY <1>b DEF LaunchTypeOK, Callbacks, callerVars
<1>1. CASE EnterLoop
  <2>1. /\ thread = "started" /\ thread' = "looping" /\ task' = "pending"
        /\ ready' = <<"target", "running">>
        /\ UNCHANGED <<launchTold, steps, result, callerVars>>
        /\ Stage!TypeOK' /\ UNCHANGED launchStage /\ UNCHANGED CallerPC /\ UNCHANGED CallerWants
    BY <1>1, StageKept DEF EnterLoop
  <2>2. task = "none" /\ ~steps /\ result = "none" BY <2>1 DEF ThreadInOrder
  <2>3. ready' \in Seq(Callbacks) BY <2>1 DEF Callbacks
  <2>4. LaunchTypeOK' BY <1>0, <1>b, <2>1, <2>3
  <2>5. ThreadInOrder' BY <2>1, <2>2 DEF ThreadInOrder, LaunchOver
  <2>6. /\ ready' # <<>> /\ Head(ready') = "target"
        /\ \A i \in DOMAIN ready' : ready'[i] # "main"
    BY <2>1
  <2>7. QueueInOrder' BY <2>1, <2>2, <2>6 DEF QueueInOrder
  <2> QED BY <2>1, <2>4, <2>5, <2>7, ThreadKeeps
<1>2. CASE StepTarget
  <2>1. /\ Pop("target") /\ thread = "looping" /\ steps' = TRUE /\ launchTold' = FALSE
        /\ UNCHANGED <<thread, result, callerVars>>
        /\ Stage!TypeOK' /\ UNCHANGED launchStage /\ UNCHANGED CallerPC /\ UNCHANGED CallerWants
    BY <1>2, StageKept DEF StepTarget, Pop
  <2>2. task # "none" /\ result = "none" BY <2>1 DEF ThreadInOrder
  <2>3. \/ LaunchOver(task') /\ ready' = Append(Tail(ready), "main")
        \/ task' = task /\ ready' = Tail(ready)
    BY <1>2 DEF StepTarget, LaunchOver
  <2>4. /\ Tail(ready) \in Seq(Callbacks)
        /\ \A i \in DOMAIN Tail(ready) : \E j \in DOMAIN ready : Tail(ready)[i] = ready[j]
    BY <2>1, Popped
  <2>5. /\ ready' \in Seq(Callbacks)
        /\ \A i \in DOMAIN ready' : ready'[i] = "main" => LaunchOver(task')
    <3>1. CASE LaunchOver(task') /\ ready' = Append(Tail(ready), "main")
      BY <2>4, <3>1, Pushed DEF Callbacks
    <3>2. CASE task' = task /\ ready' = Tail(ready)
      BY <2>4, <3>2 DEF QueueInOrder
    <3> QED BY <2>3, <3>1, <3>2
  <2>6. task' \in {"pending", "value", "error", "cancelled"}
    BY <1>0, <2>2, <2>3 DEF LaunchOver
  <2>7. LaunchTypeOK' BY <1>0, <1>b, <2>1, <2>5, <2>6
  <2>8. ThreadInOrder' BY <2>1, <2>2, <2>6 DEF ThreadInOrder, LaunchOver
  <2>9. QueueInOrder'
    <3>1. \A i \in DOMAIN ready' : ready'[i] = "main" => LaunchOver(task)'
      BY <2>5 DEF LaunchOver
    <3> QED BY <2>1, <3>1 DEF QueueInOrder
  <2> QED BY <2>1, <2>7, <2>8, <2>9, ThreadKeeps
<1>3. CASE WakeTarget \/ CancelTarget \/ RunSetRunning
  <2>1. /\ thread = "looping"
        /\ UNCHANGED <<thread, task, steps, result, callerVars>> /\ launchTold' \in BOOLEAN
    BY <1>0, <1>3 DEF WakeTarget, CancelTarget, RunSetRunning, Pop
  <2>2. /\ Stage!TypeOK' /\ UNCHANGED CallerPC /\ UNCHANGED CallerWants
        /\ launchStage' = IF RunSetRunning THEN "running" ELSE launchStage
    <3>1. CASE RunSetRunning
      BY <3>1, StageSet DEF RunSetRunning, Stages
    <3>2. CASE ~RunSetRunning
      <4>1. UNCHANGED stageVars BY <1>3, <3>2 DEF WakeTarget, CancelTarget
      <4> QED BY <3>2, <4>1, StageKept
    <3> QED BY <3>1, <3>2
  <2>3. ~steps => WakeTarget
    BY <1>3, <2>1 DEF CancelTarget, RunSetRunning, Pop, QueueInOrder
  <2>4. /\ ready' \in Seq(Callbacks)
        /\ ~steps => ready' # <<>> /\ Head(ready') = "target"
        /\ \A i \in DOMAIN ready' : ready'[i] = "main" => LaunchOver(task)
    <3>1. CASE WakeTarget
      <4>1. ready' = Append(ready, "target") BY <3>1 DEF WakeTarget
      <4>2. "target" \in Callbacks BY DEF Callbacks
      <4> QED BY <1>0, <2>1, <4>1, <4>2, Pushed DEF QueueInOrder
    <3>2. CASE CancelTarget \/ RunSetRunning
      <4>1. Pop("cancel") \/ Pop("running") BY <3>2 DEF CancelTarget, RunSetRunning
      <4>2. steps BY <2>1, <4>1 DEF QueueInOrder, Pop
      <4>3. /\ Tail(ready) \in Seq(Callbacks)
            /\ \A i \in DOMAIN Tail(ready) : \E j \in DOMAIN ready : Tail(ready)[i] = ready[j]
        BY <4>1, Popped
      <4>4. ready' = Tail(ready) \/ ready' = Append(Tail(ready), "target")
        BY <3>2 DEF CancelTarget, RunSetRunning
      <4>5. \A i \in DOMAIN Tail(ready) : Tail(ready)[i] = "main" => LaunchOver(task)
        BY <4>3 DEF QueueInOrder
      <4>6. CASE ready' = Tail(ready) BY <4>2, <4>3, <4>5, <4>6
      <4>7. CASE ready' = Append(Tail(ready), "target")
        <5>1. "target" \in Callbacks BY DEF Callbacks
        <5>2. /\ ready' \in Seq(Callbacks)
              /\ \A i \in DOMAIN ready' :
                   \/ ready'[i] = "target"
                   \/ \E j \in DOMAIN Tail(ready) : ready'[i] = Tail(ready)[j]
          BY <4>3, <4>7, <5>1, Pushed
        <5> QED BY <4>2, <4>5, <5>2
      <4> QED BY <4>4, <4>6, <4>7
    <3> QED BY <1>3, <3>1, <3>2
  <2>5. LaunchTypeOK' BY <1>0, <1>b, <2>1, <2>2, <2>4
  <2>6. ThreadInOrder' BY <2>1 DEF ThreadInOrder, LaunchOver
  <2>7. launchStage # "join" /\ (RunSetRunning => steps)
    BY <2>1, <2>3 DEF QueueInOrder, RunSetRunning, Pop
  <2>8. QueueInOrder'
    <3>1. \A i \in DOMAIN ready' : ready'[i] = "main" => LaunchOver(task)'
      BY <2>1, <2>4 DEF LaunchOver
    <3>2. launchStage' # "preparing" => steps BY <2>2, <2>7 DEF QueueInOrder
    <3> QED BY <2>1, <2>2, <2>4, <2>7, <3>1, <3>2 DEF QueueInOrder
  <2> QED BY <2>1, <2>2, <2>5, <2>6, <2>7, <2>8, ThreadKeeps
<1>4. CASE LeaveLoop
  <2>1. /\ Pop("main") /\ thread = "looping" /\ thread' = "closed" /\ ready' = <<>>
        /\ UNCHANGED <<task, launchTold, steps, result, callerVars>>
        /\ Stage!TypeOK' /\ UNCHANGED launchStage /\ UNCHANGED CallerPC /\ UNCHANGED CallerWants
    BY <1>4, StageKept DEF LeaveLoop, Pop
  <2>2. LaunchOver(task) BY <2>1, Popped DEF QueueInOrder
  <2>3. ready' \in Seq(Callbacks) /\ \A i \in DOMAIN ready' : ready'[i] # "main" BY <2>1
  <2>4. LaunchTypeOK' BY <1>0, <1>b, <2>1, <2>3
  <2>5. ThreadInOrder' BY <2>1, <2>2 DEF ThreadInOrder, LaunchOver
  <2>6. QueueInOrder' BY <2>1, <2>3 DEF QueueInOrder
  <2> QED BY <2>1, <2>4, <2>5, <2>6, ThreadKeeps
<1>5. CASE StoreResult
  <2>1. /\ thread = "closed" /\ result' = task
        /\ UNCHANGED <<thread, ready, task, launchTold, steps, callerVars>>
        /\ Stage!TypeOK' /\ UNCHANGED launchStage /\ UNCHANGED CallerPC /\ UNCHANGED CallerWants
    BY <1>5, StageKept DEF StoreResult
  <2>2. LaunchOver(task) BY <2>1 DEF ThreadInOrder
  <2>3. LaunchTypeOK' BY <1>0, <1>b, <2>1, <2>2 DEF LaunchOver
  <2>4. ThreadInOrder' BY <2>1, <2>2 DEF ThreadInOrder, LaunchOver
  <2>5. QueueInOrder' BY <2>1 DEF QueueInOrder, LaunchOver
  <2> QED BY <2>1, <2>3, <2>4, <2>5, ThreadKeeps
<1>6. CASE SetJoin
  <2>1. /\ thread = "closed" /\ thread' = "returning" /\ result # "none"
        /\ UNCHANGED <<ready, task, launchTold, steps, result, callerVars>>
        /\ Stage!TypeOK' /\ launchStage' = "join" /\ UNCHANGED CallerPC /\ UNCHANGED CallerWants
    BY <1>6, StageSet DEF SetJoin, Stages
  <2>2. LaunchOver(task) /\ steps BY <2>1 DEF ThreadInOrder
  <2>3. LaunchTypeOK' BY <1>0, <1>b, <2>1
  <2>4. ThreadInOrder' BY <2>1, <2>2 DEF ThreadInOrder, LaunchOver
  <2>5. QueueInOrder' BY <2>1, <2>2 DEF QueueInOrder, LaunchOver
  <2> QED BY <2>1, <2>3, <2>4, <2>5, ThreadKeeps
<1>7. CASE EndThread
  <2>1. /\ thread = "returning" /\ thread' = "over"
        /\ UNCHANGED <<ready, task, launchTold, steps, result, callerVars>>
        /\ Stage!TypeOK' /\ UNCHANGED launchStage /\ UNCHANGED CallerPC /\ UNCHANGED CallerWants
    BY <1>7, StageKept DEF EndThread
  <2>2. LaunchTypeOK' BY <1>0, <1>b, <2>1
  <2>3. ThreadInOrder' BY <2>1 DEF ThreadInOrder, LaunchOver
  <2>4. QueueInOrder' BY <2>1 DEF QueueInOrder, LaunchOver
  <2> QED BY <2>1, <2>2, <2>3, <2>4, ThreadKeeps
<1> QED BY <1>1, <1>2, <1>3, <1>4, <1>5, <1>6, <1>7 DEF ThreadNext

-----------------------------------------------------------------------------
(* The caller.                                                             *)

(* All that the caller does to the thread is to send it cancellations. *)
LEMMA CallerTakesNothing ==
  ASSUME LaunchInv, UNCHANGED kind, UNCHANGED <<thread, task, launchTold, steps, result>>,
         UNCHANGED launchStage, UNCHANGED ready \/ ForwardCancel
  PROVE  ready' \in Seq(Callbacks) /\ ThreadInOrder' /\ QueueInOrder'
<1> USE DEF LaunchInv
<1>1. ready \in Seq(Callbacks) BY DEF LaunchTypeOK, Callbacks
<1>2. /\ ready' \in Seq(Callbacks)
      /\ ready # <<>> => ready' # <<>> /\ Head(ready') = Head(ready)
      /\ \A i \in DOMAIN ready' : ready'[i] = "main" => LaunchOver(task)
  <2>1. CASE UNCHANGED ready BY <1>1, <2>1 DEF QueueInOrder
  <2>2. CASE ready' = Append(ready, "cancel")
    <3>1. "cancel" \in Callbacks BY DEF Callbacks
    <3>2. /\ ready' \in Seq(Callbacks) /\ ready' # <<>>
          /\ ready # <<>> => Head(ready') = Head(ready)
          /\ \A i \in DOMAIN ready' :
               ready'[i] = "cancel" \/ \E j \in DOMAIN ready : ready'[i] = ready[j]
      BY <1>1, <2>2, <3>1, Pushed
    <3> QED BY <3>2 DEF QueueInOrder
  <2> QED BY <2>1, <2>2 DEF ForwardCancel
<1>3. \A i \in DOMAIN ready' : ready'[i] = "main" => LaunchOver(task)'
  BY <1>2 DEF LaunchOver
<1>4. ThreadInOrder' BY DEF ThreadInOrder, LaunchOver
<1>5. QueueInOrder' BY <1>2, <1>3 DEF QueueInOrder
<1> QED BY <1>2, <1>4, <1>5

(* The rest of the invariant, while the caller is not done. *)
LEMMA CallerGoesOn ==
  ASSUME LaunchInv, UNCHANGED kind, UNCHANGED <<thread, task, launchTold, steps, result>>,
         UNCHANGED launchStage, UNCHANGED ready \/ ForwardCancel,
         Stage!TypeOK', CallerInOrder', CancelsRemembered',
         caller' \in {"submitted", "starting", "launched", "finishing", "joining"},
         launchCancelled' \in BOOLEAN, late' \in BOOLEAN, launchCancels' \in 0 .. MaxLaunchCancels
  PROVE  LaunchInv'
<1>1. ready' \in Seq(Callbacks) /\ ThreadInOrder' /\ QueueInOrder' BY CallerTakesNothing
<1>2. LaunchTypeOK' BY <1>1 DEF LaunchTypeOK, LaunchInv, Callbacks
<1>3. ReportsTarget'
  <2>1. caller' \notin {"submitted", "starting"} => steps'
    BY <1>1 DEF QueueInOrder, CallerInOrder
  <2> QED BY <2>1 DEF ReportsTarget, LaunchOver
<1>4. CancelNotLost' BY DEF CancelNotLost
<1> QED BY <1>1, <1>2, <1>3, <1>4 DEF LaunchInv

LEMMA LaunchCalled == ASSUME LaunchInv, UNCHANGED kind, Launch PROVE LaunchInv'
<1> USE DEF LaunchInv
<1>1. /\ caller = "idle" /\ caller' = "submitted" /\ thread' = "started"
      /\ UNCHANGED <<ready, task, launchTold, steps, result, launchCancelled, late, launchCancels>>
      /\ Stage!TypeOK' /\ UNCHANGED launchStage /\ UNCHANGED CallerPC /\ UNCHANGED CallerWants
      /\ LaunchStarted' = LaunchStarted /\ Async' = Async
  BY StageKept, CallerTyped DEF Launch, Async
<1>2. thread = "none" BY <1>1 DEF CallerInOrder
<1>3. LaunchTypeOK' BY <1>1 DEF LaunchTypeOK
<1>4. ThreadInOrder' BY <1>1, <1>2 DEF ThreadInOrder, LaunchOver
<1>5. QueueInOrder' BY <1>1, <1>2 DEF QueueInOrder, LaunchOver
<1>6. CallerInOrder' BY <1>1 DEF CallerInOrder
<1>7. CancelsRemembered' BY <1>1 DEF CancelsRemembered
<1>8. ReportsTarget' BY <1>1 DEF ReportsTarget, LaunchOver
<1>9. CancelNotLost' BY <1>1 DEF CancelNotLost
<1> QED BY <1>3, <1>4, <1>5, <1>6, <1>7, <1>8, <1>9

(* The waits for the stage: when they begin, or start again. *)
LEMMA LaunchWaits ==
  ASSUME LaunchInv, UNCHANGED kind, AwaitStart \/ RetryStart \/ CallFinish \/ RetryFinish
  PROVE  LaunchInv'
<1> USE DEF LaunchInv
<1>1. /\ UNCHANGED <<thread, task, launchTold, steps, result, late, launchCancels>>
      /\ UNCHANGED ready \/ ForwardCancel
      /\ UNCHANGED launchCancelled \/ launchCancelled' = TRUE
  BY DEF AwaitStart, RetryStart, CallFinish, RetryFinish, threadVars
<1>2. LaunchStarted' = LaunchStarted /\ Async' = Async /\ LaunchStarted \in SUBSET Stages
      /\ {"join"} \in SUBSET Stages
  BY CallerTyped DEF Async, Stages
<1>3. /\ launchCancelled' \in BOOLEAN /\ late' \in BOOLEAN
      /\ launchCancels' \in 0 .. MaxLaunchCancels
  BY <1>1 DEF LaunchTypeOK
<1>4. CASE AwaitStart \/ RetryStart
  <2>1. /\ caller \in {"submitted", "starting"} /\ caller' = "starting"
        /\ Stage!Call(LaunchCaller, LaunchStarted)
    BY <1>4 DEF AwaitStart, RetryStart
  <2>2. Stage!TypeOK' /\ UNCHANGED launchStage /\ CallerWants' = LaunchStarted /\ Looks
    BY <1>2, <2>1, StageCalled
  <2>3. CallerPC = "cancelled" => launchCancelled' = TRUE
    BY <1>4 DEF RetryStart, AwaitStart, CallerInOrder, CallerPC
  <2>4. CallerInOrder'
    <3>1. LaunchStarted # {"join"} /\ "preparing" \notin LaunchStarted BY DEF LaunchStarted
    <3> QED BY <1>2, <2>1, <2>2, <3>1 DEF CallerInOrder, Looks
  <2>5. CancelsRemembered' BY <1>1, <1>2, <2>3 DEF CancelsRemembered
  <2> QED BY <1>1, <1>3, <2>1, <2>2, <2>4, <2>5, CallerGoesOn
<1>5. CASE CallFinish \/ RetryFinish
  <2>1. /\ caller \in {"launched", "finishing"} /\ caller' = "finishing"
        /\ Stage!Call(LaunchCaller, {"join"})
    BY <1>5 DEF CallFinish, RetryFinish
  <2>2. Stage!TypeOK' /\ UNCHANGED launchStage /\ CallerWants' = {"join"} /\ Looks
    BY <1>2, <2>1, StageCalled
  <2>3. CallerPC = "cancelled" => launchCancelled' = TRUE
    BY <1>5 DEF RetryFinish, CallFinish, CallerInOrder, CallerPC
  <2>4. CallerInOrder' BY <1>2, <2>1, <2>2 DEF CallerInOrder, Looks
  <2>5. CancelsRemembered' BY <1>1, <1>2, <2>3 DEF CancelsRemembered
  <2> QED BY <1>1, <1>3, <2>1, <2>2, <2>4, <2>5, CallerGoesOn
<1> QED BY <1>4, <1>5

(* What comes between the waits. *)
LEMMA LaunchGoesOn ==
  ASSUME LaunchInv, UNCHANGED kind, ReturnFinish \/ Join
  PROVE  LaunchInv'
<1> USE DEF LaunchInv
<1>1. /\ UNCHANGED <<thread, task, launchTold, steps, result, launchCancelled, late, launchCancels>>
      /\ UNCHANGED ready \/ ForwardCancel
      /\ UNCHANGED stageVars /\ CallerPC = "returned"
      /\ \/ caller = "starting" /\ caller' = "launched"
         \/ caller = "finishing" /\ caller' = "joining"
  BY DEF ReturnFinish, Join, threadVars, CallerPC
<1>2. LaunchStarted' = LaunchStarted /\ Async' = Async BY CallerTyped DEF Async
<1>3. /\ launchCancelled' \in BOOLEAN /\ late' \in BOOLEAN
      /\ launchCancels' \in 0 .. MaxLaunchCancels
  BY <1>1 DEF LaunchTypeOK
<1>4. Stage!TypeOK' /\ UNCHANGED launchStage /\ UNCHANGED CallerPC /\ UNCHANGED CallerWants
  BY <1>1, StageKept
<1>5. CallerInOrder' BY <1>1, <1>2, <1>4 DEF CallerInOrder
<1>6. CancelsRemembered' BY <1>1, <1>2, <1>4 DEF CancelsRemembered
<1> QED BY <1>1, <1>3, <1>4, <1>5, <1>6, CallerGoesOn

(* The end. The caller was joined to a thread that stored its result.      *)
LEMMA LaunchReturned ==
  ASSUME LaunchInv, UNCHANGED kind, Return
  PROVE  LaunchInv'
<1> USE DEF LaunchInv
<1>1. /\ UNCHANGED <<thread, ready, task, launchTold, steps, result, launchCancelled, late,
                     launchCancels>>
      /\ UNCHANGED stageVars /\ caller = "joining" /\ thread = "over" /\ caller' = Outcome
  BY DEF Return, threadVars
<1>2. LaunchStarted' = LaunchStarted /\ Async' = Async BY CallerTyped DEF Async
<1>3. Stage!TypeOK' /\ UNCHANGED launchStage /\ UNCHANGED CallerPC /\ UNCHANGED CallerWants
  BY <1>1, StageKept
<1>4. /\ CallerPC = "returned" /\ launchStage = "join" /\ steps
      /\ result = task /\ LaunchOver(task)
  BY <1>1 DEF CallerInOrder, ThreadInOrder
<1>5. Outcome \in {"value", "error", "cancelled"} BY <1>4 DEF Outcome, LaunchOver
<1>6. LaunchTypeOK' BY <1>1, <1>3, <1>5 DEF LaunchTypeOK
<1>7. ThreadInOrder' /\ QueueInOrder' BY <1>1, <1>3, CallerTakesNothing
<1>8. CallerInOrder' BY <1>1, <1>2, <1>3, <1>4, <1>5 DEF CallerInOrder
<1>9. CancelsRemembered' BY <1>1, <1>2, <1>3 DEF CancelsRemembered
<1>10. Outcome = "error" => task = "error" BY <1>4 DEF Outcome
<1>11. Outcome = "value" => task \in IF Async THEN {"value"} ELSE {"value", "cancelled"}
  BY <1>4 DEF Outcome
<1>12. ReportsTarget' BY <1>1, <1>2, <1>4, <1>5, <1>10, <1>11 DEF ReportsTarget, LaunchOver
<1>13. Async /\ launchCancels > 0 => Outcome # "value"
  BY <1>4 DEF CancelsRemembered, Outcome
<1>14. CancelNotLost' BY <1>1, <1>2, <1>13 DEF CancelNotLost
<1> QED BY <1>6, <1>7, <1>8, <1>9, <1>12, <1>14

(* The caller is cancelled, or woken.                                      *)
LEMMA LaunchDisturbed ==
  ASSUME LaunchInv, UNCHANGED kind, CancelWait \/ CancelJoin \/ ResumeWait
  PROVE  LaunchInv'
<1> USE DEF LaunchInv
<1>1. UNCHANGED <<thread, ready, task, launchTold, steps, result, caller, launchCancelled>>
  BY DEF CancelWait, CancelJoin, ResumeWait, threadVars, callerVars
<1>2. LaunchStarted' = LaunchStarted /\ Async' = Async BY CallerTyped DEF Async
<1>3. /\ launchCancels \in Nat /\ MaxLaunchCancels \in Nat
      /\ launchCancelled \in BOOLEAN /\ late \in BOOLEAN
      /\ launchCancels \in 0 .. MaxLaunchCancels
  BY LaunchAssumption DEF LaunchTypeOK
<1>4. CASE CancelWait
  <2>1. /\ launchCancels < MaxLaunchCancels /\ launchCancels' = launchCancels + 1
        /\ UNCHANGED late /\ Stage!Cancel(LaunchCaller)
    BY <1>4 DEF CancelWait
  <2>2. /\ Stage!TypeOK' /\ UNCHANGED launchStage /\ UNCHANGED CallerWants
        /\ CallerPC = "waiting" /\ CallerPC' = "cancelled"
    BY <2>1, StageCancelled
  <2>3. caller \in {"starting", "finishing"} BY <2>2 DEF CallerInOrder, LaunchTypeOK
  <2>4. CallerInOrder' BY <1>1, <1>2, <2>2, <2>3 DEF CallerInOrder
  <2>5. CancelsRemembered' BY <2>2 DEF CancelsRemembered
  <2>6. launchCancels' \in 0 .. MaxLaunchCancels BY <1>3, <2>1
  <2> QED BY <1>1, <1>3, <2>1, <2>2, <2>3, <2>4, <2>5, <2>6, CallerGoesOn
<1>5. CASE CancelJoin
  <2>1. /\ launchCancels < MaxLaunchCancels /\ launchCancels' = launchCancels + 1
        /\ late' = TRUE /\ UNCHANGED stageVars /\ caller = "joining"
    BY <1>5 DEF CancelJoin
  <2>2. Stage!TypeOK' /\ UNCHANGED launchStage /\ UNCHANGED CallerPC /\ UNCHANGED CallerWants
    BY <2>1, StageKept
  <2>3. CallerInOrder' BY <1>1, <1>2, <2>2 DEF CallerInOrder
  <2>4. CancelsRemembered' BY <2>1 DEF CancelsRemembered
  <2>5. launchCancels' \in 0 .. MaxLaunchCancels BY <1>3, <2>1
  <2> QED BY <1>1, <1>3, <2>1, <2>2, <2>3, <2>4, <2>5, CallerGoesOn
<1>6. CASE ResumeWait
  <2>1. UNCHANGED <<late, launchCancels>> /\ Stage!Resume(LaunchCaller)
    BY <1>6 DEF ResumeWait, callerVars
  <2>2. /\ Stage!TypeOK' /\ UNCHANGED launchStage /\ UNCHANGED CallerWants /\ Looks
        /\ CallerPC = "waiting"
    BY <2>1, StageResumed
  <2>3. caller \in {"starting", "finishing"} BY <2>2 DEF CallerInOrder, LaunchTypeOK
  <2>4. CallerInOrder'
    <3>1. "preparing" \notin LaunchStarted /\ "preparing" \notin {"join"} BY DEF LaunchStarted
    <3> QED BY <1>1, <1>2, <2>2, <2>3, <3>1 DEF CallerInOrder, Looks
  <2>5. CancelsRemembered' BY <1>1, <1>2, <2>1, <2>2 DEF CancelsRemembered
  <2> QED BY <1>1, <1>3, <2>1, <2>2, <2>3, <2>4, <2>5, CallerGoesOn
<1> QED BY <1>4, <1>5, <1>6

-----------------------------------------------------------------------------
LEMMA LaunchInitInv == ASSUME LaunchInit PROVE LaunchInv
<1>1. /\ launchStage = "preparing" /\ thread = "none" /\ ready = <<>> /\ task = "none"
      /\ launchTold = FALSE /\ steps = FALSE /\ result = "none" /\ caller = "idle"
      /\ launchCancelled = FALSE /\ late = FALSE /\ launchCancels = 0
      /\ kind \in [async : BOOLEAN, executor : BOOLEAN, stubborn : BOOLEAN]
      /\ Stage!Init
  BY DEF LaunchInit, Stage!Init
<1>2. Stage!TypeOK BY DEF LaunchInit, Stage!Init, Stage!TypeOK, Stage!States, Stages
<1>3. LaunchTypeOK
  <2>1. <<>> \in Seq(Callbacks) BY EmptySeq
  <2>2. 0 \in 0 .. MaxLaunchCancels BY LaunchAssumption
  <2> QED BY <1>1, <1>2, <2>1, <2>2 DEF LaunchTypeOK, Callbacks
<1>4. CallerPC = "idle" /\ CallerWants = {}
  BY <1>1, <1>3, CallerTyped DEF Stage!Init, CallerPC, CallerWants
<1>5. ThreadInOrder /\ QueueInOrder BY <1>1 DEF ThreadInOrder, QueueInOrder, LaunchOver
<1>6. CallerInOrder BY <1>1, <1>4 DEF CallerInOrder
<1>7. CancelsRemembered /\ CancelNotLost BY <1>1 DEF CancelsRemembered, CancelNotLost
<1>8. ReportsTarget BY <1>1 DEF ReportsTarget, LaunchOver
<1> QED BY <1>3, <1>5, <1>6, <1>7, <1>8 DEF LaunchInv

LEMMA LaunchStep == ASSUME LaunchInv, [LaunchNext]_launchVars PROVE LaunchInv'
<1>1. CASE UNCHANGED launchVars
  <2>1. /\ UNCHANGED kind /\ UNCHANGED callerVars /\ UNCHANGED stageVars
        /\ UNCHANGED <<thread, ready, task, launchTold, steps, result, caller,
                       launchCancelled, late, launchCancels>>
    BY <1>1 DEF launchVars, threadVars, callerVars
  <2> USE DEF LaunchInv
  <2>2. Stage!TypeOK' /\ UNCHANGED launchStage /\ UNCHANGED CallerPC /\ UNCHANGED CallerWants
    BY <2>1, StageKept
  <2>3. LaunchTypeOK' BY <2>1, <2>2 DEF LaunchTypeOK
  <2>4. ThreadInOrder' /\ QueueInOrder' BY <2>1, <2>2, CallerTakesNothing
  <2> QED BY <2>1, <2>2, <2>3, <2>4, ThreadKeeps
<1>2. CASE LaunchNext
  <2>1. UNCHANGED kind BY <1>2 DEF LaunchNext
  <2> QED BY <1>1, <1>2, <2>1, LaunchThreadStep, LaunchCalled, LaunchWaits, LaunchGoesOn,
             LaunchReturned, LaunchDisturbed
          DEF LaunchNext, CallerNext, LaunchDone
<1> QED BY <1>1, <1>2

(* What is always true of a launch. *)
THEOREM LaunchInvariant == LaunchSpec => []LaunchInv
<1>1. LaunchInit => LaunchInv BY LaunchInitInv
<1>2. LaunchInv /\ [LaunchNext]_launchVars => LaunchInv' BY LaunchStep
<1> QED BY <1>1, <1>2, PTL DEF LaunchSpec

(* The variables of a launch have their types. *)
THEOREM LaunchTypeCorrect == LaunchSpec => []LaunchTypeOK
<1>1. LaunchInv => LaunchTypeOK BY DEF LaunchInv
<1> QED BY <1>1, LaunchInvariant, PTL

(* The assertions on `task` and `result` hold where the callers of         *)
(* launch_in_thread_loop and launch_in_thread_loop_sync reach them.        *)
THEOREM LaunchAsserts == TasksSpec => []AssertionsHold
<1>1. LaunchInv => AssertionsHold
  BY DEF LaunchInv, AssertionsHold, CallerInOrder, QueueInOrder, ThreadInOrder, CallerPC
<1> QED BY <1>1, LaunchInvariant, TasksImplementParts, PTL

(* `finish` is handed out behind the target's first step, returns once the *)
(* thread is over, and as the target ended.                                *)
THEOREM LaunchReports == TasksSpec => []ReportsTarget
<1>1. LaunchInv => ReportsTarget BY DEF LaunchInv
<1> QED BY <1>1, LaunchInvariant, TasksImplementParts, PTL

(* launch_in_thread_loop never gives a value to a caller that was          *)
(* cancelled.                                                              *)
THEOREM LaunchRemembersCancels == TasksSpec => []CancelNotLost
<1>1. LaunchInv => CancelNotLost BY DEF LaunchInv
<1> QED BY <1>1, LaunchInvariant, TasksImplementParts, PTL
=============================================================================
