-------------------------- MODULE PrimitivesProofs --------------------------
(***************************************************************************)
(* What the file lock, waits for processes, shields, signals, the nestable *)
(* and the read-write lock, the watched path and the server guarantee for  *)
(* any number of processes, tasks, acquisitions, connections and           *)
(* cancellations, and any depth of a path, in the behaviours that the runs *)
(* check. Each has an invariant that its own steps keep; it is idle in a   *)
(* step of another one.                                                    *)
(***************************************************************************)
EXTENDS Primitives, SequenceTheorems, TLAPS

-----------------------------------------------------------------------------
(* The file lock.                                                          *)

(* The places of flock_kqueue where the task of a process can be. *)
FlockTypeOK ==
  flockPc \in [Processes -> {"out", "blocked", "trying", "waiting", "in"}]

FlockInv == FlockTypeOK /\ UnlockSeen

(* Locks that are taken never make one free. *)
LEMMA FreeMonotone ==
  ASSUME NEW p, flockHolders \subseteq flockHolders', Free(p)'
  PROVE  Free(p)
<1> QED BY DEF Free

(* An attempt that is refused leaves a task asleep only if the lock is not *)
(* free, and none wakes or frees anything for the others.                  *)
LEMMA TryInv ==
  ASSUME FlockInv, NEW p \in Processes, TryFirst(p) \/ TryAgain(p)
  PROVE  FlockInv'
<1>1. flockHolders \subseteq flockHolders'
  BY DEF TryFirst, TryAgain, Try
<1>2. \A q \in Processes \ {p} : flockPc'[q] = flockPc[q]
  BY DEF TryFirst, TryAgain, Try, FlockInv, FlockTypeOK
<1>3. FlockTypeOK'
  BY DEF TryFirst, TryAgain, Try, FlockInv, FlockTypeOK
<1>4. ASSUME NEW q \in Processes, flockPc'[q] = "waiting", Free(q)'
      PROVE  q \in (flockEvent \cup flockPressed)'
  <2>1. Free(q) BY <1>1, <1>4, FreeMonotone
  <2>2. CASE q = p
    BY <2>1, <2>2, <1>4 DEF TryFirst, TryAgain, Try, FlockInv, FlockTypeOK
  <2>3. CASE q # p
    <3>1. q \in flockEvent \cup flockPressed
      BY <2>1, <2>3, <1>2, <1>4 DEF FlockInv, UnlockSeen
    <3> QED BY <3>1, <2>3 DEF TryFirst, TryAgain
  <2> QED BY <2>2, <2>3
<1> QED BY <1>3, <1>4 DEF FlockInv, UnlockSeen

(* Registering, the delivery of an event and a cancellation leave the lock *)
(* as it is, and take an event only to hand it on or from one that leaves. *)
LEMMA QuietFlockInv ==
  ASSUME FlockInv, NEW p \in Processes, RegisterEvent(p) \/ Deliver(p) \/ CancelFlock(p)
  PROVE  FlockInv'
<1>1. FlockTypeOK'
  BY DEF RegisterEvent, Deliver, CancelFlock, FlockInv, FlockTypeOK
<1>2. \A q \in Processes : Free(q)' <=> Free(q)
  BY DEF RegisterEvent, Deliver, CancelFlock, Free
<1>3. UnlockSeen'
  BY <1>2 DEF RegisterEvent, Deliver, CancelFlock, FlockInv, FlockTypeOK, UnlockSeen
<1> QED BY <1>1, <1>3 DEF FlockInv

(* An unlocking is told to everybody who sleeps. *)
LEMMA LeaveLockInv ==
  ASSUME FlockInv, NEW p \in Processes, LeaveLock(p)
  PROVE  FlockInv'
<1>1. FlockTypeOK'
  BY DEF LeaveLock, FlockInv, FlockTypeOK
<1>2. ASSUME NEW q \in Processes, flockPc'[q] = "waiting"
      PROVE  q \in flockEvent'
  BY <1>2 DEF LeaveLock, Unlock, Registered, FlockInv, FlockTypeOK
<1> QED BY <1>1, <1>2 DEF FlockInv, UnlockSeen

(* Each step of the lock keeps its invariant. *)
LEMMA FlockStep ==
  ASSUME FlockInv, [FlockNext]_flockVars
  PROVE  FlockInv'
<1>1. CASE UNCHANGED flockVars
  BY <1>1 DEF flockVars, FlockInv, FlockTypeOK, UnlockSeen, Free
<1>2. CASE FlockNext
  <2>1. PICK p \in Processes :
          TryFirst(p) \/ FlockSteps(p) \/ LeaveLock(p) \/ CancelFlock(p)
    BY <1>2 DEF FlockNext
  <2> QED BY <2>1, TryInv, QuietFlockInv, LeaveLockInv DEF FlockSteps
<1> QED BY <1>1, <1>2

(* What is not used is idle. *)
LEMMA FlockIdle == [PrimitivesNext]_primitivesVars => [FlockNext]_flockVars
<1> QED BY DEF PrimitivesNext, Only, primitivesVars

(* No unlocking is missed by flock_kqueue, for any number of processes.    *)
THEOREM UnlockIsSeen == PrimitivesSpec => []UnlockSeen
<1>1. PrimitivesInit => FlockInv
  BY DEF PrimitivesInit, FlockInit, FlockInv, FlockTypeOK, UnlockSeen
<1>2. FlockInv /\ [PrimitivesNext]_primitivesVars => FlockInv'
  BY FlockIdle, FlockStep
<1>3. FlockInv => UnlockSeen
  BY DEF FlockInv
<1> QED BY <1>1, <1>2, <1>3, PTL DEF PrimitivesSpec
-----------------------------------------------------------------------------
(* Processes.                                                              *)

ProcessTypeOK ==
  /\ os \in {"running", "success", "failure", "reaped"}
  /\ transport \in {"attached", "exited", "released"}
  /\ waitAt \in {"calling", "waiting", "value", "terminated", "cancelled", "lookup"}
  /\ waitCancels \in Nat
  /\ waitSignals \in Nat

(* asyncio knows of an exit only if there was one; nobody but               *)
(* reap_child_process and the parent of somebody else's child reaps.       *)
ProcessKnown == /\ transport # "attached" => Exited
                /\ Waits => os # "reaped"
                /\ waitAt # "calling" => Waits

(* Each cancellation of Process.wait is yet to be met, or was.             *)
WaitCounts == /\ waitMust => waitAt = "waiting" /\ waitSignals < waitCancels
              /\ waitAt = "calling" => waitCancels = 0

ProcessInv == /\ ProcessTypeOK
              /\ ProcessKnown
              /\ WaitCounts
              /\ WaitReports
              /\ LoopNeverBlocks

(* The process exits, or is reaped; the transport gets to know.            *)
LEMMA SystemInv ==
  ASSUME ProcessInv, Exit \/ ReapedByParent \/ TransportSteps
  PROVE  ProcessInv'
<1> USE DEF Exit, ReapedByParent, TransportSteps, ProcessInv
<1>1. Exited => Exited'
  BY DEF Exited, ProcessTypeOK
<1>2. ProcessTypeOK'
  BY DEF ProcessTypeOK
<1>3. ProcessKnown'
  BY <1>1 DEF ProcessKnown, Exited, Waits
<1>4. WaitCounts'
  BY DEF WaitCounts
<1>5. WaitReports'
  BY <1>1 DEF WaitReports, WaitOver, ProcessKnown, Exited, Waits
<1>6. LoopNeverBlocks'
  BY <1>1 DEF LoopNeverBlocks
<1> QED BY <1>2, <1>3, <1>4, <1>5, <1>6

(* Process.wait is called, resumed, signals or is cancelled.               *)
LEMMA WaitInv ==
  ASSUME ProcessInv, CallWait \/ ResumeWait \/ SignalProcess \/ CancelProcessWait
  PROVE  ProcessInv'
<1> USE DEF CallWait, ResumeWait, SignalProcess, CancelProcessWait, AwaitExit, Ended,
            ProcessInv
<1>1. ProcessTypeOK'
  <2>1. waitAt' \in {"calling", "waiting", "value", "terminated", "cancelled", "lookup"}
    BY DEF ProcessTypeOK
  <2>2. waitCancels' \in Nat /\ waitSignals' \in Nat
    BY DEF ProcessTypeOK
  <2> QED BY <2>1, <2>2 DEF ProcessTypeOK
<1>2. ProcessKnown'
  BY DEF ProcessKnown, Exited, Waits
<1>3. WaitCounts'
  BY DEF WaitCounts, WaitReports, ProcessTypeOK
<1>4. WaitReports'
  BY DEF WaitReports, WaitOver, WaitCounts, Woken, ProcessKnown, Exited, ProcessTypeOK
<1>5. LoopNeverBlocks'
  BY DEF LoopNeverBlocks, Exited
<1> QED BY <1>1, <1>2, <1>3, <1>4, <1>5

(* reap_child_process and wait_for_process go on, or are cancelled.        *)
LEMMA ReapInv ==
  ASSUME ProcessInv, ReapSteps \/ (CancelReap /\ UNCHANGED os)
  PROVE  ProcessInv'
<1> USE DEF ReapSteps, RegisterExit, ExitReported, ReturnWait, Poll, WaitPid, CancelReap,
            Refused, Reap, ProcessInv
<1>1. ~Waits /\ UNCHANGED <<transport, waitAt, waitMust, waitCancels, waitSignals, processKind>>
  OBVIOUS
<1>2. os' = os \/ (os' = "reaped" /\ Exited)
  OBVIOUS
<1>3. ProcessTypeOK'
  BY <1>1, <1>2 DEF ProcessTypeOK
<1>4. ProcessKnown' /\ WaitCounts'
  BY <1>1, <1>2 DEF ProcessKnown, WaitCounts, Exited, Waits
<1>5. WaitReports'
  BY <1>1, <1>2 DEF WaitReports, WaitOver, ProcessKnown
<1>6. LoopNeverBlocks'
  BY DEF LoopNeverBlocks, Exited
<1> QED BY <1>3, <1>4, <1>5, <1>6

LEMMA ProcessStep ==
  ASSUME ProcessInv, [ProcessNext]_processVars
  PROVE  ProcessInv'
<1>1. CASE UNCHANGED processVars
  BY <1>1 DEF processVars, ProcessInv, ProcessTypeOK, ProcessKnown, WaitCounts, WaitReports,
              WaitOver, LoopNeverBlocks, Exited, Waits
<1>2. CASE ProcessNext
  BY <1>2, SystemInv, WaitInv, ReapInv DEF ProcessNext, ProcessSteps
<1> QED BY <1>1, <1>2

LEMMA ProcessIdle == [PrimitivesNext]_primitivesVars => [ProcessNext]_processVars
<1> QED BY DEF PrimitivesNext, Only, primitivesVars

(* Where the tasks that wait for a process are on their way, however often *)
(* they are cancelled.                                                     *)
THEOREM ProcessInvariant == PrimitivesSpec => []ProcessInv
<1>1. PrimitivesInit => ProcessInv
  <2>1. PrimitivesInit => ProcessInit
    BY DEF PrimitivesInit
  <2>2. ProcessInit => ProcessTypeOK /\ ProcessKnown /\ WaitCounts
    BY DEF ProcessInit, ProcessTypeOK, ProcessKnown, WaitCounts, Exited
  <2>3. ProcessInit => WaitReports /\ LoopNeverBlocks
    BY DEF ProcessInit, WaitReports, WaitOver, LoopNeverBlocks
  <2> QED BY <2>1, <2>2, <2>3 DEF ProcessInv
<1>2. ProcessInv /\ [PrimitivesNext]_primitivesVars => ProcessInv'
  BY ProcessIdle, ProcessStep
<1> QED BY <1>1, <1>2, PTL DEF PrimitivesSpec

(* Process.wait reports how the process ended, and loses no cancellation   *)
(* but to a failure.                                                       *)
THEOREM WaitIsFaithful == PrimitivesSpec => []WaitReports
<1>1. ProcessInv => WaitReports BY DEF ProcessInv
<1> QED BY <1>1, ProcessInvariant, PTL

(* The event loop calls os.waitpid only for a child that exited.           *)
THEOREM LoopIsFree == PrimitivesSpec => []LoopNeverBlocks
<1>1. ProcessInv => LoopNeverBlocks BY DEF ProcessInv
<1> QED BY <1>1, ProcessInvariant, PTL
-----------------------------------------------------------------------------
(* Shields.                                                                *)

ShieldTypeOK ==
  /\ shieldAt \in {"calling", "shielded", "woken", "interrupted", "bare", "told", "spinning",
                   "value", "error", "cancelled"}
  /\ shieldLeft \in Nat
  /\ shieldCancels \in Nat
  /\ inner \in {"pending", "value", "error", "cancelled"}
  /\ shieldKind \in ShieldKinds

(* An iteration is left while there is a shield, and none is without it,   *)
(* which only shield_wait comes to.                                        *)
Iterations ==
  /\ shieldLeft <= Tries
  /\ shieldAt \in {"shielded", "woken", "interrupted"} => shieldLeft > 0
  /\ shieldAt \in {"bare", "told"} => shieldLeft = 0
  /\ shieldKind.how # "shield_wait" => shieldLeft = 1 /\ Tries = 1
  /\ shieldAt \in {"woken", "told"} => inner # "pending"
  /\ shieldAt = "spinning" => inner = "cancelled" /\ Forever

(* Each iteration but the first was begun by a cancellation, and one is    *)
(* told of only in `shieldFlag`, on its way, or by the awaitable.          *)
CancelsCounted ==
  /\ shieldAt \in {"calling", "shielded", "woken", "bare"} => shieldCancels >= Tries - shieldLeft
  /\ shieldAt = "interrupted" => shieldCancels > Tries - shieldLeft
  /\ shieldAt = "told" => shieldCancels > Tries
  /\ shieldAt \in {"shielded", "woken", "bare"} /\ shieldFlag => shieldCancels > 0
  /\ shieldAt \in {"calling", "shielded", "woken", "bare"} /\ ~shieldFlag =>
       shieldCancels = 0 \/ innerTold
  /\ innerTold => shieldAt \in {"bare", "told"} \/ ShieldOver
  /\ shieldAt = "calling" => ~shieldFlag

ShieldInv == ShieldTypeOK /\ Iterations /\ CancelsCounted /\ ShieldReports

(* How many cancellations are absorbed is fixed from the start.            *)
LEMMA TriesNat ==
  ASSUME ShieldTypeOK
  PROVE  Tries \in Nat
<1> QED BY DEF ShieldTypeOK, ShieldKinds, Tries

LEMMA TriesFixed ==
  ASSUME UNCHANGED shieldKind
  PROVE  Tries' = Tries /\ (Forever' <=> Forever)
<1> QED BY DEF Tries, Forever

(* The awaitable ends, and the shield's callback runs.                     *)
LEMMA AwaitableInv ==
  ASSUME ShieldInv, InnerEnds \/ Transfer
  PROVE  ShieldInv'
<1> USE TriesNat, TriesFixed DEF ShieldInv, InnerEnds, Transfer
<1>1. ShieldTypeOK'
  BY DEF ShieldTypeOK
<1>2. Iterations'
  BY DEF Iterations
<1>3. CancelsCounted'
  BY DEF CancelsCounted, ShieldOver
<1>4. ShieldReports'
  BY DEF ShieldReports, ShieldOver
<1> QED BY <1>1, <1>2, <1>3, <1>4

(* An iteration begins, or the call ends, as far as TryShield says.        *)
LEMMA TryShieldAt ==
  ASSUME ShieldTypeOK, NEW left \in Nat, NEW flag \in BOOLEAN, TryShield(left, flag)
  PROVE  \/ inner = "pending" /\ left > 0 /\ shieldAt' = "shielded"
         \/ inner = "pending" /\ left = 0 /\ shieldAt' = "bare"
         \/ inner = "cancelled" /\ Forever /\ shieldAt' = "spinning"
         \/ inner = "cancelled" /\ ~Forever /\ shieldAt' = "cancelled"
         \/ inner = "error" /\ shieldAt' = "error"
         \/ inner = "value" /\ ~flag /\ shieldAt' = "value"
         \/ inner = "value" /\ flag /\ shieldAt' = "cancelled"
<1> QED BY DEF TryShield, Conclude, ShieldTypeOK

(* The call begins. *)
LEMMA CallShieldInv ==
  ASSUME ShieldInv, CallShield
  PROVE  ShieldInv'
<1> USE TriesNat, TriesFixed DEF ShieldInv, CallShield
<1>1. ShieldTypeOK /\ shieldLeft \in Nat /\ FALSE \in BOOLEAN
  BY DEF ShieldTypeOK
<1>2. TryShield(shieldLeft, FALSE) OBVIOUS
<1> HIDE DEF ShieldInv
<1> QED
  <2>1. ShieldTypeOK'
    BY <1>1, <1>2, TryShieldAt DEF ShieldTypeOK
  <2>2. Iterations'
    BY <1>1, <1>2, TryShieldAt DEF ShieldInv, Iterations, ShieldTypeOK
  <2>3. CancelsCounted'
    BY <1>1, <1>2, TryShieldAt DEF ShieldInv, CancelsCounted, Iterations, ShieldOver
  <2>4. ~innerTold /\ shieldCancels = 0
    BY DEF ShieldInv, CancelsCounted, ShieldOver
  <2>5. shieldAt' = "shielded" \/ shieldAt' = "bare" \/ shieldAt' = "spinning" \/ shieldAt' = inner
    BY <1>1, <1>2, TryShieldAt
  <2>6. inner = "pending" => shieldAt' \notin {"value", "error", "cancelled"}
    BY <1>1, <1>2, TryShieldAt
  <2>7. inner # "pending" => shieldAt' = inner \/ shieldAt' = "spinning"
    BY <1>1, <1>2, TryShieldAt
  <2>8. ShieldReports'
    BY <2>4, <2>5, <2>6, <2>7 DEF ShieldReports, ShieldOver
  <2> QED BY <2>1, <2>2, <2>3, <2>8 DEF ShieldInv

(* The call goes on after a CancelledError, which ends that of shield.     *)
LEMMA InterruptInv ==
  ASSUME ShieldInv, Interrupt
  PROVE  ShieldInv'
<1> USE TriesNat, TriesFixed DEF ShieldInv
<1>1. CASE shieldKind.how = "shield"
  <2>1. /\ shieldAt' = "cancelled"
        /\ UNCHANGED <<shieldLeft, shieldFlag, shieldCancels, inner, innerTold, shieldKind>>
        /\ shieldAt = "interrupted" \/ (shieldAt = "woken" /\ inner = "cancelled")
    BY <1>1 DEF Interrupt
  <2>2. ShieldTypeOK' /\ Iterations'
    BY <2>1 DEF ShieldTypeOK, Iterations
  <2>3. CancelsCounted'
    BY <2>1 DEF CancelsCounted, ShieldOver
  <2>4. shieldCancels > 0 \/ inner = "cancelled"
    BY <2>1 DEF CancelsCounted, Iterations, ShieldTypeOK
  <2>5. ShieldReports'
    BY <1>1, <2>1, <2>4 DEF ShieldReports, ShieldOver
  <2> QED BY <2>2, <2>3, <2>5
<1>2. CASE shieldKind.how # "shield"
  <2>1. /\ shieldLeft' = IF Forever THEN shieldLeft ELSE shieldLeft - 1
        /\ shieldFlag' = TRUE
        /\ TryShield(shieldLeft', TRUE)
        /\ UNCHANGED <<shieldCancels, inner, innerTold, shieldKind>>
        /\ shieldAt = "interrupted" \/ (shieldAt = "woken" /\ inner = "cancelled")
    BY <1>2 DEF Interrupt
  <2>2. shieldLeft \in Nat /\ shieldLeft > 0 /\ shieldLeft <= Tries
    BY <2>1 DEF ShieldTypeOK, Iterations
  <2>3. shieldLeft' \in Nat /\ shieldLeft' <= shieldLeft /\ shieldLeft' >= shieldLeft - 1
    BY <2>1, <2>2
  <2>4. /\ inner = "cancelled" \/ shieldCancels > Tries - shieldLeft
        /\ ~innerTold
    BY <2>1 DEF CancelsCounted, ShieldOver
  <2>5. ShieldTypeOK BY DEF ShieldInv
  <2>6. shieldCancels \in Nat BY DEF ShieldTypeOK
  <2>7. \/ inner = "pending" /\ shieldLeft' > 0 /\ shieldAt' = "shielded"
        \/ inner = "pending" /\ shieldLeft' = 0 /\ shieldAt' = "bare"
        \/ inner = "cancelled" /\ Forever /\ shieldAt' = "spinning"
        \/ inner = "cancelled" /\ ~Forever /\ shieldAt' = "cancelled"
        \/ inner = "error" /\ shieldAt' = "error"
        \/ inner = "value" /\ shieldAt' = "cancelled"
    BY <2>1, <2>3, <2>5, TryShieldAt
  <2>8. ShieldTypeOK'
    BY <2>1, <2>3, <2>7 DEF ShieldTypeOK
  <2>9. Iterations'
    <3>1. Tries' = Tries /\ (Forever' <=> Forever)
      BY <2>1, TriesFixed
    <3>2. Forever => shieldLeft' = 1 /\ Tries = 1
      BY <2>1 DEF Iterations, Forever
    <3>3. shieldKind.how # "shield_wait" => Forever
      BY <1>2 DEF Forever, ShieldTypeOK, ShieldKinds
    <3>4. shieldLeft' <= Tries'
      BY <3>1, <2>2, <2>3, TriesNat
    <3> QED BY <2>1, <2>7, <3>1, <3>2, <3>3, <3>4 DEF Iterations
  <2>10. CancelsCounted'
    BY <2>1, <2>2, <2>3, <2>4, <2>6, <2>7 DEF CancelsCounted, ShieldOver
  <2>11. ShieldReports'
    BY <2>1, <2>2, <2>4, <2>6, <2>7 DEF ShieldReports, ShieldOver
  <2> QED BY <2>8, <2>9, <2>10, <2>11
<1> QED BY <1>1, <1>2

(* The call ends with what it awaited, or with the caller's cancellation.  *)
LEMMA EndShieldInv ==
  ASSUME ShieldInv, ResumeShield \/ InterruptBare
  PROVE  ShieldInv'
<1> USE TriesNat, TriesFixed DEF ShieldInv, ResumeShield, InterruptBare, Conclude
<1>1. ShieldTypeOK'
  BY DEF ShieldTypeOK, Iterations
<1>2. Iterations'
  BY DEF Iterations, ShieldTypeOK
<1>3. CancelsCounted'
  BY DEF CancelsCounted, Iterations, ShieldOver, ShieldTypeOK
<1>4. ShieldReports'
  BY DEF ShieldReports, ShieldOver, CancelsCounted, Iterations, ShieldTypeOK
<1> QED BY <1>1, <1>2, <1>3, <1>4

(* The caller is cancelled.                                                *)
LEMMA CancelShieldInv ==
  ASSUME ShieldInv, CancelShield
  PROVE  ShieldInv'
<1> USE TriesNat, TriesFixed DEF ShieldInv, CancelShield
<1>1. ShieldTypeOK'
  BY DEF ShieldTypeOK
<1>2. Iterations'
  BY DEF Iterations, ShieldTypeOK
<1>3. CancelsCounted'
  BY DEF CancelsCounted, Iterations, ShieldOver, ShieldTypeOK
<1>4. ShieldReports'
  BY DEF ShieldReports, ShieldOver, CancelsCounted, Iterations, ShieldTypeOK
<1> QED BY <1>1, <1>2, <1>3, <1>4

LEMMA ShieldStep ==
  ASSUME ShieldInv, [ShieldNext]_shieldVars
  PROVE  ShieldInv'
<1>1. CASE UNCHANGED shieldVars
  BY <1>1 DEF shieldVars, ShieldInv, ShieldTypeOK, Iterations, CancelsCounted, ShieldReports,
              ShieldOver, Tries, Forever
<1>2. CASE ShieldNext
  BY <1>2, AwaitableInv, CallShieldInv, InterruptInv, EndShieldInv, CancelShieldInv
     DEF ShieldNext, ShieldSteps
<1> QED BY <1>1, <1>2

LEMMA ShieldIdle == [PrimitivesNext]_primitivesVars => [ShieldNext]_shieldVars
<1> QED BY DEF PrimitivesNext, Only, primitivesVars

(* Whatever the caller of a shield is told, and however often: what is     *)
(* awaited is awaited to its end, and neither lost nor invented.           *)
THEOREM ShieldIsFaithful == PrimitivesSpec => []ShieldReports
<1>1. PrimitivesInit => ShieldInv
  <2>1. PrimitivesInit => ShieldInit
    BY DEF PrimitivesInit
  <2>2. ShieldInit => ShieldTypeOK
    BY DEF ShieldInit, ShieldTypeOK, ShieldKinds, Tries
  <2>3. ShieldInit => Iterations /\ CancelsCounted
    BY <2>2, TriesNat DEF ShieldInit, Iterations, CancelsCounted, Tries, ShieldOver
  <2>4. ShieldInit => ShieldReports
    BY DEF ShieldInit, ShieldReports, ShieldOver
  <2> QED BY <2>1, <2>2, <2>3, <2>4 DEF ShieldInv
<1>2. ShieldInv /\ [PrimitivesNext]_primitivesVars => ShieldInv'
  BY ShieldIdle, ShieldStep
<1>3. ShieldInv => ShieldReports
  BY DEF ShieldInv
<1> QED BY <1>1, <1>2, <1>3, PTL DEF PrimitivesSpec
-----------------------------------------------------------------------------
(* Signals.                                                                *)

SignalTypeOK ==
  /\ sigArrived \in Seq(Codes)
  /\ sigReady \in Seq(Codes)
  /\ handled \in Codes \cup {NoCode}
  /\ sigScope \in Nat
  /\ sigCount \in Nat
  /\ sigCancels \in Nat
  /\ sigKind.before \in Nat

(* In the body, each cancellation is the task's, others' or the scope's,   *)
(* and due at its next step unless the body suppresses it; the scope       *)
(* cancels only for a signal that is handled.                              *)
SignalCounts ==
  /\ HandlesSignal /\ sigAt = "body" => sigCount = sigKind.before + sigCancels + sigScope
  /\ HandlesSignal => sigAt \in {"body", "over"}
  /\ HandlesSignal /\ sigAt = "body" /\ ~sigKind.catches /\ sigCancels + sigScope > 0 => sigMust
  /\ HandlesSignal /\ sigScope > 0 => handled # NoCode

SignalInv == SignalTypeOK /\ SignalCounts /\ SignalReports

(* A signal arrives, is read, and its handler runs.                        *)
LEMMA LoopInv ==
  ASSUME SignalInv, (\E code \in Codes : Arrive(code)) \/ ReadSignals \/ RunHandler
  PROVE  SignalInv'
<1> USE SignalsAssumption DEF SignalInv
<1>1. CASE (\E code \in Codes : Arrive(code)) \/ ReadSignals
  <2>1. UNCHANGED <<sigTask, handled, sigKind>>
    BY <1>1 DEF Arrive, ReadSignals
  <2>2. SignalTypeOK'
    <3>1. sigArrived' \in Seq(Codes)
      <4>1. CASE ReadSignals
        BY <4>1 DEF ReadSignals
      <4>2. CASE \E code \in Codes : Arrive(code)
        BY <4>2, AppendProperties DEF Arrive, SignalTypeOK
      <4> QED BY <1>1, <4>1, <4>2
    <3>2. sigReady' \in {sigReady, sigReady \o sigArrived}
      BY <1>1 DEF Arrive, ReadSignals
    <3>3. sigReady' \in Seq(Codes)
      BY <3>2, ConcatProperties DEF SignalTypeOK
    <3> QED BY <2>1, <3>1, <3>3 DEF SignalTypeOK, sigTask
  <2>3. SignalCounts' /\ SignalReports'
    BY <2>1 DEF sigTask, SignalCounts, SignalReports, HandlesSignal
  <2> QED BY <2>2, <2>3
<1>2. CASE RunHandler
  <2>1. sigReady # <<>> /\ handled' = Head(sigReady) /\ sigReady' = Tail(sigReady)
    BY <1>2 DEF RunHandler
  <2>2. Head(sigReady) \in Codes /\ sigReady' \in Seq(Codes)
    BY <2>1 DEF SignalTypeOK
  <2>3. UNCHANGED <<sigAt, sigCancels, sigRaised, sigArrived, sigNumber, sigKind>>
    BY <1>2 DEF RunHandler
  <2>4. handled' # NoCode
    BY <2>1, <2>2
  <2>5. CASE HandlesSignal /\ sigAt = "body"
    <3>1. sigMust' = TRUE /\ sigCount' = sigCount + 1 /\ sigScope' = sigScope + 1
      BY <1>2, <2>5 DEF RunHandler, CancelBody
    <3>2. SignalTypeOK'
      BY <2>1, <2>2, <2>3, <3>1 DEF SignalTypeOK
    <3>3. sigCount' = sigKind.before + sigCancels + sigScope'
      <4>1. sigKind.before \in Nat /\ sigCancels \in Nat /\ sigScope \in Nat
        BY DEF SignalTypeOK
      <4>2. sigCount = sigKind.before + sigCancels + sigScope
        BY <2>5 DEF SignalCounts
      <4> QED BY <3>1, <4>1, <4>2
    <3>4. SignalCounts'
      BY <2>3, <2>4, <2>5, <3>1, <3>3 DEF SignalCounts, HandlesSignal
    <3>5. SignalReports'
      BY <2>3, <2>5 DEF SignalReports, HandlesSignal
    <3> QED BY <3>2, <3>4, <3>5
  <2>6. CASE ~(HandlesSignal /\ sigAt = "body")
    <3>1. UNCHANGED <<sigMust, sigCount, sigScope>>
      BY <1>2, <2>6 DEF RunHandler
    <3>2. SignalTypeOK'
      BY <2>1, <2>2, <2>3, <3>1 DEF SignalTypeOK
    <3>3. SignalCounts'
      BY <2>3, <2>4, <3>1 DEF SignalCounts, HandlesSignal
    <3>4. SignalReports'
      BY <2>3, <3>1 DEF SignalReports, HandlesSignal
    <3> QED BY <3>2, <3>3, <3>4
  <2> QED BY <2>5, <2>6
<1> QED BY <1>1, <1>2

(* handle_signal is exited: the counts are settled.                        *)
LEMMA LeaveHandlerInv ==
  ASSUME SignalInv, NEW exceptions \in {{}, {"body"}, {"cancelled"}}, LeaveHandler(exceptions)
  PROVE  SignalInv'
<1> DEFINE left == IF exceptions = {"cancelled"} THEN sigCount - sigScope ELSE sigCount
           through == IF exceptions = {"cancelled"} /\ left = 0 THEN {} ELSE exceptions
<1>1. /\ HandlesSignal
      /\ sigAt = "body"
      /\ sigMust /\ ~sigKind.catches => exceptions = {"cancelled"}
      /\ sigAt' = "over"
      /\ sigCount' = left
      /\ sigRaised' = IF through = {} /\ handled # NoCode THEN {"signal"} ELSE through
      /\ UNCHANGED <<sigScope, sigCancels, sigArrived, sigReady, handled, sigNumber, sigKind>>
  BY DEF LeaveHandler
<1>2. sigCount = sigKind.before + sigCancels + sigScope
  BY <1>1 DEF SignalInv, SignalCounts
<1>3. sigCount - sigScope = sigKind.before + sigCancels /\ sigCount - sigScope \in Nat
  BY <1>2 DEF SignalInv, SignalTypeOK
<1>4. left \in Nat
  BY <1>3 DEF SignalInv, SignalTypeOK
<1>5. SignalTypeOK'
  BY <1>1, <1>4 DEF SignalInv, SignalTypeOK
<1>6. SignalCounts'
  BY <1>1 DEF SignalInv, SignalCounts, HandlesSignal
<1>7. ASSUME ~sigKind.catches
      PROVE  /\ sigCount' = sigKind.before + sigCancels
             /\ sigCancels > 0 => sigRaised' = {"cancelled"}
             /\ sigRaised' = {"cancelled"} => sigCount' > 0
             /\ sigScope > 0 /\ sigCount' = 0 => sigRaised' = {"signal"}
  <2>1. CASE exceptions = {"cancelled"}
    <3>1. left = sigKind.before + sigCancels
      BY <1>3, <2>1
    <3>2. sigScope > 0 => handled # NoCode
      BY <1>1 DEF SignalInv, SignalCounts
    <3>3. CASE left = 0
      <4>1. through = {} BY <2>1, <3>3
      <4>2. sigCancels = 0 BY <3>1, <3>3 DEF SignalInv, SignalTypeOK
      <4>3. sigRaised' = IF handled # NoCode THEN {"signal"} ELSE {}
        BY <1>1, <4>1
      <4> QED BY <1>1, <3>1, <3>2, <4>2, <4>3
    <3>4. CASE left # 0
      <4>1. sigRaised' = {"cancelled"} BY <1>1, <2>1, <3>4
      <4> QED BY <1>1, <1>4, <3>1, <3>4, <4>1
    <3> QED BY <3>3, <3>4
  <2>2. CASE exceptions # {"cancelled"}
    <3>1. ~sigMust
      BY <1>1, <1>7, <2>2
    <3>2. sigCancels = 0 /\ sigScope = 0
      BY <1>1, <1>7, <3>1 DEF SignalInv, SignalCounts, SignalTypeOK
    <3>3. left = sigCount /\ sigCount = sigKind.before + sigCancels
      BY <1>2, <2>2, <3>2 DEF SignalInv, SignalTypeOK
    <3>4. sigRaised' # {"cancelled"}
      BY <1>1, <2>2
    <3> QED BY <1>1, <3>2, <3>3, <3>4
  <2> QED BY <2>1, <2>2
<1>8. SignalReports'
  BY <1>1, <1>7 DEF SignalReports
<1> QED BY <1>5, <1>6, <1>8 DEF SignalInv

(* The rest of what tasks do, and others' cancellations.                   *)
LEMMA SignalTaskInv ==
  ASSUME SignalInv,
         SuppressSignal \/ TakeSignal \/ AskSignal \/ StopWaiting \/ CancelHandler
  PROVE  SignalInv'
<1> USE DEF SignalInv, SuppressSignal, TakeSignal, AskSignal, StopWaiting, CancelHandler
<1>1. SignalTypeOK'
  BY DEF SignalTypeOK
<1>2. SignalCounts'
  <2>1. CASE TakeSignal \/ AskSignal \/ StopWaiting
    BY <2>1 DEF SignalCounts, HandlesSignal
  <2>2. CASE SuppressSignal
    BY <2>2 DEF SignalCounts, HandlesSignal
  <2>3. CASE CancelHandler
    <3>1. UNCHANGED <<sigAt, sigScope, handled, sigKind>> /\ sigMust' = TRUE
      BY <2>3
    <3>2. sigCount' = sigCount + 1 /\ sigCancels' = sigCancels + 1
      BY <2>3
    <3>3. HandlesSignal /\ sigAt = "body" =>
            sigCount' = sigKind.before + sigCancels' + sigScope
      <4>1. sigKind.before \in Nat /\ sigCancels \in Nat /\ sigScope \in Nat
        BY DEF SignalTypeOK
      <4>2. HandlesSignal /\ sigAt = "body" => sigCount = sigKind.before + sigCancels + sigScope
        BY DEF SignalCounts
      <4> QED BY <3>2, <4>1, <4>2
    <3> QED BY <3>1, <3>3 DEF SignalCounts, HandlesSignal
  <2> QED BY <2>1, <2>2, <2>3
<1>3. SignalReports'
  BY DEF SignalReports, SignalCounts, HandlesSignal
<1> QED BY <1>1, <1>2, <1>3

LEMMA SignalStep ==
  ASSUME SignalInv, [SignalNext]_sigVars
  PROVE  SignalInv'
<1>1. CASE UNCHANGED sigVars
  BY <1>1 DEF sigVars, sigTask, SignalInv, SignalTypeOK, SignalCounts, SignalReports,
              HandlesSignal
<1>2. CASE SignalNext
  BY <1>2, LoopInv, LeaveHandlerInv, SignalTaskInv DEF SignalNext, SignalSteps, LeavesHandler
<1> QED BY <1>1, <1>2

LEMMA SignalIdle == [PrimitivesNext]_primitivesVars => [SignalNext]_sigVars
<1> QED BY DEF PrimitivesNext, Only, primitivesVars

(* handle_signal raises for what it handled, and leaves its task with the  *)
(* cancellations of others, whenever signals come and however many.        *)
THEOREM SignalIsRaised == PrimitivesSpec => []SignalReports
<1>1. PrimitivesInit => SignalInv
  <2>1. PrimitivesInit => SignalInit
    BY DEF PrimitivesInit
  <2>2. SignalInit => SignalTypeOK
    BY DEF SignalInit, SignalTypeOK
  <2>3. SignalInit => SignalCounts /\ SignalReports
    BY <2>2 DEF SignalInit, SignalTypeOK, SignalCounts, SignalReports, HandlesSignal
  <2> QED BY <2>1, <2>2, <2>3 DEF SignalInv
<1>2. SignalInv /\ [PrimitivesNext]_primitivesVars => SignalInv'
  BY SignalIdle, SignalStep
<1>3. SignalInv => SignalReports
  BY DEF SignalInv
<1> QED BY <1>1, <1>2, <1>3, PTL DEF PrimitivesSpec
-----------------------------------------------------------------------------
(* The nestable lock.                                                      *)

NestTypeOK ==
  /\ nestHolder \subseteq Family
  /\ nestQueue \in Seq(Family)
  /\ nestLevel \in [Family -> Nat]
  /\ nestBase \in [Family -> Nat \cup {-1}]

(* The lock is held for one task, whose context did not inherit it, nor    *)
(* did those of the tasks in the queue, which hold nothing yet.            *)
NestShape ==
  /\ \A t, u \in nestHolder : t = u
  /\ \A t \in Family : Started(t) => nestBase[t] <= nestLevel[t]
  /\ \A t \in Family : ~Started(t) => nestLevel[t] = 0
  /\ \A t \in nestHolder : nestBase[t] = 0
  /\ \A i \in 1..Len(nestQueue) : /\ nestBase[nestQueue[i]] = 0
                                  /\ nestLevel[nestQueue[i]] = 0
                                  /\ nestQueue[i] \notin nestHolder
  /\ \A i, j \in 1..Len(nestQueue) : nestQueue[i] = nestQueue[j] => i = j
  /\ nestQueue # <<>> => nestHolder # {}

NestInv == NestTypeOK /\ NestShape /\ NestExclusion

(* Whom the queue holds, by position. *)
LEMMA QueuedAt ==
  ASSUME NestTypeOK, NEW t
  PROVE  Queued(t) <=> \E i \in 1..Len(nestQueue) : nestQueue[i] = t
<1> QED BY LenProperties DEF NestTypeOK, Queued, ToSet

(* The lock passes from the task that has it to the first of the queue.    *)
LEMMA HandOverShape ==
  ASSUME NestInv, HandOver
  PROVE  /\ nestHolder' \subseteq Family
         /\ nestQueue' \in Seq(Family)
         /\ \A t \in nestHolder' : t \notin nestHolder /\ nestBase[t] = 0 /\ nestLevel[t] = 0
         /\ \A t, u \in nestHolder' : t = u
         /\ \A i \in 1..Len(nestQueue') : /\ nestBase[nestQueue'[i]] = 0
                                          /\ nestLevel[nestQueue'[i]] = 0
                                          /\ nestQueue'[i] \notin nestHolder'
                                          /\ nestQueue'[i] \notin nestHolder
         /\ \A i, j \in 1..Len(nestQueue') : nestQueue'[i] = nestQueue'[j] => i = j
         /\ nestQueue' # <<>> => nestHolder' # {}
<1> USE DEF NestInv
<1>1. CASE nestQueue = <<>>
  BY <1>1 DEF HandOver, NestTypeOK
<1>2. CASE nestQueue # <<>>
  <2>1. nestHolder' = {Head(nestQueue)} /\ nestQueue' = Tail(nestQueue)
    BY <1>2 DEF HandOver
  <2>2. nestQueue \in Seq(Family) BY DEF NestTypeOK
  <2>3. /\ Head(nestQueue) = nestQueue[1]
        /\ Len(nestQueue) \in Nat \ {0}
        /\ Head(nestQueue) \in Family
        /\ nestQueue' \in Seq(Family)
        /\ Len(nestQueue') = Len(nestQueue) - 1
        /\ \A i \in 1..Len(nestQueue') : nestQueue'[i] = nestQueue[i + 1]
    BY <1>2, <2>1, <2>2, HeadTailProperties, EmptySeq
  <2>4. \A i \in 1..Len(nestQueue') : i + 1 \in 1..Len(nestQueue) /\ i + 1 # 1
    BY <2>3
  <2>5. 1 \in 1..Len(nestQueue)
    BY <2>3
  <2>6. \A i \in 1..Len(nestQueue') : nestQueue'[i] # nestQueue[1]
    BY <2>3, <2>4, <2>5 DEF NestShape
  <2>7. \A i, j \in 1..Len(nestQueue') : nestQueue'[i] = nestQueue'[j] => i = j
    BY <2>3, <2>4 DEF NestShape
  <2> QED BY <2>1, <2>3, <2>4, <2>5, <2>6, <2>7 DEF NestShape
<1> QED BY <1>1, <1>2

(* A sequence without one of its elements. *)
LEMMA RemoveAtProperties ==
  ASSUME NEW S, NEW s \in Seq(S), NEW k \in 1..Len(s)
  PROVE  /\ RemoveAt(s, k) \in Seq(S)
         /\ Len(RemoveAt(s, k)) = Len(s) - 1
         /\ \A i \in 1..(Len(s) - 1) : RemoveAt(s, k)[i] = IF i < k THEN s[i] ELSE s[i + 1]
<1> DEFINE before == SubSeq(s, 1, k - 1)
           after == SubSeq(s, k + 1, Len(s))
<1>1. Len(s) \in Nat /\ \A i \in 1..Len(s) : s[i] \in S
  BY LenProperties, ElementOfSeq
<1>2. /\ before \in Seq(S)
      /\ Len(before) = k - 1
      /\ \A i \in 1..(k - 1) : before[i] = s[i]
  <2>1. \A i \in 1..(k - 1) : s[i] \in S /\ 1 + i - 1 = i
    BY <1>1
  <2>2. 1 \in Int /\ k - 1 \in Int /\ k - 1 - 1 + 1 = k - 1
    BY <1>1
  <2>3. /\ before \in Seq(S)
        /\ Len(before) = IF 1 <= k - 1 THEN k - 1 - 1 + 1 ELSE 0
        /\ \A i \in 1..(k - 1 - 1 + 1) : before[i] = s[1 + i - 1]
    BY <2>1, <2>2, SubSeqProperties
  <2> QED BY <2>1, <2>2, <2>3
<1>3. /\ after \in Seq(S)
      /\ Len(after) = Len(s) - k
      /\ \A i \in 1..(Len(s) - k) : after[i] = s[k + i]
  <2>1. \A i \in (k + 1)..Len(s) : s[i] \in S
    BY <1>1
  <2>2. k + 1 \in Int /\ Len(s) \in Int /\ Len(s) - (k + 1) + 1 = Len(s) - k
    BY <1>1
  <2>3. /\ after \in Seq(S)
        /\ Len(after) = IF k + 1 <= Len(s) THEN Len(s) - (k + 1) + 1 ELSE 0
        /\ \A i \in 1..(Len(s) - (k + 1) + 1) : after[i] = s[k + 1 + i - 1]
    BY <2>1, <2>2, SubSeqProperties
  <2>4. \A i \in 1..(Len(s) - k) : k + 1 + i - 1 = k + i
    BY <1>1
  <2>5. Len(after) = Len(s) - k
    BY <1>1, <2>3
  <2>6. \A i \in 1..(Len(s) - k) : after[i] = s[k + i]
    BY <2>2, <2>3, <2>4
  <2> QED BY <2>3, <2>5, <2>6
<1>4. /\ before \o after \in Seq(S)
      /\ Len(before \o after) = Len(before) + Len(after)
      /\ \A i \in 1..(Len(before) + Len(after)) :
           (before \o after)[i] = IF i <= Len(before) THEN before[i]
                                                      ELSE after[i - Len(before)]
  BY <1>2, <1>3, ConcatProperties
<1>5. RemoveAt(s, k) = before \o after
  BY DEF RemoveAt
<1> HIDE DEF before, after
<1>6. Len(before) + Len(after) = Len(s) - 1
  BY <1>1, <1>2, <1>3
<1>7. ASSUME NEW i \in 1..(Len(s) - 1)
      PROVE  (before \o after)[i] = IF i < k THEN s[i] ELSE s[i + 1]
  <2>1. CASE i < k
    <3>1. i \in 1..(k - 1) /\ i <= Len(before) BY <1>1, <1>2, <2>1
    <3> QED BY <1>2, <1>4, <1>6, <2>1, <3>1
  <2>2. CASE ~(i < k)
    <3>1. i - (k - 1) \in 1..(Len(s) - k) /\ ~(i <= Len(before)) /\ k + (i - (k - 1)) = i + 1
      BY <1>1, <1>2, <2>2
    <3>2. (before \o after)[i] = after[i - (k - 1)]
      BY <1>2, <1>4, <1>6, <3>1
    <3>3. after[i - (k - 1)] = s[i + 1]
      BY <1>3, <3>1
    <3> QED BY <2>2, <3>2, <3>3
  <2> QED BY <2>1, <2>2
<1> QED BY <1>4, <1>5, <1>6, <1>7

(* A task starts, by itself or created by another one.                     *)
LEMMA NestStartInv ==
  ASSUME NestInv, NEW t \in Family, NEW child \in Family, NestStart(t) \/ NestFork(t, child)
  PROVE  NestInv'
<1> USE DEF NestInv
<1>1. PICK u \in Family, n \in Nat :
        /\ ~Started(u)
        /\ nestBase' = [nestBase EXCEPT ![u] = n]
        /\ nestLevel' = [nestLevel EXCEPT ![u] = n]
        /\ UNCHANGED <<nestHolder, nestQueue>>
  <2>1. CASE NestStart(t)
    <3>1. nestLevel' = [nestLevel EXCEPT ![t] = 0]
      BY <2>1 DEF NestStart, NestShape, NestTypeOK
    <3> QED BY <2>1, <3>1 DEF NestStart
  <2>2. CASE NestFork(t, child)
    BY <2>2 DEF NestFork, NestTypeOK
  <2> QED BY <2>1, <2>2
<1>2. u \notin nestHolder /\ \A i \in 1..Len(nestQueue) : nestQueue[i] # u
  BY <1>1 DEF NestShape, Started
<1>3. \A v \in Family \ {u} : nestLevel'[v] = nestLevel[v] /\ nestBase'[v] = nestBase[v]
  BY <1>1 DEF NestTypeOK
<1>4. nestLevel'[u] = n /\ nestBase'[u] = n
  BY <1>1 DEF NestTypeOK
<1>5. NestTypeOK'
  BY <1>1 DEF NestTypeOK
<1>6. \A i \in 1..Len(nestQueue) : nestQueue[i] \in Family
  BY ElementOfSeq DEF NestTypeOK
<1>7. NestShape'
  BY <1>1, <1>2, <1>3, <1>4, <1>6 DEF NestShape, NestTypeOK, Started
<1>8. NestExclusion'
  BY <1>1, <1>2, <1>3, <1>4 DEF NestExclusion, Acquired, NestTypeOK
<1> QED BY <1>5, <1>7, <1>8

(* __aenter__ at level 0 waits, or takes the lock; above it only counts.   *)
LEMMA NestEnterInv ==
  ASSUME NestInv, NEW t \in Family, NestEnter(t)
  PROVE  NestInv'
<1> USE DEF NestInv
<1>1. /\ Started(t)
      /\ nestLevel[t] \in Nat
      /\ nestLevel[t] = 0 => nestBase[t] = 0 /\ t \notin nestHolder
      /\ nestBase' = nestBase
      /\ \A i \in 1..Len(nestQueue) : nestQueue[i] \in Family /\ nestQueue[i] # t
  BY QueuedAt, ElementOfSeq DEF NestEnter, NestShape, NestTypeOK, Started
<1>2. CASE nestLevel[t] = 0 /\ nestHolder # {}
  <2>1. nestQueue' = Append(nestQueue, t) /\ UNCHANGED <<nestHolder, nestLevel>>
    BY <1>2 DEF NestEnter
  <2>2. /\ nestQueue' \in Seq(Family)
        /\ Len(nestQueue) \in Nat
        /\ Len(nestQueue') = Len(nestQueue) + 1
        /\ \A i \in 1..Len(nestQueue) : nestQueue'[i] = nestQueue[i]
        /\ nestQueue'[Len(nestQueue) + 1] = t
    BY <2>1, AppendProperties, LenProperties DEF NestTypeOK
  <2>3. \A i \in 1..Len(nestQueue') : i \in 1..Len(nestQueue) \/ i = Len(nestQueue) + 1
    BY <2>2
  <2>4. NestTypeOK'
    BY <1>1, <2>1, <2>2 DEF NestTypeOK
  <2>5. NestShape'
    <3>1. \A i \in 1..Len(nestQueue') : /\ nestBase[nestQueue'[i]] = 0
                                         /\ nestLevel[nestQueue'[i]] = 0
                                         /\ nestQueue'[i] \notin nestHolder
      BY <1>1, <1>2, <2>2, <2>3 DEF NestShape
    <3>2. \A i, j \in 1..Len(nestQueue') : nestQueue'[i] = nestQueue'[j] => i = j
      BY <1>1, <2>2, <2>3 DEF NestShape
    <3> QED BY <1>1, <1>2, <2>1, <3>1, <3>2 DEF NestShape, Started
  <2>6. NestExclusion'
    BY <1>1, <2>1 DEF NestExclusion, Acquired
  <2> QED BY <2>4, <2>5, <2>6
<1>3. CASE nestLevel[t] = 0 /\ nestHolder = {}
  <2>1. nestHolder' = {t} /\ nestLevel' = [nestLevel EXCEPT ![t] = 1] /\ nestQueue' = nestQueue
    BY <1>3 DEF NestEnter
  <2>2. nestQueue = <<>> /\ Len(nestQueue) = 0
    BY <1>3, EmptySeq DEF NestShape
  <2>3. NestTypeOK'
    BY <1>1, <2>1 DEF NestTypeOK
  <2>4. NestShape'
    <3>1. nestLevel'[t] = 1 /\ \A u \in Family \ {t} : nestLevel'[u] = nestLevel[u]
      BY <2>1 DEF NestTypeOK
    <3>2. \A u \in Family : Started(u) => nestBase[u] <= nestLevel'[u]
      BY <1>1, <1>3, <3>1 DEF NestShape
    <3>3. \A u \in Family : ~Started(u) => nestLevel'[u] = 0
      BY <1>1, <3>1 DEF NestShape
    <3>4. nestQueue' = <<>> /\ 1..Len(nestQueue') = {}
      BY <2>1, <2>2
    <3> QED BY <1>1, <1>3, <2>1, <3>2, <3>3, <3>4 DEF NestShape, Started
  <2>5. NestExclusion'
    BY <1>1, <1>3, <2>1 DEF NestExclusion, Acquired, NestTypeOK
  <2> QED BY <2>3, <2>4, <2>5
<1>4. CASE nestLevel[t] # 0
  <2>1. /\ UNCHANGED <<nestHolder, nestQueue>>
        /\ nestLevel' = [nestLevel EXCEPT ![t] = nestLevel[t] + 1]
    BY <1>4 DEF NestEnter
  <2>2. NestTypeOK'
    BY <1>1, <2>1 DEF NestTypeOK
  <2>3. NestShape'
    BY <1>1, <2>1 DEF NestShape, Started, NestTypeOK
  <2>4. NestExclusion'
    BY <1>1, <1>4, <2>1 DEF NestExclusion, Acquired, NestTypeOK
  <2> QED BY <2>2, <2>3, <2>4
<1> QED BY <1>2, <1>3, <1>4

(* The level is set once the lock is acquired. *)
LEMMA NestResumeInv ==
  ASSUME NestInv, NEW t \in Family, NestResume(t)
  PROVE  NestInv'
<1> USE DEF NestInv
<1>1. /\ t \in nestHolder
      /\ nestLevel' = [nestLevel EXCEPT ![t] = 1]
      /\ UNCHANGED <<nestHolder, nestQueue, nestBase>>
  BY DEF NestResume, Acquired
<1>2. nestBase[t] = 0 /\ \A i \in 1..Len(nestQueue) : nestQueue[i] \in Family \ {t}
  BY <1>1, ElementOfSeq DEF NestShape, NestTypeOK
<1>3. NestTypeOK'
  BY <1>1 DEF NestTypeOK
<1>4. NestShape'
  BY <1>1, <1>2 DEF NestShape, NestTypeOK, Started
<1>5. NestExclusion'
  BY <1>1, <1>2 DEF NestExclusion, Acquired, NestTypeOK
<1> QED BY <1>3, <1>4, <1>5

(* A task that was woken hands the lock on; one in the queue leaves it.    *)
LEMMA NestCancelInv ==
  ASSUME NestInv, NEW t \in Family, NestCancel(t)
  PROVE  NestInv'
<1> USE DEF NestInv
<1>1. UNCHANGED <<nestLevel, nestBase>>
  BY DEF NestCancel
<1>2. CASE Acquired(t) /\ HandOver
  <2>1. NestTypeOK'
    BY <1>1, <1>2, HandOverShape DEF NestTypeOK
  <2>2. NestShape'
    BY <1>1, <1>2, HandOverShape DEF NestShape, Started
  <2>3. \A u \in Family : u \in nestHolder => u = t
    BY <1>2 DEF Acquired, NestShape
  <2>4. NestExclusion'
    BY <1>1, <1>2, <2>3, HandOverShape DEF NestExclusion, Acquired
  <2> QED BY <2>1, <2>2, <2>4
<1>3. CASE /\ UNCHANGED nestHolder
           /\ \E k \in DOMAIN nestQueue : nestQueue' = RemoveAt(nestQueue, k)
  <2>1. nestQueue \in Seq(Family) /\ Len(nestQueue) \in Nat /\ DOMAIN nestQueue = 1..Len(nestQueue)
    BY LenProperties DEF NestTypeOK
  <2>2. PICK k \in 1..Len(nestQueue) : nestQueue' = RemoveAt(nestQueue, k)
    BY <1>3, <2>1
  <2>3. /\ nestQueue' \in Seq(Family)
        /\ Len(nestQueue') = Len(nestQueue) - 1
        /\ \A i \in 1..(Len(nestQueue) - 1) :
             nestQueue'[i] = IF i < k THEN nestQueue[i] ELSE nestQueue[i + 1]
    BY <2>1, <2>2, RemoveAtProperties
  <2>4. NestTypeOK'
    BY <1>1, <1>3, <2>3 DEF NestTypeOK
  <2>5. \A i \in 1..Len(nestQueue') : i \in 1..Len(nestQueue) /\ i + 1 \in 1..Len(nestQueue)
    BY <2>1, <2>3
  <2>6. ASSUME NEW i \in 1..Len(nestQueue')
        PROVE  /\ nestBase[nestQueue'[i]] = 0
               /\ nestLevel[nestQueue'[i]] = 0
               /\ nestQueue'[i] \notin nestHolder
    BY <2>3, <2>5 DEF NestShape
  <2>7. ASSUME NEW i \in 1..Len(nestQueue'), NEW j \in 1..Len(nestQueue'),
               nestQueue'[i] = nestQueue'[j]
        PROVE  i = j
    BY <2>1, <2>3, <2>5, <2>7 DEF NestShape
  <2>8. nestQueue # <<>>
    BY <2>1, <2>2, EmptySeq
  <2>9. NestShape'
    BY <1>1, <1>3, <2>6, <2>7, <2>8 DEF NestShape, Started
  <2>10. NestExclusion'
    BY <1>1, <1>3 DEF NestExclusion, Acquired
  <2> QED BY <2>4, <2>9, <2>10
<1> QED BY <1>2, <1>3 DEF NestCancel

(* Only the exit to level 0 releases the lock, and only the task that      *)
(* acquired it comes to that.                                              *)
LEMMA NestExitInv ==
  ASSUME NestInv, NEW t \in Family, NestExit(t)
  PROVE  NestInv'
<1> USE DEF NestInv
<1>1. /\ Started(t)
      /\ nestLevel[t] > nestBase[t]
      /\ nestLevel' = [nestLevel EXCEPT ![t] = nestLevel[t] - 1]
      /\ nestBase' = nestBase
      /\ nestLevel[t] \in Nat /\ nestBase[t] \in Nat
  BY DEF NestExit, Started, NestTypeOK
<1>2. nestLevel[t] - 1 \in Nat /\ nestBase[t] <= nestLevel[t] - 1
  BY <1>1
<1>3. nestLevel' \in [Family -> Nat]
  BY <1>1, <1>2 DEF NestTypeOK
<1>4. nestLevel'[t] = nestLevel[t] - 1 /\ \A u \in Family \ {t} : nestLevel'[u] = nestLevel[u]
  BY <1>1 DEF NestTypeOK
<1>5. \A u \in Family : Started(u) => nestBase[u] <= nestLevel'[u]
  BY <1>2, <1>4 DEF NestShape
<1>6. \A u \in Family : ~Started(u) => nestLevel'[u] = 0
  BY <1>1, <1>4 DEF NestShape
<1>7. CASE nestLevel[t] = 1 /\ HandOver
  <2>1. nestBase[t] = 0 /\ nestLevel'[t] = 0
    BY <1>1, <1>4, <1>7
  <2>2. t \in nestHolder /\ \A u \in Family : u \in nestHolder => u = t
    BY <1>7, <2>1 DEF NestExclusion, NestShape
  <2>3. \A i \in 1..Len(nestQueue') : nestQueue'[i] \in Family
    BY <1>7, HandOverShape, ElementOfSeq
  <2>4. NestTypeOK'
    BY <1>1, <1>3, <1>7, HandOverShape DEF NestTypeOK
  <2>5. NestShape'
    BY <1>1, <1>4, <1>5, <1>6, <1>7, <2>1, <2>2, <2>3, HandOverShape DEF NestShape, Started
  <2>6. \A u \in Family : u \in nestHolder' => nestLevel'[u] = 0
    BY <1>4, <1>7, <2>1, HandOverShape
  <2>7. \A u \in Family : nestBase[u] = 0 /\ nestLevel'[u] > 0 => FALSE
    BY <1>4, <2>1, <2>2 DEF NestExclusion
  <2>8. NestExclusion'
    BY <1>1, <2>6, <2>7 DEF NestExclusion, Acquired
  <2> QED BY <2>4, <2>5, <2>8
<1>8. CASE nestLevel[t] # 1 /\ UNCHANGED <<nestHolder, nestQueue>>
  <2>1. nestLevel'[t] > 0 /\ nestLevel[t] > 0
    BY <1>1, <1>4, <1>8
  <2>2. \A i \in 1..Len(nestQueue) : nestQueue[i] \in Family \ {t}
    BY <2>1, ElementOfSeq DEF NestShape, NestTypeOK
  <2>3. NestTypeOK'
    BY <1>1, <1>3, <1>8 DEF NestTypeOK
  <2>4. NestShape'
    BY <1>1, <1>4, <1>5, <1>6, <1>8, <2>2 DEF NestShape, Started
  <2>5. NestExclusion'
    BY <1>1, <1>4, <1>8, <2>1 DEF NestExclusion, Acquired
  <2> QED BY <2>3, <2>4, <2>5
<1> QED BY <1>7, <1>8 DEF NestExit

LEMMA NestStep ==
  ASSUME NestInv, [NestNext]_nestVars
  PROVE  NestInv'
<1>1. CASE UNCHANGED nestVars
  BY <1>1 DEF nestVars, NestInv, NestTypeOK, NestShape, NestExclusion, Started, Acquired
<1>2. CASE NestNext
  BY <1>2, NestStartInv, NestEnterInv, NestResumeInv, NestCancelInv, NestExitInv DEF NestNext
<1> QED BY <1>1, <1>2

LEMMA NestIdle == [PrimitivesNext]_primitivesVars => [NestNext]_nestVars
<1> QED BY DEF PrimitivesNext, Only, primitivesVars

(* A NestableLock is only ever inside for one task that acquired it, and   *)
(* for those it created meanwhile, however many tasks inherit its context, *)
(* and however deep they nest.                                             *)
THEOREM NestExcludes == PrimitivesSpec => []NestExclusion
<1>1. PrimitivesInit => NestInv
  <2>1. PrimitivesInit => NestInit
    BY DEF PrimitivesInit
  <2>2. NestInit => NestTypeOK
    BY EmptySeq DEF NestInit, NestTypeOK
  <2>3. NestInit => NestShape /\ NestExclusion
    BY EmptySeq DEF NestInit, NestShape, NestExclusion, Started
  <2> QED BY <2>1, <2>2, <2>3 DEF NestInv
<1>2. NestInv /\ [PrimitivesNext]_primitivesVars => NestInv'
  BY NestIdle, NestStep
<1>3. NestInv => NestExclusion
  BY DEF NestInv
<1> QED BY <1>1, <1>2, <1>3, PTL DEF PrimitivesSpec
-----------------------------------------------------------------------------
(* The read-write lock.                                                    *)

Known == 1..Len(rwPc)

RWTypeOK ==
  /\ rwMode \in {"unlocked", "read", "write"}
  /\ rwAsks \in Seq({"read", "write"})
  /\ rwPc \in Seq({"inside", "waiting", "over", "cancelled"})
  /\ Len(rwAsks) = Len(rwPc)
  /\ rwReads \in Seq(Known)
  /\ rwWrites \in Seq(Known)
  /\ rwOwners \subseteq Known
  /\ rwGranted \subseteq Known

(* What `_state` says of the owners. *)
Owned ==
  /\ rwOwners = {} <=> rwMode = "unlocked"
  /\ \A id \in rwOwners : rwAsks[id] = rwMode /\ rwPc[id] # "over"
  /\ rwMode = "write" => \A a, b \in rwOwners : a = b
  /\ \A id \in Known : rwPc[id] = "inside" \/ (rwPc[id] = "waiting" /\ id \in rwGranted) =>
                         id \in rwOwners

WaitsFor(id, mode) == /\ rwAsks[id] = mode
                    /\ rwPc[id] \in {"waiting", "cancelled"}
                    /\ id \notin rwOwners
                    /\ id \notin rwGranted

(* Who is in a queue was not granted anything yet, and is behind an owner. *)
InQueues ==
  /\ \A i \in 1..Len(rwReads), id \in Known : rwReads[i] = id => WaitsFor(id, "read")
  /\ \A i \in 1..Len(rwWrites), id \in Known : rwWrites[i] = id => WaitsFor(id, "write")
  /\ \A i, j \in 1..Len(rwWrites) : rwWrites[i] = rwWrites[j] => i = j
  /\ rwReads # <<>> \/ rwWrites # <<>> => rwOwners # {}

RWInv == RWTypeOK /\ Owned /\ InQueues

LEMMA RWIds ==
  ASSUME RWTypeOK
  PROVE  /\ Len(rwPc) \in Nat
         /\ DOMAIN rwPc = Known
         /\ DOMAIN rwReads = 1..Len(rwReads)
         /\ Len(rwReads) \in Nat /\ Len(rwWrites) \in Nat
         /\ \A i \in 1..Len(rwReads) : rwReads[i] \in Known
         /\ \A i \in 1..Len(rwWrites) : rwWrites[i] \in Known
<1> QED BY LenProperties, ElementOfSeq DEF RWTypeOK, Known

(* A reader or a writer comes, and gets the lock or a place in its queue.  *)
LEMMA RWAcquireInv ==
  ASSUME RWInv, NEW mode \in {"read", "write"}, RWAcquire(mode)
  PROVE  RWInv'
<1> USE DEF RWInv
<1>id. PICK id \in Nat : id = Len(rwPc) + 1
  BY RWIds
<1>at. PICK at \in {"inside", "waiting"} :
         at = IF Compatible(mode) THEN "inside" ELSE "waiting"
  OBVIOUS
<1>1. /\ rwAsks' = Append(rwAsks, mode)
      /\ rwPc' = Append(rwPc, at)
      /\ rwGranted' = rwGranted
  BY <1>at DEF RWAcquire
<1>2. /\ rwAsks' \in Seq({"read", "write"})
      /\ rwPc' \in Seq({"inside", "waiting", "over", "cancelled"})
      /\ Len(rwPc') = id /\ Len(rwAsks') = id
      /\ rwPc'[id] = at /\ rwAsks'[id] = mode
      /\ \A j \in Known : rwPc'[j] = rwPc[j] /\ rwAsks'[j] = rwAsks[j]
  BY <1>id, <1>1, AppendProperties DEF RWTypeOK, Known
<1>3. /\ id \in Nat /\ id \notin Known /\ Known' = Known \cup {id}
      /\ Known \subseteq Known'
  BY <1>id, <1>2, RWIds DEF Known
<1>4. /\ \A i \in 1..Len(rwReads) : rwReads[i] \in Known /\ rwReads[i] # id
      /\ \A i \in 1..Len(rwWrites) : rwWrites[i] \in Known /\ rwWrites[i] # id
      /\ id \notin rwOwners /\ id \notin rwGranted
      /\ rwReads \in Seq(Known') /\ rwWrites \in Seq(Known')
  BY <1>3, RWIds, SeqMonotonic DEF RWTypeOK
<1>5. CASE /\ Compatible(mode)
           /\ rwMode' = mode
           /\ rwOwners' = rwOwners \cup {id}
           /\ UNCHANGED <<rwReads, rwWrites>>
  <2>1. RWTypeOK'
    BY <1>1, <1>2, <1>3, <1>4, <1>5 DEF RWTypeOK
  <2>2. rwMode = "unlocked" \/ (rwMode = "read" /\ mode = "read")
    BY <1>5 DEF Compatible
  <2>3. Owned'
    <3>1. at = "inside"
      BY <1>at, <1>5
    <3>2. rwMode = "unlocked" => rwOwners = {}
      BY DEF Owned
    <3>3. \A j \in rwOwners' : rwAsks'[j] = rwMode' /\ rwPc'[j] # "over"
      BY <1>2, <1>5, <2>2, <3>1 DEF Owned, RWTypeOK
    <3>4. rwMode' = "write" => \A a, b \in rwOwners' : a = b
      BY <1>5, <2>2, <3>2
    <3>5. \A j \in Known' :
            rwPc'[j] = "inside" \/ (rwPc'[j] = "waiting" /\ j \in rwGranted') => j \in rwOwners'
      BY <1>1, <1>2, <1>3, <1>5 DEF Owned
    <3> QED BY <1>5, <3>3, <3>4, <3>5 DEF Owned
  <2>4. \A j \in Known, m \in {"read", "write"} : WaitsFor(j, m) => WaitsFor(j, m)'
    BY <1>1, <1>2, <1>3, <1>5 DEF WaitsFor
  <2>5. InQueues'
    BY <1>3, <1>4, <1>5, <2>4 DEF InQueues
  <2> QED BY <2>1, <2>3, <2>5
<1>6. CASE /\ ~Compatible(mode)
           /\ rwReads' = IF mode = "read" THEN Append(rwReads, id) ELSE rwReads
           /\ rwWrites' = IF mode = "write" THEN Append(rwWrites, id) ELSE rwWrites
           /\ UNCHANGED <<rwMode, rwOwners>>
  <2>1. rwOwners # {} /\ at = "waiting"
    BY <1>at, <1>6 DEF Compatible, Owned, RWTypeOK
  <2>2. Owned'
    <3>1. \A j \in rwOwners' : rwAsks'[j] = rwMode' /\ rwPc'[j] # "over"
      BY <1>2, <1>6 DEF Owned, RWTypeOK
    <3>2. \A j \in Known' :
            rwPc'[j] = "inside" \/ (rwPc'[j] = "waiting" /\ j \in rwGranted') => j \in rwOwners'
      BY <1>1, <1>2, <1>3, <1>4, <1>6, <2>1 DEF Owned
    <3> QED BY <1>6, <3>1, <3>2 DEF Owned
  <2>3. /\ WaitsFor(id, mode)'
        /\ \A j \in Known, m \in {"read", "write"} : WaitsFor(j, m) => WaitsFor(j, m)'
    BY <1>1, <1>2, <1>3, <1>4, <1>6, <2>1 DEF WaitsFor
  <2>4. CASE mode = "read"
    <3>1. /\ rwReads' \in Seq(Known')
          /\ Len(rwReads') = Len(rwReads) + 1
          /\ rwReads'[Len(rwReads) + 1] = id
          /\ \A i \in 1..Len(rwReads) : rwReads'[i] = rwReads[i]
      BY <1>3, <1>4, <1>6, <2>4, AppendProperties
    <3>2. rwWrites' = rwWrites
      BY <1>6, <2>4
    <3>3. \A i \in 1..Len(rwReads') : i \in 1..Len(rwReads) \/ i = Len(rwReads) + 1
      BY <3>1, RWIds
    <3>4. RWTypeOK'
      BY <1>1, <1>2, <1>3, <1>4, <1>6, <3>1, <3>2 DEF RWTypeOK
    <3>5. \A i \in 1..Len(rwReads'), j \in Known' : rwReads'[i] = j => WaitsFor(j, "read")'
      BY <1>3, <1>4, <2>3, <2>4, <3>1, <3>3 DEF InQueues
    <3>6. InQueues'
      BY <1>3, <1>4, <1>6, <2>1, <2>3, <3>2, <3>5 DEF InQueues
    <3> QED BY <2>2, <3>4, <3>6
  <2>5. CASE mode = "write"
    <3>1. /\ rwWrites' \in Seq(Known')
          /\ Len(rwWrites') = Len(rwWrites) + 1
          /\ rwWrites'[Len(rwWrites) + 1] = id
          /\ \A i \in 1..Len(rwWrites) : rwWrites'[i] = rwWrites[i]
      BY <1>3, <1>4, <1>6, <2>5, AppendProperties
    <3>2. rwReads' = rwReads
      BY <1>6, <2>5
    <3>3. \A i \in 1..Len(rwWrites') : i \in 1..Len(rwWrites) \/ i = Len(rwWrites) + 1
      BY <3>1, RWIds
    <3>4. RWTypeOK'
      BY <1>1, <1>2, <1>3, <1>4, <1>6, <3>1, <3>2 DEF RWTypeOK
    <3>5. \A i \in 1..Len(rwWrites'), j \in Known' : rwWrites'[i] = j => WaitsFor(j, "write")'
      BY <1>3, <1>4, <2>3, <2>5, <3>1, <3>3 DEF InQueues
    <3>6. \A i, j \in 1..Len(rwWrites') : rwWrites'[i] = rwWrites'[j] => i = j
      BY <1>4, <3>1, <3>3 DEF InQueues
    <3>7. InQueues'
      BY <1>3, <1>4, <1>6, <2>1, <2>3, <3>2, <3>5, <3>6 DEF InQueues
    <3> QED BY <2>2, <3>4, <3>7
  <2> QED BY <2>4, <2>5
<1> QED BY <1>id, <1>5, <1>6 DEF RWAcquire, RWTypeOK

(* A caller that was granted the lock gets in. *)
LEMMA RWEnterInv ==
  ASSUME RWInv, NEW id \in Known, RWEnter(id)
  PROVE  RWInv'
<1> USE DEF RWInv
<1>1. /\ rwPc[id] = "waiting" /\ id \in rwGranted
      /\ rwPc' = [rwPc EXCEPT ![id] = "inside"]
      /\ UNCHANGED <<rwMode, rwOwners, rwReads, rwWrites, rwAsks, rwGranted>>
  BY DEF RWEnter
<1>2. /\ rwPc' \in Seq({"inside", "waiting", "over", "cancelled"})
      /\ Len(rwPc') = Len(rwPc)
      /\ \A j \in Known : rwPc'[j] = IF j = id THEN "inside" ELSE rwPc[j]
  BY <1>1, ExceptSeq DEF RWTypeOK, Known
<1>3. Known' = Known
  BY <1>2 DEF Known
<1>4. RWTypeOK'
  BY <1>1, <1>2, <1>3 DEF RWTypeOK
<1>5. Owned'
  BY <1>1, <1>2, <1>3 DEF Owned, RWTypeOK
<1>6. InQueues'
  BY <1>1, <1>2, <1>3, RWIds DEF InQueues, WaitsFor
<1> QED BY <1>4, <1>5, <1>6

(* A caller leaves, as its body ends or as it is cancelled in its wait:    *)
(* the last owner hands the lock on.                                       *)
LEMMA RWLeaveInv ==
  ASSUME RWInv, NEW id \in Known, RWExit(id) \/ RWCancel(id)
  PROVE  RWInv'
<1> DEFINE left == rwOwners \ {id}
<1> USE DEF RWInv
<1>1. PICK to \in {"over", "cancelled"} :
        /\ rwPc[id] \in {"inside", "waiting"}
        /\ to = "over" => rwPc[id] = "inside"
        /\ rwPc' = [rwPc EXCEPT ![id] = to]
        /\ Release(id)
        /\ rwAsks' = rwAsks
  BY DEF RWExit, RWCancel, RWLeave
<1>2. /\ rwPc' \in Seq({"inside", "waiting", "over", "cancelled"})
      /\ Len(rwPc') = Len(rwPc)
      /\ \A j \in Known : rwPc'[j] = IF j = id THEN to ELSE rwPc[j]
  BY <1>1, ExceptSeq DEF RWTypeOK, Known
<1>3. Known' = Known
  BY <1>2 DEF Known
<1>4. \A j \in Known : rwPc[j] \in {"waiting", "cancelled"} /\ (j = id => rwPc[id] # "inside")
        => rwPc'[j] \in {"waiting", "cancelled"}
  BY <1>1, <1>2
<1>5. rwPc[id] = "inside" => id \in rwOwners
  BY DEF Owned
<1>6. CASE /\ left # {}
           /\ rwOwners' = left
           /\ UNCHANGED <<rwMode, rwReads, rwWrites, rwGranted>>
  <2>1. RWTypeOK'
    BY <1>1, <1>2, <1>3, <1>6 DEF RWTypeOK
  <2>2. Owned'
    BY <1>1, <1>2, <1>3, <1>6 DEF Owned, RWTypeOK
  <2>3. \A j \in Known, m \in {"read", "write"} : WaitsFor(j, m) => WaitsFor(j, m)'
    BY <1>1, <1>4, <1>5, <1>6 DEF WaitsFor
  <2>4. InQueues'
    BY <1>3, <1>6, <2>3, RWIds DEF InQueues
  <2> QED BY <2>1, <2>2, <2>4
<1>7. ASSUME left = {}
      PROVE  /\ \A j \in Known \ {id} : /\ rwPc[j] # "inside"
                                         /\ ~(rwPc[j] = "waiting" /\ j \in rwGranted)
             /\ \A i \in 1..Len(rwReads) : rwReads[i] # id
             /\ \A i \in 1..Len(rwWrites) : rwWrites[i] # id
  <2>1. \A j \in Known \ {id} : j \notin rwOwners
    BY <1>7
  <2>2. rwReads # <<>> \/ rwWrites # <<>> => id \in rwOwners
    BY <1>7 DEF InQueues
  <2>3. (Len(rwReads) > 0 => rwReads # <<>>) /\ (Len(rwWrites) > 0 => rwWrites # <<>>)
    BY EmptySeq
  <2> QED BY <2>1, <2>2, <2>3, RWIds DEF Owned, InQueues, WaitsFor
<1>8. CASE /\ left = {}
           /\ rwWrites # <<>>
           /\ rwMode' = "write"
           /\ rwOwners' = {Head(rwWrites)}
           /\ rwWrites' = Tail(rwWrites)
           /\ rwGranted' = rwGranted \cup {Head(rwWrites)}
           /\ UNCHANGED rwReads
  <2>h. PICK h : h = Head(rwWrites)
    OBVIOUS
  <2>1. /\ h = rwWrites[1] /\ h \in Known
        /\ 1 \in 1..Len(rwWrites)
        /\ rwWrites' \in Seq(Known)
        /\ Len(rwWrites') = Len(rwWrites) - 1
        /\ \A i \in 1..Len(rwWrites') : /\ rwWrites'[i] = rwWrites[i + 1]
                                        /\ i \in 1..Len(rwWrites)
                                        /\ i + 1 \in 1..Len(rwWrites)
                                        /\ i + 1 # 1
    BY <2>h, <1>8, HeadTailProperties, EmptySeq, RWIds DEF RWTypeOK
  <2>2. WaitsFor(h, "write") /\ h # id
    BY <1>7, <1>8, <2>1 DEF InQueues
  <2>3. rwOwners' = {h} /\ rwGranted' = rwGranted \cup {h}
    BY <2>h, <1>8
  <2>4. RWTypeOK'
    BY <1>1, <1>2, <1>3, <1>8, <2>1, <2>3 DEF RWTypeOK
  <2>5. Owned'
    BY <1>1, <1>2, <1>3, <1>7, <1>8, <2>1, <2>2, <2>3 DEF Owned, WaitsFor
  <2>6. \A j \in Known, m \in {"read", "write"} :
          WaitsFor(j, m) /\ j # id /\ j # h => WaitsFor(j, m)'
    BY <1>1, <1>2, <2>3 DEF WaitsFor
  <2>7. ASSUME NEW i \in 1..Len(rwReads), NEW j \in Known, rwReads[i] = j
        PROVE  WaitsFor(j, "read")'
    <3>1. WaitsFor(j, "read") /\ j # id
      BY <1>7, <1>8, <2>7 DEF InQueues
    <3>2. j # h
      BY <2>2, <3>1 DEF WaitsFor
    <3> QED BY <2>6, <3>1, <3>2
  <2>8. ASSUME NEW i \in 1..Len(rwWrites'), NEW j \in Known, rwWrites'[i] = j
        PROVE  WaitsFor(j, "write")'
    <3>1. rwWrites[i + 1] = j /\ i + 1 \in 1..Len(rwWrites) /\ i + 1 # 1
      BY <2>1, <2>8
    <3>2. j # h
      BY <2>1, <3>1 DEF InQueues
    <3>3. WaitsFor(j, "write") /\ j # id
      BY <1>7, <1>8, <3>1 DEF InQueues
    <3> QED BY <2>6, <3>2, <3>3
  <2>9. ASSUME NEW i \in 1..Len(rwWrites'), NEW j \in 1..Len(rwWrites'),
               rwWrites'[i] = rwWrites'[j]
        PROVE  i = j
    <3>1. i \in Int /\ j \in Int
      OBVIOUS
    <3>2. i + 1 = j + 1
      BY <2>1, <2>9 DEF InQueues
    <3> QED BY <3>1, <3>2
  <2>10. InQueues'
    BY <1>3, <1>8, <2>3, <2>7, <2>8, <2>9 DEF InQueues
  <2> QED BY <2>4, <2>5, <2>10
<1>9. CASE /\ left = {}
           /\ rwWrites = <<>>
           /\ rwMode' = IF rwReads = <<>> THEN "unlocked" ELSE "read"
           /\ rwOwners' = ToSet(rwReads)
           /\ rwGranted' = rwGranted \cup ToSet(rwReads)
           /\ rwReads' = <<>>
           /\ UNCHANGED rwWrites
  <2>1. \A j : j \in rwOwners' <=> \E i \in 1..Len(rwReads) : rwReads[i] = j
    BY <1>9, RWIds DEF ToSet
  <2>2. rwOwners' \subseteq Known /\ rwGranted' = rwGranted \cup rwOwners'
    BY <1>9, <2>1, RWIds
  <2>3. \A j \in rwOwners' : WaitsFor(j, "read") /\ j # id
    BY <1>7, <1>9, <2>1, <2>2 DEF InQueues
  <2>4. rwOwners' = {} <=> rwReads = <<>>
    <3>1. rwReads # <<>> => 1 \in 1..Len(rwReads)
      BY EmptySeq DEF RWTypeOK
    <3>2. rwReads = <<>> => 1..Len(rwReads) = {}
      BY EmptySeq
    <3> QED BY <2>1, <3>1, <3>2
  <2>5. RWTypeOK'
    BY <1>1, <1>2, <1>3, <1>9, <2>2, EmptySeq DEF RWTypeOK
  <2>6. Owned'
    BY <1>1, <1>2, <1>3, <1>7, <1>9, <2>2, <2>3, <2>4 DEF Owned, WaitsFor
  <2>7. InQueues'
    BY <1>9, EmptySeq DEF InQueues
  <2> QED BY <2>5, <2>6, <2>7
<1> QED BY <1>1, <1>6, <1>8, <1>9 DEF Release

LEMMA RWStep ==
  ASSUME RWInv, [RWNext]_rwVars
  PROVE  RWInv'
<1>1. CASE UNCHANGED rwVars
  BY <1>1 DEF rwVars, RWInv, RWTypeOK, Owned, InQueues, WaitsFor, Known
<1>2. CASE RWNext
  BY <1>2, RWIds, RWAcquireInv, RWEnterInv, RWLeaveInv DEF RWNext, RWInv
<1> QED BY <1>1, <1>2

LEMMA RWIdle == [PrimitivesNext]_primitivesVars => [RWNext]_rwVars
<1> QED BY DEF PrimitivesNext, Only, primitivesVars

(* Who owns the read-write lock and who waits for it, however many callers *)
(* come, and whichever are cancelled.                                      *)
THEOREM RWInvariant == PrimitivesSpec => []RWInv
<1>1. PrimitivesInit => RWInv
  <2>1. PrimitivesInit => RWInit
    BY DEF PrimitivesInit
  <2>2. RWInit => RWTypeOK
    BY EmptySeq DEF RWInit, RWTypeOK, Known
  <2>3. RWInit => Owned /\ InQueues
    BY EmptySeq DEF RWInit, Owned, InQueues, Known
  <2> QED BY <2>1, <2>2, <2>3 DEF RWInv
<1>2. RWInv /\ [PrimitivesNext]_primitivesVars => RWInv'
  BY RWIdle, RWStep
<1> QED BY <1>1, <1>2, PTL DEF PrimitivesSpec

(* A writer is alone inside the read-write lock.                           *)
THEOREM RWExcludes == PrimitivesSpec => []RWExclusion
<1>1. RWInv => RWExclusion
  <2> SUFFICES ASSUME RWInv PROVE RWExclusion
    OBVIOUS
  <2>1. DOMAIN rwPc = Known /\ rwOwners \subseteq Known
    BY RWIds DEF RWInv, RWTypeOK
  <2>2. \A id \in Known : rwPc[id] = "inside" \/ (rwPc[id] = "waiting" /\ id \in rwGranted) =>
                           id \in rwOwners
    BY DEF RWInv, Owned
  <2>3. \A a, b \in rwOwners : rwAsks[a] = "write" => a = b
    BY DEF RWInv, Owned
  <2> QED BY <2>1, <2>2, <2>3 DEF RWExclusion
<1> QED BY <1>1, RWInvariant, PTL

(* Nobody is left in a queue of the read-write lock without an owner.      *)
THEOREM RWIsHandedOn == PrimitivesSpec => []RWHandsOn
<1>1. RWInv => RWHandsOn
  <2> SUFFICES ASSUME RWInv, rwReads # <<>> \/ rwWrites # <<>>
               PROVE  \E id \in rwOwners : rwPc[id] \in {"inside", "waiting", "cancelled"}
    BY DEF RWHandsOn
  <2>1. PICK id \in rwOwners : TRUE
    BY DEF RWInv, InQueues
  <2>2. rwPc[id] \in {"inside", "waiting", "over", "cancelled"}
    BY ElementOfSeq DEF RWInv, RWTypeOK, Known
  <2> QED BY <2>2 DEF RWInv, Owned
<1> QED BY <1>1, RWInvariant, PTL

-----------------------------------------------------------------------------
(* The watched path.                                                       *)

Descriptors == [level : -1 .. Depth, named : BOOLEAN, gone : BOOLEAN, write : BOOLEAN]

WatchTypeOK ==
  /\ deep \in 0 .. Depth
  /\ watched \in Descriptors
  /\ opened \in Descriptors
  /\ watchPc \in {"idle", "update_down", "update_up", "update_watch", "exists", "exited"}
  /\ current \in 0 .. Depth
  /\ last \in {"unknown", "there", "gone"}
  /\ queued \in {"none", "create", "delete", "write"}
  /\ lates \in Nat
  /\ options \in [debounce : BOOLEAN, immediately : BOOLEAN]

(* A descriptor that still is what its path names is of something there.   *)
Names(fd) == /\ fd.named => 0 <= fd.level /\ fd.level <= deep
             /\ fd.gone => 1 <= fd.level
             /\ fd.write => 0 <= fd.level

(* Where the handler is on its way down or up, and that it only rests if   *)
(* nothing appeared below what is watched that kqueue would not tell.      *)
Places ==
  /\ Names(watched) /\ Names(opened)
  /\ watchPc \notin {"update_up", "update_watch"} => opened = Nothing
  /\ watchPc = "update_watch" => 0 <= opened.level
  /\ watchPc = "exists" => 0 <= watched.level
  /\ watchPc = "update_up" =>
        /\ watched.level < Depth
        /\ IF opened = Nothing THEN current = watched.level ELSE current = opened.level
  /\ watchPc = "idle" /\ watched.named /\ watched.level < deep => watched.write

(* What is known of the target once the calls that are scheduled are made. *)
Announced == IF lates = 0 THEN last = "there" ELSE queued # "delete"

(* Outside the handler, that agrees with what is watched. The calls that   *)
(* gather are at most two, the last of which a report that it is there.    *)
Reports ==
  /\ options.immediately /\ watchPc # "exited" =>
        (Announced <=> watchPc = "idle" /\ watched.level = Depth)
  /\ last = "unknown" => lates = 0
  /\ last = "gone" /\ lates > 0 => queued # "delete"
  /\ options.debounce \/ watchPc \notin {"idle", "exited"} => lates <= 1
  /\ lates <= 2
  /\ lates = 2 => queued # "delete"

WatchInv == WatchTypeOK /\ Places /\ Reports

(* What kqueue tells of a change leaves a descriptor where it was.         *)
LEMMA ToldOf ==
  ASSUME NEW fd \in Descriptors, fd.named => 0 <= fd.level,
         NEW gone \in {-1} \cup 1 .. Depth, NEW written
  PROVE  /\ Told(fd, gone, written) \in Descriptors
         /\ Told(fd, gone, written).level = fd.level
         /\ Told(fd, gone, written).named => fd.named /\ (gone = -1 \/ fd.level < gone)
         /\ Told(fd, gone, written).gone => fd.gone \/ (fd.named /\ fd.level = gone)
         /\ Told(fd, gone, written).write => fd.write \/ fd.named
         /\ fd.named /\ (fd.write \/ fd.level = written) => Told(fd, gone, written).write
         /\ (fd = Nothing <=> Told(fd, gone, written) = Nothing)
<1> DEFINE heard == Told(fd, gone, written)
<1>1. CASE ~fd.named
  <2>1. heard = fd BY <1>1 DEF Told
  <2> HIDE DEF heard
  <2>2. /\ heard \in Descriptors /\ ~heard.named BY <1>1, <2>1
  <2> QED BY <1>1, <2>1, <2>2 DEF heard
<1>2. CASE fd.named
  <2>1. PICK k \in -1 .. Depth, g \in BOOLEAN, w \in BOOLEAN :
           fd = [level |-> k, named |-> TRUE, gone |-> g, write |-> w]
    BY <1>2 DEF Descriptors
  <2>2. heard = [level |-> k, named |-> (gone = -1 \/ k < gone), gone |-> (g \/ k = gone),
                write |-> (w \/ k = written)]
    BY <1>2, <2>1 DEF Told
  <2> HIDE DEF heard
  <2>3. heard \in Descriptors BY <2>1, <2>2 DEF Descriptors
  <2>4. k # -1 BY <1>2, <2>1
  <2>5. fd # Nothing /\ heard # Nothing BY <2>1, <2>2, <2>4 DEF Nothing
  <2>6. /\ fd.level = k /\ fd.gone = g /\ fd.write = w
        /\ heard.level = k /\ heard.named = (gone = -1 \/ k < gone)
        /\ heard.gone = (g \/ k = gone) /\ heard.write = (w \/ k = written)
    BY <2>1, <2>2
  <2> QED BY <1>2, <2>3, <2>5, <2>6 DEF heard
<1> QED BY <1>1, <1>2

(* What a descriptor has to report is set, or taken from it. *)
Flagged(fd, flag) == [fd EXCEPT !.gone = flag, !.write = flag]

LEMMA FlaggedOf ==
  ASSUME NEW fd \in Descriptors, NEW flag \in BOOLEAN
  PROVE  /\ Flagged(fd, flag) \in Descriptors
         /\ Flagged(fd, flag).level = fd.level /\ Flagged(fd, flag).named = fd.named
         /\ Flagged(fd, flag).gone = flag /\ Flagged(fd, flag).write = flag
         /\ fd.level \in Int
<1>1. Flagged(fd, flag) \in Descriptors BY DEF Descriptors, Flagged
<1>2. Flagged(fd, flag).level = fd.level BY DEF Descriptors, Flagged
<1>3. Flagged(fd, flag).named = fd.named BY DEF Descriptors, Flagged
<1>4. Flagged(fd, flag).gone = flag BY DEF Descriptors, Flagged
<1>5. Flagged(fd, flag).write = flag BY DEF Descriptors, Flagged
<1>6. fd.level \in Int BY DEF Descriptors
<1> QED BY <1>1, <1>2, <1>3, <1>4, <1>5, <1>6

(* Others change the file system, whatever the handler does. *)
LEMMA FileSystemInv == ASSUME WatchInv, FileSystem PROVE WatchInv'
<1> USE DEF WatchInv
<1>1. Depth \in Nat /\ deep \in 0 .. Depth /\ watched \in Descriptors /\ opened \in Descriptors
  BY WatchAssumption DEF WatchTypeOK
<1>2. PICK gone \in {-1} \cup 1 .. Depth, written \in 0 .. Depth :
        /\ deep' \in 0 .. Depth /\ Change(gone, written)
        /\ \A k \in 0 .. deep : gone = -1 \/ k < gone =>
              k <= deep' /\ (k < deep' => k < deep \/ k = written)
  <2>1. ASSUME NEW k \in 1 .. Depth, Appear(k)
        PROVE  /\ deep' \in 0 .. Depth /\ Change(-1, deep)
               /\ \A j \in 0 .. deep : j <= deep' /\ (j < deep' => j < deep \/ j = deep)
    BY <1>1, <2>1 DEF Appear
  <2>2. ASSUME NEW k \in 1 .. Depth, Disappear(k)
        PROVE  /\ deep' \in 0 .. Depth /\ Change(k, k - 1)
               /\ \A j \in 0 .. deep : j < k => j <= deep' /\ (j < deep' => j < deep)
    BY <1>1, <2>2 DEF Disappear
  <2>3. ASSUME Replace \/ Write
        PROVE  /\ deep' = deep /\ deep = Depth
               /\ Change(Depth, Depth - 1) \/ Change(-1, Depth)
    BY <2>3 DEF Replace, Write
  <2>4. CASE \E k \in 1 .. Depth : Appear(k) BY <1>1, <2>1, <2>4
  <2>5. CASE \E k \in 1 .. Depth : Disappear(k)
    <3>1. PICK k \in 1 .. Depth : Disappear(k) BY <2>5
    <3>2. k \in {-1} \cup 1 .. Depth /\ k - 1 \in 0 .. Depth /\ k # -1 BY <1>1
    <3> QED BY <2>2, <3>1, <3>2
  <2>6. CASE Replace \/ Write
    <3>1. Depth \in {-1} \cup 1 .. Depth /\ Depth - 1 \in 0 .. Depth /\ Depth \in 0 .. Depth
      BY WatchAssumption
    <3> QED BY <1>1, <2>3, <2>6, <3>1
  <2> QED BY <2>4, <2>5, <2>6 DEF FileSystem
<1>3. /\ watched' = Told(watched, gone, written) /\ opened' = Told(opened, gone, written)
      /\ UNCHANGED <<watchPc, current, last, queued, lates, options>>
  BY <1>2 DEF Change, callbackVars
<1>4. Names(watched) /\ Names(opened) BY DEF Places
<1>5. /\ watched' \in Descriptors /\ opened' \in Descriptors
      /\ watched'.level = watched.level /\ opened'.level = opened.level
      /\ opened = Nothing <=> opened' = Nothing
  BY <1>1, <1>3, <1>4, ToldOf DEF Names
<1>6. WatchTypeOK' BY <1>2, <1>3, <1>5 DEF WatchTypeOK
<1>7. ASSUME NEW fd \in Descriptors, Names(fd), NEW new, new = Told(fd, gone, written)
      PROVE  /\ new.named => 0 <= new.level /\ new.level <= deep'
             /\ new.gone => 1 <= new.level
             /\ new.write => 0 <= new.level
             /\ new.named /\ new.level < deep' =>
                  fd.named /\ (fd.level < deep \/ fd.level = written)
  <2>1. fd.level \in Int /\ deep \in Nat BY <1>1 DEF Descriptors
  <2>2. /\ new.level = fd.level
        /\ new.named => fd.named /\ (gone = -1 \/ fd.level < gone)
        /\ new.gone => fd.gone \/ (fd.named /\ fd.level = gone)
        /\ new.write => fd.write \/ fd.named
    BY <1>7, ToldOf DEF Names
  <2>3. fd.named => fd.level \in 0 .. deep BY <1>7, <2>1 DEF Names
  <2>4. fd.named /\ fd.level = gone => 1 <= fd.level BY <2>1, <2>3
  <2> QED BY <1>2, <1>7, <2>2, <2>3, <2>4 DEF Names
<1>8. Names(watched)' /\ Names(opened)' BY <1>1, <1>3, <1>4, <1>7 DEF Names
<1>9. watchPc = "idle" /\ watched'.named /\ watched'.level < deep' => watched'.write
  <2> SUFFICES ASSUME watchPc = "idle", watched'.named, watched'.level < deep'
               PROVE  watched'.write
    OBVIOUS
  <2>1. watched.named /\ (watched.level < deep \/ watched.level = written)
    BY <1>1, <1>3, <1>4, <1>7
  <2>2. watched.write \/ watched.level = written BY <2>1 DEF Places
  <2> QED BY <1>1, <1>3, <1>4, <2>1, <2>2, ToldOf DEF Names
<1>10. Places' BY <1>3, <1>5, <1>8, <1>9 DEF Places
<1>11. Reports' BY <1>3, <1>5 DEF Reports, Announced
<1> QED BY <1>6, <1>10, <1>11

(* The calls of the callback. *)
LEMMA EagerInv ==
  ASSUME WatchInv, NEW event \in {"create", "delete", "write"}, Eager(event),
         event = "delete" => lates <= 1 /\ (options.debounce \/ lates = 0),
         event = "write" => lates <= 1 /\ (options.debounce \/ lates = 0),
         event = "create" => lates <= 1,
         event # "create" /\ options.immediately => Announced,
         UNCHANGED options
  PROVE  /\ last' \in {"unknown", "there", "gone"} /\ lates' \in Nat /\ queued' = event
         /\ options.immediately => (Announced' <=> event # "delete")
         /\ last' = "unknown" => lates' = 0
         /\ last' = "gone" /\ lates' > 0 => queued' # "delete"
         /\ options.debounce \/ event # "create" => lates' <= 1
         /\ lates' <= 2
         /\ lates' = 2 => queued' # "delete"
<1>1. /\ lates \in Nat /\ last \in {"unknown", "there", "gone"} /\ options.immediately \in BOOLEAN
      /\ last = "unknown" => lates = 0
      /\ last = "gone" /\ lates > 0 => queued # "delete"
  BY DEF WatchInv, WatchTypeOK, Reports
<1>2. CASE last = "unknown"
  <2>1. /\ queued' = event /\ lates' = 0 /\ lates = 0
        /\ last' = IF options.immediately THEN "there" ELSE last
    BY <1>1, <1>2 DEF Eager
  <2> QED BY <1>1, <1>2, <2>1 DEF Announced
<1>3. CASE last = "gone" /\ event = "delete"
  <2>1. queued' = event /\ lates' = 0 /\ last' = last
    BY <1>1, <1>3 DEF Eager
  <2> QED BY <1>1, <1>3, <2>1 DEF Announced
<1>4. CASE last # "unknown" /\ (last = "there" \/ event # "delete")
  <2>1. /\ queued' = event /\ last' = last
        /\ lates' = IF options.debounce THEN 1 ELSE lates + 1
    BY <1>4 DEF Eager
  <2> QED BY <1>1, <1>4, <2>1 DEF Announced
<1> QED BY <1>1, <1>2, <1>3, <1>4

LEMMA LateInv == ASSUME WatchInv, Late PROVE WatchInv'
<1> USE DEF WatchInv
<1>1. /\ lates \in Nat /\ lates > 0 /\ lates' = lates - 1
      /\ last' = IF queued = "delete" THEN "gone" ELSE IF last = "gone" THEN "there" ELSE last
      /\ UNCHANGED <<deep, watched, opened, watchPc, current, queued, options>>
      /\ watchPc \in {"idle", "exited"} /\ last \in {"there", "gone"}
  BY DEF Late, fileVars, WatchTypeOK, Reports
<1>2. WatchTypeOK' BY <1>1 DEF WatchTypeOK
<1>3. Places' BY <1>1 DEF Places, Names
<1>4. Announced' <=> Announced BY <1>1 DEF Announced
<1>5. Reports' BY <1>1, <1>4 DEF Reports
<1> QED BY <1>2, <1>3, <1>5

(* The handler is called. *)
LEMMA HandleInv == ASSUME WatchInv, Handle PROVE WatchInv'
<1> USE DEF WatchInv
<1>1. /\ Depth \in Nat /\ deep \in 0 .. Depth /\ watched \in Descriptors /\ lates \in Nat
      /\ last \in {"unknown", "there", "gone"} /\ queued \in {"none", "create", "delete", "write"}
      /\ Names(watched) /\ opened = Nothing /\ watchPc = "idle" /\ lates <= 2
      /\ options.debounce => lates <= 1
  BY WatchAssumption DEF Handle, WatchTypeOK, Places, Reports
<1>2. /\ watched' = Flagged(watched, FALSE)
      /\ UNCHANGED <<deep, opened, options>>
      /\ lates <= 1 /\ (options.debounce \/ lates = 0)
  BY <1>1 DEF Handle, Flagged
<1>3. /\ watched' \in Descriptors /\ watched'.level = watched.level
      /\ watched'.named = watched.named /\ watched'.gone = FALSE /\ watched'.write = FALSE
      /\ watched.level \in Int
  BY <1>1, <1>2, FlaggedOf
<1>4. Names(watched)' /\ Names(opened)'
  BY <1>1, <1>2, <1>3 DEF Names, Nothing
<1>5. CASE watched.gone
  <2>1. /\ watchPc' = "update_down" /\ current' = watched.level - 1 /\ 1 <= watched.level
        /\ watched.level <= Depth
    BY <1>1, <1>5 DEF Handle, Names, Descriptors
  <2>2. current' \in 0 .. Depth BY <1>1, <1>3, <2>1
  <2>3. Places' BY <1>1, <1>2, <1>4, <2>1 DEF Places
  <2>4. CASE watched.level = Depth
    <3>1. Eager("delete") BY <1>5, <2>4 DEF Handle
    <3>2. options.immediately => Announced BY <1>1, <2>4 DEF Reports
    <3>3. /\ last' \in {"unknown", "there", "gone"} /\ lates' \in Nat /\ queued' = "delete"
          /\ options.immediately => ~Announced'
          /\ last' = "unknown" => lates' = 0
          /\ last' = "gone" /\ lates' > 0 => queued' # "delete"
          /\ lates' <= 1 /\ lates' # 2
      <4> HIDE DEF WatchInv
      <4>1. /\ last' \in {"unknown", "there", "gone"} /\ lates' \in Nat /\ queued' = "delete"
            /\ options.immediately => (Announced' <=> FALSE)
            /\ last' = "unknown" => lates' = 0
            /\ last' = "gone" /\ lates' > 0 => queued' # "delete"
            /\ lates' <= 1
        BY <1>2, <3>1, <3>2, EagerInv
      <4> QED BY <4>1
    <3>4. WatchTypeOK' BY <1>2, <1>3, <2>1, <2>2, <3>3 DEF WatchTypeOK
    <3>5. Reports' BY <1>2, <2>1, <3>3 DEF Reports
    <3> QED BY <2>3, <3>4, <3>5
  <2>5. CASE watched.level # Depth
    <3>1. UNCHANGED <<last, queued, lates>> BY <2>5 DEF Handle, callbackVars
    <3>2. WatchTypeOK' BY <1>2, <1>3, <2>1, <2>2, <3>1 DEF WatchTypeOK
    <3>3. Reports' BY <1>1, <1>2, <2>1, <2>5, <3>1 DEF Reports, Announced
    <3> QED BY <2>3, <3>2, <3>3
  <2> QED BY <2>4, <2>5
<1>6. CASE ~watched.gone
  <2>1. /\ watchPc' = IF watched.level = Depth THEN "idle" ELSE "update_up"
        /\ current' = watched.level /\ watched.write
    BY <1>6 DEF Handle
  <2>2. CASE watched.level = Depth
    <3>0. /\ watchPc' = "idle" /\ current' = Depth /\ current' \in 0 .. Depth
          /\ watched'.level = Depth
      BY <1>1, <1>3, <2>1, <2>2
    <3>1. Eager("write") BY <1>6, <2>2 DEF Handle
    <3>2. options.immediately => Announced BY <1>1, <2>2 DEF Reports
    <3>3. /\ last' \in {"unknown", "there", "gone"} /\ lates' \in Nat /\ queued' = "write"
          /\ options.immediately => (Announced' <=> TRUE)
          /\ last' = "unknown" => lates' = 0
          /\ lates' <= 1 /\ lates' <= 2 /\ lates' # 2
      <4> HIDE DEF WatchInv
      <4>1. /\ last' \in {"unknown", "there", "gone"} /\ lates' \in Nat /\ queued' = "write"
            /\ options.immediately => (Announced' <=> TRUE)
            /\ last' = "unknown" => lates' = 0
            /\ lates' <= 1
        BY <1>2, <3>1, <3>2, EagerInv
      <4> QED BY <4>1
    <3>4. WatchTypeOK' BY <1>2, <1>3, <3>0, <3>3 DEF WatchTypeOK
    <3>5. ~(Depth < deep) BY <1>1
    <3>6. Places' BY <1>1, <1>2, <1>4, <3>0, <3>5 DEF Places
    <3>7. options' = options /\ queued' # "delete" BY <1>2, <3>3
    <3>8. options'.immediately => (Announced' <=> watchPc' = "idle" /\ watched'.level = Depth)
      BY <3>0, <3>3, <3>7
    <3>9. Reports' BY <3>0, <3>3, <3>7, <3>8 DEF Reports
    <3> QED BY <3>4, <3>6, <3>9
  <2>3. CASE watched.level # Depth
    <3>0. 0 <= watched.level /\ watched.level \in -1 .. Depth
      BY <1>1, <2>1 DEF Names, Descriptors
    <3>1. /\ UNCHANGED <<last, queued, lates>> /\ watched.level \in 0 .. Depth
          /\ watched.level < Depth
      BY <1>1, <2>3, <3>0, <1>6 DEF Handle, callbackVars
    <3>2. /\ watchPc' = "update_up" /\ current' = watched.level /\ current' = watched'.level
          /\ watched'.level < Depth /\ current' \in 0 .. Depth
      BY <1>3, <2>1, <2>3, <3>1
    <3>3. WatchTypeOK' BY <1>2, <1>3, <3>1, <3>2 DEF WatchTypeOK
    <3>4. Places' BY <1>1, <1>2, <1>4, <3>2 DEF Places
    <3>5. ~Announced' <=> ~Announced BY <3>1 DEF Announced
    <3>6. Reports' BY <1>1, <1>2, <2>3, <3>1, <3>2, <3>5 DEF Reports
    <3> QED BY <3>3, <3>4, <3>6
  <2> QED BY <2>2, <2>3
<1> QED BY <1>5, <1>6

LEMMA OpenedOf ==
  ASSUME WatchAssumption, NEW k \in 0 .. Depth
  PROVE  /\ Open(k) \in Descriptors /\ Open(k).level = k /\ Open(k) # Nothing
         /\ k <= deep => Names(Open(k))
<1>1. Open(k) = [level |-> k, named |-> TRUE, gone |-> FALSE, write |-> FALSE] BY DEF Open
<1>2. Open(k).level = k /\ Open(k).named /\ ~Open(k).gone /\ ~Open(k).write BY <1>1
<1>3. k \in -1 .. Depth /\ 0 <= k /\ k # -1 OBVIOUS
<1>4. Open(k) \in Descriptors BY <1>1, <1>3 DEF Descriptors
<1>5. Open(k) # Nothing BY <1>2, <1>3 DEF Nothing
<1> QED BY <1>2, <1>3, <1>4, <1>5 DEF Names

(* The handler goes down, *)
LEMMA UpdateDownInv == ASSUME WatchInv, UpdateDown PROVE WatchInv'
<1> USE DEF WatchInv
<1>1. /\ Depth \in Nat /\ deep \in 0 .. Depth /\ current \in 0 .. Depth
      /\ watchPc = "update_down" /\ opened = Nothing
      /\ UNCHANGED <<deep, watched, last, queued, lates, options>>
  BY WatchAssumption DEF UpdateDown, WatchTypeOK, Places, callbackVars
<1>2. CASE deep >= current
  <2>1. opened' = Open(current) /\ watchPc' = "update_watch" /\ UNCHANGED current
    BY <1>1, <1>2 DEF UpdateDown
  <2>2. /\ opened' \in Descriptors /\ opened'.level = current /\ opened' # Nothing
        /\ Names(opened)'
    BY <1>1, <1>2, <2>1, OpenedOf, WatchAssumption DEF Names
  <2>3. WatchTypeOK' BY <1>1, <2>1, <2>2 DEF WatchTypeOK
  <2>4. Places' BY <1>1, <2>1, <2>2 DEF Places, Names
  <2>5. Reports' BY <1>1, <2>1 DEF Reports, Announced
  <2> QED BY <2>3, <2>4, <2>5
<1>3. CASE deep < current
  <2>1. current' = current - 1 /\ UNCHANGED <<opened, watchPc>>
    BY <1>1, <1>3 DEF UpdateDown
  <2>2. current' \in 0 .. Depth BY <1>1, <1>3, <2>1
  <2>3. WatchTypeOK' BY <1>1, <2>1, <2>2 DEF WatchTypeOK
  <2>4. Places' BY <1>1, <2>1 DEF Places, Names
  <2>5. Reports' BY <1>1, <2>1 DEF Reports, Announced
  <2> QED BY <2>3, <2>4, <2>5
<1> QED BY <1>1, <1>2, <1>3

(* or up, *)
LEMMA UpdateUpInv == ASSUME WatchInv, UpdateUp PROVE WatchInv'
<1> USE DEF WatchInv
<1>1. /\ Depth \in Nat /\ deep \in 0 .. Depth /\ current \in 0 .. Depth
      /\ watchPc = "update_up" /\ watched.level < Depth
      /\ IF opened = Nothing THEN current = watched.level ELSE current = opened.level
      /\ UNCHANGED <<deep, watched, last, queued, lates, options>>
  BY WatchAssumption DEF UpdateUp, WatchTypeOK, Places, callbackVars
<1>2. CASE deep > current
  <2>1. /\ opened' = Open(current + 1) /\ current' = current + 1
        /\ watchPc' = IF current + 1 = Depth THEN "update_watch" ELSE "update_up"
    BY <1>1, <1>2 DEF UpdateUp
  <2>2. current + 1 \in 0 .. Depth /\ current + 1 <= deep BY <1>1, <1>2
  <2>3. /\ opened' \in Descriptors /\ opened'.level = current + 1 /\ opened' # Nothing
        /\ Names(opened)'
    BY <1>1, <2>1, <2>2, OpenedOf, WatchAssumption DEF Names
  <2>4. WatchTypeOK' BY <1>1, <2>1, <2>2, <2>3 DEF WatchTypeOK
  <2>5. watchPc' \in {"update_watch", "update_up"} /\ 0 <= opened'.level
    BY <1>1, <2>1, <2>3
  <2>6. Places' BY <1>1, <2>1, <2>3, <2>5 DEF Places, Names
  <2>7. Reports' BY <1>1, <2>5 DEF Reports, Announced
  <2> QED BY <2>4, <2>6, <2>7
<1>3. CASE deep <= current
  <2>1. /\ watchPc' = IF opened = Nothing THEN "idle" ELSE "update_watch"
        /\ UNCHANGED <<opened, current>>
    BY <1>1, <1>3 DEF UpdateUp
  <2>2. WatchTypeOK' BY <1>1, <2>1 DEF WatchTypeOK
  <2>3. Names(watched)' /\ Names(opened)' BY <1>1, <2>1 DEF Places, Names
  <2>4. CASE opened = Nothing
    <3>1. ~(watched.level < deep) BY <1>1, <1>3, <2>4
    <3>2. Places' BY <1>1, <2>1, <2>3, <2>4, <3>1 DEF Places
    <3>3. watched.level # Depth /\ watchPc' = "idle" BY <1>1, <2>1, <2>4
    <3>4. Reports' BY <1>1, <3>3 DEF Reports, Announced
    <3> QED BY <2>2, <3>2, <3>4
  <2>5. CASE opened # Nothing
    <3>1. 0 <= opened.level /\ watchPc' = "update_watch" BY <1>1, <2>1, <2>5
    <3>2. Places' BY <1>1, <2>1, <2>3, <3>1 DEF Places
    <3>3. Reports' BY <1>1, <3>1 DEF Reports, Announced
    <3> QED BY <2>2, <3>2, <3>3
  <2> QED BY <2>4, <2>5
<1> QED BY <1>1, <1>2, <1>3

(* and watches what it found, *)
LEMMA UpdateWatchInv == ASSUME WatchInv, UpdateWatch PROVE WatchInv'
<1> USE DEF WatchInv
<1>1. /\ opened \in Descriptors /\ watchPc = "update_watch" /\ watchPc' = "exists"
      /\ watched' = Flagged(opened, FALSE) /\ opened' = Nothing
      /\ 0 <= opened.level /\ Names(opened)
      /\ UNCHANGED <<deep, current, last, queued, lates, options>>
  BY DEF UpdateWatch, WatchTypeOK, Places, callbackVars, Flagged
<1>2. /\ watched' \in Descriptors /\ watched'.level = opened.level
      /\ watched'.named = opened.named /\ watched'.gone = FALSE /\ watched'.write = FALSE
  BY <1>1, FlaggedOf
<1>3. Nothing \in Descriptors
  <2>1. -1 \in -1 .. Depth BY WatchAssumption
  <2> QED BY <2>1 DEF Nothing, Descriptors
<1>4. WatchTypeOK' BY <1>1, <1>2, <1>3 DEF WatchTypeOK
<1>5. Names(watched)' /\ Names(opened)' BY <1>1, <1>2 DEF Names, Nothing
<1>6. Places' BY <1>1, <1>2, <1>5 DEF Places
<1>7. Reports' BY <1>1 DEF Reports, Announced
<1> QED BY <1>4, <1>6, <1>7

(* if it is still there. *)
LEMMA ExistsInv == ASSUME WatchInv, Exists PROVE WatchInv'
<1> USE DEF WatchInv
<1>1. /\ Depth \in Nat /\ deep \in 0 .. Depth /\ watched \in Descriptors /\ watched.level \in Int
      /\ 0 <= watched.level /\ watched.level <= Depth
      /\ watchPc = "exists" /\ opened = Nothing /\ lates \in Nat /\ lates <= 1
      /\ UNCHANGED <<deep, watched, opened, options>>
  BY WatchAssumption DEF Exists, WatchTypeOK, Places, Reports, Descriptors, fileVars
<1>2. Names(watched)' /\ Names(opened)' BY <1>1 DEF Places, Names
<1>3. CASE deep < watched.level
  <2>1. /\ watchPc' = "update_down" /\ current' = watched.level - 1
        /\ UNCHANGED <<last, queued, lates>>
    BY <1>1, <1>3 DEF Exists, callbackVars
  <2>2. current' \in 0 .. Depth BY <1>1, <1>3, <2>1
  <2>3. WatchTypeOK' BY <1>1, <2>1, <2>2 DEF WatchTypeOK
  <2>4. Places' BY <1>1, <1>2, <2>1 DEF Places
  <2>5. Reports' BY <1>1, <2>1 DEF Reports, Announced
  <2> QED BY <2>3, <2>4, <2>5
<1>4. CASE deep >= watched.level /\ watched.level # Depth
  <2>1. /\ watchPc' = "update_up" /\ current' = watched.level
        /\ UNCHANGED <<last, queued, lates>>
    BY <1>1, <1>4 DEF Exists, callbackVars
  <2>2. current' \in 0 .. Depth /\ watched.level < Depth BY <1>1, <1>4, <2>1
  <2>3. WatchTypeOK' BY <1>1, <2>1, <2>2 DEF WatchTypeOK
  <2>4. Places' BY <1>1, <1>2, <2>1, <2>2 DEF Places
  <2>5. Reports' BY <1>1, <2>1 DEF Reports, Announced
  <2> QED BY <2>3, <2>4, <2>5
<1>5. CASE deep >= watched.level /\ watched.level = Depth
  <2>1. watchPc' = "idle" /\ current' = Depth /\ Eager("create")
    BY <1>1, <1>5 DEF Exists
  <2>2. /\ last' \in {"unknown", "there", "gone"} /\ lates' \in Nat /\ queued' = "create"
        /\ options.immediately => (Announced' <=> TRUE)
        /\ last' = "unknown" => lates' = 0
        /\ options.debounce => lates' <= 1
        /\ lates' <= 2
    <3> HIDE DEF WatchInv
    <3>1. options' = options BY <1>1
    <3> QED BY <1>1, <2>1, <3>1, EagerInv
  <2>3. WatchTypeOK'
    <3>1. Depth \in 0 .. Depth BY <1>1
    <3> QED BY <1>1, <2>1, <2>2, <3>1 DEF WatchTypeOK
  <2>4. ~(watched.level < deep) BY <1>1, <1>5
  <2>5. Places' BY <1>1, <1>2, <2>1, <2>4 DEF Places
  <2>6. options' = options /\ watched'.level = Depth /\ queued' # "delete" BY <1>1, <1>5, <2>2
  <2>7. options'.immediately => (Announced' <=> watchPc' = "idle" /\ watched'.level = Depth)
    BY <2>1, <2>2, <2>6
  <2>8. Reports' BY <2>1, <2>2, <2>6, <2>7 DEF Reports
  <2> QED BY <2>3, <2>5, <2>8
<1> QED BY <1>1, <1>3, <1>4, <1>5

LEMMA ExitWatchInv == ASSUME WatchInv, ExitWatch PROVE WatchInv'
<1> USE DEF WatchInv
<1>1. /\ watchPc = "idle" /\ watchPc' = "exited" /\ watched' = Nothing /\ opened = Nothing
      /\ lates \in Nat /\ lates' = IF lates > 0 THEN lates - 1 ELSE 0
      /\ UNCHANGED <<deep, opened, current, last, queued, options>>
  BY DEF ExitWatch, WatchTypeOK, Places
<1>2. Nothing \in Descriptors
  <2>1. -1 \in -1 .. Depth BY WatchAssumption
  <2> QED BY <2>1 DEF Nothing, Descriptors
<1>3. WatchTypeOK' BY <1>1, <1>2 DEF WatchTypeOK
<1>4. Names(watched)' /\ Names(opened)' BY <1>1 DEF Names, Nothing
<1>5. Places' BY <1>1, <1>4 DEF Places
<1>6. Reports' BY <1>1 DEF Reports
<1> QED BY <1>3, <1>5, <1>6

LEMMA WatchStep ==
  ASSUME WatchInv, [WatchNext]_watchVars
  PROVE  WatchInv'
<1>1. CASE UNCHANGED watchVars
  <2>1. UNCHANGED <<deep, watched, opened, watchPc, current, last, queued, lates, options>>
    BY <1>1 DEF watchVars, fileVars, callbackVars
  <2>2. WatchTypeOK' BY <2>1 DEF WatchInv, WatchTypeOK
  <2>3. Places' BY <2>1 DEF WatchInv, Places, Names
  <2>4. Reports' BY <2>1 DEF WatchInv, Reports, Announced
  <2> QED BY <2>2, <2>3, <2>4 DEF WatchInv
<1>2. CASE WatchNext
  BY <1>2, FileSystemInv, LateInv, HandleInv, UpdateDownInv, UpdateUpInv, UpdateWatchInv,
     ExistsInv, ExitWatchInv DEF WatchNext, WatchSteps
<1> QED BY <1>1, <1>2

LEMMA WatchIdle == [PrimitivesNext]_primitivesVars => [WatchNext]_watchVars
<1> QED BY DEF PrimitivesNext, Only, primitivesVars

(* What watch_path watches, and what it told of it, at whatever depth the  *)
(* file is and however the file system changes between two system calls.   *)
THEOREM WatchInvariant == PrimitivesSpec => []WatchInv
<1>1. PrimitivesInit => WatchInv
  <2> SUFFICES ASSUME PrimitivesInit PROVE WatchInv
    OBVIOUS
  <2>1. /\ deep = 0 /\ watched = Nothing /\ opened = Nothing /\ watchPc = "update_down"
        /\ current = Depth /\ last = "unknown" /\ queued = "none" /\ lates = 0
        /\ options \in [debounce : Debounces, immediately : CallImmediately]
    BY DEF PrimitivesInit, WatchInit
  <2>2. options \in [debounce : BOOLEAN, immediately : BOOLEAN]
    BY <2>1, WatchAssumption
  <2>3. -1 \in -1 .. Depth /\ 0 \in 0 .. Depth /\ Depth \in 0 .. Depth BY WatchAssumption
  <2>4. WatchTypeOK BY <2>1, <2>2, <2>3 DEF WatchTypeOK, Nothing, Descriptors
  <2>5. Places BY <2>1 DEF Places, Names, Nothing
  <2>6. Reports BY <2>1 DEF Reports, Announced
  <2> QED BY <2>4, <2>5, <2>6 DEF WatchInv
<1>2. WatchInv /\ [PrimitivesNext]_primitivesVars => WatchInv'
  BY WatchIdle, WatchStep
<1> QED BY <1>1, <1>2, PTL DEF PrimitivesSpec

(* watch_path reports what is there once everything was handled, and then  *)
(* watches the deepest directory that exists; its callback that is late    *)
(* never has a deletion to report of a file that is gone.                  *)
THEOREM WatchIsFaithful == PrimitivesSpec => []WatchReports
<1>1. WatchInv => WatchReports
  <2> SUFFICES ASSUME WatchInv PROVE WatchReports
    OBVIOUS
  <2>1. ASSUME Quiet, watched.named, options.immediately
        PROVE  watched.level = deep /\ (last = "there" <=> deep = Depth)
    <3>1. watched.level \in Int /\ deep \in Int BY DEF WatchInv, WatchTypeOK, Descriptors
    <3>2. watched.level <= deep BY <2>1 DEF WatchInv, Places, Names
    <3>3. ~(watched.level < deep) BY <2>1 DEF WatchInv, Places, Quiet
    <3>4. Announced <=> watched.level = Depth BY <2>1 DEF WatchInv, Reports, Quiet
    <3>5. Announced <=> last = "there" BY <2>1 DEF Announced, Quiet
    <3> QED BY <3>1, <3>2, <3>3, <3>4, <3>5
  <2>2. lates > 0 /\ last = "gone" => queued # "delete" BY DEF WatchInv, Reports
  <2> QED BY <2>1, <2>2 DEF WatchReports
<1> QED BY <1>1, WatchInvariant, PTL

-----------------------------------------------------------------------------
(* The server.                                                             *)

ServerTypeOK ==
  /\ context \in {"body", "exiting", "over"}
  /\ must \in BOOLEAN
  /\ background \in {"pending", "value", "error", "cancelled"}
  /\ ready \in BOOLEAN
  /\ told \in BOOLEAN
  /\ cancels \in Nat
  /\ stage \in {"future", "suspend", "group", "server"}
  /\ server \in {"listening", "closed"}
  /\ aborting \in BOOLEAN
  /\ errors \in BOOLEAN
  /\ absorbed \in BOOLEAN
  /\ conn \in [Connections -> {"none", "accepted", "created", "handling", "closing",
                               "orphan", "over"}]

(* The background is not told to end before the body has ended, and does   *)
(* not end before it has left the group, which nobody enters any more.     *)
ServerStages ==
  /\ context = "body" => stage = "future" /\ requests = 0 /\ ~told /\ ~Done
  /\ context = "over" => Done
  /\ Done => stage = "server"
  /\ stage # "future" => ready
  /\ stage \in {"group", "server"} => aborting
  /\ stage = "server" => Handlers = {}

(* If nobody cancels the current task, then only a handler's failure can   *)
(* disturb the background, and only before it waits for the others.        *)
Undisturbed ==
  cancels = 0 =>
    /\ context = "exiting" => ~must
    /\ ~absorbed
    /\ stage \in {"group", "server"} => ~told
    /\ Done => ServerClosed /\ background = IF errors THEN "error" ELSE "cancelled"

ServerInv == ServerTypeOK /\ ServerStages /\ Undisturbed /\ TcpReports

(* A connection that goes on is no handler's, or one that was accepted     *)
(* before the group aborts, or else its handler goes on; and unless it is  *)
(* new, the server had not seen the last of it.                            *)
LEMMA ConnectionInv ==
  ASSUME ServerInv, NEW c \in Connections,
         \/ Accept(c) \/ MakeConnection(c) \/ StartHandler(c)
         \/ EndHandler(c) \/ ClientLeaves(c)
  PROVE  ServerInv'
<1> USE DEF ServerInv
<1>1. /\ UNCHANGED <<context, must, background, ready, requests, told, cancels, raised, stage,
                     server, aborting, errors, absorbed>>
  BY DEF Accept, MakeConnection, StartHandler, EndHandler, ClientLeaves, contextVars,
         taskVars, backgroundVars
<1>2. PICK to \in {"accepted", "created", "orphan", "handling", "closing", "over"} :
        /\ conn' = [conn EXCEPT ![c] = to]
        /\ conn[c] = "none" => server = "listening"
        /\ conn[c] # "over"
        /\ to \in {"created", "handling", "closing"} => c \in Handlers \/ ~aborting
  BY DEF Accept, MakeConnection, StartHandler, EndHandler, ClientLeaves, Goes, Handlers
<1>3. ServerTypeOK' BY <1>1, <1>2 DEF ServerTypeOK
<1>4. \A d \in Connections : conn'[d] = IF d = c THEN to ELSE conn[d]
  BY <1>2 DEF ServerTypeOK
<1>5. ASSUME stage = "server" PROVE Handlers' = {}
  <2>1. Handlers = {} /\ aborting BY <1>5 DEF ServerStages
  <2> QED BY <2>1, <1>2, <1>4 DEF Handlers
<1>6. ServerStages' BY <1>1, <1>5 DEF ServerStages, Done
<1>7. ~ServerClosed BY <1>2 DEF ServerClosed, Attached
<1>8. Undisturbed' BY <1>1, <1>7 DEF Undisturbed, Done
<1>9. TcpReports'
  <2>1. SUFFICES ASSUME context = "over" PROVE TcpReports'
    BY <1>1 DEF TcpReports
  <2>2. stage = "server" BY <2>1 DEF ServerStages
  <2>3. cancels # 0 BY <2>1, <1>7 DEF ServerStages, Undisturbed
  <2> QED BY <1>1, <1>5, <2>2, <2>3 DEF TcpReports
<1> QED BY <1>3, <1>6, <1>8, <1>9

(* The failure of a handler is told to the current task before the         *)
(* background waits for the group.                                         *)
LEMMA EndConnectionInv ==
  ASSUME ServerInv, NEW c \in Connections, EndConnection(c)
  PROVE  ServerInv'
<1> USE DEF ServerInv
<1>1. /\ conn[c] = "closing"
      /\ conn' = [conn EXCEPT ![c] = "over"]
      /\ errors' \in BOOLEAN
      /\ UNCHANGED <<context, cancels, raised, stage, server, absorbed>>
  BY DEF EndConnection, Goes
<1>2. /\ aborting' \in BOOLEAN /\ (aborting => aborting')
      /\ must' \in BOOLEAN
      /\ context # "body" => must' = must
      /\ context = "body" => UNCHANGED <<requests, told>>
      /\ aborting => told' = told
      /\ told' \in BOOLEAN
      /\ UNCHANGED <<background, ready>>
  <2> USE DEF ServerTypeOK
  <2>1. CASE UNCHANGED <<parent, aborting, connTold, count, must, background, ready,
                         requests, told>>
    BY <2>1
  <2>2. CASE ~aborting /\ Abort(Handlers \ {c}) /\ CancelParent
    BY <2>2 DEF Abort, CancelParent, CancelBackground
  <2> QED BY <2>1, <2>2 DEF EndConnection
<1>3. c \in Handlers BY <1>1 DEF Handlers
<1>4. stage # "server" /\ ~Done /\ context # "over" BY <1>3 DEF ServerStages
<1>5. ServerTypeOK' BY <1>1, <1>2 DEF ServerTypeOK
<1>6. ServerStages' BY <1>1, <1>2, <1>4 DEF ServerStages, Done
<1>7. Undisturbed' BY <1>1, <1>2, <1>4 DEF Undisturbed, Done, ServerStages
<1>8. TcpReports' BY <1>1, <1>4 DEF TcpReports
<1> QED BY <1>5, <1>6, <1>7, <1>8

(* The background, until it waits for the server. *)
LEMMA ServerBackgroundInv ==
  ASSUME ServerInv,
         ReceiveExit \/ LeaveGroupBody \/ IgnoreInGroup \/ LeaveGroup \/ AbsorbInServer
  PROVE  ServerInv'
<1> USE DEF ServerInv
<1>1. /\ ~Done /\ ready
      /\ UNCHANGED <<context, must, background, ready, requests, cancels, raised, errors, conn>>
  BY DEF ReceiveExit, LeaveGroupBody, IgnoreInGroup, LeaveGroup, AbsorbInServer, BackgroundAt,
         contextVars, taskVars, backgroundVars, tcpVars, groupVars
<1>2. context = "exiting"
  BY <1>1 DEF ReceiveExit, LeaveGroupBody, IgnoreInGroup, LeaveGroup, AbsorbInServer,
              BackgroundAt, ServerStages, ServerTypeOK
<1>3. /\ server' \in {server, "closed"}
      /\ aborting' \in BOOLEAN
      /\ stage' \in {"suspend", "group", "server"}
      /\ told' \in BOOLEAN
      /\ absorbed' \in BOOLEAN
  BY DEF ReceiveExit, LeaveGroupBody, IgnoreInGroup, LeaveGroup, AbsorbInServer, BackgroundAt,
         contextVars, taskVars, backgroundVars, tcpVars, groupVars, Abort, Done, ServerTypeOK
<1>4. stage' \in {"group", "server"} => aborting' = TRUE
  BY DEF ReceiveExit, LeaveGroupBody, IgnoreInGroup, LeaveGroup, AbsorbInServer, BackgroundAt,
         tcpVars, groupVars, Abort, ServerTypeOK, ServerStages
<1>5. Handlers' = Handlers BY <1>1 DEF Handlers
<1>6. stage' = "server" => Handlers = {}
  BY DEF ReceiveExit, LeaveGroupBody, IgnoreInGroup, LeaveGroup, AbsorbInServer, BackgroundAt,
         tcpVars, ServerStages
<1>7. cancels = 0 => ~absorbed' /\ (stage' \in {"group", "server"} => ~told')
  BY DEF ReceiveExit, LeaveGroupBody, IgnoreInGroup, LeaveGroup, AbsorbInServer, BackgroundAt,
         tcpVars, contextVars, backgroundVars, Undisturbed
<1>8. ServerTypeOK' BY <1>1, <1>3 DEF ServerTypeOK
<1>9. ServerStages' BY <1>1, <1>2, <1>4, <1>5, <1>6 DEF ServerStages, Done
<1>10. Undisturbed' BY <1>1, <1>7 DEF Undisturbed, Done
<1>11. TcpReports' BY <1>1, <1>2 DEF TcpReports
<1> QED BY <1>8, <1>9, <1>10, <1>11

(* It ends once the server is closed, if it was not told anything more. *)
LEMMA EndServerInv == ASSUME ServerInv, EndServer PROVE ServerInv'
<1> USE DEF ServerInv
<1>1. /\ ~Done /\ ready /\ stage = "server"
      /\ told' = FALSE
      /\ UNCHANGED <<context, must, ready, requests, cancels, raised, stage, server, aborting,
                     errors, absorbed, conn>>
  BY DEF EndServer, BackgroundAt, End, tcpVars, groupVars
<1>2. background' \in {"error", "cancelled"}
  BY DEF EndServer, End
<1>3. context = "exiting" BY <1>1 DEF ServerStages, ServerTypeOK
<1>4. cancels = 0 => ServerClosed /\ background' = IF errors THEN "error" ELSE "cancelled"
  BY <1>1 DEF EndServer, End, Undisturbed
<1>5. ServerTypeOK' BY <1>1, <1>2 DEF ServerTypeOK
<1>6. Handlers' = Handlers /\ ServerClosed' = ServerClosed
  BY <1>1 DEF Handlers, ServerClosed, Attached
<1>7. ServerStages' BY <1>1, <1>3, <1>6 DEF ServerStages, Done
<1>8. Undisturbed' BY <1>1, <1>4, <1>6 DEF Undisturbed
<1>9. TcpReports' BY <1>1, <1>3 DEF TcpReports
<1> QED BY <1>5, <1>7, <1>8, <1>9

(* The current task, which raises what the background did. *)
LEMMA ServerContextInv ==
  ASSUME ServerInv, UNCHANGED tcpVars,
         \/ StartBackground /\ background' = background
         \/ LeaveBody \/ LeaveContext \/ CatchInBody \/ CancelCurrent
  PROVE  ServerInv'
<1> USE DEF ServerInv
<1>1. UNCHANGED <<stage, server, aborting, errors, absorbed, conn>>
  BY DEF tcpVars, groupVars
<1>2. Handlers' = Handlers /\ Attached' = Attached /\ ServerClosed' = ServerClosed
  BY <1>1 DEF Handlers, ServerClosed, Attached
<1>3. CASE StartBackground /\ background' = background
  <2>1. /\ ~Done /\ ~ready /\ ready' = TRUE
        /\ UNCHANGED <<context, must, background, requests, cancels, raised>>
    BY <1>3 DEF StartBackground, End, Done
  <2>2. stage = "future" /\ context # "over" BY <2>1 DEF ServerStages
  <2>3. told' \in BOOLEAN
    <3>1. told' = TRUE \/ told' = FALSE
      <4>1. CASE requests > 0 BY <1>3, <4>1 DEF StartBackground, End
      <4>2. CASE ~(requests > 0) BY <1>3, <4>2 DEF StartBackground, End
      <4> QED BY <4>1, <4>2
    <3> QED BY <3>1
  <2>4. ServerTypeOK' BY <1>1, <2>1, <2>3 DEF ServerTypeOK
  <2>5. ASSUME context = "body" PROVE ~told'
    <3>1. ~(requests > 0) BY <2>5 DEF ServerStages
    <3> QED BY <1>3, <3>1 DEF StartBackground, End
  <2>6. ServerStages' BY <1>1, <1>2, <2>1, <2>2, <2>5 DEF ServerStages, Done
  <2>7. Undisturbed' BY <1>1, <1>2, <2>1, <2>2 DEF Undisturbed, Done
  <2>8. TcpReports' BY <2>1, <2>2 DEF TcpReports
  <2> QED BY <2>4, <2>6, <2>7, <2>8
<1>4. CASE LeaveBody
  <2>1. context = "body" /\ must' = FALSE /\ UNCHANGED cancels
    BY <1>4 DEF LeaveBody, Leave
  <2>2. ~Done /\ stage = "future" BY <2>1 DEF ServerStages
  <2>3. /\ context' = "exiting" /\ told' = ready
        /\ UNCHANGED <<background, ready, raised>>
    BY <1>4, <2>2 DEF LeaveBody, Leave, CancelBackground
  <2>4. ServerTypeOK' BY <1>1, <2>1, <2>3 DEF ServerTypeOK
  <2>5. ServerStages' BY <1>1, <2>2, <2>3 DEF ServerStages, Done
  <2>6. Undisturbed' BY <1>1, <1>2, <2>1, <2>2, <2>3 DEF Undisturbed, Done
  <2>7. TcpReports' BY <2>3 DEF TcpReports
  <2> QED BY <2>4, <2>5, <2>6, <2>7
<1>5. CASE LeaveContext
  <2>1. /\ context = "exiting" /\ Done /\ context' = "over" /\ must' = FALSE
        /\ UNCHANGED <<background, ready, told, cancels>>
    BY <1>5 DEF LeaveContext
  <2>2. stage = "server" /\ Handlers = {} BY <2>1 DEF ServerStages
  <2>3. ASSUME cancels = 0, errors PROVE "background" \in raised'
    <3>1. ~must /\ background = "error" BY <2>1, <2>3 DEF Undisturbed
    <3>2. Outcome = {"background"} BY <3>1 DEF Outcome
    <3>3. Raise(leaving, {"background"}) BY <1>5, <3>1, <3>2 DEF LeaveContext
    <3> QED BY <3>3 DEF Raise
  <2>4. ServerTypeOK' BY <1>1, <2>1 DEF ServerTypeOK
  <2>5. ServerStages' BY <1>1, <1>2, <2>1 DEF ServerStages, Done
  <2>6. Undisturbed' BY <1>1, <1>2, <2>1 DEF Undisturbed, Done
  <2>7. cancels = 0 => server = "closed" /\ Attached = {}
    BY <2>1 DEF Undisturbed, ServerClosed
  <2>8. TcpReports' BY <1>1, <1>2, <2>1, <2>2, <2>3, <2>7 DEF TcpReports
  <2> QED BY <2>4, <2>5, <2>6, <2>8
<1>6. CASE CatchInBody
  <2>1. /\ context = "body" /\ must' = FALSE
        /\ UNCHANGED <<context, background, ready, requests, told, cancels, raised>>
    BY <1>6 DEF CatchInBody, backgroundVars
  <2>2. ServerTypeOK' BY <1>1, <2>1 DEF ServerTypeOK
  <2>3. ServerStages' BY <1>1, <1>2, <2>1 DEF ServerStages, Done
  <2>4. Undisturbed' BY <1>1, <1>2, <2>1 DEF Undisturbed, Done
  <2>5. TcpReports' BY <2>1 DEF TcpReports
  <2> QED BY <2>2, <2>3, <2>4, <2>5
<1>7. CASE CancelCurrent
  <2>1. /\ context # "over" /\ cancels' = cancels + 1
        /\ must' \in BOOLEAN
        /\ told' \in BOOLEAN
        /\ UNCHANGED <<context, background, ready, raised>>
        /\ context = "body" => UNCHANGED <<requests, told>>
    BY <1>7 DEF CancelCurrent, CancelBackground, backgroundVars, ServerTypeOK
  <2>2. ServerTypeOK' BY <1>1, <2>1 DEF ServerTypeOK
  <2>3. ServerStages' BY <1>1, <1>2, <2>1 DEF ServerStages, Done
  <2>4. cancels' # 0 BY <2>1 DEF ServerTypeOK
  <2>5. Undisturbed' BY <2>4 DEF Undisturbed
  <2>6. TcpReports' BY <2>1 DEF TcpReports
  <2> QED BY <2>2, <2>3, <2>5, <2>6
<1> QED BY <1>3, <1>4, <1>5, <1>6, <1>7

LEMMA ServerStep ==
  ASSUME ServerInv, [TcpNext]_serverVars
  PROVE  ServerInv'
<1>1. CASE UNCHANGED serverVars
  <2>1. UNCHANGED <<context, must, background, ready, requests, told, cancels, raised, stage,
                    server, aborting, errors, absorbed, conn>>
    BY <1>1 DEF serverVars, contextVars, taskVars, backgroundVars, tcpVars, groupVars
  <2>2. Handlers' = Handlers /\ ServerClosed' = ServerClosed /\ Attached' = Attached
    BY <2>1 DEF Handlers, ServerClosed, Attached
  <2>3. ServerTypeOK' /\ ServerStages'
    BY <2>1, <2>2 DEF ServerInv, ServerTypeOK, ServerStages, Done
  <2>4. Undisturbed' /\ TcpReports'
    BY <2>1, <2>2 DEF ServerInv, Undisturbed, Done, TcpReports
  <2> QED BY <2>3, <2>4 DEF ServerInv
<1>2. CASE TcpNext
  <2>1. ASSUME (CatchInBody \/ LeaveBody \/ CancelCurrent) /\ UNCHANGED tcpVars
        PROVE  ServerInv'
    BY <2>1, ServerContextInv
  <2>2. ASSUME ContextRuns PROVE ServerInv'
    BY <2>2, ServerContextInv DEF ContextRuns
  <2> QED BY <1>2, <2>1, <2>2, ConnectionInv, EndConnectionInv, ServerBackgroundInv,
             EndServerInv DEF TcpNext, ServerSteps
<1> QED BY <1>1, <1>2

(* How far the server, its group and the background have come fits, for    *)
(* any connections, failures and cancellations.                            *)
THEOREM ServerInvariant == PrimitivesSpec => [](used = "server" => ServerInv)
<1>1. PrimitivesInit => ServerInv
  <2> SUFFICES ASSUME PrimitivesInit PROVE ServerInv
    OBVIOUS
  <2>1. ContextInit /\ TcpInit BY DEF PrimitivesInit
  <2>2. ServerTypeOK BY <2>1 DEF ContextInit, TcpInit, ServerTypeOK
  <2>3. ServerStages /\ Undisturbed /\ TcpReports
    BY <2>1 DEF ContextInit, TcpInit, ServerStages, Undisturbed, TcpReports, Done
  <2> QED BY <2>2, <2>3 DEF ServerInv
<1>2. (used = "server" => ServerInv) /\ [PrimitivesNext]_primitivesVars
        => (used = "server" => ServerInv)'
  <2>1. [PrimitivesNext]_primitivesVars /\ used' = "server"
          => used = "server" /\ [TcpNext]_serverVars
    BY DEF PrimitivesNext, Only, primitivesVars, serverVars
  <2> QED BY <2>1, ServerStep
<1> QED BY <1>1, <1>2, PTL DEF PrimitivesSpec

(* A server whose context is over left no handler running; unless the task *)
(* was cancelled, it raised its handlers' failures, or closed everything.  *)
THEOREM ServerIsFaithful == PrimitivesSpec => []ServerReports
<1>1. (used = "server" => ServerInv) => ServerReports
  BY DEF ServerInv, ServerReports
<1> QED BY <1>1, ServerInvariant, PTL
=============================================================================
