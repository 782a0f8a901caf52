------------------------ MODULE ThreadsafeStateProofs ------------------------
(***************************************************************************)
(* What ThreadsafeState guarantees for any number of threads, tasks, loops *)
(* and values: no waiter sleeps through the value it waits for. The proof  *)
(* is by the invariant StateInv, which relates the value to the sets of    *)
(* waiters; one lemma per critical section shows that it is kept.          *)
(***************************************************************************)
EXTENDS ThreadsafeState, TLAPS

(* A look at the value, at the start of wait_until or wait_until_sync. *)
LEMMA CallInv ==
  ASSUME StateInv, NEW a \in Actors, NEW fn \in SUBSET Values, Call(a, fn)
  PROVE  StateInv'
<1> USE StateAssumption DEF StateInv
<1>1. TypeOK'
  BY DEF Call, Look, Register, States, TypeOK
<1>2. Consistent'
  BY DEF Call, Look, Register, Actors, TypeOK, Consistent
<1>3. Reachable'
  BY DEF Call, Look, Register, CanRun, Actors, TypeOK, Consistent, Reachable
<1>4. NoMissedWakeup'
  BY DEF Call, Look, Register, CanRun, TypeOK, NoMissedWakeup, Awake
<1>5. CancelIsOwn'
  BY DEF Call, Look, Actors, TypeOK, CancelIsOwn
<1> QED BY <1>1, <1>2, <1>3, <1>4, <1>5 DEF StateInv

(* A look at the value after a wake-up. *)
LEMMA ResumeInv ==
  ASSUME StateInv, NEW a \in Actors, Resume(a)
  PROVE  StateInv'
<1> USE StateAssumption DEF StateInv
<1>1. TypeOK'
  BY DEF Resume, Look, Register, States, TypeOK
<1>2. Consistent'
  BY DEF Resume, Look, Register, Awake, Actors, TypeOK, Consistent
<1>3. Reachable'
  BY DEF Resume, Look, Register, CanRun, Actors, TypeOK, Reachable
<1>4. NoMissedWakeup'
  BY DEF Resume, Look, Register, CanRun, Awake, TypeOK, NoMissedWakeup
<1>5. CancelIsOwn'
  BY DEF Resume, Look, Actors, TypeOK, CancelIsOwn
<1> QED BY <1>1, <1>2, <1>3, <1>4, <1>5 DEF StateInv

(* A change of the value: whoever waited for it is on its way. *)
LEMMA UpdateInv ==
  ASSUME StateInv, NEW v \in Values, Update(v)
  PROVE  StateInv'
<1> USE StateAssumption DEF StateInv
<1>1. TypeOK'
  BY DEF Update, Signal, TypeOK
<1>2. Consistent'
  BY DEF Update, Signal, TypeOK, Consistent
<1>3. Reachable'
  BY DEF Update, Signal, Reachable, CanRun
<1>4. NoMissedWakeup'
  BY DEF Update, Signal, Actors, Reachable, NoMissedWakeup, CanRun, Awake
<1>5. CancelIsOwn'
  BY DEF Update, CancelIsOwn
<1> QED BY <1>1, <1>2, <1>3, <1>4, <1>5 DEF StateInv

(* The call of wait that raises. *)
LEMMA WaitInv ==
  ASSUME StateInv, NEW a \in Actors, Wait(a)
  PROVE  StateInv'
<1> USE StateAssumption DEF StateInv
<1>1. TypeOK'
  BY DEF Wait, waitVars, States, TypeOK
<1>2. Consistent'
  BY DEF Wait, waitVars, Consistent
<1>3. Reachable'
  BY DEF Wait, waitVars, CanRun, Reachable
<1>4. NoMissedWakeup'
  BY DEF Wait, waitVars, CanRun, NoMissedWakeup, Awake
<1>5. CancelIsOwn'
  BY DEF Wait, CancelIsOwn
<1> QED BY <1>1, <1>2, <1>3, <1>4, <1>5 DEF StateInv

(* A cancellation takes its own task out, from wherever it is. *)
LEMMA CancelInv ==
  ASSUME StateInv, NEW t \in Tasks, Cancel(t)
  PROVE  StateInv'
<1> USE StateAssumption DEF StateInv
<1>1. TypeOK'
  BY DEF Cancel, Withdraw, States, TypeOK
<1>2. Consistent'
  BY DEF Cancel, Withdraw, Actors, TypeOK, Consistent
<1>3. Reachable'
  BY DEF Cancel, Withdraw, Actors, Reachable, CanRun
<1>4. NoMissedWakeup'
  BY DEF Cancel, Withdraw, NoMissedWakeup, CanRun, Awake
<1>5. CancelIsOwn'
  BY DEF Cancel, Withdraw, Actors, CancelIsOwn
<1> QED BY <1>1, <1>2, <1>3, <1>4, <1>5 DEF StateInv

(* A closed loop takes its tasks out of what the invariant asks for. *)
LEMMA CloseLoopInv ==
  ASSUME StateInv, NEW l \in Loops, CloseLoop(l)
  PROVE  StateInv'
<1> USE StateAssumption DEF StateInv
<1>1. TypeOK'
  BY DEF CloseLoop, waitVars, TypeOK
<1>2. Consistent'
  BY DEF CloseLoop, waitVars, Consistent
<1>3. Reachable'
  BY DEF CloseLoop, waitVars, Reachable, CanRun
<1>4. NoMissedWakeup'
  BY DEF CloseLoop, waitVars, NoMissedWakeup, CanRun, Awake
<1>5. CancelIsOwn'
  BY DEF CloseLoop, CancelIsOwn
<1> QED BY <1>1, <1>2, <1>3, <1>4, <1>5 DEF StateInv

-----------------------------------------------------------------------------
(* Whatever is called in whatever order, StateInv holds. *)
THEOREM StateInvariant == Spec => []StateInv
<1>1. Init => StateInv
  BY StateAssumption DEF Init, StateInv, TypeOK, Consistent, Reachable,
     NoMissedWakeup, CancelIsOwn, States, Actors
<1>2. StateInv /\ [Next]_vars => StateInv'
  <2> SUFFICES ASSUME StateInv, [Next]_vars PROVE StateInv'
    OBVIOUS
  <2>1. CASE \E a \in Actors : Observe(a)
    BY <2>1, StateAssumption, CallInv DEF Observe
  <2>2. CASE \E a \in Actors : Resume(a)
    BY <2>2, ResumeInv
  <2>3. CASE \E v \in Values : Update(v)
    BY <2>3, UpdateInv
  <2>4. CASE \E a \in Actors : Wait(a)
    BY <2>4, WaitInv
  <2>5. CASE \E t \in Tasks : Cancel(t)
    BY <2>5, CancelInv
  <2>6. CASE \E l \in Loops : CloseLoop(l)
    BY <2>6, CloseLoopInv
  <2>7. CASE UNCHANGED vars
    BY <2>7 DEF vars, StateInv, TypeOK, Consistent, Reachable, NoMissedWakeup,
       CancelIsOwn, CanRun, Awake
  <2> QED BY <2>1, <2>2, <2>3, <2>4, <2>5, <2>6, <2>7 DEF Next
<1> QED BY <1>1, <1>2, PTL DEF Spec

(* Every variable of ThreadsafeState keeps its type. *)
THEOREM TypeCorrect == Spec => []TypeOK
<1>1. StateInv => TypeOK
  BY DEF StateInv
<1> QED BY <1>1, StateInvariant, PTL

(* No waiter sleeps through the value it waits for: wait_until and         *)
(* wait_until_sync lose no wake-up of update_value.                        *)
THEOREM NothingMissed == Spec => []NoMissedWakeup
<1>1. StateInv => NoMissedWakeup
  BY DEF StateInv
<1> QED BY <1>1, StateInvariant, PTL

(* Every waiting task of an open loop is registered with its loop, or      *)
(* about to be woken by it, and not both.                                  *)
THEOREM WaitersReachable == Spec => []Reachable
<1>1. StateInv => Reachable
  BY DEF StateInv
<1> QED BY <1>1, StateInvariant, PTL

(* The shield of _observe keeps a cancellation from reaching other tasks. *)
THEOREM CancellationsApart == Spec => []CancelIsOwn
<1>1. StateInv => CancelIsOwn
  BY DEF StateInv
<1> QED BY <1>1, StateInvariant, PTL
=============================================================================
