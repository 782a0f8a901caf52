-------------------------- MODULE MCThreadsafeLock --------------------------
(* An instance of ThreadsafeLock, by itself: two threads, and tasks in two *)
(* event loops, two of them in the same loop, as in MCLocks.               *)
EXTENDS ThreadsafeLock, TLC

CONSTANTS s1, s2, t1, t2, t3, l1, l2

MCLoopOf == [t \in Tasks |-> IF t = t3 THEN l2 ELSE l1]
=============================================================================
