---------------------- MODULE MCThreadsafeCondition ----------------------
(* An instance of ThreadsafeCondition, by itself: a thread, and a task in  *)
(* each of two event loops, none of which is ever cancelled.               *)
EXTENDS ThreadsafeCondition, TLC

CONSTANTS s1, t1, t2, l1, l2

MCLoopOf == [t \in Tasks |-> IF t = t2 THEN l2 ELSE l1]
=============================================================================
