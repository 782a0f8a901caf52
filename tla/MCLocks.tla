------------------------------ MODULE MCLocks ------------------------------
(* Instances of Locks: two threads, and tasks in two event loops, two of    *)
(* them in the same loop. The lock is used by all of them, the condition by *)
(* a thread and a task of each loop.                                        *)
EXTENDS Locks, TLC

CONSTANTS s1, s2, t1, t2, t3, l1, l2

MCLoopOf == [t \in Tasks |-> IF t = t3 THEN l2 ELSE l1]
=============================================================================
