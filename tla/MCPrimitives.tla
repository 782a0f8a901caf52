---------------------------- MODULE MCPrimitives ----------------------------
(* Instances of Primitives. The state has a thread, tasks in two event      *)
(* loops of which two share a loop and so a future, and three values, so    *)
(* that a value can be restored, or replaced, before a waiter looks. The    *)
(* file lock has two processes that exclude each other and one that shares; *)
(* a watched path has a parent beside the root; two clients connect.        *)
EXTENDS Primitives, TLC

CONSTANTS s1, s2, t1, t2, t3, l1, l2, v1, v2, v3, p1, p2, p3

MCLoopOf == [t \in Tasks |-> IF t = t3 THEN l2 ELSE l1]

MCPredicates == {{v2}, {v2, v3}}
=============================================================================
