------------------------------ MODULE MCTasks ------------------------------
(* An instance of Tasks: four awaitables, two of which enter context        *)
(* managers and the other two exit them; two spawners; and a launch by a    *)
(* thread or a task, which is cancelled at most three times: once in each   *)
(* place where it waits, or twice in one place.                             *)
EXTENDS Tasks, TLC

CONSTANTS c1, c2, c3, c4, s1, s2, s, t, l

MCIterables == {<<>>, <<c1, c2>>, <<c1, c2, c4>>}
MCExitOf == (c1 :> c3) @@ (c2 :> c4)
=============================================================================
