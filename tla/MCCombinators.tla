--------------------------- MODULE MCCombinators ---------------------------
(* Instances of Combinators, one for each statement that the code breaks:  *)
(* four awaitables, two of which enter context managers and the other two  *)
(* exit them.                                                              *)
EXTENDS Combinators, TLC

CONSTANTS c1, c2, c3, c4

MCIterables == {<<>>, <<c1, c2>>, <<c1, c2, c4>>}
MCExitOf == (c1 :> c3) @@ (c2 :> c4)
=============================================================================
