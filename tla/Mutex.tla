------------------------------- MODULE Mutex -------------------------------
(***************************************************************************)
(* What a lock promises its callers: at most one of them is inside, only a *)
(* caller that asked gets in, and a caller that asked may give up.         *)
(* Nothing is said of how the lock chooses among the callers that wait.    *)
(***************************************************************************)
CONSTANT Actors

VARIABLES requesting, holders

vars == <<requesting, holders>>

Init == /\ requesting = {}
        /\ holders = {}

Request(a) == /\ a \notin requesting \cup holders
              /\ requesting' = requesting \cup {a}
              /\ UNCHANGED holders

Grant(a) == /\ a \in requesting
            /\ holders = {}
            /\ holders' = {a}
            /\ requesting' = requesting \ {a}

Abandon(a) == /\ a \in requesting
              /\ requesting' = requesting \ {a}
              /\ UNCHANGED holders

Release(a) == /\ a \in holders
              /\ holders' = holders \ {a}
              /\ UNCHANGED requesting

Next == \E a \in Actors : Request(a) \/ Grant(a) \/ Abandon(a) \/ Release(a)

Spec == Init /\ [][Next]_vars
=============================================================================
