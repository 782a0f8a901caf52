----------------------------- MODULE RemoteCall -----------------------------
(***************************************************************************)
(* What a call that runs its target elsewhere promises: the target's life  *)
(* is nested in the call. It starts at most once, while its caller waits,  *)
(* and the caller is not let go as long as it runs. The caller learns how  *)
(* the target ended, or is cancelled, unless the other side is lost.       *)
(* Nothing is said of when a target is told to stop.                       *)
(***************************************************************************)
CONSTANT Callers

VARIABLES
  call,  (* idle, waiting, or how it ended                                  *)
  run    (* the target: none, running, gone, or how it ended                *)

vars == <<call, run>>

Outcomes == {"value", "error", "cancelled"}

Init == /\ call = [c \in Callers |-> "idle"]
        /\ run = [c \in Callers |-> "none"]

Ask(c) == /\ call[c] = "idle"
          /\ call' = [call EXCEPT ![c] = "waiting"]
          /\ UNCHANGED run

Start(c) == /\ call[c] = "waiting"
            /\ run[c] = "none"
            /\ run' = [run EXCEPT ![c] = "running"]
            /\ UNCHANGED call

End(c) == /\ run[c] = "running"
          /\ \E outcome \in Outcomes : run' = [run EXCEPT ![c] = outcome]
          /\ UNCHANGED call

(* Targets are dropped together when the other side ends or dies. *)
Drop == /\ \E dropped \in SUBSET {c \in Callers : run[c] = "running"} :
             run' = [c \in Callers |-> IF c \in dropped THEN "gone" ELSE run[c]]
        /\ UNCHANGED call

Return(c) == /\ call[c] = "waiting"
             /\ run[c] \in Outcomes
             /\ \E outcome \in {run[c], "cancelled"} : call' = [call EXCEPT ![c] = outcome]
             /\ UNCHANGED run

Lose(c) == /\ call[c] \in {"idle", "waiting"}
           /\ run[c] # "running"
           /\ \E outcome \in {"lost", "cancelled"} : call' = [call EXCEPT ![c] = outcome]
           /\ UNCHANGED run

Next == Drop \/ \E c \in Callers : Ask(c) \/ Start(c) \/ End(c) \/ Return(c) \/ Lose(c)

Spec == Init /\ [][Next]_vars
=============================================================================
