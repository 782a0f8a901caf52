-------------------------------- MODULE Race --------------------------------
(***************************************************************************)
(* One call of race (modules/race.py): it waits for the first of several   *)
(* tasks to end, cancels the others, and gathers them.                     *)
(*                                                                         *)
(* What race does after its gather it does in the same step of the event   *)
(* loop, so the end of race is a function of the end of gather.            *)
(***************************************************************************)
EXTENDS Gather

CONSTANT NoChild

VARIABLES
  racing,  (* which await race is in                                         *)
  racers,  (* tasks                                                          *)
  winner   (* winning_task                                                   *)

raceVars == <<racing, racers, winner>>

RaceInit == /\ racing = "idle"
            /\ racers = {}
            /\ winner = NoChild

RaceStart == /\ racing = "idle"
             /\ \E S \in Groups \ {{}} :
                  /\ racers' = S
                  /\ child' = [c \in Children |-> IF c \in S THEN "pending" ELSE child[c]]
             /\ racing' = "waiting"
             /\ UNCHANGED <<winner, told, tasks, sensitive, stage, failed, cancelled,
                            interrupted, cancels>>

CancelRace == /\ racing = "waiting"
              /\ Interrupt
              /\ UNCHANGED <<raceVars, child, told, tasks, sensitive, stage, failed,
                             cancelled>>

(* race is cancelled while it waits: it cancels and gathers all tasks, and *)
(* then raises whatever they do.                                           *)
RaceCancelled == /\ racing = "waiting"
                 /\ interrupted
                 /\ interrupted' = FALSE
                 /\ told' = Pending(racers)
                 /\ Gather(racers, FALSE)
                 /\ racing' = "cancelled"
                 /\ UNCHANGED <<racers, winner>>

(* Mutation of RaceWon: the losers are gathered without being cancelled. *)
RaceWon_Waits == /\ racing = "waiting"
                 /\ ~interrupted
                 /\ winner' \in {c \in racers : Done(c)}
                 /\ Gather(Pending(racers), FALSE)
                 /\ racing' = "won"
                 /\ UNCHANGED <<racers, told, interrupted>>

(* Any of the tasks that are done by now is the winner. *)
RaceWon == /\ racing = "waiting"
           /\ ~interrupted
           /\ winner' \in {c \in racers : Done(c)}
           /\ told' = Pending(racers)
           /\ Gather(Pending(racers), FALSE)
           /\ racing' = "won"
           /\ UNCHANGED <<racers, interrupted>>

RaceSteps == RaceCancelled \/ RaceWon

RaceOver == racing \in {"won", "cancelled"} /\ GatherOver

(* Mutation of RaceResult: the failure of a loser is ignored. *)
RaceResult_Winner == IF racing = "cancelled" THEN "cancelled" ELSE child[winner]

(* The exception of gather, if it raises one, or else that of the caller's *)
(* cancellation, or the winner's outcome.                                  *)
RaceResult == IF stage = "failed" THEN "error"
              ELSE IF stage = "cancelled" \/ racing = "cancelled" THEN "cancelled"
              ELSE child[winner]

-----------------------------------------------------------------------------
RaceTypeOK == /\ racing \in {"idle", "waiting", "won", "cancelled"}
              /\ racers \subseteq Children
              /\ winner \in racers \cup {NoChild}

(* What race reports is what happened: a value only if the winner has it,  *)
(* the caller was not cancelled in the meantime and no loser that race had *)
(* to stop failed or was stopped; an error only if a task failed.          *)
RaceReports ==
  RaceOver =>
    /\ RaceResult = "value" => /\ child[winner] = "value"
                               /\ cancels = 0
                               /\ \A c \in tasks : child[c] = "value"
    /\ RaceResult = "error" => \E c \in racers : child[c] = "error"
    /\ RaceResult = "cancelled" => \/ racing = "cancelled" \/ cancels > 0
                                   \/ \E c \in racers : child[c] = "cancelled"

(* Once a task is done, or the caller cancelled, race ends if its tasks    *)
(* take their cancellations: nobody waits for a loser to end by itself.    *)
RaceStops ==
  (/\ racing = "waiting"
   /\ racers \cap Stubborn = {}
   /\ interrupted \/ \E c \in racers : Done(c))
     ~> RaceOver

(* As long as nobody cancels the caller or a task, and no task fails, race *)
(* returns the value of its winner. It fails: the losers were cancelled by *)
(* race itself, so that its gather raises CancelledError.                  *)
RaceReturns ==
  RaceOver /\ racing = "won" /\ cancels = 0 /\ child[winner] = "value"
    /\ (\A c \in racers : child[c] # "error")
    => RaceResult = "value"
=============================================================================
