-------------------------------- MODULE Flock --------------------------------
(***************************************************************************)
(* flock_kqueue of modules/lock.py: one task in each of several processes  *)
(* acquires a file lock, and waits on a Button (modules/button.py) that a  *)
(* KqueueEventManager (modules/kqueue.py) presses when the file is         *)
(* unlocked. A step of a task goes on to its next system call or await.    *)
(***************************************************************************)
EXTENDS FiniteSets

CONSTANTS
  Processes,
  Exclusives  (* those that acquire the lock exclusively                     *)

ASSUME FlockAssumption == Exclusives \subseteq Processes

VARIABLES
  flockPc,       (* where the task of each process is                        *)
  flockHolders,  (* the processes that hold the lock, in the kernel          *)
  flockEvent,    (* those whose kqueue has an event to deliver               *)
  flockPressed   (* those whose awaited future is done                       *)

flockVars == <<flockPc, flockHolders, flockEvent, flockPressed>>

FlockInit == /\ flockPc = [p \in Processes |-> "out"]
             /\ flockHolders = {}
             /\ flockEvent = {}
             /\ flockPressed = {}

(* With LOCK_NB, the kernel grants the lock or raises BlockingIOError. *)
Free(p) == IF p \in Exclusives THEN flockHolders \subseteq {p}
                               ELSE flockHolders \cap Exclusives \subseteq {p}

Registered == {p \in Processes : flockPc[p] \in {"trying", "waiting"}}

Try(p, refused) ==
  /\ flockPc' = [flockPc EXCEPT ![p] = IF Free(p) THEN "in" ELSE refused]
  /\ flockHolders' = IF Free(p) THEN flockHolders \cup {p} ELSE flockHolders

(* The file is opened and flock tried once. *)
TryFirst(p) == /\ flockPc[p] = "out"
               /\ Try(p, "blocked")
               /\ UNCHANGED <<flockEvent, flockPressed>>

(* Mutation of RegisterEvent: it waits at once, and does not try again. *)
RegisterEvent_Waits(p) == /\ flockPc[p] = "blocked"
                          /\ flockPc' = [flockPc EXCEPT ![p] = "waiting"]
                          /\ UNCHANGED <<flockHolders, flockEvent, flockPressed>>

(* KqueueEventManager, manager.update; the button has no waiter to press. *)
RegisterEvent(p) == /\ flockPc[p] = "blocked"
                    /\ flockPc' = [flockPc EXCEPT ![p] = "trying"]
                    /\ UNCHANGED <<flockHolders, flockEvent, flockPressed>>

(* The loop: flock is tried, or tried again once the button was pressed.   *)
(* Entering the body removes the reader and closes the kqueue.             *)
TryAgain(p) == /\ \/ flockPc[p] = "trying"
                  \/ flockPc[p] = "waiting" /\ p \in flockPressed
               /\ Try(p, "waiting")
               /\ flockPressed' = flockPressed \ {p}
               /\ flockEvent' = IF Free(p) THEN flockEvent \ {p} ELSE flockEvent

(* internal_callback, callback, button.press: it resolves the future that  *)
(* is awaited, if any, and replaces it.                                    *)
Deliver(p) == /\ p \in flockEvent
              /\ flockPc[p] = "waiting"
              /\ flockEvent' = flockEvent \ {p}
              /\ flockPressed' = flockPressed \cup {p}
              /\ UNCHANGED <<flockPc, flockHolders>>

(* The kernel tells whoever has registered. *)
Unlock(p) == /\ flockHolders' = flockHolders \ {p}
             /\ flockEvent' = flockEvent \cup (Registered \ {p})

(* The body ends; or the task is cancelled as it waits. *)
LeaveLock(p) == /\ flockPc[p] = "in"
                /\ flockPc' = [flockPc EXCEPT ![p] = "out"]
                /\ Unlock(p)
                /\ UNCHANGED flockPressed

CancelFlock(p) == /\ flockPc[p] = "waiting"
                  /\ flockPc' = [flockPc EXCEPT ![p] = "out"]
                  /\ flockEvent' = flockEvent \ {p}
                  /\ flockPressed' = flockPressed \ {p}
                  /\ UNCHANGED flockHolders

FlockSteps(p) == RegisterEvent(p) \/ TryAgain(p) \/ Deliver(p)

FlockNext == \E p \in Processes :
               TryFirst(p) \/ FlockSteps(p) \/ LeaveLock(p) \/ CancelFlock(p)

-----------------------------------------------------------------------------
(* An unlocking is never missed: a task that sleeps although it could have *)
(* the lock has an event on its way, whoever unlocked between its attempt, *)
(* its registration, its second attempt and its await.                     *)
UnlockSeen == \A p \in Processes :
                flockPc[p] = "waiting" /\ Free(p) => p \in flockEvent \cup flockPressed

(* A process gets the lock, or is cancelled, once the others let go of it  *)
(* for good; while they compete it may starve.                             *)
FlockServes ==
  \A p \in Processes :
    <>[](flockHolders \subseteq {p}) => []<>(flockPc[p] \notin {"blocked", "trying", "waiting"})
=============================================================================
