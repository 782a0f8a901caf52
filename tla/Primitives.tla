----------------------------- MODULE Primitives -----------------------------
(***************************************************************************)
(* What tasks and threads wait on, beside the thread-safe lock and its     *)
(* condition, and the contexts they enter. Each behaviour uses one of      *)
(* them: they share no state but that of contextualize, which the server   *)
(* is composed with, so that the rest is idle.                             *)
(***************************************************************************)
EXTENDS ThreadsafeState, RWLock, NestableLock, Flock, Watch, Shield, Signals,
        ProcessWait, TcpServer

CONSTANT Things  (* what may be used                                         *)

ASSUME ThingsAssumption ==
  Things \subseteq {"state", "rw_lock", "nestable_lock", "flock", "watch", "shield",
                    "signals", "process", "contextualize", "server"}

VARIABLE used  (* the one that is used                                       *)

primitivesVars == <<vars, rwVars, nestVars, flockVars, watchVars, shieldVars, sigVars,
                    processVars, contextVars, tcpVars, used>>

serverVars == <<contextVars, tcpVars>>

(* What is idle is so in one of its initial states. *)
PrimitivesInit ==
  /\ used \in Things
  /\ Init /\ RWInit /\ NestInit /\ FlockInit
  /\ WatchInit
  /\ used # "watch" => options = [debounce |-> TRUE, immediately |-> TRUE]
  /\ ShieldInit
  /\ used # "shield" =>
       shieldKind = [how |-> "shield", count |-> 1, before |-> 0, task |-> TRUE]
  /\ SignalInit
  /\ used # "signals" => sigKind = [how |-> "handle_signal", before |-> 0, catches |-> FALSE]
  /\ ProcessInit
  /\ used # "process" =>
       /\ os = "running"
       /\ processKind = [how |-> "wait", way |-> "none", obeys |-> FALSE, eager |-> FALSE]
  /\ ContextInit /\ TcpInit
  /\ used = "server" => ~kind.stubborn
  /\ used \notin {"contextualize", "server"} =>
       kind = [before |-> 0, stubborn |-> FALSE, catches |-> FALSE]

Only(thing) == /\ used = thing
               /\ UNCHANGED used
               /\ thing # "state" => UNCHANGED vars
               /\ thing # "rw_lock" => UNCHANGED rwVars
               /\ thing # "nestable_lock" => UNCHANGED nestVars
               /\ thing # "flock" => UNCHANGED flockVars
               /\ thing # "watch" => UNCHANGED watchVars
               /\ thing # "shield" => UNCHANGED shieldVars
               /\ thing # "signals" => UNCHANGED sigVars
               /\ thing # "process" => UNCHANGED processVars
               /\ thing \notin {"contextualize", "server"} => UNCHANGED contextVars
               /\ thing # "server" => UNCHANGED tcpVars

PrimitivesNext == \/ Only("state") /\ Next
                  \/ Only("rw_lock") /\ RWNext
                  \/ Only("nestable_lock") /\ NestNext
                  \/ Only("flock") /\ FlockNext
                  \/ Only("watch") /\ WatchNext
                  \/ Only("shield") /\ ShieldNext
                  \/ Only("signals") /\ SignalNext
                  \/ Only("process") /\ ProcessNext
                  \/ Only("contextualize") /\ ContextNext
                  \/ Only("server") /\ TcpNext

PrimitivesSpec == PrimitivesInit /\ [][PrimitivesNext]_primitivesVars

(* Loops and threads run what is ready, and the events of the system and   *)
(* the ends of connections arrive. Nobody has to ask for anything, to let  *)
(* go of a lock, to leave a file alone, or to end what was not cancelled,  *)
(* but a process that obeys its signals. The last six do not go on for     *)
(* ever, so that no step of theirs can keep another from being taken.      *)
Fairness ==
  /\ \A a \in Actors : WF_vars(used = "state" /\ Resume(a))
  /\ \A p \in Processes : WF_flockVars(used = "flock" /\ FlockSteps(p))
  /\ WF_watchVars(used = "watch" /\ WatchSteps)
  /\ WF_shieldVars(used = "shield" /\ ShieldSteps)
  /\ WF_sigVars(used = "signals" /\ SignalSteps)
  /\ WF_processVars(used = "process" /\ (ProcessSteps \/ ObeySignal))
  /\ WF_contextVars(used = "contextualize" /\ ContextSteps)
  /\ WF_serverVars(used = "server" /\ ServerSteps)

PrimitivesFair == PrimitivesSpec /\ Fairness

-----------------------------------------------------------------------------
(* The server, when its context is over, left nothing running, listening   *)
(* or connected, and reported the failures of its handlers.                *)
ServerReports == used = "server" => TcpReports

(* Nobody waits for what has happened: a waiter of a state returns once    *)
(* its `fn` is true for good, a process gets a file lock that the others   *)
(* leave alone for good, and the handler of a watched path settles. Shields*)
(* and waits for signals and processes end with what they await, contexts  *)
(* with their backgrounds, and the server with its handlers.               *)
PrimitivesServe == /\ EventuallyReturns
                   /\ FlockServes
                   /\ used = "watch" => WatchSettles
                   /\ used = "shield" => ShieldEnds
                   /\ used = "signals" => SignalEnds
                   /\ used = "process" => ProcessEnds
                   /\ used = "contextualize" => ContextEnds
                   /\ used = "server" => TcpEnds
=============================================================================
