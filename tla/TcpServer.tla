----------------------------- MODULE TcpServer -----------------------------
(***************************************************************************)
(* TCPServer.listen (modules/tcp.py), used as a context manager: a         *)
(* PendingDaemonHandle (modules/handle.py), whose context is that of       *)
(* contextualize. Its background is `second_call`, which is to be          *)
(* cancelled, and then closes the server and leaves the task group of the  *)
(* connections' handlers (modules/task_group.py).                          *)
(*                                                                         *)
(* The generator is first advanced by the current task, and then by the    *)
(* background: the group's parent is the current task, which a handler     *)
(* that fails cancels, and the scopes of listen hold its cancellations.    *)
(***************************************************************************)
EXTENDS Contextualize, FiniteSets

CONSTANT Connections  (* bounds how many clients connect                     *)

VARIABLES
  stage,     (* where the background is                                      *)
  server,    (* listening or closed                                          *)
  aborting,  (* group._aborting: its tasks were cancelled                    *)
  parent,    (* group._parent_cancel_requested                               *)
  errors,    (* group._errors is not empty                                   *)
  shields,   (* how many cancellations the wait for the server absorbs       *)
  absorbed,  (* it absorbed one                                              *)
  conn,      (* the transport of each connection and its handler's task      *)
  connTold,  (* handlers that get a CancelledError at their next step        *)
  failing    (* handlers that raised, and close their connections            *)

groupVars == <<aborting, parent, errors, conn, connTold, failing>>
tcpVars == <<stage, server, groupVars, shields, absorbed>>

TcpInit == /\ stage = "future"
           /\ server = "listening"
           /\ aborting = FALSE
           /\ parent = FALSE
           /\ errors = FALSE
           /\ shields = 1 - kind.before
           /\ absorbed = FALSE
           /\ conn = [c \in Connections |-> "none"]
           /\ connTold = {}
           /\ failing = {}

(* The group's tasks, and the connections that the server waits for. *)
Handlers == {c \in Connections : conn[c] \in {"created", "handling", "closing"}}
Attached == {c \in Connections : conn[c] \notin {"none", "over"}}

-----------------------------------------------------------------------------
(* The connections.                                                        *)

Goes(c, from, to) == /\ conn[c] = from
                     /\ conn' = [conn EXCEPT ![c] = to]

Accept(c) == /\ server = "listening"
             /\ Goes(c, "none", "accepted")
             /\ UNCHANGED <<contextVars, stage, server, aborting, parent, errors, shields,
                            absorbed, connTold, failing>>

(* handle_connection_sync: create_task raises once the group aborts, and   *)
(* nobody closes the connection.                                           *)
MakeConnection(c) ==
  /\ Goes(c, "accepted", IF aborting THEN "orphan" ELSE "created")
  /\ UNCHANGED <<contextVars, stage, server, aborting, parent, errors, shields, absorbed,
                 connTold, failing>>

(* The first step of handle_connection_async; a task that is cancelled     *)
(* before it never enters its `try`.                                       *)
StartHandler(c) ==
  /\ Goes(c, "created", IF c \in connTold THEN "orphan" ELSE "handling")
  /\ connTold' = connTold \ {c}
  /\ UNCHANGED <<contextVars, stage, server, aborting, parent, errors, shields, absorbed,
                 failing>>

(* The handler returns or raises, and writer.close() is called. *)
EndHandler(c) ==
  /\ Goes(c, "handling", "closing")
  /\ failing' \in {failing, failing \cup {c}}
  /\ connTold' = connTold \ {c}
  /\ UNCHANGED <<contextVars, stage, server, aborting, parent, errors, shields, absorbed>>

(* group._abort: the handlers are cancelled. One that waits for its        *)
(* connection to close does so first, and drops its failure.               *)
Abort(tasks) == /\ aborting' = TRUE
                /\ connTold' = connTold \cup {c \in tasks : conn[c] # "closing"}
                /\ failing' = {c \in failing : conn[c] # "closing" \/ c \notin tasks}

(* The current task is cancelled: in the body, or in its wait for the      *)
(* background.                                                             *)
CancelParent == /\ count' = count + 1
                /\ \/ /\ context = "body"
                      /\ must' = TRUE
                      /\ UNCHANGED <<background, ready, requests, told>>
                   \/ /\ context # "body"
                      /\ CancelBackground
                      /\ UNCHANGED must

(* writer.wait_closed() is over, and so is the task: _on_task_done. *)
EndConnection(c) ==
  /\ Goes(c, "closing", "over")
  /\ errors' = (errors \/ c \in failing)
  /\ \/ /\ c \in failing
        /\ ~aborting
        /\ parent' = TRUE
        /\ Abort(Handlers \ {c})
        /\ CancelParent
     \/ /\ c \notin failing \/ aborting
        /\ failing' = failing \ {c}
        /\ UNCHANGED <<parent, aborting, connTold, count, must, background, ready,
                       requests, told>>
  /\ UNCHANGED <<context, leaving, raised, scope, callback, cancels, late, kind,
                 stage, server, shields, absorbed>>

(* The client of a connection that nobody closes closes it. *)
ClientLeaves(c) ==
  /\ Goes(c, "orphan", "over")
  /\ UNCHANGED <<contextVars, stage, server, aborting, parent, errors, shields, absorbed,
                 connTold, failing>>

-----------------------------------------------------------------------------
(* The background.                                                         *)

BackgroundAt(at) == /\ ~Done
                    /\ ready
                    /\ stage = at

(* await loop.create_future() is cancelled, and the generator advanced. *)
ReceiveExit == /\ BackgroundAt("future")
               /\ told
               /\ told' = FALSE
               /\ stage' = "suspend"
               /\ UNCHANGED <<taskVars, background, ready, requests, cancels, late, kind,
                              server, groupVars, shields, absorbed>>

(* await suspend() is over, and server.close() called; unless a            *)
(* CancelledError is met there. Either way the group is left with an       *)
(* exception: it uncancels its parent, and aborts.                         *)
LeaveGroupBody ==
  /\ BackgroundAt("suspend")
  /\ server' = IF told THEN server ELSE "closed"
  /\ told' = FALSE
  /\ count' = IF parent THEN count - 1 ELSE count
  /\ IF aborting THEN UNCHANGED <<aborting, connTold, failing>> ELSE Abort(Handlers)
  /\ stage' = IF Handlers = {} THEN "server" ELSE "group"
  /\ UNCHANGED <<context, leaving, raised, must, scope, callback, background, ready, requests,
                 cancels, late, kind, parent, errors, conn, shields, absorbed>>

(* The group waits for its tasks, whatever it is told. *)
IgnoreInGroup == /\ BackgroundAt("group")
                 /\ told
                 /\ told' = FALSE
                 /\ UNCHANGED <<taskVars, background, ready, requests, cancels, late, kind,
                                tcpVars>>

LeaveGroup == /\ BackgroundAt("group")
              /\ Handlers = {}
              /\ stage' = "server"
              /\ UNCHANGED <<contextVars, server, groupVars, shields, absorbed>>

(* Mutation of ServerClosed: as in Python 3.11, connections may be left. *)
ServerClosed_Early == server = "closed"

(* server.wait_closed() is over. *)
ServerClosed == server = "closed" /\ Attached = {}

(* context.shield(server.wait_closed()) is over. What was absorbed is      *)
(* raised, or else what the group raised, or else the CancelledError that  *)
(* second_call received.                                                   *)
EndServer ==
  /\ BackgroundAt("server")
  /\ \/ ServerClosed /\ End(IF errors /\ ~absorbed /\ ~told THEN "error" ELSE "cancelled")
     \/ told /\ shields = 0 /\ End("cancelled")
  /\ UNCHANGED <<context, leaving, raised, count, must, scope, ready, requests, cancels, late,
                 kind, tcpVars>>

AbsorbInServer == /\ BackgroundAt("server")
                  /\ told
                  /\ shields > 0
                  /\ told' = FALSE
                  /\ shields' = shields - 1
                  /\ absorbed' = TRUE
                  /\ UNCHANGED <<taskVars, background, ready, requests, cancels, late, kind,
                                 stage, server, groupVars>>

(* The context, whose background starts, and then goes on as above. *)
ContextRuns == /\ \/ StartBackground /\ background' = background
                  \/ must /\ LeaveBody
                  \/ LeaveContext
               /\ UNCHANGED tcpVars

(* What the loop runs; handlers obey, and connections get closed. *)
ServerSteps == \/ ContextRuns \/ ReceiveExit \/ LeaveGroupBody \/ IgnoreInGroup \/ LeaveGroup
               \/ EndServer \/ AbsorbInServer
               \/ \E c \in Connections :
                     \/ MakeConnection(c) \/ StartHandler(c) \/ EndConnection(c)
                     \/ c \in connTold /\ EndHandler(c)

TcpNext == \/ (CatchInBody \/ LeaveBody \/ CancelCurrent) /\ UNCHANGED tcpVars
           \/ ServerSteps
           \/ \E c \in Connections : Accept(c) \/ EndHandler(c) \/ ClientLeaves(c)

-----------------------------------------------------------------------------
(* When the context is over no handler runs. If nobody cancelled it, then  *)
(* the failure of a handler is raised; and if there is none either, the    *)
(* server is closed, and so are all its connections.                       *)
TcpReports ==
  context = "over" =>
    /\ Handlers = {}
    /\ cancels = 0 /\ errors => "background" \in raised
    /\ cancels = 0 /\ ~errors => server = "closed" /\ Attached = {}

(* listen: "Closing of the server is done in two steps: 1. The server      *)
(* stops accepting new connections. 1. Existing connection handlers are    *)
(* cancelled".                                                             *)
ServerCloses == stage \in {"group", "server"} => server = "closed"

(* The exit ends, except with a server that listens for ever, since it was *)
(* not closed, or a connection that nobody closes.                         *)
Stuck == \/ stage = "server" /\ server = "listening"
         \/ \E c \in Connections : conn[c] = "orphan"

TcpEnds == (context = "exiting") ~> (context = "over" \/ Stuck)
=============================================================================
