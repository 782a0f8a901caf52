-------------------------------- MODULE Watch --------------------------------
(***************************************************************************)
(* watch_path of modules/watch.py: a kqueue watches the deepest directory  *)
(* of a path that exists, or its target. A path is the levels 0..Depth, of *)
(* which 0, the root, always exists, and Depth is the target.              *)
(*                                                                         *)
(* Every system call of the handler is a step, between which others change *)
(* the file system; but the event loop runs nothing else meanwhile.        *)
(***************************************************************************)
EXTENDS Integers

CONSTANTS
  Depth,
  Debounces,      (* the values of `debounce_delay is not None`              *)
  CallImmediately (* those of call_immediately                               *)

ASSUME WatchAssumption == /\ Depth \in Nat \ {0}
                          /\ Debounces \subseteq BOOLEAN
                          /\ CallImmediately \subseteq BOOLEAN

VARIABLES
  deep,      (* the levels up to this one exist                              *)
  watched,   (* watched: its level, -1 for None; whether it still is what    *)
             (* the path names; the fflags that its kqueue has to report     *)
  opened,    (* a descriptor that is open, not yet registered, likewise      *)
  watchPc,   (* the function that runs in the handler, or idle, or exited    *)
  current,   (* the level of current_path                                    *)
  last,      (* last_reported_exists: unknown, there or gone                 *)
  queued,    (* queued_event                                                 *)
  lates,     (* how many late_callbacks are scheduled                        *)
  options    (* debounce_delay and call_immediately                          *)

fileVars == <<deep, watched, opened>>
callbackVars == <<last, queued, lates>>
watchVars == <<fileVars, watchPc, current, callbackVars, options>>

Nothing == [level |-> -1, named |-> FALSE, gone |-> FALSE, write |-> FALSE]

Open(level) == [level |-> level, named |-> TRUE, gone |-> FALSE, write |-> FALSE]

(* The context is entered: update_down(target_path) is about to run, and   *)
(* anything may appear before.                                             *)
WatchInit == /\ deep = 0
             /\ watched = Nothing
             /\ opened = Nothing
             /\ watchPc = "update_down"
             /\ current = Depth
             /\ last = "unknown"
             /\ queued = "none"
             /\ lates = 0
             /\ options \in [debounce : Debounces, immediately : CallImmediately]

-----------------------------------------------------------------------------
(* The file system, and what kqueue tells of it. What is moved away with a *)
(* directory above it hears nothing.                                       *)

Told(fd, gone, written) ==
  IF ~fd.named THEN fd
  ELSE [fd EXCEPT !.gone = @ \/ fd.level = gone,
                  !.write = @ \/ fd.level = written,
                  !.named = gone = -1 \/ fd.level < gone]

Change(gone, written) == /\ watched' = Told(watched, gone, written)
                         /\ opened' = Told(opened, gone, written)
                         /\ UNCHANGED <<watchPc, current, callbackVars, options>>

(* Something is created, or moved there with what it contains. *)
Appear(level) == /\ deep < level
                 /\ deep' = level
                 /\ Change(-1, deep)

(* A level is deleted, or moved away with what it contains. *)
Disappear(level) == /\ level <= deep
                    /\ deep' = level - 1
                    /\ Change(level, level - 1)

(* Another file is moved over the target; or the target is written to. *)
Replace == deep = Depth /\ Change(Depth, Depth - 1) /\ UNCHANGED deep
Write == deep = Depth /\ Change(-1, Depth) /\ UNCHANGED deep

FileSystem == \/ \E level \in 1..Depth : Appear(level) \/ Disappear(level)
              \/ Replace \/ Write

-----------------------------------------------------------------------------
(* eager_callback. The first event can only be a creation, and is reported *)
(* at once. callback_handle is the last call scheduled: the debouncing one *)
(* replaces it, the other leaves it scheduled beside the new one.          *)
Eager(event) ==
  /\ queued' = event
  /\ \/ /\ last = "unknown"
        /\ last' = IF options.immediately THEN "there" ELSE last
        /\ UNCHANGED lates
     \/ /\ last = "gone"
        /\ event = "delete"
        /\ lates' = IF lates > 0 THEN lates - 1 ELSE 0
        /\ UNCHANGED last
     \/ /\ last # "unknown"
        /\ last = "there" \/ event # "delete"
        /\ lates' = IF options.debounce THEN 1 ELSE lates + 1
        /\ UNCHANGED last

(* late_callback: a report of a creation, a deletion or a write. A call    *)
(* that is due runs before the next event is handled.                      *)
Late == /\ watchPc \in {"idle", "exited"}
        /\ lates > 0
        /\ lates' = lates - 1
        /\ last' = IF queued = "delete" THEN "gone" ELSE IF last = "gone" THEN "there" ELSE last
        /\ UNCHANGED <<fileVars, watchPc, current, queued, options>>

(* internal_callback, for the flags that have gathered. *)
Handle ==
  /\ watchPc = "idle"
  /\ lates > 0 => options.debounce
  /\ watched.gone \/ watched.write
  /\ watched' = [watched EXCEPT !.gone = FALSE, !.write = FALSE]
  /\ IF watched.gone
       THEN watchPc' = "update_down" /\ current' = watched.level - 1
       ELSE /\ watchPc' = IF watched.level = Depth THEN "idle" ELSE "update_up"
            /\ current' = watched.level
  /\ IF watched.level = Depth
       THEN Eager(IF watched.gone THEN "delete" ELSE "write")
       ELSE UNCHANGED callbackVars
  /\ UNCHANGED <<deep, opened, options>>

(* update_down: the deepest directory that can be opened. *)
UpdateDown ==
  /\ watchPc = "update_down"
  /\ \/ /\ deep >= current
        /\ opened' = Open(current)
        /\ watchPc' = "update_watch"
        /\ UNCHANGED current
     \/ /\ deep < current
        /\ current' = current - 1
        /\ UNCHANGED <<opened, watchPc>>
  /\ UNCHANGED <<deep, watched, callbackVars, options>>

(* update_up: the next level is opened, until that fails. *)
UpdateUp ==
  /\ watchPc = "update_up"
  /\ \/ /\ deep > current
        /\ opened' = Open(current + 1)
        /\ current' = current + 1
        /\ watchPc' = IF current + 1 = Depth THEN "update_watch" ELSE "update_up"
     \/ /\ deep <= current
        /\ watchPc' = IF opened = Nothing THEN "idle" ELSE "update_watch"
        /\ UNCHANGED <<opened, current>>
  /\ UNCHANGED <<deep, watched, callbackVars, options>>

(* update_watch: the descriptor replaces the watched one, which is never   *)
(* that of the same path, as update_down starts above and update_up below  *)
(* what is watched,                                                        *)
UpdateWatch == /\ watchPc = "update_watch"
               /\ watched' = [opened EXCEPT !.gone = FALSE, !.write = FALSE]
               /\ opened' = Nothing
               /\ watchPc' = "exists"
               /\ UNCHANGED <<deep, current, callbackVars, options>>

(* Mutation of Exists: nothing happened since the descriptor was opened. *)
Exists_Trusts ==
  /\ watchPc = "exists"
  /\ watchPc' = "idle"
  /\ IF watched.level = Depth THEN Eager("create") ELSE UNCHANGED callbackVars
  /\ UNCHANGED <<fileVars, current, options>>

(* and the path is looked up again, "deleted between opening and           *)
(* registering".                                                           *)
Exists ==
  /\ watchPc = "exists"
  /\ \/ /\ deep >= watched.level
        /\ watchPc' = IF watched.level = Depth THEN "idle" ELSE "update_up"
        /\ current' = watched.level
        /\ IF watched.level = Depth THEN Eager("create") ELSE UNCHANGED callbackVars
     \/ /\ deep < watched.level
        /\ watchPc' = "update_down"
        /\ current' = watched.level - 1
        /\ UNCHANGED callbackVars
  /\ UNCHANGED <<fileVars, options>>

(* The context is exited: only callback_handle is cancelled. *)
ExitWatch == /\ watchPc = "idle"
             /\ watchPc' = "exited"
             /\ lates' = IF lates > 0 THEN lates - 1 ELSE 0
             /\ watched' = Nothing
             /\ UNCHANGED <<deep, opened, current, last, queued, options>>

WatchSteps == Late \/ Handle \/ UpdateDown \/ UpdateUp \/ UpdateWatch \/ Exists

WatchNext == FileSystem \/ WatchSteps \/ ExitWatch

-----------------------------------------------------------------------------
Quiet == watchPc = "idle" /\ lates = 0 /\ ~watched.gone /\ ~watched.write

(* What was reported is what is there, once everything was handled, and    *)
(* what is watched is the deepest level that exists, however the file      *)
(* system changed between the calls of the handler; unless what is watched *)
(* was replaced before it was registered, or moved with a directory above  *)
(* it. And late_callback never gets to its 'Unreachable'.                  *)
WatchReports ==
  /\ Quiet /\ watched.named /\ options.immediately =>
       /\ watched.level = deep
       /\ last = "there" <=> deep = Depth
  /\ lates > 0 /\ last = "gone" => queued # "delete"

(* The handler comes to an end, and its calls are made, once the file      *)
(* system is left alone: update_down and update_up do not chase each other.*)
WatchSettles == <>[][~FileSystem]_watchVars => []<>(Quiet \/ watchPc = "exited")
=============================================================================
