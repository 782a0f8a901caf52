---------------------------- MODULE NestableLock ----------------------------
(***************************************************************************)
(* NestableLock of modules/nestable_lock.py: an asyncio.Lock and, in each  *)
(* context, the level at which it is held. A task that another one creates *)
(* starts with a copy of that one's context, so at the same level.         *)
(***************************************************************************)
EXTENDS Integers, Sequences, SequencesExt

CONSTANTS
  Family,    (* tasks; each starts by itself or is created by another one    *)
  MaxLevel   (* bounds how deeply a task nests                               *)

ASSUME NestAssumption == MaxLevel \in Nat

VARIABLES
  nestHolder,  (* whom _lock is held for, since its acquire or a release     *)
  nestQueue,   (* the tasks that wait for _lock, in its order                *)
  nestLevel,   (* _context_var, in the context of each task                  *)
  nestBase     (* the level it started with; -1 before that                  *)

nestVars == <<nestHolder, nestQueue, nestLevel, nestBase>>

NestInit == /\ nestHolder = {}
            /\ nestQueue = <<>>
            /\ nestLevel = [t \in Family |-> 0]
            /\ nestBase = [t \in Family |-> -1]

Started(t) == nestBase[t] >= 0

NestStart(t) == /\ ~Started(t)
                /\ nestBase' = [nestBase EXCEPT ![t] = 0]
                /\ UNCHANGED <<nestHolder, nestQueue, nestLevel>>

Queued(t) == t \in ToSet(nestQueue)

(* A running task creates another, whose context is a copy of its own. *)
NestFork(t, child) ==
  /\ Started(t)
  /\ ~Queued(t)
  /\ ~Started(child)
  /\ nestLevel' = [nestLevel EXCEPT ![child] = nestLevel[t]]
  /\ nestBase' = [nestBase EXCEPT ![child] = nestLevel[t]]
  /\ UNCHANGED <<nestHolder, nestQueue>>

(* asyncio.Lock passes to the first task that waits; one that was woken    *)
(* and is cancelled wakes the next.                                        *)
HandOver == /\ nestHolder' = IF nestQueue = <<>> THEN {} ELSE {Head(nestQueue)}
            /\ nestQueue' = IF nestQueue = <<>> THEN <<>> ELSE Tail(nestQueue)

(* __aenter__, up to its await if the lock is taken, *)
NestEnter(t) ==
  /\ Started(t)
  /\ ~Queued(t)
  /\ t \in nestHolder => nestLevel[t] > 0
  /\ nestLevel[t] < MaxLevel
  /\ \/ /\ nestLevel[t] = 0
        /\ nestHolder # {}
        /\ nestQueue' = Append(nestQueue, t)
        /\ UNCHANGED <<nestHolder, nestLevel>>
     \/ /\ nestLevel[t] > 0 \/ nestHolder = {}
        /\ nestHolder' = IF nestLevel[t] = 0 THEN {t} ELSE nestHolder
        /\ nestLevel' = [nestLevel EXCEPT ![t] = @ + 1]
        /\ UNCHANGED nestQueue
  /\ UNCHANGED nestBase

Acquired(t) == t \in nestHolder /\ nestLevel[t] = 0

(* and after it: the level is set, or a CancelledError leaves it alone. *)
NestResume(t) == /\ Acquired(t)
                 /\ nestLevel' = [nestLevel EXCEPT ![t] = 1]
                 /\ UNCHANGED <<nestHolder, nestQueue, nestBase>>

NestCancel(t) == /\ \/ /\ Acquired(t)
                       /\ HandOver
                    \/ /\ \E i \in DOMAIN nestQueue : /\ nestQueue[i] = t
                                                      /\ nestQueue' = RemoveAt(nestQueue, i)
                       /\ UNCHANGED nestHolder
                 /\ UNCHANGED <<nestLevel, nestBase>>

(* Mutation of NestExit: each exit releases. *)
NestExit_Always(t) == /\ Started(t)
                      /\ nestLevel[t] > nestBase[t]
                      /\ ~Queued(t)
                      /\ nestLevel' = [nestLevel EXCEPT ![t] = @ - 1]
                      /\ HandOver
                      /\ UNCHANGED nestBase

(* __aexit__ of a task that entered. *)
NestExit(t) ==
  /\ Started(t)
  /\ nestLevel[t] > nestBase[t]
  /\ nestLevel' = [nestLevel EXCEPT ![t] = @ - 1]
  /\ \/ nestLevel[t] = 1 /\ HandOver
     \/ nestLevel[t] # 1 /\ UNCHANGED <<nestHolder, nestQueue>>
  /\ UNCHANGED nestBase

NestNext == \/ \E t \in Family : \/ NestStart(t) \/ NestEnter(t) \/ NestResume(t)
                                  \/ NestCancel(t) \/ NestExit(t)
            \/ \E t, child \in Family : NestFork(t, child)

-----------------------------------------------------------------------------
(* Only a task that inherited the lock can be inside beside the one that   *)
(* acquired it, and it never releases what it did not acquire: at any time *)
(* the lock is held for the one task that raised its own level from 0, and *)
(* by nobody once that one is back at 0.                                   *)
NestExclusion ==
  \A t \in Family :
    nestBase[t] = 0 /\ nestLevel[t] > 0 <=> t \in nestHolder /\ ~Acquired(t)
=============================================================================
