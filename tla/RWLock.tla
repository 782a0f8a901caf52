------------------------------- MODULE RWLock -------------------------------
(***************************************************************************)
(* ThreadsafeRWLock of experiments/rw_lock.py: tasks of several loops and  *)
(* threads read together or write alone. Each acquisition has an id of its *)
(* own; what runs with `_state_lock` held is one step. The loops are open. *)
(***************************************************************************)
EXTENDS Naturals, Sequences, FiniteSets, SequencesExt

CONSTANT MaxIds  (* bounds the number of acquisitions                        *)

ASSUME RWAssumption == MaxIds \in Nat

Ids == 1..MaxIds

VARIABLES
  rwMode,      (* _state: unlocked, read or write                            *)
  rwOwners,    (* _state_owner_ids                                           *)
  rwReads,     (* _queue_read                                                *)
  rwWrites,    (* _queue_write                                               *)
  rwAsks,      (* what each id acquires for: the first ones are in use       *)
  rwPc,        (* where the caller with each id is                           *)
  rwGranted    (* ids whose future has a set_result queued, or ran           *)

rwVars == <<rwMode, rwOwners, rwReads, rwWrites, rwAsks, rwPc, rwGranted>>

RWInit == /\ rwMode = "unlocked"
          /\ rwOwners = {}
          /\ rwReads = <<>>
          /\ rwWrites = <<>>
          /\ rwAsks = <<>>
          /\ rwPc = <<>>
          /\ rwGranted = {}

(* Mutation of Compatible: a writer joins the readers. *)
Compatible_Write(mode) == rwMode \in {"unlocked", "read"}

(* Readers join readers, even past a writer that waits. *)
Compatible(mode) == rwMode = "unlocked" \/ <<rwMode, mode>> = <<"read", "read">>

RWAcquire(mode) ==
  LET id == Len(rwAsks) + 1 IN
  /\ id \in Ids
  /\ rwAsks' = Append(rwAsks, mode)
  /\ rwPc' = Append(rwPc, IF Compatible(mode) THEN "inside" ELSE "waiting")
  /\ \/ /\ Compatible(mode)
        /\ rwMode' = mode
        /\ rwOwners' = rwOwners \cup {id}
        /\ UNCHANGED <<rwReads, rwWrites>>
     \/ /\ ~Compatible(mode)
        /\ rwReads' = IF mode = "read" THEN Append(rwReads, id) ELSE rwReads
        /\ rwWrites' = IF mode = "write" THEN Append(rwWrites, id) ELSE rwWrites
        /\ UNCHANGED <<rwMode, rwOwners>>
  /\ UNCHANGED rwGranted

(* Mutation of Release: the writers are forgotten. *)
Release_Readers(id) ==
  LET left == rwOwners \ {id}
      next == IF left = {} THEN ToSet(rwReads) ELSE {} IN
  /\ rwOwners' = left \cup next
  /\ rwMode' = IF rwOwners' = {} THEN "unlocked" ELSE "read"
  /\ rwGranted' = rwGranted \cup next
  /\ rwReads' = IF left = {} THEN <<>> ELSE rwReads
  /\ UNCHANGED rwWrites

(* release(): a caller that owns nothing, since it was cancelled before it *)
(* was granted, only stays in the queue. The last owner hands the lock to  *)
(* the first writer, or else to all the readers.                           *)
Release(id) ==
  LET left == rwOwners \ {id} IN
  \/ /\ left # {}
     /\ rwOwners' = left
     /\ UNCHANGED <<rwMode, rwReads, rwWrites, rwGranted>>
  \/ /\ left = {}
     /\ rwWrites # <<>>
     /\ rwMode' = "write"
     /\ rwOwners' = {Head(rwWrites)}
     /\ rwWrites' = Tail(rwWrites)
     /\ rwGranted' = rwGranted \cup {Head(rwWrites)}
     /\ UNCHANGED rwReads
  \/ /\ left = {}
     /\ rwWrites = <<>>
     /\ rwMode' = IF rwReads = <<>> THEN "unlocked" ELSE "read"
     /\ rwOwners' = ToSet(rwReads)
     /\ rwGranted' = rwGranted \cup ToSet(rwReads)
     /\ rwReads' = <<>>
     /\ UNCHANGED rwWrites

RWLeave(id, from, to) == /\ rwPc[id] = from
                         /\ rwPc' = [rwPc EXCEPT ![id] = to]
                         /\ Release(id)
                         /\ UNCHANGED rwAsks

(* The body ends, or raises. *)
RWExit(id) == RWLeave(id, "inside", "over")

(* A caller that waits is cancelled, granted or not. *)
RWCancel(id) == RWLeave(id, "waiting", "cancelled")

RWEnter(id) == /\ rwPc[id] = "waiting"
               /\ id \in rwGranted
               /\ rwPc' = [rwPc EXCEPT ![id] = "inside"]
               /\ UNCHANGED <<rwMode, rwOwners, rwReads, rwWrites, rwAsks, rwGranted>>

RWNext == \/ \E mode \in {"read", "write"} : RWAcquire(mode)
          \/ \E id \in DOMAIN rwPc : RWExit(id) \/ RWCancel(id) \/ RWEnter(id)

-----------------------------------------------------------------------------
(* A writer is alone, whoever was cancelled in the queue or as it was      *)
(* being granted, and no caller can be inside, or about to be, without     *)
(* owning the lock.                                                        *)
RWExclusion ==
  LET in == {id \in DOMAIN rwPc : rwPc[id] = "inside"} IN
  /\ \A id \in in : rwAsks[id] = "write" => in = {id}
  /\ \A id \in DOMAIN rwPc :
       id \in in \/ (rwPc[id] = "waiting" /\ id \in rwGranted) => id \in rwOwners

(* The lock is handed on: who waits in the queue waits for a caller that   *)
(* is inside or about to be; or, if somebody was cancelled in the queue,   *)
(* for that one, which never lets go.                                      *)
RWHandsOn ==
  rwReads # <<>> \/ rwWrites # <<>> =>
    \E id \in rwOwners : rwPc[id] \in {"inside", "waiting", "cancelled"}
=============================================================================
