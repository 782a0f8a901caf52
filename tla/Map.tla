-------------------------------- MODULE Map --------------------------------
(***************************************************************************)
(* The asynchronous generator of map (modules/map.py): jobs of a task      *)
(* group take items from the iterable, one at a time, run the mapper on    *)
(* them and put the results into an OrderedQueue or an UnorderedQueue      *)
(* (internal/queue.py), from which the generator yields. A `child` is an   *)
(* item together with the mapper that runs on it.                          *)
(***************************************************************************)
EXTENDS Gather, Sequences, SequencesExt, Functions

CONSTANTS
  Iterables,  (* the iterables, as sequences of items                        *)
  MaxJobs     (* the max_concurrent_count arguments, 0 for None              *)

ASSUME MapAssumption == /\ Iterables \subseteq Seq(Children)
                        /\ \A s \in Iterables : IsInjective(s)
                        /\ MaxJobs \subseteq Nat

VARIABLES
  mapping,    (* where the generator is                                      *)
  ordered,    (* ordered                                                     *)
  maxJobs,    (* max_concurrent_count                                        *)
  iterator,   (* what is left of the iterable                                *)
  fetching,   (* a job awaits the next item                                  *)
  jobCount,   (* job_count                                                   *)
  slot,       (* the index that `reserve` gave to each item, from 1          *)
  reserved,   (* _reserved_count                                             *)
  queue,      (* _items: results that were put, by index                     *)
  current,    (* _current_index                                              *)
  closed,     (* _closed                                                     *)
  pressed,    (* the button was pressed since the generator awaits it        *)
  yields,     (* what was yielded, in order                                  *)
  returns     (* the items whose mapper returned, in order                   *)

queueVars == <<slot, reserved, queue, current, closed, pressed>>
mapVars == <<mapping, ordered, maxJobs, iterator, fetching, jobCount, queueVars,
             yields, returns>>

restVars == <<tasks, sensitive, stage, failed, cancelled, cancels>>

MapInit == /\ mapping = "idle"
           /\ ordered = FALSE
           /\ maxJobs = 0
           /\ iterator = <<>>
           /\ fetching = FALSE
           /\ jobCount = 0
           /\ slot = <<>>
           /\ reserved = 0
           /\ queue = <<>>
           /\ current = 1
           /\ closed = FALSE
           /\ pressed = FALSE
           /\ yields = <<>>
           /\ returns = <<>>

Jobs == Pending(Children)

(* The first __anext__ creates the first job, and awaits the empty queue. *)
MapStart == /\ mapping = "idle"
            /\ mapping' = "waiting"
            /\ ordered' \in BOOLEAN
            /\ maxJobs' \in MaxJobs
            /\ iterator' \in Iterables
            /\ fetching' = TRUE
            /\ jobCount' = 1
            /\ UNCHANGED <<gatherVars, queueVars, yields, returns>>

-----------------------------------------------------------------------------
Press == pressed' = (mapping = "waiting")

MayStart == maxJobs = 0 \/ jobCount < maxJobs

(* A job gets an item: it starts the next job, if there may be one, before *)
(* it reserves its place in the queue and runs the mapper.                 *)
FetchItem ==
  /\ fetching
  /\ iterator # <<>>
  /\ child' = [child EXCEPT ![Head(iterator)] = "pending"]
  /\ iterator' = Tail(iterator)
  /\ fetching' = MayStart
  /\ jobCount' = IF MayStart THEN jobCount + 1 ELSE jobCount
  /\ slot' = [c \in DOMAIN slot \cup {Head(iterator)} |->
                IF c = Head(iterator) THEN reserved + 1 ELSE slot[c]]
  /\ reserved' = reserved + 1
  /\ UNCHANGED <<told, interrupted, restVars, mapping, ordered, maxJobs, queue,
                 current, closed, pressed, yields, returns>>

(* There is none: the queue is closed. Only an OrderedQueue presses then. *)
FetchNone ==
  /\ fetching
  /\ iterator = <<>>
  /\ fetching' = FALSE
  /\ jobCount' = jobCount - 1
  /\ closed' = TRUE
  /\ IF ordered /\ current = reserved + 1 THEN Press ELSE UNCHANGED pressed
  /\ UNCHANGED <<gatherVars, mapping, ordered, maxJobs, iterator, slot, reserved,
                 queue, current, yields, returns>>

(* Mutation of PutIndex: the result goes to the next free place. *)
PutIndex_Next(c) == Cardinality(DOMAIN queue) + current

PutIndex(c) == IF ordered THEN slot[c] ELSE Cardinality(DOMAIN queue) + current

PutPresses(c) == ~ordered \/ PutIndex(c) = current

(* A mapper returns, and its job puts the result. *)
JobReturns(c) ==
  /\ c \in Jobs \ (told \ Stubborn)
  /\ child' = [child EXCEPT ![c] = "value"]
  /\ told' = told \ {c}
  /\ jobCount' = jobCount - 1
  /\ queue' = [i \in DOMAIN queue \cup {PutIndex(c)} |->
                 IF i = PutIndex(c) THEN c ELSE queue[i]]
  /\ IF PutPresses(c) THEN Press ELSE UNCHANGED pressed
  /\ returns' = Append(returns, c)
  /\ UNCHANGED <<interrupted, restVars, mapping, ordered, maxJobs, iterator, fetching,
                 slot, reserved, current, closed, yields>>

(* The task group cancels the jobs, when n have just ended by themselves. *)
Abort(n) == /\ told' = Jobs'
            /\ fetching' = FALSE
            /\ jobCount' = jobCount - n - (IF fetching THEN 1 ELSE 0)

(* A mapper raises: the task group cancels the other jobs and the task     *)
(* that entered it, which is where the generator waits or where it is used.*)
JobFails(c) ==
  /\ c \in Jobs
  /\ child' = [child EXCEPT ![c] = "error"]
  /\ interrupted' = (interrupted \/ mapping # "closing")
  /\ Abort(1)
  /\ UNCHANGED <<restVars, mapping, ordered, maxJobs, iterator, queueVars, yields,
                 returns>>

JobCancelled(c) ==
  /\ c \in told
  /\ child' = [child EXCEPT ![c] = "cancelled"]
  /\ told' = told \ {c}
  /\ jobCount' = jobCount - 1
  /\ UNCHANGED <<interrupted, restVars, mapping, ordered, maxJobs, iterator, fetching,
                 queueVars, yields, returns>>

-----------------------------------------------------------------------------
(* The generator leaves its loop, by itself or not, and the group ends. *)
LeaveGroup == /\ mapping' = "closing"
              /\ interrupted' = FALSE
              /\ UNCHANGED <<child, restVars, ordered, maxJobs, iterator, queueVars,
                             yields, returns>>
              /\ Abort(0)

QueueOpen == ~closed \/ (IF ordered THEN current <= reserved ELSE queue # <<>>)

(* The queue's __aiter__: it yields the next result, or awaits the button, *)
(* or ends.                                                                *)
Iterate ==
  \/ /\ QueueOpen
     /\ current \in DOMAIN queue
     /\ mapping' = "suspended"
     /\ yields' = Append(yields, queue[current])
     /\ queue' = [i \in DOMAIN queue \ {current} |-> queue[i]]
     /\ current' = current + 1
     /\ UNCHANGED <<gatherVars, ordered, maxJobs, iterator, fetching, jobCount, slot,
                    reserved, closed, pressed, returns>>
  \/ /\ QueueOpen
     /\ current \notin DOMAIN queue
     /\ mapping' = "waiting"
     /\ pressed' = FALSE
     /\ UNCHANGED <<gatherVars, ordered, maxJobs, iterator, fetching, jobCount, slot,
                    reserved, queue, current, closed, yields, returns>>
  \/ /\ ~QueueOpen
     /\ LeaveGroup

(* The button was pressed. *)
WakeUp == /\ mapping = "waiting"
          /\ pressed
          /\ ~interrupted
          /\ Iterate

(* __anext__ by a consumer that was not cancelled. *)
Ask == /\ mapping = "suspended"
       /\ ~interrupted
       /\ Iterate

(* aclose, or a CancelledError in the generator or in its user. *)
CloseMap == /\ \/ mapping = "suspended"
               \/ mapping = "waiting" /\ interrupted
            /\ LeaveGroup

CancelMap == /\ mapping = "waiting"
             /\ Interrupt
             /\ UNCHANGED <<child, told, tasks, sensitive, stage, failed, cancelled,
                            mapVars>>

JobSteps(c) == JobReturns(c) \/ JobFails(c) \/ JobCancelled(c)

MapSteps == FetchItem \/ FetchNone \/ WakeUp \/ (mapping = "waiting" /\ CloseMap)

MapOver == mapping = "closing" /\ Jobs = {}

-----------------------------------------------------------------------------
MapTypeOK ==
  /\ mapping \in {"idle", "waiting", "suspended", "closing"}
  /\ ordered \in BOOLEAN
  /\ maxJobs \in MaxJobs \cup {0}
  /\ iterator \in Seq(Children)
  /\ fetching \in BOOLEAN
  /\ jobCount \in Nat
  /\ DOMAIN slot \subseteq Children /\ Range(slot) \subseteq 1 .. reserved
  /\ DOMAIN queue \subseteq Nat /\ Range(queue) \subseteq Children
  /\ current \in Nat \ {0}
  /\ closed \in BOOLEAN
  /\ pressed \in BOOLEAN
  /\ yields \in Seq(Children)
  /\ returns \in Seq(Children)

(* Results are yielded in the order of the items, or of their mappers'     *)
(* returns, none twice, and no more mappers run than allowed. None is      *)
(* dropped but with the queue, and that of an ordered map only ends by     *)
(* itself when those of all items were yielded.                            *)
MapAccounts ==
  /\ IsInjective(yields)
  /\ IF ordered THEN \A i \in DOMAIN yields : slot[yields[i]] = i
                ELSE IsPrefix(yields, returns)
  /\ maxJobs # 0 => Cardinality(Jobs) <= maxJobs /\ jobCount <= maxJobs
  /\ Range(returns) \subseteq Range(yields) \cup Range(queue)
  /\ ordered /\ ~QueueOpen => iterator = <<>> /\ DOMAIN slot \subseteq Range(yields)

(* The consumer is woken once the result it waits for is there, or once an *)
(* ordered queue is closed and empty; and once a mapper failed.            *)
MapDelivers ==
  (/\ mapping = "waiting"
   /\ \/ current \in DOMAIN queue
      \/ ordered /\ closed /\ current > reserved
      \/ \E c \in Children : child[c] = "error")
    ~> mapping # "waiting"

(* The consumer of an ordered map never waits with nothing left that could *)
(* wake it. It fails: with a max_concurrent_count, a job that ends does    *)
(* not start the next one.                                                 *)
NeverStalls ==
  ordered /\ mapping = "waiting" => fetching \/ Jobs # {} \/ pressed \/ interrupted
=============================================================================
