------------------------------ MODULE MemStore ------------------------------
(***************************************************************************)
(* The in-memory store of internal/store/mem, which the control plane runs *)
(* on when it is told not to keep anything: the maps of jobs, queue rows   *)
(* and dispatch records, each operation under the one mutex.               *)
(*                                                                         *)
(* It is a second implementation of what JobStore says of the SQLite one,  *)
(* with the same clients and the same abstraction of time, and it is shown *)
(* to implement it.                                                        *)
(***************************************************************************)
EXTENDS JobStore

VARIABLES memJobs,        \* Store.jobs: a map from ids to rows
          memQueue,       \* Store.queue: a map from ids to queue rows
          memDispatches   \* Store.dispatches: a map from (job, attempt)

memVars == <<memJobs, memQueue, memDispatches>>

EmptyMap == [j \in {} |-> 0]
Put(map, key, value) == [k \in DOMAIN map \cup {key} |-> IF k = key THEN value ELSE map[k]]
Delete(map, key) == [k \in DOMAIN map \ {key} |-> map[k]]

MemInit == memJobs = EmptyMap /\ memQueue = EmptyMap /\ memDispatches = EmptyMap

MemCreateJob(j, row) ==
  /\ j \notin DOMAIN memJobs
  /\ memJobs' = Put(memJobs, j, row)
  /\ UNCHANGED <<memQueue, memDispatches>>

\* A slip to guard against: the queue is not looked at.
MemUpdateOnly(j, row) ==
  /\ j \in DOMAIN memJobs
  /\ memJobs' = Put(memJobs, j, row)
  /\ UNCHANGED <<memQueue, memDispatches>>

MemUpdateJob(j, row) ==
  /\ j \in DOMAIN memJobs
  /\ memJobs' = Put(memJobs, j, row)
  /\ memQueue' = IF row.status = "completed" THEN Delete(memQueue, j) ELSE memQueue
  /\ UNCHANGED memDispatches

MemEnqueue(j, attempt, at, ready) ==
  /\ j \in DOMAIN memJobs /\ attempt \in {0, memJobs[j].attempt}
  /\ IF j \in DOMAIN memQueue THEN UNCHANGED <<memJobs, memQueue>>
     ELSE /\ memQueue' = Put(memQueue, j,
               [leased |-> FALSE, attempt |-> memJobs[j].attempt, runner |-> NoRunner,
                queuedAt |-> at, ready |-> ready, expired |-> FALSE])
          /\ memJobs' = [memJobs EXCEPT ![j].status = "queued", ![j].queued = TRUE]
  /\ UNCHANGED memDispatches

\* labelsSatisfied and the order of the sort.
MemEligible(r) ==
  {j \in DOMAIN memQueue : /\ ~memQueue[j].leased /\ memQueue[j].ready
                           /\ JobLabels[j] \subseteq RunnerLabels[r]}

MemFirst(r) ==
  CHOOSE j \in MemEligible(r) : \A k \in MemEligible(r) :
    \/ memQueue[j].queuedAt < memQueue[k].queuedAt
    \/ memQueue[j].queuedAt = memQueue[k].queuedAt /\ j <= k

MemDequeue(r) ==
  /\ MemEligible(r) # {}
  /\ LET j == MemFirst(r)
     IN  /\ memQueue' = [memQueue EXCEPT ![j].leased = TRUE, ![j].runner = r, ![j].expired = FALSE]
         /\ memDispatches' = Put(memDispatches, <<j, memQueue[j].attempt>>, r)
         /\ memJobs' = [memJobs EXCEPT ![j].status = "in_progress", ![j].runner = r, ![j].setup = FALSE]

MemHolds(r, j) == j \in DOMAIN memQueue /\ memQueue[j].leased /\ memQueue[j].runner = r

MemHeartbeat(r, j) ==
  /\ MemHolds(r, j)
  /\ memQueue' = [memQueue EXCEPT ![j].expired = FALSE]
  /\ UNCHANGED <<memJobs, memDispatches>>

\* requeueLocked, for a set of rows.
RequeueLocked(js) ==
  /\ memQueue' = [j \in DOMAIN memQueue |->
       IF j \in js THEN [memQueue[j] EXCEPT !.leased = FALSE, !.runner = NoRunner, !.expired = FALSE]
       ELSE memQueue[j]]
  /\ memJobs' = [j \in DOMAIN memJobs |->
       IF j \in js THEN [memJobs[j] EXCEPT !.status = "queued", !.runner = NoRunner, !.setup = FALSE]
       ELSE memJobs[j]]
  /\ UNCHANGED memDispatches

MemReleaseLease(r, j) == MemHolds(r, j) /\ RequeueLocked({j})

MemReapExpiredLeases ==
  RequeueLocked({j \in DOMAIN memQueue : memQueue[j].leased /\ memQueue[j].expired})

MemDropFromQueue(j) ==
  /\ memQueue' = Delete(memQueue, j)
  /\ UNCHANGED <<memJobs, memDispatches>>

\* The clock passes a lease's end, or a row's not_before.
MemTimePasses(j) ==
  /\ j \in DOMAIN memQueue
  /\ \/ memQueue[j].leased /\ ~memQueue[j].expired /\ memQueue' = [memQueue EXCEPT ![j].expired = TRUE]
     \/ ~memQueue[j].ready /\ memQueue' = [memQueue EXCEPT ![j].ready = TRUE]
  /\ UNCHANGED <<memJobs, memDispatches>>

MemNext ==
  \/ \E j \in Job : \/ \E row \in ClientRows : MemCreateJob(j, row) \/ MemUpdateJob(j, row)
                    \/ \E a \in 0..MaxAttempt, at \in 0..MaxTime, ready \in BOOLEAN :
                         MemEnqueue(j, a, at, ready)
                    \/ MemDropFromQueue(j) \/ MemTimePasses(j)
                    \/ \E r \in Runner : MemHeartbeat(r, j) \/ MemReleaseLease(r, j)
  \/ \E r \in Runner : MemDequeue(r)
  \/ MemReapExpiredLeases

(***************************************************************************)
(* The two stores are interchangeable: every operation of the in-memory    *)
(* store does to the jobs, the queue and the dispatch records what the     *)
(* SQLite store's operation does, so what is proved of that one holds of   *)
(* this one too.                                                           *)
(***************************************************************************)
MemRows == [j \in Job |-> IF j \in DOMAIN memJobs THEN memJobs[j] ELSE AbsentJob]

AsEntry(row) ==
  [state |-> IF row.leased THEN "leased" ELSE "queued", attempt |-> row.attempt,
   runner |-> row.runner, queuedAt |-> row.queuedAt, ready |-> row.ready, expired |-> row.expired]

MemEntries == [j \in Job |-> IF j \in DOMAIN memQueue THEN AsEntry(memQueue[j]) ELSE AbsentEntry]

MemRecords == [j \in Job |-> [a \in Attempts |->
  IF <<j, a>> \in DOMAIN memDispatches THEN memDispatches[<<j, a>>] ELSE NoRunner]]

Sqlite == INSTANCE JobStore WITH jobs <- MemRows, queue <- MemEntries, dispatches <- MemRecords

ImplementsJobStore == Sqlite!StoreSpec
=============================================================================
