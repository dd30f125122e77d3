------------------------------ MODULE JobStore ------------------------------
(***************************************************************************)
(* The part of the SQLite store the scheduler is built on: the jobs table, *)
(* the job_queue table and the job_dispatches table, with every operation  *)
(* of internal/store/sqlite/{queue,leases,jobs}.go that writes them.  The  *)
(* store runs each operation in one transaction on its only connection, so *)
(* each is one action.                                                     *)
(*                                                                         *)
(* A row that is not in its table is AbsentJob or AbsentEntry.  Time is    *)
(* what the operations compare it for: `expired` says that                 *)
(* lease_expires_at <= now and `ready` that not_before <= now, and both    *)
(* come true when the clock moves (LeaseRunsOut, BackoffRunsOut).          *)
(* queued_at is kept as a number because Dequeue orders by it.  Priority   *)
(* is left out: no caller in the program sets it.  The counters and times  *)
(* that are only reported (requeue_count, dispatch_count, started_at, the  *)
(* event log) are left out.                                                *)
(*                                                                         *)
(* Rest stands for the columns of a job the store carries from caller to   *)
(* caller without reading them.                                            *)
(***************************************************************************)
EXTENDS Integers

CONSTANTS
  Job,          \* job ids, in id order
  Runner,       \* runner ids
  NoRunner,     \* the empty runner_id
  JobLabels,    \* the labels a job requires
  RunnerLabels, \* the labels a runner offers
  Rest,         \* values of the columns the store does not read
  NoRest,       \* what AbsentJob holds in them
  ClientRows,   \* the job rows a client may write
  MaxAttempt,   \* bound on a job's attempt number
  MaxTime       \* bound on queued_at

ASSUME JobAssumption == Job \subseteq Nat
ASSUME RunnerAssumption == NoRunner \notin Runner
ASSUME BoundAssumption == MaxAttempt \in Nat /\ MaxTime \in Nat

VARIABLES
  jobs,        \* the jobs table
  queue,       \* the job_queue table, keyed by job_id
  dispatches   \* the job_dispatches table, keyed by (job_id, attempt)

storeVars == <<jobs, queue, dispatches>>

Attempts == 1..MaxAttempt

JobRow ==
  [status  : {"absent", "queued", "in_progress", "completed", "waiting"},
   attempt : 0..MaxAttempt,
   runner  : Runner \cup {NoRunner},
   setup   : BOOLEAN,              \* setup_completed_at is set
   queued  : BOOLEAN,              \* queued_at is set
   rest    : Rest \cup {NoRest}]

Entry ==
  [state    : {"absent", "queued", "leased"},
   attempt  : 0..MaxAttempt,
   runner   : Runner \cup {NoRunner},
   queuedAt : 0..MaxTime,
   ready    : BOOLEAN,
   expired  : BOOLEAN]

AbsentJob == [status |-> "absent", attempt |-> 0, runner |-> NoRunner,
              setup |-> FALSE, queued |-> FALSE, rest |-> NoRest]

AbsentEntry == [state |-> "absent", attempt |-> 0, runner |-> NoRunner,
                queuedAt |-> 0, ready |-> FALSE, expired |-> FALSE]

Exists(j)   == jobs[j].status # "absent"
InQueue(j)  == queue[j].state # "absent"
Leased(j)   == queue[j].state = "leased"
LeasedBy(r, j) == Leased(j) /\ queue[j].runner = r

StoreInit ==
  /\ jobs = [j \in Job |-> AbsentJob]
  /\ queue = [j \in Job |-> AbsentEntry]
  /\ dispatches = [j \in Job |-> [a \in Attempts |-> NoRunner]]

-----------------------------------------------------------------------------
\* CreateJob: the store allocates the id, so a row is never overwritten.
CreateJob(j, row) ==
  /\ ~Exists(j)
  /\ jobs' = [jobs EXCEPT ![j] = row]
  /\ UNCHANGED <<queue, dispatches>>

\* A slip to guard against: a completed job keeps its entry.
UpdateJobKeepsEntry(j, row) ==
  /\ Exists(j)
  /\ jobs' = [jobs EXCEPT ![j] = row]
  /\ UNCHANGED <<queue, dispatches>>

\* UpdateJob writes the whole row from the caller's copy, and a job that is
\* terminal in that copy leaves the queue in the same transaction.
UpdateJob(j, row) ==
  /\ Exists(j)
  /\ jobs' = [jobs EXCEPT ![j] = row]
  /\ queue' = [queue EXCEPT ![j] = IF row.status = "completed" THEN AbsentEntry ELSE @]
  /\ UNCHANGED dispatches

\* Enqueue refuses a caller that names another attempt than the job row's.
EnqueueRefused(j, attempt) == ~Exists(j) \/ attempt \notin {0, jobs[j].attempt}

\* A slip to guard against: the row of a queued job is written anew.
EnqueueUpsert(j, attempt, at, ready) ==
  /\ ~EnqueueRefused(j, attempt)
  /\ queue' = [queue EXCEPT ![j] =
        [state |-> "queued", attempt |-> jobs[j].attempt, runner |-> NoRunner,
         queuedAt |-> at, ready |-> ready, expired |-> FALSE]]
  /\ jobs' = [jobs EXCEPT ![j] = [@ EXCEPT !.status = "queued", !.queued = TRUE]]
  /\ UNCHANGED dispatches

\* Enqueue: a job that has a row keeps it, position, lease and all.  A row that
\* is inserted takes the attempt of the job row; queued_at of the job is set if
\* it was not, and nothing else the job concluded with is looked at.
Enqueue(j, attempt, at, ready) ==
  /\ ~EnqueueRefused(j, attempt)
  /\ IF InQueue(j)
       THEN UNCHANGED <<jobs, queue>>
       ELSE /\ queue' = [queue EXCEPT ![j] =
                 [state |-> "queued", attempt |-> jobs[j].attempt, runner |-> NoRunner,
                  queuedAt |-> at, ready |-> ready, expired |-> FALSE]]
            /\ jobs' = [jobs EXCEPT ![j] = [@ EXCEPT !.status = "queued", !.queued = TRUE]]
  /\ UNCHANGED dispatches

DropFromQueue(j) ==
  /\ queue' = [queue EXCEPT ![j] = AbsentEntry]
  /\ UNCHANGED <<jobs, dispatches>>

\* A slip to guard against: the claim does not ask for state = 'queued'.
EligibleLeased(r) ==
  {j \in Job : InQueue(j) /\ queue[j].ready /\ JobLabels[j] \subseteq RunnerLabels[r]}

\* The rows Dequeue may pick for a runner: queued, not held back by not_before,
\* and every label the job requires among the runner's.
Eligible(r) ==
  {j \in Job : /\ queue[j].state = "queued"
               /\ queue[j].ready
               /\ JobLabels[j] \subseteq RunnerLabels[r]}

\* ORDER BY queued_at, job_id.
Before(j, k) ==
  \/ queue[j].queuedAt < queue[k].queuedAt
  \/ queue[j].queuedAt = queue[k].queuedAt /\ j < k

FirstFor(r, j) == \A k \in Eligible(r) \ {j} : Before(j, k)

\* The entry and the job row once a runner has the job.
LeasedTo(r, entry) == [entry EXCEPT !.state = "leased", !.runner = r, !.expired = FALSE]
RunningOn(r, row) == [row EXCEPT !.status = "in_progress", !.runner = r, !.setup = FALSE]

\* A slip to guard against: ON CONFLICT DO NOTHING without the update after it.
DequeueKeepsRecord(r, j) ==
  /\ j \in Eligible(r)
  /\ queue' = [queue EXCEPT ![j] = LeasedTo(r, @)]
  /\ dispatches' = [dispatches EXCEPT ![j][queue[j].attempt] = IF @ = NoRunner THEN r ELSE @]
  /\ jobs' = [jobs EXCEPT ![j] = RunningOn(r, @)]

\* Dequeue of the row it picked: the lease, the dispatch record (a second lease
\* of the same attempt overwrites the runner of the first) and the job row, in
\* one transaction.
Dequeue(r, j) ==
  /\ j \in Eligible(r)
  /\ queue' = [queue EXCEPT ![j] = LeasedTo(r, @)]
  /\ dispatches' = [dispatches EXCEPT ![j][queue[j].attempt] = r]
  /\ jobs' = [jobs EXCEPT ![j] = RunningOn(r, @)]

\* Heartbeat by the runner that holds the lease; any other gets ErrLeaseLost.
Heartbeat(r, j) ==
  /\ LeasedBy(r, j)
  /\ queue' = [queue EXCEPT ![j] = [@ EXCEPT !.expired = FALSE]]
  /\ UNCHANGED <<jobs, dispatches>>

\* The entry and the job row after a lease ends without a result.  The entry's
\* attempt and place, and the job's attempt, are those it had.
Unleased(entry) == [entry EXCEPT !.state = "queued", !.runner = NoRunner, !.expired = FALSE]
BackToQueue(row) == [row EXCEPT !.status = "queued", !.runner = NoRunner, !.setup = FALSE]

\* ReleaseLease by the runner that holds it; any other gets ErrLeaseLost.
ReleaseLease(r, j) ==
  /\ LeasedBy(r, j)
  /\ queue' = [queue EXCEPT ![j] = Unleased(@)]
  /\ jobs' = [jobs EXCEPT ![j] = BackToQueue(@)]
  /\ UNCHANGED dispatches

ExpiredLeases == {j \in Job : Leased(j) /\ queue[j].expired}

\* ReapExpiredLeases takes back every expired lease in one transaction.
ReapExpiredLeases ==
  /\ queue' = [j \in Job |-> IF j \in ExpiredLeases THEN Unleased(queue[j]) ELSE queue[j]]
  /\ jobs' = [j \in Job |-> IF j \in ExpiredLeases THEN BackToQueue(jobs[j]) ELSE jobs[j]]
  /\ UNCHANGED dispatches

\* The clock passes lease_expires_at of a lease.
LeaseRunsOut(j) ==
  /\ Leased(j) /\ ~queue[j].expired
  /\ queue' = [queue EXCEPT ![j] = [@ EXCEPT !.expired = TRUE]]
  /\ UNCHANGED <<jobs, dispatches>>

\* The clock passes not_before of a queued row.
BackoffRunsOut(j) ==
  /\ InQueue(j) /\ ~queue[j].ready
  /\ queue' = [queue EXCEPT ![j] = [@ EXCEPT !.ready = TRUE]]
  /\ UNCHANGED <<jobs, dispatches>>

-----------------------------------------------------------------------------
\* Any client: every operation at any time and in any order, with copies as
\* stale as it likes.  What holds here holds whatever the scheduler, or two of
\* them at once, do with the store.
ASSUME ClientRowsAssumption ==
  ClientRows \subseteq {row \in JobRow : row.status # "absent" /\ row.attempt >= 1}

StoreNext ==
  \/ \E j \in Job, row \in ClientRows : CreateJob(j, row)
  \/ \E j \in Job, row \in ClientRows : UpdateJob(j, row)
  \/ \E j \in Job, a \in 0..MaxAttempt, at \in 0..MaxTime, ready \in BOOLEAN :
       Enqueue(j, a, at, ready)
  \/ \E j \in Job : DropFromQueue(j)
  \/ \E r \in Runner, j \in Job : FirstFor(r, j) /\ Dequeue(r, j)
  \/ \E r \in Runner, j \in Job : Heartbeat(r, j)
  \/ \E r \in Runner, j \in Job : ReleaseLease(r, j)
  \/ ReapExpiredLeases
  \/ \E j \in Job : LeaseRunsOut(j)
  \/ \E j \in Job : BackoffRunsOut(j)

StoreSpec == StoreInit /\ [][StoreNext]_storeVars

-----------------------------------------------------------------------------
\* Every row is a row of its table, and an entry of the queue has a job.
StoreTypeOK ==
  /\ jobs \in [Job -> JobRow]
  /\ queue \in [Job -> Entry]
  /\ dispatches \in [Job -> [Attempts -> Runner \cup {NoRunner}]]

\* jobs.go, UpdateJob: "a completed job must never remain dispatchable".  No
\* entry of the queue belongs to a completed job or to a job that is not there,
\* whichever copies the callers wrote and in whichever order.
CompletedNotDispatchable ==
  \A j \in Job : InQueue(j) => jobs[j].status \notin {"completed", "absent"}

\* The dispatch record of the attempt an entry carries names the runner that
\* holds the lease now, also after the lease moved from one runner to the next:
\* a record naming the runner that was lost would blame it for the work of the
\* other (queue.go, Dequeue: lease and record in one transaction).
DispatchNamesHolder ==
  \A j \in Job : Leased(j) => /\ queue[j].attempt \in Attempts
                             /\ queue[j].runner # NoRunner
                             /\ dispatches[j][queue[j].attempt] = queue[j].runner

\* The rows are numbered: what Dequeue files a dispatch under, and what Enqueue
\* compares a caller's attempt with, is an attempt and never the zero of a row
\* that is not there.
RowsNumbered ==
  \A j \in Job : /\ Exists(j) => jobs[j].attempt \in Attempts
                 /\ InQueue(j) => queue[j].attempt \in Attempts

\* The inductive invariant of the store.
StoreInv ==
  /\ StoreTypeOK
  /\ CompletedNotDispatchable
  /\ DispatchNamesHolder
  /\ RowsNumbered

\* queue.go, Enqueue: "a job that is already queued or already leased keeps its
\* row, its queue position, and its lease".  While a job stays in the queue
\* nothing moves its place or its attempt, or holds it back again.
PlaceKept ==
  \A j \in Job : queue[j].state # "absent" /\ queue'[j].state # "absent" =>
    /\ queue'[j].queuedAt = queue[j].queuedAt
    /\ queue'[j].attempt = queue[j].attempt
    /\ queue[j].ready => queue'[j].ready

EntryKeepsItsPlace == [][PlaceKept]_storeVars

\* The three tables implement the lease queue: an entry never passes from one
\* runner to another without being offered again, whatever the clients do.
Holder == [j \in Job |-> IF ~InQueue(j) THEN "out"
                        ELSE IF Leased(j) THEN queue[j].runner ELSE "waiting"]

LQ == INSTANCE LeaseQueue WITH holder <- Holder, Out <- "out", Waiting <- "waiting"

ImplementsLeaseQueue == LQ!Spec

=============================================================================
