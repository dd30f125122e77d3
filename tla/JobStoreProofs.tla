--------------------------- MODULE JobStoreProofs ---------------------------
(***************************************************************************)
(* For every set of jobs, runners, labels and client rows: the store's     *)
(* safety invariants hold under any client, and the store implements       *)
(* LeaseQueue.  StoreInv is inductive: CompletedNotDispatchable needs that *)
(* an entry has a job (its "absent" part), DispatchNamesHolder needs that  *)
(* the attempt an entry carries indexes the dispatch table, which is       *)
(* RowsNumbered.                                                           *)
(***************************************************************************)
EXTENDS MemStore, LoopLemmas

\* The rows that stand for "not in the table" are rows.
LEMMA AbsentRows == AbsentJob \in JobRow /\ AbsentEntry \in Entry
  BY BoundAssumption DEF AbsentJob, AbsentEntry, JobRow, Entry

\* The empty store satisfies the invariant.
LEMMA StoreInitInv == StoreInit => StoreInv
<1> SUFFICES ASSUME StoreInit PROVE StoreInv
  OBVIOUS
<1>1. StoreTypeOK
  BY AbsentRows DEF StoreInit, StoreTypeOK
<1>2. \A j \in Job : ~InQueue(j) /\ ~Leased(j) /\ ~Exists(j)
  BY DEF StoreInit, InQueue, Leased, Exists, AbsentEntry, AbsentJob
<1> QED
  BY <1>1, <1>2 DEF StoreInv, CompletedNotDispatchable, DispatchNamesHolder, RowsNumbered

\* A client's row is a row of the table, of a job that is there.
LEMMA ClientRow ==
  ASSUME NEW row \in ClientRows
  PROVE  row \in JobRow /\ row.status # "absent" /\ row.attempt \in Attempts
<1>1. row \in JobRow /\ row.status # "absent" /\ row.attempt >= 1
  BY ClientRowsAssumption
<1>2. row.attempt \in 0..MaxAttempt
  BY <1>1 DEF JobRow
<1> QED
  BY <1>1, <1>2, BoundAssumption DEF Attempts

\* The invariant, one job at a time.
RowsOK(job, entry, record) ==
  /\ job \in JobRow /\ entry \in Entry
  /\ record \in [Attempts -> Runner \cup {NoRunner}]
  /\ entry.state # "absent" => job.status \notin {"completed", "absent"}
  /\ entry.state # "absent" => entry.attempt \in Attempts
  /\ job.status # "absent" => job.attempt \in Attempts
  /\ entry.state = "leased" => entry.runner # NoRunner /\ record[entry.attempt] = entry.runner

\* What the operations make of an entry is an entry.
LEMMA EntryChanges ==
  ASSUME NEW e \in Entry, NEW r \in Runner
  PROVE  /\ LeasedTo(r, e) \in Entry /\ Unleased(e) \in Entry
         /\ LeasedTo(r, e).state = "leased" /\ LeasedTo(r, e).runner = r
         /\ LeasedTo(r, e).attempt = e.attempt
         /\ Unleased(e).state = "queued" /\ Unleased(e).attempt = e.attempt
  BY DEF LeasedTo, Unleased, Entry

\* The clock and a heartbeat change nothing of an entry that RowsOK reads.
LEMMA FlagChanges ==
  ASSUME NEW job, NEW entry, NEW record, RowsOK(job, entry, record)
  PROVE  /\ RowsOK(job, [entry EXCEPT !.expired = TRUE], record)
         /\ RowsOK(job, [entry EXCEPT !.expired = FALSE], record)
         /\ RowsOK(job, [entry EXCEPT !.ready = TRUE], record)
<1>1. entry \in Entry
  BY DEF RowsOK
<1>2. /\ [entry EXCEPT !.expired = TRUE] \in Entry
      /\ [entry EXCEPT !.expired = TRUE].state = entry.state
      /\ [entry EXCEPT !.expired = TRUE].runner = entry.runner
      /\ [entry EXCEPT !.expired = TRUE].attempt = entry.attempt
  BY <1>1 DEF Entry
<1>3. /\ [entry EXCEPT !.expired = FALSE] \in Entry
      /\ [entry EXCEPT !.expired = FALSE].state = entry.state
      /\ [entry EXCEPT !.expired = FALSE].runner = entry.runner
      /\ [entry EXCEPT !.expired = FALSE].attempt = entry.attempt
  BY <1>1 DEF Entry
<1>4. /\ [entry EXCEPT !.ready = TRUE] \in Entry
      /\ [entry EXCEPT !.ready = TRUE].state = entry.state
      /\ [entry EXCEPT !.ready = TRUE].runner = entry.runner
      /\ [entry EXCEPT !.ready = TRUE].attempt = entry.attempt
  BY <1>1 DEF Entry
<1> QED
  BY <1>2, <1>3, <1>4 DEF RowsOK

\* What the operations make of a job row is a job row with the same attempt,
\* neither completed nor absent.
LEMMA JobChanges ==
  ASSUME NEW row \in JobRow, NEW r \in Runner
  PROVE  /\ RunningOn(r, row) \in JobRow /\ BackToQueue(row) \in JobRow
         /\ RunningOn(r, row).attempt = row.attempt
         /\ BackToQueue(row).attempt = row.attempt
         /\ RunningOn(r, row).status = "in_progress"
         /\ BackToQueue(row).status = "queued"
         /\ [row EXCEPT !.status = "queued", !.queued = TRUE] \in JobRow
         /\ [row EXCEPT !.status = "queued", !.queued = TRUE].attempt = row.attempt
         /\ [row EXCEPT !.status = "queued", !.queued = TRUE].status = "queued"
  BY DEF RunningOn, BackToQueue, JobRow

\* The invariant says that the rows of every job are in order.
LEMMA InvGivesRows ==
  ASSUME StoreInv
  PROVE  /\ jobs = [j \in Job |-> jobs[j]]
         /\ queue = [j \in Job |-> queue[j]]
         /\ dispatches = [j \in Job |-> dispatches[j]]
         /\ \A j \in Job : RowsOK(jobs[j], queue[j], dispatches[j])
  BY DEF StoreInv, StoreTypeOK, CompletedNotDispatchable, DispatchNamesHolder,
         RowsNumbered, RowsOK, Exists, InQueue, Leased

\* If the rows of every job are in order after a step, the invariant holds then.
LEMMA RowsGiveInv ==
  ASSUME jobs' = [j \in Job |-> jobs'[j]],
         queue' = [j \in Job |-> queue'[j]],
         dispatches' = [j \in Job |-> dispatches'[j]],
         \A j \in Job : RowsOK(jobs'[j], queue'[j], dispatches'[j])
  PROVE  StoreInv'
<1>1. StoreTypeOK'
  BY DEF StoreTypeOK, RowsOK
<1>2. CompletedNotDispatchable'
  BY DEF CompletedNotDispatchable, RowsOK, InQueue
<1>3. DispatchNamesHolder'
  BY DEF DispatchNamesHolder, RowsOK, InQueue, Leased
<1>4. RowsNumbered'
  BY DEF RowsNumbered, RowsOK, Exists, InQueue
<1> QED
  BY <1>1, <1>2, <1>3, <1>4 DEF StoreInv

\* A step that changes the tables of one job only, to rows that are in order,
\* preserves the invariant.
LEMMA OneJobStep ==
  ASSUME StoreInv, NEW k \in Job, NEW job, NEW entry, NEW record,
         jobs' = [jobs EXCEPT ![k] = job],
         queue' = [queue EXCEPT ![k] = entry],
         dispatches' = [dispatches EXCEPT ![k] = record],
         RowsOK(job, entry, record)
  PROVE  StoreInv'
<1>1. /\ jobs = [j \in Job |-> jobs[j]] /\ queue = [j \in Job |-> queue[j]]
      /\ dispatches = [j \in Job |-> dispatches[j]]
      /\ \A j \in Job : RowsOK(jobs[j], queue[j], dispatches[j])
  BY InvGivesRows
<1>2. /\ jobs' = [j \in Job |-> jobs'[j]] /\ queue' = [j \in Job |-> queue'[j]]
      /\ dispatches' = [j \in Job |-> dispatches'[j]]
  BY <1>1
<1>3. ASSUME NEW j \in Job PROVE RowsOK(jobs'[j], queue'[j], dispatches'[j])
  <2>1. CASE j = k
    BY <1>1, <2>1
  <2>2. CASE j # k
    <3>1. jobs'[j] = jobs[j] /\ queue'[j] = queue[j] /\ dispatches'[j] = dispatches[j]
      BY <1>1, <2>2
    <3> QED
      BY <1>1, <3>1
  <2> QED
    BY <2>1, <2>2
<1> QED
  BY <1>2, <1>3, RowsGiveInv

\* Every operation of the store preserves the invariant.
LEMMA StoreStepInv == StoreInv /\ [StoreNext]_storeVars => StoreInv'
<1> SUFFICES ASSUME StoreInv, [StoreNext]_storeVars PROVE StoreInv'
  OBVIOUS
<1>a. /\ jobs = [j \in Job |-> jobs[j]] /\ queue = [j \in Job |-> queue[j]]
      /\ dispatches = [j \in Job |-> dispatches[j]]
      /\ \A j \in Job : RowsOK(jobs[j], queue[j], dispatches[j])
  BY InvGivesRows
<1>b. AbsentEntry.state = "absent"
  BY DEF AbsentEntry
<1>1. ASSUME NEW j \in Job, NEW row \in ClientRows, CreateJob(j, row) PROVE StoreInv'
  <2>1. RowsOK(row, queue[j], dispatches[j])
    BY <1>1, <1>a, ClientRow DEF CreateJob, RowsOK, Exists
  <2>2. /\ jobs' = [jobs EXCEPT ![j] = row]
        /\ queue' = [queue EXCEPT ![j] = queue[j]]
        /\ dispatches' = [dispatches EXCEPT ![j] = dispatches[j]]
    BY <1>1, <1>a DEF CreateJob
  <2> QED
    BY <2>1, <2>2, OneJobStep
<1>2. ASSUME NEW j \in Job, NEW row \in ClientRows, UpdateJob(j, row) PROVE StoreInv'
  <2> DEFINE entry == IF row.status = "completed" THEN AbsentEntry ELSE queue[j]
  <2>1. RowsOK(row, entry, dispatches[j])
    BY <1>2, <1>a, <1>b, ClientRow, AbsentRows DEF UpdateJob, RowsOK, Exists
  <2>2. /\ jobs' = [jobs EXCEPT ![j] = row]
        /\ queue' = [queue EXCEPT ![j] = entry]
        /\ dispatches' = [dispatches EXCEPT ![j] = dispatches[j]]
    BY <1>2, <1>a DEF UpdateJob
  <2> HIDE DEF entry
  <2> QED
    BY <2>1, <2>2, OneJobStep
<1>3. ASSUME NEW j \in Job, NEW a \in 0..MaxAttempt, NEW at \in 0..MaxTime,
             NEW ready \in BOOLEAN, Enqueue(j, a, at, ready)
      PROVE  StoreInv'
  <2>1. CASE InQueue(j)
    <3>1. UNCHANGED <<jobs, queue, dispatches>>
      BY <1>3, <2>1 DEF Enqueue
    <3> QED
      BY <3>1, <1>a, OneJobStep
  <2>2. CASE ~InQueue(j)
    <3> DEFINE entry == [state |-> "queued", attempt |-> jobs[j].attempt,
                         runner |-> NoRunner, queuedAt |-> at, ready |-> ready,
                         expired |-> FALSE]
               job == [jobs[j] EXCEPT !.status = "queued", !.queued = TRUE]
    <3>1. jobs[j].attempt \in Attempts /\ jobs[j] \in JobRow
      BY <1>3, <1>a DEF Enqueue, EnqueueRefused, RowsOK, Exists
    <3>2. /\ entry \in Entry /\ entry.state = "queued" /\ entry.attempt = jobs[j].attempt
      BY <3>1, BoundAssumption DEF Entry, Attempts
    <3>3. /\ job \in JobRow /\ job.status = "queued" /\ job.attempt = jobs[j].attempt
      BY <3>1 DEF JobRow
    <3>4. /\ jobs' = [jobs EXCEPT ![j] = job] /\ queue' = [queue EXCEPT ![j] = entry]
          /\ dispatches' = [dispatches EXCEPT ![j] = dispatches[j]]
      BY <1>3, <1>a, <2>2 DEF Enqueue
    <3> HIDE DEF entry, job
    <3>5. RowsOK(job, entry, dispatches[j])
      BY <1>a, <3>1, <3>2, <3>3 DEF RowsOK
    <3> QED
      BY <3>4, <3>5, OneJobStep
  <2> QED
    BY <2>1, <2>2
<1>4. ASSUME NEW j \in Job, DropFromQueue(j) PROVE StoreInv'
  <2>1. RowsOK(jobs[j], AbsentEntry, dispatches[j])
    BY <1>a, <1>b, AbsentRows DEF RowsOK
  <2>2. /\ jobs' = [jobs EXCEPT ![j] = jobs[j]]
        /\ queue' = [queue EXCEPT ![j] = AbsentEntry]
        /\ dispatches' = [dispatches EXCEPT ![j] = dispatches[j]]
    BY <1>4, <1>a DEF DropFromQueue
  <2> QED
    BY <2>1, <2>2, OneJobStep
<1>5. ASSUME NEW r \in Runner, NEW j \in Job, Dequeue(r, j) PROVE StoreInv'
  <2> DEFINE record == [dispatches[j] EXCEPT ![queue[j].attempt] = r]
  <2>1. RowsOK(jobs[j], queue[j], dispatches[j]) /\ queue[j].state = "queued"
    BY <1>5, <1>a DEF Dequeue, Eligible
  <2>2. /\ record \in [Attempts -> Runner \cup {NoRunner}]
        /\ record[queue[j].attempt] = r
    BY <2>1 DEF RowsOK
  <2>3. /\ jobs' = [jobs EXCEPT ![j] = RunningOn(r, jobs[j])]
        /\ queue' = [queue EXCEPT ![j] = LeasedTo(r, queue[j])]
        /\ dispatches' = [dispatches EXCEPT ![j] = record]
    BY <1>5, <1>a DEF Dequeue
  <2> HIDE DEF record
  <2>4. /\ LeasedTo(r, queue[j]) \in Entry /\ LeasedTo(r, queue[j]).runner = r
        /\ LeasedTo(r, queue[j]).attempt = queue[j].attempt
    BY <2>1, EntryChanges DEF RowsOK
  <2>5. /\ RunningOn(r, jobs[j]) \in JobRow
        /\ RunningOn(r, jobs[j]).attempt = jobs[j].attempt
        /\ RunningOn(r, jobs[j]).status = "in_progress"
    BY <2>1, JobChanges DEF RowsOK
  <2>6. RowsOK(RunningOn(r, jobs[j]), LeasedTo(r, queue[j]), record)
    BY <2>1, <2>2, <2>4, <2>5, RunnerAssumption DEF RowsOK
  <2> QED
    BY <2>3, <2>6, OneJobStep
<1>6. ASSUME NEW r \in Runner, NEW j \in Job, Heartbeat(r, j) PROVE StoreInv'
  <2>1. RowsOK(jobs[j], [queue[j] EXCEPT !.expired = FALSE], dispatches[j])
    BY <1>a, FlagChanges
  <2>2. /\ jobs' = [jobs EXCEPT ![j] = jobs[j]]
        /\ queue' = [queue EXCEPT ![j] = [queue[j] EXCEPT !.expired = FALSE]]
        /\ dispatches' = [dispatches EXCEPT ![j] = dispatches[j]]
    BY <1>6, <1>a DEF Heartbeat
  <2> QED
    BY <2>1, <2>2, OneJobStep
<1>7. ASSUME NEW r \in Runner, NEW j \in Job, ReleaseLease(r, j) PROVE StoreInv'
  <2>1. RowsOK(BackToQueue(jobs[j]), Unleased(queue[j]), dispatches[j])
    BY <1>7, <1>a, EntryChanges, JobChanges DEF RowsOK, ReleaseLease, LeasedBy, Leased
  <2>2. /\ jobs' = [jobs EXCEPT ![j] = BackToQueue(jobs[j])]
        /\ queue' = [queue EXCEPT ![j] = Unleased(queue[j])]
        /\ dispatches' = [dispatches EXCEPT ![j] = dispatches[j]]
    BY <1>7, <1>a DEF ReleaseLease
  <2> QED
    BY <2>1, <2>2, OneJobStep
<1>8. ASSUME ReapExpiredLeases PROVE StoreInv'
  <2>1. /\ jobs' = [j \in Job |-> jobs'[j]] /\ queue' = [j \in Job |-> queue'[j]]
        /\ dispatches' = dispatches
    BY <1>8 DEF ReapExpiredLeases
  <2>2. ASSUME NEW j \in Job PROVE RowsOK(jobs'[j], queue'[j], dispatches'[j])
    <3>1. CASE j \in ExpiredLeases
      <4>1. PICK r \in Runner : queue[j].runner = r
        BY <1>a, <3>1 DEF ExpiredLeases, Leased, RowsOK, Entry
      <4>2. jobs'[j] = BackToQueue(jobs[j]) /\ queue'[j] = Unleased(queue[j])
        BY <1>8, <3>1 DEF ReapExpiredLeases
      <4>3. RowsOK(jobs[j], queue[j], dispatches[j]) /\ queue[j].state = "leased"
        BY <1>a, <3>1 DEF ExpiredLeases, Leased
      <4>4. RowsOK(BackToQueue(jobs[j]), Unleased(queue[j]), dispatches[j])
        BY <4>1, <4>3, EntryChanges, JobChanges DEF RowsOK
      <4> QED
        BY <2>1, <4>2, <4>4
    <3>2. CASE j \notin ExpiredLeases
      <4>1. jobs'[j] = jobs[j] /\ queue'[j] = queue[j]
        BY <1>8, <3>2 DEF ReapExpiredLeases
      <4> QED
        BY <1>a, <2>1, <4>1
    <3> QED
      BY <3>1, <3>2
  <2>3. dispatches' = [j \in Job |-> dispatches'[j]]
    BY <1>a, <2>1
  <2> QED
    BY <2>1, <2>2, <2>3, RowsGiveInv
<1>9. ASSUME NEW j \in Job, LeaseRunsOut(j) PROVE StoreInv'
  <2>2. RowsOK(jobs[j], [queue[j] EXCEPT !.expired = TRUE], dispatches[j])
    BY <1>a, FlagChanges
  <2>3. /\ jobs' = [jobs EXCEPT ![j] = jobs[j]]
        /\ queue' = [queue EXCEPT ![j] = [queue[j] EXCEPT !.expired = TRUE]]
        /\ dispatches' = [dispatches EXCEPT ![j] = dispatches[j]]
    BY <1>9, <1>a DEF LeaseRunsOut
  <2> QED
    BY <2>2, <2>3, OneJobStep
<1>10. ASSUME NEW j \in Job, BackoffRunsOut(j) PROVE StoreInv'
  <2>1. RowsOK(jobs[j], [queue[j] EXCEPT !.ready = TRUE], dispatches[j])
    BY <1>a, FlagChanges
  <2>2. /\ jobs' = [jobs EXCEPT ![j] = jobs[j]]
        /\ queue' = [queue EXCEPT ![j] = [queue[j] EXCEPT !.ready = TRUE]]
        /\ dispatches' = [dispatches EXCEPT ![j] = dispatches[j]]
    BY <1>10, <1>a DEF BackoffRunsOut
  <2> QED
    BY <2>1, <2>2, OneJobStep
<1>11. CASE UNCHANGED storeVars
  BY <1>11 DEF storeVars, StoreInv, StoreTypeOK, CompletedNotDispatchable,
               DispatchNamesHolder, RowsNumbered, Exists, InQueue, Leased
<1> QED
  BY <1>1, <1>2, <1>3, <1>4, <1>5, <1>6, <1>7, <1>8, <1>9, <1>10, <1>11 DEF StoreNext

\* The store keeps its inductive invariant under any client.
THEOREM StoreInvariant == StoreSpec => []StoreInv
<1>1. StoreInit => StoreInv
  BY StoreInitInv
<1>2. StoreInv /\ [StoreNext]_storeVars => StoreInv'
  BY StoreStepInv
<1> QED
  BY <1>1, <1>2, PTL DEF StoreSpec

\* Every row stays a row of its table.
THEOREM StoreTypeCorrect == StoreSpec => []StoreTypeOK
<1>1. StoreInv => StoreTypeOK
  BY DEF StoreInv
<1> QED
  BY <1>1, StoreInvariant, PTL

\* No completed job is ever dispatchable, whatever the clients write.
THEOREM NoCompletedJobQueued == StoreSpec => []CompletedNotDispatchable
<1>1. StoreInv => CompletedNotDispatchable
  BY DEF StoreInv
<1> QED
  BY <1>1, StoreInvariant, PTL

\* The dispatch record of a leased attempt always names the lease's holder.
THEOREM DispatchRecordExact == StoreSpec => []DispatchNamesHolder
<1>1. StoreInv => DispatchNamesHolder
  BY DEF StoreInv
<1> QED
  BY <1>1, StoreInvariant, PTL

-----------------------------------------------------------------------------
\* No operation moves an entry that stays in the queue.
LEMMA StoreStepPlace == StoreInv /\ StoreNext => PlaceKept
<1> USE DEF PlaceKept
<1> SUFFICES ASSUME StoreInv, StoreNext, NEW k \in Job,
                    queue[k].state # "absent", queue'[k].state # "absent"
             PROVE  /\ queue'[k].queuedAt = queue[k].queuedAt
                    /\ queue'[k].attempt = queue[k].attempt
                    /\ queue[k].ready => queue'[k].ready
  OBVIOUS
<1>a. queue \in [Job -> Entry] /\ queue[k] \in Entry
  BY DEF StoreInv, StoreTypeOK
<1>b. AbsentEntry.state = "absent"
  BY DEF AbsentEntry
<1>1. ASSUME NEW j \in Job, NEW row \in ClientRows, CreateJob(j, row) \/ UpdateJob(j, row)
      PROVE  queue'[k] = queue[k]
  BY <1>1, <1>a, <1>b DEF CreateJob, UpdateJob
<1>2. ASSUME NEW j \in Job, NEW a \in 0..MaxAttempt, NEW at \in 0..MaxTime,
             NEW ready \in BOOLEAN, Enqueue(j, a, at, ready)
      PROVE  queue'[k] = queue[k]
  BY <1>2, <1>a DEF Enqueue, InQueue
<1>3. ASSUME NEW j \in Job, DropFromQueue(j) PROVE queue'[k] = queue[k]
  BY <1>3, <1>a, <1>b DEF DropFromQueue
<1>4. ASSUME NEW r \in Runner, NEW j \in Job, Dequeue(r, j)
      PROVE  queue'[k] = queue[k] \/ queue'[k] = LeasedTo(r, queue[k])
  BY <1>4, <1>a DEF Dequeue
<1>5. ASSUME NEW r \in Runner, NEW j \in Job, Heartbeat(r, j) \/ ReleaseLease(r, j)
      PROVE  \/ queue'[k] \in {queue[k], Unleased(queue[k])}
             \/ queue'[k] = [queue[k] EXCEPT !.expired = FALSE]
  BY <1>5, <1>a DEF Heartbeat, ReleaseLease
<1>6. ASSUME ReapExpiredLeases PROVE queue'[k] \in {queue[k], Unleased(queue[k])}
  BY <1>6 DEF ReapExpiredLeases
<1>7. ASSUME NEW j \in Job, LeaseRunsOut(j) \/ BackoffRunsOut(j)
      PROVE  \/ queue'[k] = queue[k]
             \/ queue'[k] = [queue[k] EXCEPT !.expired = TRUE]
             \/ queue'[k] = [queue[k] EXCEPT !.ready = TRUE]
  BY <1>7, <1>a DEF LeaseRunsOut, BackoffRunsOut
<1>8. \/ queue'[k] \in {queue[k], Unleased(queue[k])}
      \/ \E r \in Runner : queue'[k] = LeasedTo(r, queue[k])
      \/ \E b \in BOOLEAN : queue'[k] = [queue[k] EXCEPT !.expired = b]
      \/ queue'[k] = [queue[k] EXCEPT !.ready = TRUE]
  BY <1>1, <1>2, <1>3, <1>4, <1>5, <1>6, <1>7 DEF StoreNext
<1> QED
  BY <1>8, <1>a DEF Unleased, LeasedTo, Entry

\* A job in the queue keeps its place and its attempt, whatever is enqueued.
THEOREM QueuePlaceKept == StoreSpec => EntryKeepsItsPlace
<1>1. StoreInv /\ [StoreNext]_storeVars => [PlaceKept]_storeVars
  BY StoreStepPlace
<1> QED
  BY <1>1, StoreInvariant, PTL DEF StoreSpec, EntryKeepsItsPlace

-----------------------------------------------------------------------------
\* An operation of the store is a step of LeaseQueue, or leaves it alone.
LEMMA StoreStepImplements == StoreInv /\ [StoreNext]_storeVars => [LQ!Next]_Holder
<1> SUFFICES ASSUME StoreInv, [StoreNext]_storeVars PROVE LQ!Next \/ Holder' = Holder
  OBVIOUS
<1> USE DEF InQueue, Leased
<1>a. queue \in [Job -> Entry]
  BY DEF StoreInv, StoreTypeOK
<1>b. AbsentEntry.state = "absent"
  BY DEF AbsentEntry
<1>1. ASSUME NEW j \in Job, NEW row \in ClientRows, CreateJob(j, row)
      PROVE  Holder' = Holder
  BY <1>1 DEF CreateJob, Holder
<1>2. ASSUME NEW j \in Job, NEW row \in ClientRows, UpdateJob(j, row)
      PROVE  LQ!Leave(j) \/ Holder' = Holder
  <2>1. CASE row.status = "completed"
    BY <1>2, <1>a, <1>b, <2>1 DEF UpdateJob, Holder, LQ!Leave
  <2>2. CASE row.status # "completed"
    BY <1>2, <1>a, <2>2 DEF UpdateJob, Holder
  <2> QED
    BY <2>1, <2>2
<1>3. ASSUME NEW j \in Job, NEW a \in 0..MaxAttempt, NEW at \in 0..MaxTime,
             NEW ready \in BOOLEAN, Enqueue(j, a, at, ready)
      PROVE  LQ!Offer({j}) \/ Holder' = Holder
  <2>1. CASE InQueue(j)
    BY <1>3, <2>1 DEF Enqueue, Holder
  <2>2. CASE ~InQueue(j)
    BY <1>3, <1>a, <2>2 DEF Enqueue, Holder, LQ!Offer
  <2> QED
    BY <2>1, <2>2
<1>4. ASSUME NEW j \in Job, DropFromQueue(j) PROVE LQ!Leave(j)
  BY <1>4, <1>a, <1>b DEF DropFromQueue, Holder, LQ!Leave
<1>5. ASSUME NEW r \in Runner, NEW j \in Job, Dequeue(r, j) PROVE LQ!Claim(r, j)
  <2>1. queue[j].state = "queued" /\ queue[j] \in Entry
    BY <1>5, <1>a DEF Dequeue, Eligible
  <2>2. LeasedTo(r, queue[j]).state = "leased" /\ LeasedTo(r, queue[j]).runner = r
    BY <2>1, EntryChanges
  <2> QED
    BY <1>5, <1>a, <2>1, <2>2 DEF Dequeue, Holder, LQ!Claim
<1>6. ASSUME NEW r \in Runner, NEW j \in Job, Heartbeat(r, j) PROVE Holder' = Holder
  <2>1. /\ [queue[j] EXCEPT !.expired = FALSE].state = queue[j].state
        /\ [queue[j] EXCEPT !.expired = FALSE].runner = queue[j].runner
    BY <1>a DEF Entry
  <2> QED
    BY <1>6, <1>a, <2>1 DEF Heartbeat, Holder
<1>7. ASSUME NEW r \in Runner, NEW j \in Job, ReleaseLease(r, j) PROVE LQ!Offer({j})
  <2>1. Unleased(queue[j]).state = "queued"
    BY <1>a, EntryChanges
  <2> QED
    BY <1>7, <1>a, <2>1 DEF ReleaseLease, Holder, LQ!Offer
<1>8. ASSUME ReapExpiredLeases PROVE LQ!Offer(ExpiredLeases)
  <2>1. \A j \in Job : Unleased(queue[j]).state = "queued"
    BY <1>a DEF Unleased, Entry
  <2> QED
    BY <1>8, <2>1 DEF ReapExpiredLeases, Holder, LQ!Offer
<1>9. ASSUME NEW j \in Job, LeaseRunsOut(j) PROVE Holder' = Holder
  <2>1. /\ [queue[j] EXCEPT !.expired = TRUE].state = queue[j].state
        /\ [queue[j] EXCEPT !.expired = TRUE].runner = queue[j].runner
    BY <1>a DEF Entry
  <2> QED
    BY <1>9, <1>a, <2>1 DEF LeaseRunsOut, Holder
<1>10. ASSUME NEW j \in Job, BackoffRunsOut(j) PROVE Holder' = Holder
  <2>1. /\ [queue[j] EXCEPT !.ready = TRUE].state = queue[j].state
        /\ [queue[j] EXCEPT !.ready = TRUE].runner = queue[j].runner
    BY <1>a DEF Entry
  <2> QED
    BY <1>10, <1>a, <2>1 DEF BackoffRunsOut, Holder
<1>11. CASE UNCHANGED storeVars
  BY <1>11 DEF storeVars, Holder
<1>12. ASSUME NEW js \in SUBSET Job, LQ!Offer(js) PROVE LQ!Next
  BY <1>12 DEF LQ!Next
<1>13. ASSUME NEW j \in Job, LQ!Leave(j) PROVE LQ!Next
  BY <1>13 DEF LQ!Next
<1>14. ASSUME NEW r \in Runner, NEW j \in Job, LQ!Claim(r, j) PROVE LQ!Next
  BY <1>14 DEF LQ!Next
<1>15. ASSUME NEW j \in Job, LQ!Offer({j}) PROVE LQ!Next
  BY <1>12, <1>15
<1>16. ASSUME LQ!Offer(ExpiredLeases) PROVE LQ!Next
  <2>1. ExpiredLeases \in SUBSET Job
    BY DEF ExpiredLeases
  <2> QED
    BY <1>12, <1>16, <2>1
<1>17. CASE StoreNext
  BY <1>1, <1>2, <1>3, <1>4, <1>5, <1>6, <1>7, <1>8, <1>9, <1>10,
     <1>13, <1>14, <1>15, <1>16, <1>17 DEF StoreNext
<1> QED
  BY <1>11, <1>17

\* The store implements the lease queue: what a runner holds it was handed from
\* the queue, never from another runner.
THEOREM StoreImplementsLeaseQueue == StoreSpec => ImplementsLeaseQueue
<1>1. StoreInit => LQ!Init
  BY DEF StoreInit, LQ!Init, Holder, InQueue, AbsentEntry
<1>2. StoreInv /\ [StoreNext]_storeVars => [LQ!Next]_Holder
  BY StoreStepImplements
<1> QED
  BY <1>1, <1>2, StoreInvariant, PTL DEF StoreSpec, ImplementsLeaseQueue, LQ!Spec

-----------------------------------------------------------------------------
(***************************************************************************)
(* For every set of jobs, runners, labels and client rows: the in-memory   *)
(* store implements the SQLite store, operation by operation.              *)
(*                                                                         *)
(* MemInv is inductive and says what the maps must be for the two to       *)
(* agree: their keys are jobs, their values rows, and a queue row has a    *)
(* job.  Without the last, a row taken back whose job is not in the map    *)
(* would leave the two stores with different jobs.                         *)
(***************************************************************************)
LiveRow == {row \in JobRow : row.status # "absent" /\ row.attempt \in Attempts}

QueueRow ==
  [leased : BOOLEAN, attempt : Attempts, runner : Runner \cup {NoRunner},
   queuedAt : 0..MaxTime, ready : BOOLEAN, expired : BOOLEAN]

MemInv ==
  /\ DOMAIN memJobs \subseteq Job
  /\ memJobs \in [DOMAIN memJobs -> LiveRow]
  /\ DOMAIN memQueue \subseteq DOMAIN memJobs
  /\ memQueue \in [DOMAIN memQueue -> QueueRow]

-----------------------------------------------------------------------------
\* Maps.
LEMMA PutGives ==
  ASSUME NEW map, NEW key, NEW value
  PROVE  /\ DOMAIN Put(map, key, value) = DOMAIN map \cup {key}
         /\ Put(map, key, value)[key] = value
         /\ \A k \in DOMAIN map : k # key => Put(map, key, value)[k] = map[k]
  BY DEF Put

LEMMA PutTyped ==
  ASSUME NEW V, NEW map, map \in [DOMAIN map -> V], NEW key, NEW value \in V
  PROVE  Put(map, key, value) \in [DOMAIN Put(map, key, value) -> V]
  BY DEF Put

\* The rows that stand for "not in the map" are those of the other store.
LEMMA SameRows ==
  /\ Sqlite!AbsentJob = AbsentJob
  /\ Sqlite!AbsentEntry = AbsentEntry
  BY DEF Sqlite!AbsentJob, AbsentJob, Sqlite!AbsentEntry, AbsentEntry

\* What a map holds of a job is what the table holds.
LEMMA Looks ==
  ASSUME MemInv, NEW j \in Job
  PROVE  /\ Sqlite!Exists(j) <=> j \in DOMAIN memJobs
         /\ Sqlite!InQueue(j) <=> j \in DOMAIN memQueue
         /\ Sqlite!Leased(j) <=> j \in DOMAIN memQueue /\ memQueue[j].leased
         /\ \A r : Sqlite!LeasedBy(r, j) <=> MemHolds(r, j)
         /\ j \in DOMAIN memJobs => MemRows[j] = memJobs[j]
         /\ j \in DOMAIN memQueue => MemEntries[j] = AsEntry(memQueue[j])
<1>1. AbsentJob.status = "absent" /\ AbsentEntry.state = "absent"
  BY DEF AbsentJob, AbsentEntry
<1>2. j \in DOMAIN memJobs => memJobs[j].status # "absent"
  BY DEF MemInv, LiveRow
<1>3. j \in DOMAIN memQueue => /\ AsEntry(memQueue[j]).state = IF memQueue[j].leased THEN "leased" ELSE "queued"
                               /\ AsEntry(memQueue[j]).runner = memQueue[j].runner
  BY DEF AsEntry
<1>4. MemRows[j] = IF j \in DOMAIN memJobs THEN memJobs[j] ELSE AbsentJob
  BY DEF MemRows
<1>5. MemEntries[j] = IF j \in DOMAIN memQueue THEN AsEntry(memQueue[j]) ELSE AbsentEntry
  BY DEF MemEntries
<1> QED
  BY <1>1, <1>2, <1>3, <1>4, <1>5
  DEF Sqlite!Exists, Sqlite!InQueue, Sqlite!Leased, Sqlite!LeasedBy, MemHolds

-----------------------------------------------------------------------------
\* Writing one key of a map writes one row of the table.
LEMMA JobWritten ==
  ASSUME NEW j \in Job, NEW row, memJobs' = Put(memJobs, j, row)
  PROVE  MemRows' = [MemRows EXCEPT ![j] = row]
<1>1. DOMAIN memJobs' = DOMAIN memJobs \cup {j}
  BY PutGives
<1>2. memJobs'[j] = row /\ \A k \in DOMAIN memJobs : k # j => memJobs'[k] = memJobs[k]
  BY DEF Put
<1>3. \A k \in Job : MemRows'[k] = IF k = j THEN row ELSE MemRows[k]
  BY <1>1, <1>2 DEF MemRows
<1> QED
  BY <1>3 DEF MemRows

LEMMA EntryWritten ==
  ASSUME NEW j \in Job, NEW row, memQueue' = Put(memQueue, j, row)
  PROVE  MemEntries' = [MemEntries EXCEPT ![j] = AsEntry(row)]
<1>1. DOMAIN memQueue' = DOMAIN memQueue \cup {j}
  BY PutGives
<1>2. memQueue'[j] = row /\ \A k \in DOMAIN memQueue : k # j => memQueue'[k] = memQueue[k]
  BY DEF Put
<1>3. \A k \in Job : MemEntries'[k] = IF k = j THEN AsEntry(row) ELSE MemEntries[k]
  BY <1>1, <1>2 DEF MemEntries
<1> QED
  BY <1>3 DEF MemEntries

LEMMA EntryDropped ==
  ASSUME NEW j \in Job, memQueue' = Delete(memQueue, j)
  PROVE  MemEntries' = [MemEntries EXCEPT ![j] = AbsentEntry]
  BY DEF MemEntries, Delete

LEMMA RecordWritten ==
  ASSUME NEW j \in Job, NEW a \in Attempts, NEW r,
         memDispatches' = Put(memDispatches, <<j, a>>, r)
  PROVE  MemRecords' = [MemRecords EXCEPT ![j][a] = r]
<1>1. DOMAIN memDispatches' = DOMAIN memDispatches \cup {<<j, a>>}
  BY PutGives
<1>2. /\ memDispatches'[<<j, a>>] = r
      /\ \A p \in DOMAIN memDispatches : p # <<j, a>> => memDispatches'[p] = memDispatches[p]
  BY DEF Put
<1>3. ASSUME NEW k \in Job, NEW b \in Attempts
      PROVE  MemRecords'[k][b] = IF k = j /\ b = a THEN r ELSE MemRecords[k][b]
  BY <1>1, <1>2 DEF MemRecords
<1>4. \A k \in Job : MemRecords'[k] = [b \in Attempts |-> MemRecords'[k][b]]
  BY DEF MemRecords
<1>5. /\ MemRecords' = [k \in Job |-> MemRecords'[k]]
      /\ MemRecords = [k \in Job |-> MemRecords[k]]
      /\ \A k \in Job : MemRecords[k] = [b \in Attempts |-> MemRecords[k][b]]
  BY DEF MemRecords
<1> QED
  BY <1>3, <1>4, <1>5

\* What the map says of one key, when the other keys keep theirs.
LEMMA ExceptIsPut ==
  ASSUME NEW map, NEW key \in DOMAIN map, NEW value
  PROVE  [map EXCEPT ![key] = value] = Put(map, key, value)
  BY DEF Put

LEMMA Kept ==
  /\ memJobs' = memJobs => MemRows' = MemRows
  /\ memQueue' = memQueue => MemEntries' = MemEntries
  /\ memDispatches' = memDispatches => MemRecords' = MemRecords
  BY DEF MemRows, MemEntries, MemRecords

\* Writing a row of the map keeps the map a map of rows.
LEMMA JobsTyped ==
  ASSUME MemInv, NEW j \in Job, NEW row \in LiveRow, memJobs' = Put(memJobs, j, row)
  PROVE  /\ DOMAIN memJobs' = DOMAIN memJobs \cup {j}
         /\ memJobs' \in [DOMAIN memJobs' -> LiveRow]
  BY PutGives, PutTyped DEF MemInv

LEMMA QueueTyped ==
  ASSUME MemInv, NEW j \in Job, NEW row \in QueueRow, memQueue' = Put(memQueue, j, row)
  PROVE  /\ DOMAIN memQueue' = DOMAIN memQueue \cup {j}
         /\ memQueue' \in [DOMAIN memQueue' -> QueueRow]
  BY PutGives, PutTyped DEF MemInv

LEMMA DropTyped ==
  ASSUME MemInv, NEW j \in Job, memQueue' = Delete(memQueue, j)
  PROVE  /\ DOMAIN memQueue' \subseteq DOMAIN memQueue
         /\ memQueue' \in [DOMAIN memQueue' -> QueueRow]
  BY DEF MemInv, Delete

-----------------------------------------------------------------------------
\* What the operations make of a row is a row, and what they make of it in the
\* map is what the other store makes of it in the table.
LEMMA LiveRows ==
  ASSUME NEW job \in LiveRow, NEW r \in Runner \cup {NoRunner}
  PROVE  /\ [job EXCEPT !.status = "queued", !.queued = TRUE] \in LiveRow
         /\ [job EXCEPT !.status = "in_progress", !.runner = r, !.setup = FALSE] \in LiveRow
         /\ [job EXCEPT !.status = "queued", !.runner = NoRunner, !.setup = FALSE] \in LiveRow
  BY DEF LiveRow, JobRow

LEMMA QueueRows ==
  ASSUME NEW row \in QueueRow, NEW r \in Runner \cup {NoRunner}
  PROVE  /\ [row EXCEPT !.leased = TRUE, !.runner = r, !.expired = FALSE] \in QueueRow
         /\ [row EXCEPT !.leased = FALSE, !.runner = NoRunner, !.expired = FALSE] \in QueueRow
         /\ [row EXCEPT !.expired = FALSE] \in QueueRow
         /\ [row EXCEPT !.expired = TRUE] \in QueueRow
         /\ [row EXCEPT !.ready = TRUE] \in QueueRow
  BY DEF QueueRow

LEMMA EntryOfRow ==
  ASSUME NEW row \in QueueRow
  PROVE  /\ AsEntry(row) \in Entry
         /\ AsEntry(row).state = IF row.leased THEN "leased" ELSE "queued"
         /\ AsEntry(row).attempt = row.attempt /\ AsEntry(row).runner = row.runner
         /\ AsEntry(row).queuedAt = row.queuedAt /\ AsEntry(row).ready = row.ready
         /\ AsEntry(row).expired = row.expired
  BY BoundAssumption DEF AsEntry, QueueRow, Entry, Attempts

LEMMA SameEntry ==
  ASSUME NEW e \in Entry, NEW f \in Entry, e.state = f.state, e.attempt = f.attempt,
         e.runner = f.runner, e.queuedAt = f.queuedAt, e.ready = f.ready, e.expired = f.expired
  PROVE  e = f
  BY DEF Entry

LEMMA AsEntries ==
  ASSUME NEW row \in QueueRow, NEW r \in Runner \cup {NoRunner}
  PROVE  /\ AsEntry([row EXCEPT !.leased = TRUE, !.runner = r, !.expired = FALSE])
              = Sqlite!LeasedTo(r, AsEntry(row))
         /\ AsEntry([row EXCEPT !.leased = FALSE, !.runner = NoRunner, !.expired = FALSE])
              = Sqlite!Unleased(AsEntry(row))
         /\ AsEntry([row EXCEPT !.expired = FALSE]) = [AsEntry(row) EXCEPT !.expired = FALSE]
         /\ AsEntry([row EXCEPT !.expired = TRUE]) = [AsEntry(row) EXCEPT !.expired = TRUE]
         /\ AsEntry([row EXCEPT !.ready = TRUE]) = [AsEntry(row) EXCEPT !.ready = TRUE]
<1>1. PICK e \in Entry : e = AsEntry(row)
  BY EntryOfRow
<1>2. /\ e.state = IF row.leased THEN "leased" ELSE "queued"
      /\ e.attempt = row.attempt /\ e.runner = row.runner /\ e.queuedAt = row.queuedAt
      /\ e.ready = row.ready /\ e.expired = row.expired
  BY <1>1, EntryOfRow
<1>3. AsEntry([row EXCEPT !.leased = TRUE, !.runner = r, !.expired = FALSE]) = Sqlite!LeasedTo(r, e)
  <2>1. PICK new \in QueueRow : new = [row EXCEPT !.leased = TRUE, !.runner = r, !.expired = FALSE]
    BY QueueRows
  <2>2. /\ new.leased = TRUE /\ new.attempt = row.attempt /\ new.runner = r
        /\ new.queuedAt = row.queuedAt /\ new.ready = row.ready /\ new.expired = FALSE
    BY <2>1 DEF QueueRow
  <2>3. PICK f \in Entry : f = Sqlite!LeasedTo(r, e)
    BY DEF Sqlite!LeasedTo, Entry
  <2>4. /\ f.state = "leased" /\ f.attempt = e.attempt /\ f.runner = r
        /\ f.queuedAt = e.queuedAt /\ f.ready = e.ready /\ f.expired = FALSE
    BY <2>3 DEF Sqlite!LeasedTo, Entry
  <2>5. PICK g \in Entry : g = AsEntry(new)
    BY EntryOfRow
  <2>6. /\ g.state = f.state /\ g.attempt = f.attempt /\ g.runner = f.runner
        /\ g.queuedAt = f.queuedAt
    BY <1>2, <2>2, <2>4, <2>5, EntryOfRow
  <2>7. g.ready = f.ready /\ g.expired = f.expired
    BY <1>2, <2>2, <2>4, <2>5, EntryOfRow, Zenon
  <2>8. g = f
    BY <2>6, <2>7, SameEntry
  <2> QED
    BY <2>1, <2>3, <2>5, <2>8
<1>4. AsEntry([row EXCEPT !.leased = FALSE, !.runner = NoRunner, !.expired = FALSE]) = Sqlite!Unleased(e)
  <2>1. PICK new \in QueueRow :
          new = [row EXCEPT !.leased = FALSE, !.runner = NoRunner, !.expired = FALSE]
    BY QueueRows
  <2>2. /\ ~new.leased /\ new.attempt = row.attempt /\ new.runner = NoRunner
        /\ new.queuedAt = row.queuedAt /\ new.ready = row.ready /\ new.expired = FALSE
    BY <2>1 DEF QueueRow
  <2>3. PICK f \in Entry : f = Sqlite!Unleased(e)
    BY DEF Sqlite!Unleased, Entry
  <2>4. /\ f.state = "queued" /\ f.attempt = e.attempt /\ f.runner = NoRunner
        /\ f.queuedAt = e.queuedAt /\ f.ready = e.ready /\ f.expired = FALSE
    BY <2>3 DEF Sqlite!Unleased, Entry
  <2>5. PICK g \in Entry : g = AsEntry(new)
    BY EntryOfRow
  <2>6. /\ g.state = f.state /\ g.attempt = f.attempt /\ g.runner = f.runner
        /\ g.queuedAt = f.queuedAt
    BY <1>2, <2>2, <2>4, <2>5, EntryOfRow
  <2>7. g.ready = f.ready /\ g.expired = f.expired
    BY <1>2, <2>2, <2>4, <2>5, EntryOfRow, Zenon
  <2>8. g = f
    BY <2>6, <2>7, SameEntry
  <2> QED
    BY <2>1, <2>3, <2>5, <2>8
<1>5. ASSUME NEW x \in BOOLEAN
      PROVE  AsEntry([row EXCEPT !.expired = x]) = [e EXCEPT !.expired = x]
  <2>1. PICK new \in QueueRow : new = [row EXCEPT !.expired = x]
    BY DEF QueueRow
  <2>2. /\ new.leased = row.leased /\ new.attempt = row.attempt /\ new.runner = row.runner
        /\ new.queuedAt = row.queuedAt /\ new.ready = row.ready /\ new.expired = x
    BY <2>1 DEF QueueRow
  <2>3. PICK f \in Entry : f = [e EXCEPT !.expired = x]
    BY DEF Entry
  <2>4. /\ f.state = e.state /\ f.attempt = e.attempt /\ f.runner = e.runner
        /\ f.queuedAt = e.queuedAt /\ f.ready = e.ready /\ f.expired = x
    BY <2>3 DEF Entry
  <2>5. PICK g \in Entry : g = AsEntry(new)
    BY EntryOfRow
  <2>6. /\ g.state = f.state /\ g.attempt = f.attempt /\ g.runner = f.runner
        /\ g.queuedAt = f.queuedAt
    BY <1>2, <2>2, <2>4, <2>5, EntryOfRow
  <2>7. g.ready = f.ready /\ g.expired = f.expired
    BY <1>2, <2>2, <2>4, <2>5, EntryOfRow, Zenon
  <2>8. g = f
    BY <2>6, <2>7, SameEntry
  <2> QED
    BY <2>1, <2>3, <2>5, <2>8
<1>6. AsEntry([row EXCEPT !.ready = TRUE]) = [e EXCEPT !.ready = TRUE]
  <2>1. PICK new \in QueueRow : new = [row EXCEPT !.ready = TRUE]
    BY QueueRows
  <2>2. /\ new.leased = row.leased /\ new.attempt = row.attempt /\ new.runner = row.runner
        /\ new.queuedAt = row.queuedAt /\ new.ready = TRUE /\ new.expired = row.expired
    BY <2>1 DEF QueueRow
  <2>3. PICK f \in Entry : f = [e EXCEPT !.ready = TRUE]
    BY DEF Entry
  <2>4. /\ f.state = e.state /\ f.attempt = e.attempt /\ f.runner = e.runner
        /\ f.queuedAt = e.queuedAt /\ f.ready = TRUE /\ f.expired = e.expired
    BY <2>3 DEF Entry
  <2>5. PICK g \in Entry : g = AsEntry(new)
    BY EntryOfRow
  <2>6. /\ g.state = f.state /\ g.attempt = f.attempt /\ g.runner = f.runner
        /\ g.queuedAt = f.queuedAt
    BY <1>2, <2>2, <2>4, <2>5, EntryOfRow
  <2>7. g.ready = f.ready /\ g.expired = f.expired
    BY <1>2, <2>2, <2>4, <2>5, EntryOfRow, Zenon
  <2>8. g = f
    BY <2>6, <2>7, SameEntry
  <2> QED
    BY <2>1, <2>3, <2>5, <2>8
<1> QED
  BY <1>1, <1>3, <1>4, <1>5, <1>6

LEMMA ClientLive ==
  ASSUME NEW row \in ClientRows
  PROVE  row \in LiveRow
  BY ClientRow DEF LiveRow

-----------------------------------------------------------------------------
\* CreateJob.
LEMMA MemCreates ==
  ASSUME MemInv, NEW j \in Job, NEW row \in ClientRows, MemCreateJob(j, row)
  PROVE  MemInv' /\ Sqlite!CreateJob(j, row)
<1>1. memJobs' = Put(memJobs, j, row) /\ memQueue' = memQueue /\ memDispatches' = memDispatches
  BY DEF MemCreateJob
<1>2. MemInv'
  BY <1>1, JobsTyped, ClientLive DEF MemInv
<1>3. ~Sqlite!Exists(j)
  BY Looks DEF MemCreateJob
<1> QED
  BY <1>1, <1>2, <1>3, JobWritten, Kept DEF Sqlite!CreateJob

\* UpdateJob.
LEMMA MemUpdates ==
  ASSUME MemInv, NEW j \in Job, NEW row \in ClientRows, MemUpdateJob(j, row)
  PROVE  MemInv' /\ Sqlite!UpdateJob(j, row)
<1>1. memJobs' = Put(memJobs, j, row) /\ memDispatches' = memDispatches
  BY DEF MemUpdateJob
<1>2. Sqlite!Exists(j)
  BY Looks DEF MemUpdateJob
<1>3. /\ DOMAIN memJobs' = DOMAIN memJobs \cup {j}
      /\ memJobs' \in [DOMAIN memJobs' -> LiveRow]
  BY <1>1, JobsTyped, ClientLive
<1>4. MemRows' = [MemRows EXCEPT ![j] = row] /\ MemRecords' = MemRecords
  BY <1>1, JobWritten, Kept
<1>5. CASE row.status = "completed"
  <2>1. memQueue' = Delete(memQueue, j)
    BY <1>5 DEF MemUpdateJob
  <2>2. MemInv'
    BY <1>3, <2>1, DropTyped DEF MemInv
  <2>3. MemEntries' = [MemEntries EXCEPT ![j] = AbsentEntry]
    BY <2>1, EntryDropped
  <2> QED
    BY <1>2, <1>4, <1>5, <2>2, <2>3, SameRows DEF Sqlite!UpdateJob
<1>6. CASE row.status # "completed"
  <2>1. memQueue' = memQueue
    BY <1>6 DEF MemUpdateJob
  <2>2. MemInv'
    BY <1>3, <2>1 DEF MemInv
  <2>3. MemEntries' = [MemEntries EXCEPT ![j] = @]
    BY <2>1, Kept DEF MemEntries
  <2> QED
    BY <1>2, <1>4, <1>6, <2>2, <2>3 DEF Sqlite!UpdateJob
<1> QED
  BY <1>5, <1>6

\* Enqueue.
LEMMA MemEnqueues ==
  ASSUME MemInv, NEW j \in Job, NEW a \in 0..MaxAttempt, NEW at \in 0..MaxTime,
         NEW ready \in BOOLEAN, MemEnqueue(j, a, at, ready)
  PROVE  MemInv' /\ Sqlite!Enqueue(j, a, at, ready)
<1>1. j \in DOMAIN memJobs /\ a \in {0, memJobs[j].attempt} /\ memDispatches' = memDispatches
  BY DEF MemEnqueue
<1>2. ~Sqlite!EnqueueRefused(j, a)
  BY <1>1, Looks DEF Sqlite!EnqueueRefused
<1>3. CASE j \in DOMAIN memQueue
  <2>1. memJobs' = memJobs /\ memQueue' = memQueue
    BY <1>3 DEF MemEnqueue
  <2>2. Sqlite!InQueue(j)
    BY <1>3, Looks
  <2> QED
    BY <1>1, <1>2, <2>1, <2>2, Kept DEF MemInv, Sqlite!Enqueue
<1>4. CASE j \notin DOMAIN memQueue
  <2> DEFINE row == [leased |-> FALSE, attempt |-> memJobs[j].attempt, runner |-> NoRunner,
                     queuedAt |-> at, ready |-> ready, expired |-> FALSE]
             job == [memJobs[j] EXCEPT !.status = "queued", !.queued = TRUE]
  <2>1. memJobs[j] \in LiveRow
    BY <1>1 DEF MemInv
  <2>2. /\ memQueue' = Put(memQueue, j, row)
        /\ memJobs' = [memJobs EXCEPT ![j].status = "queued", ![j].queued = TRUE]
    BY <1>4 DEF MemEnqueue
  <2>3. memJobs' = [memJobs EXCEPT ![j] = job]
    BY <1>1, <2>1, <2>2 DEF MemInv, LiveRow, JobRow
  <2>4. row \in QueueRow
    BY <2>1 DEF LiveRow, QueueRow
  <2>5. job \in LiveRow
    BY <2>1 DEF LiveRow, JobRow
  <2>6. AsEntry(row) = [state |-> "queued", attempt |-> MemRows[j].attempt, runner |-> NoRunner,
                        queuedAt |-> at, ready |-> ready, expired |-> FALSE]
    BY <1>1, Looks DEF AsEntry
  <2>7. job = [MemRows[j] EXCEPT !.status = "queued", !.queued = TRUE]
    BY <1>1, Looks
  <2> HIDE DEF row, job
  <2>8. memJobs' = Put(memJobs, j, job)
    BY <1>1, <2>3, ExceptIsPut
  <2>9. MemInv'
    <3>1. /\ DOMAIN memJobs' = DOMAIN memJobs \cup {j}
          /\ memJobs' \in [DOMAIN memJobs' -> LiveRow]
      BY <2>5, <2>8, JobsTyped
    <3>2. /\ DOMAIN memQueue' = DOMAIN memQueue \cup {j}
          /\ memQueue' \in [DOMAIN memQueue' -> QueueRow]
      BY <2>2, <2>4, QueueTyped
    <3> QED
      BY <3>1, <3>2 DEF MemInv
  <2>10. /\ MemRows' = [MemRows EXCEPT ![j] = job]
         /\ MemEntries' = [MemEntries EXCEPT ![j] = AsEntry(row)]
         /\ MemRecords' = MemRecords
    BY <1>1, <2>2, <2>8, JobWritten, EntryWritten, Kept
  <2>11. ~Sqlite!InQueue(j)
    BY <1>4, Looks
  <2> QED
    BY <1>2, <2>6, <2>7, <2>9, <2>10, <2>11 DEF Sqlite!Enqueue
<1> QED
  BY <1>3, <1>4

\* Drop.
LEMMA MemDrops ==
  ASSUME MemInv, NEW j \in Job, MemDropFromQueue(j)
  PROVE  MemInv' /\ Sqlite!DropFromQueue(j)
<1>1. memQueue' = Delete(memQueue, j) /\ memJobs' = memJobs /\ memDispatches' = memDispatches
  BY DEF MemDropFromQueue
<1>2. MemInv'
  BY <1>1, DropTyped DEF MemInv
<1> QED
  BY <1>1, <1>2, EntryDropped, SameRows, Kept DEF Sqlite!DropFromQueue

-----------------------------------------------------------------------------
\* A row of the queue is written in place.
LEMMA RowWritten ==
  ASSUME MemInv, NEW j \in DOMAIN memQueue, NEW new \in QueueRow,
         memQueue' = [memQueue EXCEPT ![j] = new]
  PROVE  /\ j \in Job /\ j \in DOMAIN memJobs
         /\ DOMAIN memQueue' = DOMAIN memQueue
         /\ memQueue' \in [DOMAIN memQueue' -> QueueRow]
         /\ MemEntries' = [MemEntries EXCEPT ![j] = AsEntry(new)]
<1>1. j \in Job /\ j \in DOMAIN memJobs
  BY DEF MemInv
<1>2. memQueue' = Put(memQueue, j, new)
  BY ExceptIsPut
<1> QED
  BY <1>1, <1>2, EntryWritten, QueueTyped DEF MemInv

\* Heartbeat.
LEMMA MemBeats ==
  ASSUME MemInv, NEW r \in Runner, NEW j \in Job, MemHeartbeat(r, j)
  PROVE  MemInv' /\ Sqlite!Heartbeat(r, j)
<1>1. MemHolds(r, j) /\ memJobs' = memJobs /\ memDispatches' = memDispatches
  BY DEF MemHeartbeat
<1>2. j \in DOMAIN memQueue /\ memQueue[j] \in QueueRow
  BY <1>1 DEF MemHolds, MemInv
<1> DEFINE new == [memQueue[j] EXCEPT !.expired = FALSE]
<1>3. memQueue' = [memQueue EXCEPT ![j] = new]
  BY <1>2 DEF MemHeartbeat, MemInv, QueueRow
<1>4. new \in QueueRow /\ AsEntry(new) = [MemEntries[j] EXCEPT !.expired = FALSE]
  BY <1>2, QueueRows, AsEntries, Looks
<1> HIDE DEF new
<1>5. MemInv' /\ MemEntries' = [MemEntries EXCEPT ![j] = AsEntry(new)]
  BY <1>1, <1>2, <1>3, <1>4, RowWritten DEF MemInv
<1> QED
  BY <1>1, <1>4, <1>5, Kept, Looks DEF Sqlite!Heartbeat

\* The clock.
LEMMA MemClock ==
  ASSUME MemInv, NEW j \in Job, MemTimePasses(j)
  PROVE  MemInv' /\ (Sqlite!LeaseRunsOut(j) \/ Sqlite!BackoffRunsOut(j))
<1>1. memJobs' = memJobs /\ memDispatches' = memDispatches
  BY DEF MemTimePasses
<1>2. j \in DOMAIN memQueue /\ memQueue[j] \in QueueRow
  BY DEF MemTimePasses, MemInv
<1>3. Sqlite!InQueue(j) /\ MemEntries[j] = AsEntry(memQueue[j])
  BY <1>2, Looks
<1>4. MemEntries[j].ready = memQueue[j].ready /\ MemEntries[j].expired = memQueue[j].expired
  BY <1>2, <1>3, EntryOfRow
<1>5. CASE memQueue[j].leased /\ ~memQueue[j].expired /\ memQueue' = [memQueue EXCEPT ![j].expired = TRUE]
  <2> DEFINE new == [memQueue[j] EXCEPT !.expired = TRUE]
  <2>1. memQueue' = [memQueue EXCEPT ![j] = new]
    BY <1>2, <1>5 DEF MemInv, QueueRow
  <2>2. new \in QueueRow /\ AsEntry(new) = [MemEntries[j] EXCEPT !.expired = TRUE]
    BY <1>2, <1>3, QueueRows, AsEntries
  <2> HIDE DEF new
  <2>3. MemInv' /\ MemEntries' = [MemEntries EXCEPT ![j] = AsEntry(new)]
    BY <1>1, <1>2, <2>1, <2>2, RowWritten DEF MemInv
  <2>4. Sqlite!Leased(j) /\ ~MemEntries[j].expired
    BY <1>2, <1>4, <1>5, Looks
  <2> QED
    BY <1>1, <2>2, <2>3, <2>4, Kept DEF Sqlite!LeaseRunsOut
<1>6. CASE ~memQueue[j].ready /\ memQueue' = [memQueue EXCEPT ![j].ready = TRUE]
  <2> DEFINE new == [memQueue[j] EXCEPT !.ready = TRUE]
  <2>1. memQueue' = [memQueue EXCEPT ![j] = new]
    BY <1>2, <1>6 DEF MemInv, QueueRow
  <2>2. new \in QueueRow /\ AsEntry(new) = [MemEntries[j] EXCEPT !.ready = TRUE]
    BY <1>2, <1>3, QueueRows, AsEntries
  <2> HIDE DEF new
  <2>3. MemInv' /\ MemEntries' = [MemEntries EXCEPT ![j] = AsEntry(new)]
    BY <1>1, <1>2, <2>1, <2>2, RowWritten DEF MemInv
  <2>4. ~MemEntries[j].ready
    BY <1>4, <1>6
  <2> QED
    BY <1>1, <1>3, <2>2, <2>3, <2>4, Kept DEF Sqlite!BackoffRunsOut
<1> QED
  BY <1>5, <1>6 DEF MemTimePasses

\* requeueLocked: the rows taken back, and the jobs they belong to.
LEMMA Requeues ==
  ASSUME MemInv, NEW js \in SUBSET DOMAIN memQueue, RequeueLocked(js)
  PROVE  /\ MemInv'
         /\ MemEntries' = [k \in Job |-> IF k \in js THEN Sqlite!Unleased(MemEntries[k]) ELSE MemEntries[k]]
         /\ MemRows' = [k \in Job |-> IF k \in js THEN Sqlite!BackToQueue(MemRows[k]) ELSE MemRows[k]]
         /\ MemRecords' = MemRecords
<1> DEFINE row(k) == [memQueue[k] EXCEPT !.leased = FALSE, !.runner = NoRunner, !.expired = FALSE]
           job(k) == [memJobs[k] EXCEPT !.status = "queued", !.runner = NoRunner, !.setup = FALSE]
<1>1. /\ memQueue' = [k \in DOMAIN memQueue |-> IF k \in js THEN row(k) ELSE memQueue[k]]
      /\ memJobs' = [k \in DOMAIN memJobs |-> IF k \in js THEN job(k) ELSE memJobs[k]]
      /\ memDispatches' = memDispatches
  BY DEF RequeueLocked
<1>2. \A k \in DOMAIN memQueue : memQueue[k] \in QueueRow /\ k \in DOMAIN memJobs
  BY DEF MemInv
<1>3. \A k \in DOMAIN memJobs : memJobs[k] \in LiveRow /\ k \in Job
  BY DEF MemInv
<1>4. \A k \in js : row(k) \in QueueRow
  BY <1>2 DEF QueueRow
<1>5. \A k \in js : job(k) \in LiveRow
  BY <1>2, <1>3 DEF LiveRow, JobRow
<1>6. \A k \in js : job(k) = Sqlite!BackToQueue(memJobs[k])
  BY DEF Sqlite!BackToQueue
<1>7. \A k \in js : AsEntry(row(k)) = Sqlite!Unleased(AsEntry(memQueue[k]))
  BY <1>2, AsEntries
<1> HIDE DEF row, job
<1>8. MemInv'
  BY <1>1, <1>2, <1>3, <1>4, <1>5 DEF MemInv
<1>9. \A k \in Job : MemEntries'[k] = IF k \in js THEN Sqlite!Unleased(MemEntries[k]) ELSE MemEntries[k]
  BY <1>1, <1>7 DEF MemEntries
<1>10. \A k \in Job : MemRows'[k] = IF k \in js THEN Sqlite!BackToQueue(MemRows[k]) ELSE MemRows[k]
  BY <1>1, <1>2, <1>6 DEF MemRows
<1>11. MemEntries' = [k \in Job |-> MemEntries'[k]] /\ MemRows' = [k \in Job |-> MemRows'[k]]
  BY DEF MemEntries, MemRows
<1> QED
  BY <1>1, <1>8, <1>9, <1>10, <1>11, Kept

\* ReleaseLease.
LEMMA MemReleases ==
  ASSUME MemInv, NEW r \in Runner, NEW j \in Job, MemReleaseLease(r, j)
  PROVE  MemInv' /\ Sqlite!ReleaseLease(r, j)
<1>1. MemHolds(r, j) /\ RequeueLocked({j}) /\ {j} \in SUBSET DOMAIN memQueue
  BY DEF MemReleaseLease, MemHolds
<1>2. /\ MemInv'
      /\ MemEntries' = [k \in Job |-> IF k = j THEN Sqlite!Unleased(MemEntries[k]) ELSE MemEntries[k]]
      /\ MemRows' = [k \in Job |-> IF k = j THEN Sqlite!BackToQueue(MemRows[k]) ELSE MemRows[k]]
      /\ MemRecords' = MemRecords
  BY <1>1, Requeues
<1>3. /\ MemEntries' = [MemEntries EXCEPT ![j] = Sqlite!Unleased(@)]
      /\ MemRows' = [MemRows EXCEPT ![j] = Sqlite!BackToQueue(@)]
  BY <1>2 DEF MemEntries, MemRows
<1> QED
  BY <1>1, <1>2, <1>3, Looks DEF Sqlite!ReleaseLease

\* ReapExpiredLeases.
LEMMA MemReaps ==
  ASSUME MemInv, MemReapExpiredLeases
  PROVE  MemInv' /\ Sqlite!ReapExpiredLeases
<1> DEFINE js == {j \in DOMAIN memQueue : memQueue[j].leased /\ memQueue[j].expired}
<1>1. RequeueLocked(js) /\ js \in SUBSET DOMAIN memQueue
  BY DEF MemReapExpiredLeases
<1>2. \A j \in DOMAIN memQueue : /\ j \in Job /\ MemEntries[j] = AsEntry(memQueue[j])
                                 /\ AsEntry(memQueue[j]).expired = memQueue[j].expired
  BY EntryOfRow, Looks DEF MemInv
<1>3. js = Sqlite!ExpiredLeases
  BY <1>2, Looks DEF Sqlite!ExpiredLeases
<1> HIDE DEF js
<1> QED
  BY <1>1, <1>3, Requeues DEF Sqlite!ReapExpiredLeases

-----------------------------------------------------------------------------
\* The rows a runner may be given are those the other store's query finds.
LEMMA SameEligible ==
  ASSUME MemInv, NEW r \in Runner
  PROVE  MemEligible(r) = Sqlite!Eligible(r)
<1>1. \A j \in DOMAIN memQueue : /\ j \in Job /\ memQueue[j] \in QueueRow
                                 /\ MemEntries[j] = AsEntry(memQueue[j])
  BY Looks DEF MemInv
<1>2. \A j \in DOMAIN memQueue : /\ MemEntries[j].state = "queued" <=> ~memQueue[j].leased
                                 /\ MemEntries[j].ready = memQueue[j].ready
  BY <1>1, EntryOfRow
<1>3. \A j \in Job : j \notin DOMAIN memQueue => MemEntries[j].state # "queued"
  BY DEF MemEntries, AbsentEntry
<1> QED
  BY <1>1, <1>2, <1>3 DEF MemEligible, Sqlite!Eligible

\* The sort has a first row, and it is the row the other store's query puts
\* first.
LEMMA FirstRow ==
  ASSUME MemInv, NEW r \in Runner, MemEligible(r) # {}
  PROVE  MemFirst(r) \in MemEligible(r) /\ Sqlite!FirstFor(r, MemFirst(r))
<1> DEFINE E == MemEligible(r)
           at(j) == memQueue[j].queuedAt
           First(j) == \A k \in E : at(j) < at(k) \/ (at(j) = at(k) /\ j <= k)
<1>1. \A j \in E : j \in Job /\ j \in Nat /\ at(j) \in Nat
  BY JobAssumption, BoundAssumption DEF MemEligible, MemInv, QueueRow
<1>2. PICK t \in {at(j) : j \in E} : \A u \in {at(j) : j \in E} : t <= u
  <2>1. {at(j) : j \in E} \subseteq Nat /\ {at(j) : j \in E} # {}
    BY <1>1
  <2> QED
    BY <2>1, LeastNatural
<1>3. PICK j \in {k \in E : at(k) = t} : \A k \in {l \in E : at(l) = t} : j <= k
  <2>1. {k \in E : at(k) = t} \subseteq Nat /\ {k \in E : at(k) = t} # {}
    BY <1>1, <1>2
  <2> QED
    BY <2>1, LeastNatural
<1>4. First(j)
  <2>1. ASSUME NEW k \in E PROVE at(j) < at(k) \/ (at(j) = at(k) /\ j <= k)
    <3>1. at(j) = t /\ t <= at(k) /\ t \in Nat /\ at(k) \in Nat
      BY <1>1, <1>2, <1>3
    <3>2. at(k) = t => j <= k
      BY <1>3
    <3> HIDE DEF at, E
    <3> QED
      BY <3>1, <3>2
  <2> QED
    BY <2>1
<1>5. MemFirst(r) = CHOOSE k \in E : First(k)
  BY DEF MemFirst
<1> HIDE DEF First
<1>6. MemFirst(r) \in E /\ First(MemFirst(r))
  BY <1>3, <1>4, <1>5
<1> USE DEF First
<1>7. PICK f \in E : f = MemFirst(r)
  BY <1>6
<1>8. \A k \in E : /\ MemEntries[k] = AsEntry(memQueue[k])
                   /\ AsEntry(memQueue[k]).queuedAt = at(k)
  BY EntryOfRow, Looks DEF MemInv, MemEligible
<1>9. ASSUME NEW k \in Sqlite!Eligible(r) \ {f} PROVE Sqlite!Before(f, k)
  <2>1. k \in E /\ k # f
    BY SameEligible
  <2>2. at(f) < at(k) \/ (at(f) = at(k) /\ f <= k)
    BY <1>6, <1>7, <2>1
  <2>3. f <= k => f < k
    BY <1>1, <2>1
  <2> QED
    BY <1>8, <2>1, <2>2, <2>3 DEF Sqlite!Before
<1> QED
  BY <1>7, <1>9 DEF Sqlite!FirstFor

\* Dequeue.
LEMMA MemDequeues ==
  ASSUME MemInv, NEW r \in Runner, MemDequeue(r)
  PROVE  MemInv' /\ \E j \in Job : Sqlite!FirstFor(r, j) /\ Sqlite!Dequeue(r, j)
<1>1. PICK j : j = MemFirst(r)
  OBVIOUS
<1>2. j \in MemEligible(r) /\ Sqlite!FirstFor(r, j)
  BY <1>1, FirstRow DEF MemDequeue
<1>3. j \in DOMAIN memQueue /\ j \in DOMAIN memJobs /\ j \in Job
  BY <1>2 DEF MemEligible, MemInv
<1>4. /\ memQueue' = [memQueue EXCEPT ![j].leased = TRUE, ![j].runner = r, ![j].expired = FALSE]
      /\ memDispatches' = Put(memDispatches, <<j, memQueue[j].attempt>>, r)
      /\ memJobs' = [memJobs EXCEPT ![j].status = "in_progress", ![j].runner = r, ![j].setup = FALSE]
  BY <1>1 DEF MemDequeue
<1>5. memQueue[j] \in QueueRow /\ memJobs[j] \in LiveRow
  BY <1>3 DEF MemInv
<1> DEFINE row == [memQueue[j] EXCEPT !.leased = TRUE, !.runner = r, !.expired = FALSE]
           job == [memJobs[j] EXCEPT !.status = "in_progress", !.runner = r, !.setup = FALSE]
<1>6. memQueue' = [memQueue EXCEPT ![j] = row]
  BY <1>3, <1>4, <1>5 DEF MemInv, QueueRow
<1>7. memJobs' = [memJobs EXCEPT ![j] = job]
  BY <1>3, <1>4, <1>5 DEF MemInv, LiveRow, JobRow
<1>8. row \in QueueRow /\ AsEntry(row) = Sqlite!LeasedTo(r, MemEntries[j])
  <2>1. row \in QueueRow
    BY <1>5, QueueRows
  <2>2. AsEntry(row) = Sqlite!LeasedTo(r, AsEntry(memQueue[j]))
    BY <1>5, AsEntries
  <2>3. MemEntries[j] = AsEntry(memQueue[j])
    BY <1>3, Looks
  <2> HIDE DEF row
  <2> QED
    BY <2>1, <2>2, <2>3
<1>9. job \in LiveRow /\ job = Sqlite!RunningOn(r, MemRows[j])
  BY <1>3, <1>5, LiveRows, Looks DEF Sqlite!RunningOn
<1> HIDE DEF row, job
<1>10. /\ DOMAIN memQueue' = DOMAIN memQueue
       /\ memQueue' \in [DOMAIN memQueue' -> QueueRow]
       /\ MemEntries' = [MemEntries EXCEPT ![j] = AsEntry(row)]
  BY <1>3, <1>6, <1>8, RowWritten
<1>11. memJobs' = Put(memJobs, j, job)
  BY <1>3, <1>7, ExceptIsPut
<1>12. /\ DOMAIN memJobs' = DOMAIN memJobs
       /\ memJobs' \in [DOMAIN memJobs' -> LiveRow]
       /\ MemRows' = [MemRows EXCEPT ![j] = job]
  BY <1>3, <1>9, <1>11, JobsTyped, JobWritten
<1>13. MemInv'
  BY <1>10, <1>12 DEF MemInv
<1>14. memQueue[j].attempt \in Attempts /\ MemEntries[j].attempt = memQueue[j].attempt
  BY <1>3, <1>5, EntryOfRow, Looks DEF QueueRow
<1>15. MemRecords' = [MemRecords EXCEPT ![j][MemEntries[j].attempt] = r]
  BY <1>3, <1>4, <1>14, RecordWritten
<1>16. j \in Sqlite!Eligible(r)
  BY <1>2, SameEligible
<1>17. Sqlite!Dequeue(r, j)
  BY <1>8, <1>9, <1>10, <1>12, <1>15, <1>16 DEF Sqlite!Dequeue
<1> QED
  BY <1>2, <1>3, <1>13, <1>17

-----------------------------------------------------------------------------
\* Every step of the in-memory store is a step of the other one.
LEMMA MemStep ==
  MemInv /\ [MemNext]_memVars => MemInv' /\ [Sqlite!StoreNext]_<<MemRows, MemEntries, MemRecords>>
<1> SUFFICES ASSUME MemInv, [MemNext]_memVars
             PROVE  MemInv' /\ [Sqlite!StoreNext]_<<MemRows, MemEntries, MemRecords>>
  OBVIOUS
<1>1. CASE UNCHANGED memVars
  BY <1>1, Kept DEF memVars, MemInv
<1>2. ASSUME MemNext PROVE MemInv' /\ Sqlite!StoreNext
  <2>1. ASSUME NEW j \in Job, NEW row \in ClientRows, MemCreateJob(j, row)
        PROVE  MemInv' /\ Sqlite!StoreNext
    BY <2>1, MemCreates DEF Sqlite!StoreNext
  <2>2. ASSUME NEW j \in Job, NEW row \in ClientRows, MemUpdateJob(j, row)
        PROVE  MemInv' /\ Sqlite!StoreNext
    BY <2>2, MemUpdates DEF Sqlite!StoreNext
  <2>3. ASSUME NEW j \in Job, NEW a \in 0..MaxAttempt, NEW at \in 0..MaxTime,
               NEW ready \in BOOLEAN, MemEnqueue(j, a, at, ready)
        PROVE  MemInv' /\ Sqlite!StoreNext
    BY <2>3, MemEnqueues DEF Sqlite!StoreNext
  <2>4. ASSUME NEW j \in Job, MemDropFromQueue(j)
        PROVE  MemInv' /\ Sqlite!StoreNext
    BY <2>4, MemDrops DEF Sqlite!StoreNext
  <2>5. ASSUME NEW j \in Job, MemTimePasses(j)
        PROVE  MemInv' /\ Sqlite!StoreNext
    BY <2>5, MemClock DEF Sqlite!StoreNext
  <2>6. ASSUME NEW j \in Job, NEW r \in Runner, MemHeartbeat(r, j)
        PROVE  MemInv' /\ Sqlite!StoreNext
    BY <2>6, MemBeats DEF Sqlite!StoreNext
  <2>7. ASSUME NEW j \in Job, NEW r \in Runner, MemReleaseLease(r, j)
        PROVE  MemInv' /\ Sqlite!StoreNext
    BY <2>7, MemReleases DEF Sqlite!StoreNext
  <2>8. ASSUME NEW r \in Runner, MemDequeue(r)
        PROVE  MemInv' /\ Sqlite!StoreNext
    BY <2>8, MemDequeues DEF Sqlite!StoreNext
  <2>9. ASSUME MemReapExpiredLeases
        PROVE  MemInv' /\ Sqlite!StoreNext
    BY <2>9, MemReaps DEF Sqlite!StoreNext
  <2> QED
    BY <1>2, <2>1, <2>2, <2>3, <2>4, <2>5, <2>6, <2>7, <2>8, <2>9 DEF MemNext
<1> QED
  BY <1>1, <1>2

\* The empty maps are the empty tables.
LEMMA MemStart == MemInit => MemInv /\ Sqlite!StoreInit
<1> SUFFICES ASSUME MemInit PROVE MemInv /\ Sqlite!StoreInit
  OBVIOUS
<1>1. DOMAIN memJobs = {} /\ DOMAIN memQueue = {} /\ DOMAIN memDispatches = {}
  BY DEF MemInit, EmptyMap
<1>2. MemInv
  BY <1>1 DEF MemInit, EmptyMap, MemInv
<1>3. /\ MemRows = [j \in Job |-> AbsentJob]
      /\ MemEntries = [j \in Job |-> AbsentEntry]
      /\ MemRecords = [j \in Job |-> [a \in Attempts |-> NoRunner]]
  BY <1>1 DEF MemRows, MemEntries, MemRecords
<1> QED
  BY <1>2, <1>3, SameRows DEF Sqlite!StoreInit, Sqlite!Attempts, Attempts

\* The maps of the in-memory store hold rows of jobs, and every row of its queue
\* has a job.
THEOREM MemStoreTyped == MemInit /\ [][MemNext]_memVars => []MemInv
<1>1. MemInit => MemInv
  BY MemStart
<1>2. MemInv /\ [MemNext]_memVars => MemInv'
  BY MemStep
<1> QED
  BY <1>1, <1>2, PTL

\* The in-memory store implements the SQLite store: whatever the clients do, its
\* maps change as the other store's tables would, and Dequeue hands out the same
\* row of the queue.
THEOREM MemStoreImplements == MemInit /\ [][MemNext]_memVars => ImplementsJobStore
<1>1. MemInit => Sqlite!StoreInit
  BY MemStart
<1>2. MemInv /\ [MemNext]_memVars => [Sqlite!StoreNext]_Sqlite!storeVars
  BY MemStep DEF Sqlite!storeVars
<1> QED
  BY <1>1, <1>2, MemStoreTyped, PTL DEF ImplementsJobStore, Sqlite!StoreSpec

=============================================================================
