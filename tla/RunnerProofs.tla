----------------------------- MODULE RunnerProofs -----------------------------
(***************************************************************************)
(* For every set of jobs, agents and slots, and any number of faults: the  *)
(* safety properties of the runner protocol, and that the job queue does   *)
(* under it what the lease queue promises.                                 *)
(*                                                                         *)
(* RepeatsOnlyGarbled is not inductive: it needs that a running agent      *)
(* knows every key it has executed, and that its file holds them too if    *)
(* the file is what a restart reads them from, except the keys written     *)
(* behind a torn line (KeysInv).  The queue needs that rows are rows,      *)
(* those reapExpiredLeases carries included (TablesInv), and that a report *)
(* under way is of a job and carries a result (ReportsInv).                *)
(***************************************************************************)
EXTENDS RunnerProtocol, TLAPS

-----------------------------------------------------------------------------
\* Idempotency keys.

\* The keys of one agent: executed, known, in the file, written behind a torn
\* line, executed again.
KeysOK(keeps, ran, knows, lines, lost, again) ==
  /\ ran \subseteq knows \cup lost
  /\ keeps => ran \subseteq lines \cup lost
  /\ again \subseteq lost

KeyTypes ==
  /\ known = [r \in Runner |-> known[r]] /\ file = [r \in Runner |-> file[r]]
  /\ torn = [r \in Runner |-> torn[r]]
  /\ started = [r \in Runner |-> started[r]] /\ repeated = [r \in Runner |-> repeated[r]]
  /\ garbled = [r \in Runner |-> garbled[r]]

\* What the agents know of the keys they have executed.
KeysInv ==
  /\ KeyTypes
  /\ \A r \in Runner : KeysOK(r \in KeepsState, started[r], known[r], file[r],
                              garbled[r], repeated[r])

keyVars == <<known, file, torn, started, repeated, garbled>>

\* The steps that touch no key.
LEMMA KeysUntouched ==
  ASSUME Next
  PROVE  \/ UNCHANGED keyVars
         \/ \E s \in Slot : Start(s) \/ MarkFails(s)
         \/ \E r \in Runner : Restart(r)
<1> USE DEF history, agentVars, vars, keyVars
<1>1. ASSUME NEW s \in Slot, NEW j \in Job, Acquire(s, j) \/ AcquireLost(s, j)
      PROVE  UNCHANGED keyVars
  BY <1>1 DEF Acquire, AcquireLost
<1>2. ASSUME NEW s \in Slot,
             \/ Refuse(s) \/ HeartbeatHeld(s) \/ HeartbeatLost(s) \/ Abandon(s)
             \/ ShutDown(s) \/ GiveUp(s) \/ Complete(s) \/ ConnectionLost(s) \/ Release(s)
             \/ \E result \in Results : Finish(s, result)
      PROVE  UNCHANGED keyVars
  BY <1>2 DEF Refuse, HeartbeatHeld, HeartbeatLost, Abandon, ShutDown, GiveUp,
              Complete, ConnectionLost, Release, Finish
<1>3. ASSUME NEW j \in Job, LeaseExpires(j) \/ BackoffEnds(j) \/ CancelJob(j)
      PROVE  UNCHANGED keyVars
  BY <1>3 DEF LeaseExpires, BackoffEnds, CancelJob
<1>4. ASSUME \/ Reap \/ (\E c \in reaping : ReapNext(c)) \/ Done
             \/ \E c \in completing : JobCompletedAt(c)
      PROVE  UNCHANGED keyVars
  BY <1>4 DEF Reap, ReapNext, JobCompletedAt, Done
<1>5. ASSUME NEW r \in Runner, Stop(r) \/ Stopped(r) \/ Crash(r) PROVE UNCHANGED keyVars
  BY <1>5 DEF Stop, Stopped, Crash
<1> QED
  BY <1>1, <1>2, <1>3, <1>4, <1>5 DEF Next

\* A step that changes the keys of one agent only, to keys that are in order,
\* preserves the invariant.
LEMMA OneAgentStep ==
  ASSUME KeysInv, NEW a \in Runner,
         NEW ran, NEW knows, NEW lines, NEW tear, NEW lost, NEW again,
         started' = [started EXCEPT ![a] = ran], known' = [known EXCEPT ![a] = knows],
         file' = [file EXCEPT ![a] = lines], torn' = [torn EXCEPT ![a] = tear],
         garbled' = [garbled EXCEPT ![a] = lost], repeated' = [repeated EXCEPT ![a] = again],
         KeysOK(a \in KeepsState, ran, knows, lines, lost, again)
  PROVE  KeysInv'
<1>1. KeyTypes'
  BY DEF KeysInv, KeyTypes
<1>2. ASSUME NEW r \in Runner
      PROVE  KeysOK(r \in KeepsState, started'[r], known'[r], file'[r], garbled'[r], repeated'[r])
  <2>1. CASE r = a
    BY <2>1 DEF KeysInv, KeyTypes
  <2>2. CASE r # a
    <3>1. /\ started'[r] = started[r] /\ known'[r] = known[r] /\ file'[r] = file[r]
          /\ garbled'[r] = garbled[r] /\ repeated'[r] = repeated[r]
      BY <2>2 DEF KeysInv, KeyTypes
    <3> QED
      BY <3>1 DEF KeysInv
  <2> QED
    BY <2>1, <2>2
<1> QED
  BY <1>1, <1>2 DEF KeysInv

LEMMA KeysInit == Init => KeysInv
  BY DEF Init, KeysInv, KeyTypes, KeysOK

\* Starting, failing to start and restarting keep the keys in order.
LEMMA KeysStep == KeysInv /\ [Next]_vars => KeysInv'
<1> SUFFICES ASSUME KeysInv, [Next]_vars PROVE KeysInv'
  OBVIOUS
<1>a. KeyTypes
  BY DEF KeysInv
<1>1. ASSUME NEW s \in Slot, Start(s) PROVE KeysInv'
  <2> DEFINE r == RunnerOf[s]
             key == KeyOf(s)
             lines == IF torn[r] THEN file[r] ELSE file[r] \cup {key}
             lost == IF torn[r] THEN garbled[r] \cup {key} ELSE garbled[r]
             again == IF key \in started[r] THEN repeated[r] \cup {key} ELSE repeated[r]
  <2>1. r \in Runner
    BY SlotAssumption
  <2>2. key \notin known[r]
    BY <1>1 DEF Start
  <2>3. KeysOK(r \in KeepsState, started[r], known[r], file[r], garbled[r], repeated[r])
    BY <2>1 DEF KeysInv
  <2>4. /\ started' = [started EXCEPT ![r] = started[r] \cup {key}]
        /\ known' = [known EXCEPT ![r] = known[r] \cup {key}]
        /\ file' = [file EXCEPT ![r] = lines] /\ torn' = [torn EXCEPT ![r] = FALSE]
        /\ garbled' = [garbled EXCEPT ![r] = lost]
        /\ repeated' = [repeated EXCEPT ![r] = again]
    BY <1>1, <1>a, <2>1 DEF Start, MarkStarted, KeyTypes
  <2> HIDE DEF key, r
  <2>5. KeysOK(r \in KeepsState, started[r] \cup {key}, known[r] \cup {key}, lines, lost, again)
    BY <2>2, <2>3 DEF KeysOK
  <2> HIDE DEF lines, lost, again
  <2> QED
    BY <2>1, <2>4, <2>5, OneAgentStep
<1>2. ASSUME NEW s \in Slot, MarkFails(s) PROVE KeysInv'
  <2> DEFINE r == RunnerOf[s]
             key == KeyOf(s)
  <2>1. r \in Runner
    BY SlotAssumption
  <2>3. KeysOK(r \in KeepsState, started[r], known[r], file[r], garbled[r], repeated[r])
    BY <2>1 DEF KeysInv
  <2>4. /\ started' = [started EXCEPT ![r] = started[r]]
        /\ known' = [known EXCEPT ![r] = known[r]]
        /\ garbled' = [garbled EXCEPT ![r] = garbled[r]]
        /\ repeated' = [repeated EXCEPT ![r] = repeated[r]]
    BY <1>2, <1>a DEF MarkFails, KeyTypes
  <2>5. \/ file' = [file EXCEPT ![r] = file[r]]
        \/ file' = [file EXCEPT ![r] = file[r] \cup {key}]
    BY <1>2, <1>a DEF MarkFails, KeyTypes
  <2>6. torn' = [torn EXCEPT ![r] = torn[r]] \/ torn' = [torn EXCEPT ![r] = TRUE]
    BY <1>2, <1>a DEF MarkFails, KeyTypes
  <2> HIDE DEF key, r
  <2>7. KeysOK(r \in KeepsState, started[r], known[r], file[r] \cup {key}, garbled[r], repeated[r])
    BY <2>3 DEF KeysOK
  <2> QED
    BY <2>1, <2>3, <2>4, <2>5, <2>6, <2>7, OneAgentStep
<1>3. ASSUME NEW r \in Runner, Restart(r) PROVE KeysInv'
  <2>1. KeysOK(r \in KeepsState, started[r], known[r], file[r], garbled[r], repeated[r])
    BY DEF KeysInv
  <2>2. garbled' = [garbled EXCEPT ![r] = garbled[r]]
    BY <1>3, <1>a DEF Restart, KeyTypes
  <2>3. CASE r \in KeepsState
    <3>1. /\ started' = [started EXCEPT ![r] = started[r]]
          /\ known' = [known EXCEPT ![r] = file[r]]
          /\ file' = [file EXCEPT ![r] = file[r]] /\ torn' = [torn EXCEPT ![r] = torn[r]]
          /\ repeated' = [repeated EXCEPT ![r] = repeated[r]]
      BY <1>3, <1>a, <2>3 DEF Restart, KeyTypes
    <3>2. KeysOK(r \in KeepsState, started[r], file[r], file[r], garbled[r], repeated[r])
      BY <2>1, <2>3 DEF KeysOK
    <3> QED
      BY <2>2, <3>1, <3>2, OneAgentStep
  <2>4. CASE r \notin KeepsState
    <3>1. /\ started' = [started EXCEPT ![r] = {}] /\ known' = [known EXCEPT ![r] = {}]
          /\ file' = [file EXCEPT ![r] = {}] /\ torn' = [torn EXCEPT ![r] = FALSE]
          /\ repeated' = [repeated EXCEPT ![r] = {}]
      BY <1>3, <2>4 DEF Restart
    <3>2. KeysOK(r \in KeepsState, {}, {}, {}, garbled[r], {})
      BY DEF KeysOK
    <3> QED
      BY <2>2, <3>1, <3>2, OneAgentStep
  <2> QED
    BY <2>3, <2>4
<1>4. CASE UNCHANGED keyVars
  BY <1>4 DEF keyVars, KeysInv, KeyTypes
<1>5. UNCHANGED vars => UNCHANGED keyVars
  BY DEF vars, agentVars, history, keyVars
<1> QED
  BY <1>1, <1>2, <1>3, <1>4, <1>5, KeysUntouched

\* A running agent knows the keys it has executed, and a state directory that
\* outlives a restart holds them, except those written behind a torn line.
THEOREM KeysRemembered == RunnerSpec => []KeysInv
  BY KeysInit, KeysStep, PTL DEF RunnerSpec

\* An agent that keeps its state directory executes no key again, whatever
\* crashes, restarts and redeliveries there are, except a garbled one.
THEOREM NoKeyRunsTwice == RunnerSpec => []RepeatsOnlyGarbled
<1>1. KeysInv => RepeatsOnlyGarbled
  BY DEF KeysInv, KeysOK, RepeatsOnlyGarbled
<1> QED
  BY <1>1, KeysRemembered, PTL

-----------------------------------------------------------------------------
\* The job tables under the runner protocol.

\* The conclusions a row may hold, the rows, the entries and the states of a slot.
Outcome == Results \cup {NoRest, "cancelled", ""}

ProtocolRow ==
  [status : {"queued", "in_progress", "completed"}, attempt : Nat,
   runner : Runner \cup {NoRunner}, setup : BOOLEAN, queued : BOOLEAN, rest : Outcome]

ProtocolEntry ==
  [state : {"absent", "queued", "leased"}, attempt : Nat, runner : Runner \cup {NoRunner},
   queuedAt : Nat, ready : BOOLEAN, expired : BOOLEAN]

SlotState ==
  [at : {"idle", "got", "running", "reporting", "awaiting", "releasing"}, job : Job \cup {NoSlotJob},
   attempt : Nat, lost : BOOLEAN, result : Results \cup {""}]

\* The rows of one job: an entry is of a job that has not ended.
RowsFit(job, entry) ==
  /\ job \in ProtocolRow /\ entry \in ProtocolEntry
  /\ entry.state # "absent" => job.status # "completed"

TablesInv ==
  /\ jobs = [j \in Job |-> jobs[j]] /\ queue = [j \in Job |-> queue[j]]
  /\ \A j \in Job : RowsFit(jobs[j], queue[j])
  /\ \A c \in reaping : c.job \in Job /\ c.row \in ProtocolRow

SlotsInv ==
  /\ slot \in [Slot -> SlotState]
  /\ \A s \in Slot : slot[s].at # "idle" => slot[s].job \in Job

\* The reports holdsJob has let in are of jobs.
ReportsInv == \A c \in completing : c.slot \in Slot /\ c.job \in Job /\ c.result \in Results \cup {""}

\* The types of the protocol's state, and that an entry is of a job under way
\* and a busy slot has a job.
ProtocolInv == TablesInv /\ SlotsInv /\ ReportsInv

\* What a step may make of an entry: a lease is what it was, or is new to a
\* runner and on a queued entry.
Follows(old, new) ==
  new.state = "leased" => \/ old.state = "queued" /\ new.runner \in Runner
                          \/ old.state = "leased" /\ new.runner = old.runner

LEMMA RowRequeued ==
  ASSUME NEW row \in ProtocolRow
  PROVE  /\ BackToQueue(row) \in ProtocolRow /\ BackToQueue(row).status = "queued"
         /\ NextAttempt(row) \in ProtocolRow /\ NextAttempt(row).status = "queued"
<1>1. BackToQueue(row) \in ProtocolRow /\ BackToQueue(row).status = "queued"
  BY DEF ProtocolRow, BackToQueue
<1>2. NoRest \in Outcome
  BY DEF Outcome
<1>3. NextAttempt(row) \in ProtocolRow /\ NextAttempt(row).status = "queued"
  <2>1. row.attempt + 1 \in Nat
    BY DEF ProtocolRow
  <2>2. NextAttempt(row) = [status |-> "queued", attempt |-> row.attempt + 1,
                            runner |-> NoRunner, setup |-> FALSE, queued |-> TRUE, rest |-> NoRest]
    <3>1. NextAttempt(row) = [row EXCEPT !.status = "queued", !.attempt = row.attempt + 1,
             !.runner = NoRunner, !.setup = FALSE, !.queued = TRUE, !.rest = NoRest]
      BY DEF NextAttempt
    <3>2. row = [status |-> row.status, attempt |-> row.attempt, runner |-> row.runner,
                 setup |-> row.setup, queued |-> row.queued, rest |-> row.rest]
      BY DEF ProtocolRow
    <3> QED
      BY <3>1, <3>2
  <2> QED
    BY <1>2, <2>1, <2>2 DEF ProtocolRow
<1> QED
  BY <1>1, <1>3

LEMMA RowDispatched ==
  ASSUME NEW row \in ProtocolRow, NEW r \in Runner
  PROVE  RunningOn(r, row) \in ProtocolRow /\ RunningOn(r, row).status = "in_progress"
  BY DEF ProtocolRow, RunningOn

LEMMA RowConcluded ==
  ASSUME NEW row \in ProtocolRow, NEW rest \in Outcome
  PROVE  Concluded(row, rest) \in ProtocolRow /\ Concluded(row, rest).status = "completed"
  BY DEF ProtocolRow, Concluded

LEMMA EntryLeased ==
  ASSUME NEW entry \in ProtocolEntry, NEW r \in Runner
  PROVE  /\ LeasedTo(r, entry) \in ProtocolEntry /\ LeasedTo(r, entry).state = "leased"
         /\ LeasedTo(r, entry).runner = r
  BY DEF ProtocolEntry, LeasedTo

LEMMA EntryUnleased ==
  ASSUME NEW entry \in ProtocolEntry
  PROVE  Unleased(entry) \in ProtocolEntry /\ Unleased(entry).state = "queued"
  BY DEF ProtocolEntry, Unleased

LEMMA EntryFlagged ==
  ASSUME NEW entry \in ProtocolEntry, NEW b \in BOOLEAN
  PROVE  /\ [entry EXCEPT !.expired = b] \in ProtocolEntry
         /\ [entry EXCEPT !.expired = b].state = entry.state
         /\ [entry EXCEPT !.expired = b].runner = entry.runner
         /\ [entry EXCEPT !.ready = b] \in ProtocolEntry
         /\ [entry EXCEPT !.ready = b].state = entry.state
         /\ [entry EXCEPT !.ready = b].runner = entry.runner
  BY DEF ProtocolEntry

LEMMA EntryAbsent == AbsentEntry \in ProtocolEntry /\ AbsentEntry.state = "absent"
  BY DEF ProtocolEntry, AbsentEntry

\* A fresh entry is queued.
LEMMA EntryFresh ==
  ASSUME NEW a \in Nat
  PROVE  /\ [AbsentEntry EXCEPT !.state = "queued", !.attempt = a, !.ready = TRUE] \in ProtocolEntry
         /\ [AbsentEntry EXCEPT !.state = "queued", !.attempt = a, !.ready = TRUE].state = "queued"
         /\ [AbsentEntry EXCEPT !.state = "queued", !.attempt = a] \in ProtocolEntry
         /\ [AbsentEntry EXCEPT !.state = "queued", !.attempt = a].state = "queued"
  BY DEF ProtocolEntry, AbsentEntry

\* A step that writes the rows of one job is a step of the lease queue.
LEMMA OneJobWritten ==
  ASSUME TablesInv, NEW k \in Job, NEW job, NEW entry,
         jobs' = [jobs EXCEPT ![k] = job], queue' = [queue EXCEPT ![k] = entry],
         RowsFit(job, entry), Follows(queue[k], entry),
         \A c \in reaping' : c.job \in Job /\ c.row \in ProtocolRow
  PROVE  TablesInv' /\ [LQ!Next]_Holder
<1>1. TablesInv'
  <2>1. jobs' = [j \in Job |-> jobs'[j]] /\ queue' = [j \in Job |-> queue'[j]]
    BY DEF TablesInv
  <2>2. ASSUME NEW j \in Job PROVE RowsFit(jobs'[j], queue'[j])
    <3>1. CASE j = k
      BY <3>1 DEF TablesInv
    <3>2. CASE j # k
      <4>1. jobs'[j] = jobs[j] /\ queue'[j] = queue[j]
        BY <3>2 DEF TablesInv
      <4> QED
        BY <4>1 DEF TablesInv
    <3> QED
      BY <3>1, <3>2
  <2> QED
    BY <2>1, <2>2 DEF TablesInv
<1>2. [LQ!Next]_Holder
  <2> DEFINE value == IF entry.state = "absent" THEN "out"
                      ELSE IF entry.state = "leased" THEN entry.runner ELSE "waiting"
  <2>1. queue = [j \in Job |-> queue[j]] /\ queue'[k] = entry
    BY DEF TablesInv
  <2>2. Holder' = [Holder EXCEPT ![k] = value]
    BY <2>1 DEF Holder, InQueue, Leased
  <2>3. Holder[k] = IF queue[k].state = "absent" THEN "out"
                    ELSE IF queue[k].state = "leased" THEN queue[k].runner ELSE "waiting"
    BY DEF Holder, InQueue, Leased
  <2>4. Holder = [j \in Job |-> Holder[j]]
    BY DEF Holder
  <2>5. entry.state \in {"absent", "queued", "leased"}
    BY DEF RowsFit, ProtocolEntry
  <2>6. CASE entry.state = "absent"
    BY <2>2, <2>6 DEF LQ!Next, LQ!Leave
  <2>7. CASE entry.state = "queued"
    <3>1. Holder' = [j \in Job |-> IF j \in {k} THEN "waiting" ELSE Holder[j]]
      BY <2>2, <2>4, <2>7
    <3>2. {k} \in SUBSET Job
      OBVIOUS
    <3> QED
      BY <3>1, <3>2 DEF LQ!Next, LQ!Offer
  <2>8. CASE entry.state = "leased" /\ queue[k].state = "leased"
    <3>1. value = Holder[k]
      BY <2>3, <2>8 DEF Follows
    <3> QED
      BY <2>2, <2>4, <3>1
  <2>9. CASE entry.state = "leased" /\ queue[k].state # "leased"
    <3>1. queue[k].state = "queued" /\ entry.runner \in Runner
      BY <2>9 DEF Follows
    <3>2. Holder[k] = "waiting" /\ Holder' = [Holder EXCEPT ![k] = entry.runner]
      BY <2>2, <2>3, <2>9, <3>1
    <3> QED
      BY <3>1, <3>2 DEF LQ!Next, LQ!Claim
  <2> QED
    BY <2>5, <2>6, <2>7, <2>8, <2>9
<1> QED
  BY <1>1, <1>2

\* A step that writes no row.
LEMMA NoRowWritten ==
  ASSUME TablesInv, UNCHANGED <<jobs, queue, reaping>>
  PROVE  TablesInv' /\ [LQ!Next]_Holder
  BY DEF TablesInv, Holder, InQueue, Leased

LEMMA TablesInit == Init => TablesInv
<1> SUFFICES ASSUME Init PROVE TablesInv
  OBVIOUS
<1>1. ASSUME NEW j \in Job PROVE RowsFit(jobs[j], queue[j])
  <2>1. NewJob \in ProtocolRow /\ NewJob.status = "queued"
    BY DEF NewJob, ProtocolRow, Outcome
  <2>2. jobs[j] = NewJob
    BY DEF Init
  <2>3. queue[j] = [AbsentEntry EXCEPT !.state = "queued", !.attempt = 1, !.ready = TRUE]
    BY DEF Init
  <2> QED
    <3>1. 1 \in Nat
      OBVIOUS
    <3> QED
      BY <2>1, <2>2, <2>3, <3>1, EntryFresh DEF RowsFit
<1> QED
  BY <1>1 DEF Init, TablesInv

\* Every step keeps the rows in order and is a step of the lease queue.
LEMMA TablesStep == ProtocolInv /\ [Next]_vars => TablesInv' /\ [LQ!Next]_Holder
<1> SUFFICES ASSUME ProtocolInv, [Next]_vars PROVE TablesInv' /\ [LQ!Next]_Holder
  OBVIOUS
<1> USE DEF vars, storeVars, agentVars, history
<1>a. /\ jobs = [j \in Job |-> jobs[j]] /\ queue = [j \in Job |-> queue[j]]
      /\ \A j \in Job : RowsFit(jobs[j], queue[j])
      /\ \A j \in Job : jobs[j] \in ProtocolRow /\ queue[j] \in ProtocolEntry
      /\ \A c \in reaping : c.job \in Job /\ c.row \in ProtocolRow
  BY DEF ProtocolInv, TablesInv, RowsFit
<1>b. TablesInv /\ SlotsInv
  BY DEF ProtocolInv
<1>1. ASSUME NEW r \in Runner, NEW j \in Job, Dequeue(r, j), UNCHANGED reaping
      PROVE  TablesInv' /\ [LQ!Next]_Holder
  <2>1. /\ jobs' = [jobs EXCEPT ![j] = RunningOn(r, jobs[j])]
        /\ queue' = [queue EXCEPT ![j] = LeasedTo(r, queue[j])]
        /\ queue[j].state = "queued"
    BY <1>1, <1>a DEF Dequeue, Eligible
  <2>2. RowsFit(RunningOn(r, jobs[j]), LeasedTo(r, queue[j]))
    BY <1>a, RowDispatched, EntryLeased DEF RowsFit
  <2>3. Follows(queue[j], LeasedTo(r, queue[j]))
    BY <1>a, <2>1, EntryLeased DEF Follows
  <2> QED
    BY <1>1, <1>a, <2>1, <2>2, <2>3, <1>b, OneJobWritten
<1>2. ASSUME NEW j \in Job, UNCHANGED <<jobs, reaping>>,
             \E b \in BOOLEAN : \/ queue' = [queue EXCEPT ![j] = [queue[j] EXCEPT !.expired = b]]
                                \/ queue' = [queue EXCEPT ![j] = [queue[j] EXCEPT !.ready = b]]
      PROVE  TablesInv' /\ [LQ!Next]_Holder
  <2>1. PICK entry : /\ queue' = [queue EXCEPT ![j] = entry] /\ entry \in ProtocolEntry
                     /\ entry.state = queue[j].state /\ entry.runner = queue[j].runner
    <3>1. queue[j] \in ProtocolEntry
      BY <1>a
    <3>2. PICK b \in BOOLEAN : \/ queue' = [queue EXCEPT ![j] = [queue[j] EXCEPT !.expired = b]]
                              \/ queue' = [queue EXCEPT ![j] = [queue[j] EXCEPT !.ready = b]]
      BY <1>2
    <3>3. CASE queue' = [queue EXCEPT ![j] = [queue[j] EXCEPT !.expired = b]]
      BY <3>1, <3>3, EntryFlagged
    <3>4. CASE queue' = [queue EXCEPT ![j] = [queue[j] EXCEPT !.ready = b]]
      BY <3>1, <3>4, EntryFlagged
    <3> QED
      BY <3>2, <3>3, <3>4
  <2>2. RowsFit(jobs[j], entry) /\ Follows(queue[j], entry)
    BY <1>a, <2>1 DEF RowsFit, Follows
  <2>3. jobs' = [jobs EXCEPT ![j] = jobs[j]]
    BY <1>2, <1>a
  <2> QED
    BY <1>2, <1>a, <2>1, <2>2, <2>3, <1>b, OneJobWritten
<1>3. ASSUME NEW s \in Slot, NEW j \in Job, Acquire(s, j) \/ AcquireLost(s, j)
      PROVE  TablesInv' /\ [LQ!Next]_Holder
  <2>1. RunnerOf[s] \in Runner /\ Dequeue(RunnerOf[s], j) /\ UNCHANGED reaping
    BY <1>3, SlotAssumption DEF Acquire, AcquireLost
  <2> QED
    BY <1>1, <2>1
<1>4. ASSUME NEW s \in Slot,
             \/ Refuse(s) \/ Start(s) \/ MarkFails(s) \/ HeartbeatLost(s) \/ Abandon(s)
             \/ ShutDown(s) \/ GiveUp(s) \/ Complete(s) \/ ConnectionLost(s)
             \/ \E result \in Results : Finish(s, result)
      PROVE  TablesInv' /\ [LQ!Next]_Holder
  <2>1. UNCHANGED <<jobs, queue, reaping>>
    BY <1>4 DEF Refuse, Start, MarkFails, HeartbeatLost, Abandon, ShutDown, GiveUp, Complete,
                ConnectionLost, Finish
  <2> QED
    BY <2>1, <1>b, NoRowWritten
<1>5. ASSUME NEW s \in Slot, HeartbeatHeld(s) PROVE TablesInv' /\ [LQ!Next]_Holder
  <2> DEFINE j == slot[s].job
  <2>1. /\ UNCHANGED <<jobs, reaping>>
        /\ queue' = [queue EXCEPT ![j] = [queue[j] EXCEPT !.expired = FALSE]]
    BY <1>5, <1>a DEF HeartbeatHeld, Heartbeat
  <2>2. CASE j \in Job
    BY <1>2, <2>1, <2>2
  <2>3. CASE j \notin Job
    <3>1. queue' = queue
      BY <1>a, <2>1, <2>3
    <3> QED
      BY <2>1, <3>1, <1>b, NoRowWritten
  <2> QED
    BY <2>2, <2>3
<1>6. ASSUME NEW j \in Job, NEW rest \in Outcome, UpdateJob(j, Concluded(jobs[j], rest)), UNCHANGED reaping
      PROVE  TablesInv' /\ [LQ!Next]_Holder
  <2> DEFINE job == Concluded(jobs[j], rest)
  <2>1. job \in ProtocolRow /\ job.status = "completed"
    BY <1>a, RowConcluded
  <2>2. jobs' = [jobs EXCEPT ![j] = job] /\ queue' = [queue EXCEPT ![j] = AbsentEntry]
    BY <1>6, <1>a, <2>1 DEF UpdateJob
  <2> HIDE DEF job
  <2>3. RowsFit(job, AbsentEntry) /\ Follows(queue[j], AbsentEntry)
    BY <2>1, EntryAbsent DEF RowsFit, Follows
  <2> QED
    BY <1>6, <1>a, <2>2, <2>3, <1>b, OneJobWritten
<1>7. ASSUME NEW j \in Job, Requeue(j), UNCHANGED reaping PROVE TablesInv' /\ [LQ!Next]_Holder
  <2> DEFINE entry == [AbsentEntry EXCEPT !.state = "queued", !.attempt = jobs[j].attempt + 1]
  <2>1. jobs' = [jobs EXCEPT ![j] = NextAttempt(jobs[j])] /\ queue' = [queue EXCEPT ![j] = entry]
    BY <1>7, <1>a DEF Requeue
  <2>2. entry \in ProtocolEntry /\ entry.state = "queued"
    <3>1. jobs[j].attempt + 1 \in Nat
      BY <1>a DEF ProtocolRow
    <3> QED
      BY <3>1, EntryFresh
  <2> HIDE DEF entry
  <2>3. RowsFit(NextAttempt(jobs[j]), entry) /\ Follows(queue[j], entry)
    BY <1>a, <2>2, RowRequeued DEF RowsFit, Follows
  <2> QED
    BY <1>7, <1>a, <2>1, <2>3, <1>b, OneJobWritten
<1>8. ASSUME NEW c \in completing, JobCompletedAt(c) PROVE TablesInv' /\ [LQ!Next]_Holder
  <2>1. UNCHANGED reaping /\ JobCompleted(c.job, c.result)
    BY <1>8 DEF JobCompletedAt
  <2>2. c.job \in Job /\ c.result \in Outcome
    BY <1>8 DEF ProtocolInv, ReportsInv, Outcome
  <2>3. \/ UNCHANGED <<jobs, queue>> \/ Requeue(c.job)
        \/ UpdateJob(c.job, Concluded(jobs[c.job], c.result))
    BY <2>1 DEF JobCompleted
  <2> QED
    BY <1>6, <1>7, <2>1, <2>2, <2>3, <1>b, NoRowWritten
<1>9. ASSUME NEW s \in Slot, Release(s) PROVE TablesInv' /\ [LQ!Next]_Holder
  <2> DEFINE j == slot[s].job
  <2>1. UNCHANGED reaping /\ (ReleaseLease(RunnerOf[s], j) \/ UNCHANGED <<jobs, queue>>)
    BY <1>9 DEF Release
  <2>2. CASE j \notin Job
    <3>1. UNCHANGED <<jobs, queue>>
      BY <1>a, <2>1, <2>2 DEF ReleaseLease
    <3> QED
      BY <2>1, <3>1, <1>b, NoRowWritten
  <2>3. CASE j \in Job /\ ReleaseLease(RunnerOf[s], j)
    <3>1. /\ jobs' = [jobs EXCEPT ![j] = BackToQueue(jobs[j])]
          /\ queue' = [queue EXCEPT ![j] = Unleased(queue[j])]
      BY <1>a, <2>3 DEF ReleaseLease
    <3>2. RowsFit(BackToQueue(jobs[j]), Unleased(queue[j]))
      BY <1>a, <2>3, RowRequeued, EntryUnleased DEF RowsFit
    <3>3. Follows(queue[j], Unleased(queue[j]))
      BY <1>a, <2>3, EntryUnleased DEF Follows
    <3> QED
      BY <1>a, <2>1, <2>3, <3>1, <3>2, <3>3, <1>b, OneJobWritten
  <2> QED
    BY <2>1, <2>2, <2>3, <1>b, NoRowWritten
<1>10. ASSUME NEW j \in Job, LeaseExpires(j) \/ BackoffEnds(j) PROVE TablesInv' /\ [LQ!Next]_Holder
  <2>1. /\ UNCHANGED <<jobs, reaping>>
        /\ \/ queue' = [queue EXCEPT ![j] = [queue[j] EXCEPT !.expired = TRUE]]
           \/ queue' = [queue EXCEPT ![j] = [queue[j] EXCEPT !.ready = TRUE]]
    BY <1>10, <1>a DEF LeaseExpires, LeaseRunsOut, BackoffEnds, BackoffRunsOut
  <2> QED
    BY <1>2, <2>1
<1>11. ASSUME NEW j \in Job, CancelJob(j) PROVE TablesInv' /\ [LQ!Next]_Holder
  BY <1>6, <1>11 DEF CancelJob, Outcome
<1>12. ASSUME Reap PROVE TablesInv' /\ [LQ!Next]_Holder
  <2>1. /\ queue' = [j \in Job |-> IF j \in ExpiredLeases THEN Unleased(queue[j]) ELSE queue[j]]
        /\ jobs' = [j \in Job |-> IF j \in ExpiredLeases THEN BackToQueue(jobs[j]) ELSE jobs[j]]
        /\ reaping' = {[job |-> j, row |-> BackToQueue(jobs[j])] : j \in ExpiredLeases}
    BY <1>12 DEF Reap, ReapExpiredLeases
  <2>2. ExpiredLeases \in SUBSET Job
    BY DEF ExpiredLeases
  <2>3. ASSUME NEW j \in Job PROVE RowsFit(jobs'[j], queue'[j])
    <3>1. RowsFit(jobs[j], queue[j]) /\ RowsFit(BackToQueue(jobs[j]), Unleased(queue[j]))
      BY <1>a, RowRequeued, EntryUnleased DEF RowsFit
    <3> QED
      BY <2>1, <3>1
  <2>4. ASSUME NEW c \in reaping' PROVE c.job \in Job /\ c.row \in ProtocolRow
    <3>1. PICK j \in ExpiredLeases : c = [job |-> j, row |-> BackToQueue(jobs[j])]
      BY <2>1, <2>4
    <3> QED
      BY <1>a, <2>2, <3>1, RowRequeued
  <2>5. TablesInv'
    BY <2>1, <2>3, <2>4 DEF TablesInv
  <2>6. \A j \in Job : Unleased(queue[j]).state = "queued"
    BY <1>a, EntryUnleased
  <2>7. Holder' = [j \in Job |-> IF j \in ExpiredLeases THEN "waiting" ELSE Holder[j]]
    BY <2>1, <2>6 DEF Holder, InQueue, Leased
  <2>8. LQ!Next
    BY <2>2, <2>7 DEF LQ!Next, LQ!Offer
  <2> QED
    BY <2>5, <2>8
<1>13. ASSUME NEW c \in reaping, ReapNext(c) PROVE TablesInv' /\ [LQ!Next]_Holder
  <2> DEFINE j == c.job
             fresh == [AbsentEntry EXCEPT !.state = "queued", !.attempt = c.row.attempt + 1,
                                          !.ready = TRUE]
             entry == IF InQueue(j) THEN queue[j] ELSE fresh
  <2>1. j \in Job /\ c.row \in ProtocolRow
    BY <1>a, <1>13
  <2>2. /\ jobs' = [jobs EXCEPT ![j] = NextAttempt(c.row)]
        /\ queue' = [queue EXCEPT ![j] = entry]
        /\ \A d \in reaping' : d.job \in Job /\ d.row \in ProtocolRow
    BY <1>13, <1>a DEF ReapNext
  <2>3. fresh \in ProtocolEntry /\ fresh.state = "queued"
    <3>1. c.row.attempt + 1 \in Nat
      BY <2>1 DEF ProtocolRow
    <3> QED
      BY <3>1, EntryFresh
  <2> HIDE DEF fresh
  <2>4. entry \in ProtocolEntry /\ Follows(queue[j], entry)
    BY <1>a, <2>1, <2>3 DEF Follows, InQueue, ProtocolEntry
  <2>5. RowsFit(NextAttempt(c.row), entry)
    BY <2>1, <2>4, RowRequeued DEF RowsFit
  <2> HIDE DEF entry, j
  <2> QED
    BY <2>1, <2>2, <2>4, <2>5, <1>b, OneJobWritten
<1>14. ASSUME NEW r \in Runner, Stop(r) \/ Stopped(r) \/ Crash(r) \/ Restart(r)
       PROVE  TablesInv' /\ [LQ!Next]_Holder
  <2>1. UNCHANGED <<jobs, queue, reaping>>
    BY <1>14 DEF Stop, Stopped, Crash, Restart
  <2> QED
    BY <2>1, <1>b, NoRowWritten
<1>15. CASE Done \/ UNCHANGED vars
  BY <1>15, <1>b, NoRowWritten DEF Done
<1> QED
  BY <1>3, <1>4, <1>5, <1>8, <1>9, <1>10, <1>11, <1>12, <1>13, <1>14, <1>15 DEF Next

LEMMA SlotsInit == Init => SlotsInv
<1>1. Idle \in SlotState /\ Idle.at = "idle"
  BY DEF Idle, SlotState
<1> QED
  BY <1>1 DEF Init, SlotsInv

\* What the agents do to a slot leaves it a slot.
LEMMA SlotsStep == ProtocolInv /\ [Next]_vars => SlotsInv'
<1> SUFFICES ASSUME ProtocolInv, [Next]_vars PROVE SlotsInv'
  OBVIOUS
<1> USE DEF vars, agentVars
<1>a. /\ slot \in [Slot -> SlotState] /\ jobs \in [Job -> ProtocolRow]
      /\ \A s \in Slot : slot[s].at # "idle" => slot[s].job \in Job
  BY DEF ProtocolInv, TablesInv, RowsFit, SlotsInv
<1>b. Idle \in SlotState /\ Idle.at = "idle"
  BY DEF Idle, SlotState
<1>1. ASSUME NEW s \in Slot, NEW new \in SlotState, slot' = [slot EXCEPT ![s] = new],
             new.at # "idle" => new.job \in Job
      PROVE  SlotsInv'
  BY <1>1, <1>a DEF SlotsInv
<1>2. ASSUME NEW s \in Slot, NEW j \in Job, Acquire(s, j) PROVE SlotsInv'
  <2> DEFINE new == [Idle EXCEPT !.at = "got", !.job = j, !.attempt = jobs[j].attempt]
  <2>1. jobs[j].attempt \in Nat
    BY <1>a DEF ProtocolRow
  <2>2. new \in SlotState /\ new.job = j
    BY <2>1 DEF SlotState, Idle
  <2>3. slot' = [slot EXCEPT ![s] = new]
    BY <1>2 DEF Acquire
  <2> HIDE DEF new
  <2> QED
    BY <1>1, <2>2, <2>3
<1>3. ASSUME NEW s \in Slot, slot[s].at # "idle",
             NEW phase \in {"running", "reporting", "awaiting", "releasing"},
             Goes(s, phase)
      PROVE  SlotsInv'
  <2>1. slot' = [slot EXCEPT ![s] = [slot[s] EXCEPT !.at = phase]]
    BY <1>3, <1>a DEF Goes
  <2>2. /\ [slot[s] EXCEPT !.at = phase] \in SlotState
        /\ [slot[s] EXCEPT !.at = phase].job = slot[s].job
    BY <1>a DEF SlotState
  <2> QED
    BY <1>a, <1>1, <1>3, <2>1, <2>2
<1>4. ASSUME NEW s \in Slot, Refuse(s) \/ Start(s) \/ MarkFails(s) \/ ShutDown(s) PROVE SlotsInv'
  BY <1>3, <1>4 DEF Refuse, Start, MarkFails, ShutDown
<1>5. ASSUME NEW s \in Slot, Ends(s) PROVE SlotsInv'
  BY <1>1, <1>5, <1>b DEF Ends
<1>6. ASSUME UNCHANGED slot PROVE SlotsInv'
  BY <1>6, <1>a DEF SlotsInv
<1>7. ASSUME NEW s \in Slot,
             Abandon(s) \/ GiveUp(s) \/ Complete(s) \/ ConnectionLost(s) \/ Release(s)
      PROVE  SlotsInv'
  BY <1>3, <1>5, <1>6, <1>7
     DEF Abandon, GiveUp, Complete, ConnectionLost, Release, Answered, AnswerLost
<1>16. ASSUME NEW c \in completing, JobCompletedAt(c) PROVE SlotsInv'
  <2>1. c.slot \in Slot
    BY <1>16 DEF ProtocolInv, ReportsInv
  <2> QED
    BY <1>3, <1>5, <1>6, <1>16, <2>1 DEF JobCompletedAt, Awaits
<1>8. ASSUME NEW s \in Slot, HeartbeatLost(s) PROVE SlotsInv'
  <2>1. slot' = [slot EXCEPT ![s] = [slot[s] EXCEPT !.lost = TRUE]] /\ slot[s].at = "running"
    BY <1>8, <1>a DEF HeartbeatLost
  <2>2. /\ [slot[s] EXCEPT !.lost = TRUE] \in SlotState
        /\ [slot[s] EXCEPT !.lost = TRUE].job = slot[s].job
    BY <1>a DEF SlotState
  <2> QED
    BY <1>a, <1>1, <2>1, <2>2
<1>9. ASSUME NEW s \in Slot, NEW result \in Results, Finish(s, result) PROVE SlotsInv'
  <2> DEFINE new == [slot[s] EXCEPT !.at = "reporting", !.result = result]
  <2>1. slot' = [slot EXCEPT ![s] = new] /\ slot[s].at = "running"
    BY <1>9, <1>a DEF Finish
  <2>2. new \in SlotState /\ new.job = slot[s].job
    BY <1>a DEF SlotState
  <2> HIDE DEF new
  <2> QED
    BY <1>a, <1>1, <2>1, <2>2
<1>10. ASSUME NEW r \in Runner, Crash(r) PROVE SlotsInv'
  BY <1>10, <1>a, <1>b DEF Crash, SlotsInv
<1>11. ASSUME NEW s \in Slot, NEW j \in Job, AcquireLost(s, j) \/ HeartbeatHeld(s) PROVE SlotsInv'
  BY <1>6, <1>11 DEF AcquireLost, HeartbeatHeld
<1>12. ASSUME NEW s \in Slot, HeartbeatHeld(s) PROVE SlotsInv'
  BY <1>6, <1>12 DEF HeartbeatHeld
<1>13. ASSUME NEW j \in Job, LeaseExpires(j) \/ BackoffEnds(j) \/ CancelJob(j) PROVE SlotsInv'
  BY <1>6, <1>13 DEF LeaseExpires, BackoffEnds, CancelJob
<1>14. ASSUME Reap \/ (\E c \in reaping : ReapNext(c)) \/ Done \/ UNCHANGED vars PROVE SlotsInv'
  BY <1>6, <1>14 DEF Reap, ReapNext, Done
<1>15. ASSUME NEW r \in Runner, Stop(r) \/ Stopped(r) \/ Restart(r) PROVE SlotsInv'
  BY <1>6, <1>15 DEF Stop, Stopped, Restart
<1> QED
  BY <1>2, <1>4, <1>7, <1>8, <1>9, <1>10, <1>11, <1>12, <1>13, <1>14, <1>15, <1>16 DEF Next

\* A report is let in from a slot that has a job.
LEMMA ReportsStep == ProtocolInv /\ [Next]_vars => ReportsInv'
<1> SUFFICES ASSUME ProtocolInv, [Next]_vars PROVE ReportsInv'
  OBVIOUS
<1> USE DEF vars, agentVars
<1>1. ASSUME completing' \subseteq completing PROVE ReportsInv'
  BY <1>1 DEF ProtocolInv, ReportsInv
<1>2. ASSUME NEW s \in Slot, Complete(s) PROVE ReportsInv'
  <2>1. slot[s] \in SlotState /\ slot[s].job \in Job
    BY <1>2 DEF Complete, ProtocolInv, SlotsInv
  <2>2. ReportOf(s).slot = s /\ ReportOf(s).job \in Job /\ ReportOf(s).result \in Results \cup {""}
    BY <2>1 DEF ReportOf, SlotState
  <2>3. completing' \subseteq completing \cup {ReportOf(s)}
    BY <1>2 DEF Complete
  <2> QED
    BY <2>2, <2>3 DEF ProtocolInv, ReportsInv
<1>3. ASSUME NEW s \in Slot,
             \/ Refuse(s) \/ Start(s) \/ MarkFails(s) \/ HeartbeatHeld(s) \/ HeartbeatLost(s)
             \/ Abandon(s) \/ ShutDown(s) \/ GiveUp(s) \/ ConnectionLost(s) \/ Release(s)
             \/ \E result \in Results : Finish(s, result)
             \/ \E j \in Job : Acquire(s, j) \/ AcquireLost(s, j)
      PROVE  completing' \subseteq completing
  BY <1>3 DEF Refuse, Start, MarkFails, HeartbeatHeld, HeartbeatLost, Abandon, ShutDown, GiveUp,
              ConnectionLost, Release, Finish, Acquire, AcquireLost
<1>4. ASSUME \/ \E j \in Job : LeaseExpires(j) \/ BackoffEnds(j) \/ CancelJob(j)
             \/ Reap \/ (\E c \in reaping : ReapNext(c)) \/ Done \/ UNCHANGED vars
             \/ \E c \in completing : JobCompletedAt(c)
             \/ \E r \in Runner : Stop(r) \/ Stopped(r) \/ Crash(r) \/ Restart(r)
      PROVE  completing' \subseteq completing
  BY <1>4 DEF LeaseExpires, BackoffEnds, CancelJob, Reap, ReapNext, Done, JobCompletedAt,
              Stop, Stopped, Crash, Restart
<1> QED
  BY <1>1, <1>2, <1>3, <1>4 DEF Next

\* The rows, entries, copies and slots of the protocol keep their types; an
\* entry of the queue is of a job under way, and a busy slot has a job.
THEOREM ProtocolTyped == RunnerSpec => []ProtocolInv
<1>1. Init => ProtocolInv
  <2>1. Init => ReportsInv
    BY DEF Init, ReportsInv
  <2> QED
    BY <2>1, TablesInit, SlotsInit DEF ProtocolInv
<1>2. ProtocolInv /\ [Next]_vars => ProtocolInv'
  BY TablesStep, SlotsStep, ReportsStep DEF ProtocolInv
<1> QED
  BY <1>1, <1>2, PTL DEF RunnerSpec

\* The runner API, the agents' faults and the reaper in two transactions leave
\* no completed job in the queue.
THEOREM ProtocolQueuesNoEnded == RunnerSpec => []CompletedNotDispatchable
<1>1. ProtocolInv => CompletedNotDispatchable
  BY DEF ProtocolInv, TablesInv, RowsFit, ProtocolRow, CompletedNotDispatchable, InQueue
<1> QED
  BY <1>1, ProtocolTyped, PTL

\* Under the runner API, too, a lease is handed out of the queue and never from
\* one runner to another, whatever is lost, repeated or reaped.
THEOREM ProtocolHandsOutOfQueue == RunnerSpec => [][LQ!Next]_Holder
<1>1. ProtocolInv /\ [Next]_vars => [LQ!Next]_Holder
  BY TablesStep
<1> QED
  BY <1>1, ProtocolTyped, PTL DEF RunnerSpec

=============================================================================
