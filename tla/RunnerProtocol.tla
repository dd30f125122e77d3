--------------------------- MODULE RunnerProtocol ---------------------------
(***************************************************************************)
(* The runner agent and the job-scoped part of the runner API: poll,       *)
(* idempotency keys, heartbeat, completion and release, over the job store.*)
(*                                                                         *)
(* A slot is one poll loop of an agent.  A request is handled by the       *)
(* control plane while its sender waits, or not at all (then nothing       *)
(* happened and the client repeats it); when only the answer is lost, the  *)
(* client repeats a request that was handled (client.go, post), and after  *)
(* its last attempt it gives up.  The report of a result is two steps: the *)
(* handler asks holdsJob, and JobCompletedAt reads the job again and asks  *)
(* neither for the runner nor for the attempt; a client that goes away in  *)
(* between may leave the handler at work.  The reaping of leases is two    *)
(* steps as well; any other call of the scheduler is one (Scheduler.tla    *)
(* has the steps they consist of).  The rest column of a job is its        *)
(* conclusion.                                                             *)
(*                                                                         *)
(* The cancels map of the server is left out: only tests fill it.  A job   *)
(* an operator cancels leaves the queue, and its runner learns of it as of *)
(* a lost lease.  Logs, steps and annotations have modules of their own.   *)
(***************************************************************************)
EXTENDS JobStore, FiniteSets

CONSTANTS
  Slot,       \* the poll loops of all agents
  RunnerOf,   \* the agent a slot belongs to
  KeepsState, \* the runners whose state directory outlives a restart
  Results,    \* conclusions an execution may end with
  NoSlotJob,  \* "no job" in an idle slot
  MaxFaults   \* bound on crashes, shutdowns, lost answers, lost leases, ill-timed polls

ASSUME SlotAssumption == RunnerOf \in [Slot -> Runner]
ASSUME KeepsStateAssumption == KeepsState \subseteq Runner
ASSUME NoSlotJobAssumption == NoSlotJob \notin Job
ASSUME FaultAssumption == MaxFaults \in Nat

VARIABLES
  agent,    \* per runner: "up", "stopping" (its context is cancelled) or "down"
  known,    \* per runner: KeyStore.keys, the keys it knows it has started
  file,     \* per runner: the whole lines of the key file
  torn,     \* per runner: the key file ends in a part of a line
  slot,     \* per slot: what runJob is doing
  reaping,  \* the rows reapExpiredLeases got back and has not yet written
  completing, \* the reports holdsJob has let in and JobCompletedAt has not seen
  started,  \* per runner: the keys it has executed, for the properties
  repeated, \* per runner: the keys it has executed again
  garbled,  \* per runner: the keys written behind a torn line
  faults    \* how many faults there have been

agentVars == <<agent, known, file, torn, slot>>
history   == <<started, repeated, garbled>>
vars      == <<storeVars, agentVars, reaping, completing, history, faults>>

Idle == [at |-> "idle", job |-> NoSlotJob, attempt |-> 0, lost |-> FALSE, result |-> ""]

KeyOf(s)  == <<slot[s].job, slot[s].attempt>>
Goes(s, phase) == slot' = [slot EXCEPT ![s] = [@ EXCEPT !.at = phase]]

Ends(s) == slot' = [slot EXCEPT ![s] = Idle]
Fault   == faults < MaxFaults /\ faults' = faults + 1

NewJob == [status |-> "queued", attempt |-> 1, runner |-> NoRunner,
           setup |-> FALSE, queued |-> TRUE, rest |-> NoRest]

\* Every job has been admitted; every agent has registered and polls.
Init ==
  /\ jobs = [j \in Job |-> NewJob]
  /\ queue = [j \in Job |-> [AbsentEntry EXCEPT !.state = "queued", !.attempt = 1, !.ready = TRUE]]
  /\ dispatches = [j \in Job |-> [a \in Attempts |-> NoRunner]]
  /\ agent = [r \in Runner |-> "up"]
  /\ known = [r \in Runner |-> {}] /\ file = [r \in Runner |-> {}]
  /\ torn = [r \in Runner |-> FALSE]
  /\ slot = [s \in Slot |-> Idle]
  /\ reaping = {} /\ completing = {}
  /\ started = [r \in Runner |-> {}] /\ repeated = [r \in Runner |-> {}]
  /\ garbled = [r \in Runner |-> {}]
  /\ faults = 0

-----------------------------------------------------------------------------
\* The agent.

\* A poll that falls between the two transactions of reapExpiredLeases is
\* counted as a fault: its execution is of an attempt the second one ends.
PollFault(j) == IF \E c \in reaping : c.job = j THEN Fault ELSE UNCHANGED faults

\* pollLoop acquires a job; the assignment is made from the job row, so its
\* attempt and its key are the row's, whatever the queue entry says.
Acquire(s, j) ==
  /\ slot[s].at = "idle" /\ agent[RunnerOf[s]] = "up"
  /\ FirstFor(RunnerOf[s], j) /\ Dequeue(RunnerOf[s], j)
  /\ slot' = [slot EXCEPT ![s] = [Idle EXCEPT !.at = "got", !.job = j,
                                              !.attempt = jobs[j].attempt]]
  /\ PollFault(j)
  /\ UNCHANGED <<agent, known, file, torn, reaping, completing, history>>

\* The answer to acquire is lost: the lease is held and nobody has the job.
AcquireLost(s, j) ==
  /\ slot[s].at = "idle" /\ agent[RunnerOf[s]] = "up"
  /\ FirstFor(RunnerOf[s], j) /\ Dequeue(RunnerOf[s], j)
  /\ Fault
  /\ UNCHANGED <<agentVars, reaping, completing, history>>

\* runJob refuses a key the agent has started before, and hands the job back.
Refuse(s) ==
  /\ slot[s].at = "got" /\ KeyOf(s) \in known[RunnerOf[s]]
  /\ Goes(s, "releasing")
  /\ UNCHANGED <<storeVars, agent, known, file, torn, reaping, completing, history, faults>>

\* A slip to guard against: the key is remembered and not written down.
MarkInMemory(r, key) ==
  /\ known' = [known EXCEPT ![r] = @ \cup {key}]
  /\ UNCHANGED <<file, torn, garbled>>

\* MarkStarted appends the key to the file and syncs.  Behind a torn line the
\* key makes one line with the part that is there, which is no key at all.
MarkStarted(r, key) ==
  /\ known' = [known EXCEPT ![r] = @ \cup {key}]
  /\ file' = [file EXCEPT ![r] = IF torn[r] THEN @ ELSE @ \cup {key}]
  /\ garbled' = [garbled EXCEPT ![r] = IF torn[r] THEN @ \cup {key} ELSE @]
  /\ torn' = [torn EXCEPT ![r] = FALSE]

\* The key is on disk before anything with a side effect; then the job runs.
Start(s) ==
  LET r == RunnerOf[s] IN
  /\ slot[s].at = "got" /\ KeyOf(s) \notin known[r]
  /\ MarkStarted(r, KeyOf(s))
  /\ Goes(s, "running")
  /\ started' = [started EXCEPT ![r] = @ \cup {KeyOf(s)}]
  /\ repeated' = [repeated EXCEPT ![r] = IF KeyOf(s) \in started[r] THEN @ \cup {KeyOf(s)} ELSE @]
  /\ UNCHANGED <<storeVars, agent, reaping, completing, faults>>

\* MarkStarted fails, having written nothing, a part of the line, or the line
\* without its being synced; the job is handed back.
MarkFails(s) ==
  LET r == RunnerOf[s] IN
  /\ slot[s].at = "got" /\ KeyOf(s) \notin known[r]
  /\ Fault /\ Goes(s, "releasing")
  /\ \/ UNCHANGED <<file, torn, garbled>>
     \/ torn' = [torn EXCEPT ![r] = TRUE] /\ UNCHANGED <<file, garbled>>
     \/ /\ ~torn[r] /\ file' = [file EXCEPT ![r] = @ \cup {KeyOf(s)}]
        /\ UNCHANGED <<torn, garbled>>
  /\ UNCHANGED <<storeVars, agent, known, reaping, completing, started, repeated>>

\* The heartbeat of a running job: the lease is renewed if the runner holds a
\* lease on the job, of whichever attempt; otherwise the agent learns that it
\* lost the lease, cancels the job and sends no further heartbeat.
HeartbeatHeld(s) ==
  /\ slot[s].at = "running" /\ ~slot[s].lost
  /\ Heartbeat(RunnerOf[s], slot[s].job)
  /\ UNCHANGED <<agentVars, reaping, completing, history, faults>>

HeartbeatLost(s) ==
  /\ slot[s].at = "running" /\ ~slot[s].lost
  /\ ~LeasedBy(RunnerOf[s], slot[s].job)
  /\ slot' = [slot EXCEPT ![s] = [@ EXCEPT !.lost = TRUE]]
  /\ UNCHANGED <<storeVars, agent, known, file, torn, reaping, completing, history, faults>>

\* executeJob returns.  A job whose lease is known to be lost is abandoned
\* without a result.
Abandon(s) ==
  /\ slot[s].at = "running" /\ slot[s].lost
  /\ Ends(s)
  /\ UNCHANGED <<storeVars, agent, known, file, torn, reaping, completing, history, faults>>

\* Otherwise its result is reported.  While the agent is stopping this is the
\* job that ended by itself: shuttingDown is read without synchronisation, and
\* either value may be seen.
Finish(s, result) ==
  /\ slot[s].at = "running" /\ ~slot[s].lost
  /\ slot' = [slot EXCEPT ![s] = [@ EXCEPT !.at = "reporting", !.result = result]]
  /\ IF result = "infra" THEN Fault ELSE UNCHANGED faults
  /\ UNCHANGED <<storeVars, agent, known, file, torn, reaping, completing, history>>

\* A job that is stopped because the agent is shutting down is handed back.
ShutDown(s) ==
  /\ slot[s].at = "running" /\ ~slot[s].lost /\ agent[RunnerOf[s]] = "stopping"
  /\ Goes(s, "releasing")
  /\ UNCHANGED <<storeVars, agent, known, file, torn, reaping, completing, history, faults>>

\* The request succeeds, or is refused for good, and the slot polls again; or
\* its answer is lost and the slot sends it again.
Answered(s) == Ends(s) /\ UNCHANGED faults
AnswerLost(s) == UNCHANGED slot /\ Fault

\* After its last attempt the client gives up; the error is only logged.
GiveUp(s) ==
  /\ slot[s].at \in {"reporting", "awaiting", "releasing"}
  /\ Ends(s) /\ Fault
  /\ UNCHANGED <<storeVars, agent, known, file, torn, reaping, completing, history>>

-----------------------------------------------------------------------------
\* The control plane.

\* holdsJob: what every job-scoped write but a release and a heartbeat requires.
HoldsJob(r, j, attempt) == jobs[j].runner = r /\ jobs[j].attempt = attempt

NextAttempt(row) ==
  [row EXCEPT !.status = "queued", !.attempt = @ + 1, !.runner = NoRunner,
              !.setup = FALSE, !.queued = TRUE, !.rest = NoRest]

Concluded(row, result) ==
  [row EXCEPT !.status = "completed", !.runner = NoRunner, !.rest = result]

\* A slip to guard against: the old entry is voided and nothing offered.
RequeueStrands(j) ==
  /\ jobs' = [jobs EXCEPT ![j] = NextAttempt(@)]
  /\ queue' = [queue EXCEPT ![j] = AbsentEntry]
  /\ UNCHANGED dispatches

\* finishAttempt of an infrastructure failure: the old entry is voided and the
\* next attempt offered, held back for its backoff.
Requeue(j) ==
  /\ jobs' = [jobs EXCEPT ![j] = NextAttempt(@)]
  /\ queue' = [queue EXCEPT ![j] =
        [AbsentEntry EXCEPT !.state = "queued", !.attempt = jobs[j].attempt + 1]]
  /\ UNCHANGED dispatches

JobCompleted(j, result) ==
  IF jobs[j].status = "completed" THEN UNCHANGED storeVars
  ELSE IF result = "infra" THEN Requeue(j)
  ELSE UpdateJob(j, Concluded(jobs[j], result))

ReportOf(s) == [slot |-> s, job |-> slot[s].job, attempt |-> slot[s].attempt,
                result |-> slot[s].result]

\* complete, up to holdsJob: a report of the attempt the job is in, by the runner
\* that holds the job, is let in; any other is a conflict, which the client does
\* not repeat.
Complete(s) ==
  /\ slot[s].at = "reporting"
  /\ IF HoldsJob(RunnerOf[s], slot[s].job, slot[s].attempt)
       THEN completing' = completing \cup {ReportOf(s)} /\ Goes(s, "awaiting") /\ UNCHANGED faults
       ELSE UNCHANGED completing /\ (Answered(s) \/ AnswerLost(s))
  /\ UNCHANGED <<storeVars, agent, known, file, torn, reaping, history>>

\* The slot still waits for the answer to the report c.
Awaits(c) ==
  slot[c.slot].at = "awaiting" /\ slot[c.slot].job = c.job /\ slot[c.slot].attempt = c.attempt

\* The rest of complete: the result is recorded for the job as it is by now, and
\* answered to a sender that is still there.
JobCompletedAt(c) ==
  /\ c \in completing
  /\ completing' = completing \ {c}
  /\ JobCompleted(c.job, c.result)
  /\ IF Awaits(c) THEN \/ Ends(c.slot) /\ UNCHANGED faults
                       \/ Goes(c.slot, "reporting") /\ Fault
     ELSE UNCHANGED <<slot, faults>>
  /\ UNCHANGED <<agent, known, file, torn, reaping, history>>

\* The connection of a report breaks; the handler goes on, or ends with it.
ConnectionLost(s) ==
  /\ slot[s].at = "awaiting"
  /\ Goes(s, "reporting") /\ Fault
  /\ completing' \in {completing, completing \ {ReportOf(s)}}
  /\ UNCHANGED <<storeVars, agent, known, file, torn, reaping, history>>

\* release: any lease the runner holds on the job is given up, of whichever
\* attempt; if it holds none the error is repeated, and then only logged.
Release(s) ==
  LET j == slot[s].job IN
  /\ slot[s].at = "releasing"
  /\ IF LeasedBy(RunnerOf[s], j) THEN ReleaseLease(RunnerOf[s], j) ELSE UNCHANGED storeVars
  /\ Answered(s) \/ AnswerLost(s)
  /\ UNCHANGED <<agent, known, file, torn, reaping, completing, history>>

\* A slot of the runner that holds the lease is busy with j.
Attended(j) == \E s \in Slot : /\ slot[s].job = j /\ ~slot[s].lost
                              /\ LeasedBy(RunnerOf[s], j)

\* The lease on j runs out: as a fault (the network, a stalled runner) when
\* somebody is busy with the job, and with time when nobody is.
LeaseExpires(j) ==
  /\ LeaseRunsOut(j)
  /\ IF Attended(j) THEN Fault ELSE UNCHANGED faults
  /\ UNCHANGED <<agentVars, reaping, completing, history>>

\* reapExpiredLeases of a tick: the store takes the leases back in one
\* transaction, and the rows get their next attempt in another, from the copies
\* the first returned.
Reap ==
  /\ reaping = {} /\ ExpiredLeases # {}
  /\ ReapExpiredLeases
  /\ reaping' = {[job |-> j, row |-> BackToQueue(jobs[j])] : j \in ExpiredLeases}
  /\ UNCHANGED <<agentVars, completing, history, faults>>

ReapNext(c) ==
  /\ c \in reaping
  /\ c.row.attempt < MaxAttempt
  /\ jobs' = [jobs EXCEPT ![c.job] = NextAttempt(c.row)]
  /\ queue' = [queue EXCEPT ![c.job] =
        IF InQueue(c.job) THEN @
        ELSE [AbsentEntry EXCEPT !.state = "queued", !.attempt = c.row.attempt + 1, !.ready = TRUE]]
  /\ reaping' = reaping \ {c}
  /\ UNCHANGED <<dispatches, agentVars, completing, history, faults>>

BackoffEnds(j) == BackoffRunsOut(j) /\ UNCHANGED <<agentVars, reaping, completing, history, faults>>

\* An operator cancels a job that has not ended.
CancelJob(j) ==
  /\ jobs[j].status # "completed"
  /\ UpdateJob(j, Concluded(jobs[j], "cancelled"))
  /\ UNCHANGED <<agentVars, reaping, completing, history, faults>>

-----------------------------------------------------------------------------
\* The agent's process.

\* Its context is cancelled: nothing new is polled, and what runs is stopped.
Stop(r) ==
  /\ agent[r] = "up" /\ Fault
  /\ agent' = [agent EXCEPT ![r] = "stopping"]
  /\ UNCHANGED <<storeVars, known, file, torn, slot, reaping, completing, history>>

\* Run returns once every poll loop has.
Stopped(r) ==
  /\ agent[r] = "stopping"
  /\ \A s \in Slot : RunnerOf[s] = r => slot[s] = Idle
  /\ agent' = [agent EXCEPT ![r] = "down"]
  /\ UNCHANGED <<storeVars, known, file, torn, slot, reaping, completing, history, faults>>

Crash(r) ==
  /\ agent[r] # "down" /\ Fault
  /\ agent' = [agent EXCEPT ![r] = "down"]
  /\ slot' = [s \in Slot |-> IF RunnerOf[s] = r THEN Idle ELSE slot[s]]
  /\ UNCHANGED <<storeVars, known, file, torn, reaping, completing, history>>

\* A new process: OpenKeyStore reads the whole lines back.  A runner whose state
\* directory went with its container begins with no key and as somebody new;
\* that it has the old name here changes nothing it can do.
Restart(r) ==
  /\ agent[r] = "down"
  /\ agent' = [agent EXCEPT ![r] = "up"]
  /\ IF r \in KeepsState
       THEN known' = [known EXCEPT ![r] = file[r]] /\ UNCHANGED <<file, torn, started, repeated>>
       ELSE /\ known' = [known EXCEPT ![r] = {}] /\ file' = [file EXCEPT ![r] = {}]
            /\ torn' = [torn EXCEPT ![r] = FALSE]
            /\ started' = [started EXCEPT ![r] = {}] /\ repeated' = [repeated EXCEPT ![r] = {}]
  /\ UNCHANGED <<storeVars, slot, reaping, completing, garbled, faults>>

Done == (\A j \in Job : jobs[j].status = "completed") /\ UNCHANGED vars

Next ==
  \/ \E s \in Slot, j \in Job : Acquire(s, j) \/ AcquireLost(s, j)
  \/ \E s \in Slot : \/ Refuse(s) \/ Start(s) \/ MarkFails(s)
                     \/ HeartbeatHeld(s) \/ HeartbeatLost(s) \/ Abandon(s) \/ ShutDown(s)
                     \/ GiveUp(s) \/ Complete(s) \/ ConnectionLost(s) \/ Release(s)
                     \/ \E result \in Results : Finish(s, result)
  \/ \E j \in Job : LeaseExpires(j) \/ BackoffEnds(j) \/ CancelJob(j)
  \/ Reap
  \/ \E c \in reaping : ReapNext(c)
  \/ \E c \in completing : JobCompletedAt(c)
  \/ \E r \in Runner : Stop(r) \/ Stopped(r) \/ Crash(r) \/ Restart(r)
  \/ Done

\* What the programs keep doing: runner-host puts a stopped runner back, an
\* agent polls, a job ends, a request is answered in the end, the ticker ticks
\* and time passes.  A poll that finds the job on offer again and again gets it
\* in the end, however fast another runner takes it and gives it back.
Fairness ==
  /\ \A s \in Slot :
       /\ \A j \in Job : SF_vars(Acquire(s, j))
       /\ WF_vars(Refuse(s)) /\ WF_vars(Start(s))
       /\ WF_vars(HeartbeatLost(s)) /\ WF_vars(Abandon(s))
       /\ WF_vars(\E result \in Results : Finish(s, result))
       /\ WF_vars(Complete(s)) /\ WF_vars(Release(s))
  /\ \A j \in Job : WF_vars(~Attended(j) /\ LeaseExpires(j)) /\ WF_vars(BackoffEnds(j))
  /\ WF_vars(Reap) /\ WF_vars(\E c \in reaping : ReapNext(c))
  /\ WF_vars(\E c \in completing : JobCompletedAt(c))
  /\ \A r \in Runner : WF_vars(Stopped(r)) /\ WF_vars(Restart(r))

RunnerSpec == Init /\ [][Next]_vars /\ Fairness

-----------------------------------------------------------------------------
\* idempotency.go: "A job redelivered after a crash must not run a second time".
\* Across crashes and restarts a runner that keeps its directory repeats no key,
\* except one it wrote behind the part of a line a failed write had left.
RepeatsOnlyGarbled == \A r \in Runner : repeated[r] \subseteq garbled[r]

\* No crash, shutdown, lost answer or lost lease strands a job, and no report that
\* is recorded late, twice or for a later attempt than it was let in for does: the
\* job ends, and stays ended.
EveryJobEnds == \A j \in Job : <>[](jobs[j].status = "completed")

=============================================================================
