----------------------------- MODULE Scheduler -----------------------------
(***************************************************************************)
(* internal/scheduler over the job store.                                  *)
(*                                                                         *)
(* The scheduler takes no lock around its work.  Its entry points run in   *)
(* goroutines of their own (the ticker of cmd/ciplatform, one goroutine    *)
(* per HTTP request of the runner API, the operator API and the webhook),  *)
(* and each reads rows, decides, and writes whole rows back.  Here each    *)
(* such call is a record of `calls` and each of its store transactions one *)
(* step: what a call read it keeps in `row`, `snap` and `rrow`, and what   *)
(* it has decided to write it keeps in `todo`.  Call has one member when   *)
(* the calls are taken one after the other and two when they overlap.      *)
(*                                                                         *)
(* A read and the decision that follows it are one step, also where the    *)
(* code reads the run and then its jobs.  Events, outputs, explanations    *)
(* and classification logs are left out, as are the timestamps: a timeout  *)
(* may strike at any tick of a job in progress.  The rows Dequeue may pick *)
(* are all eligible ones: the scheduler does not control their order.      *)
(***************************************************************************)
EXTENDS Conclusions, FiniteSets, SequencesExt

CONSTANTS
  Job, Runner, NoRunner, JobLabels, RunnerLabels, MaxAttempt,
  Run,          \* run ids, in order of creation
  Call,         \* the calls that may be under way at once
  Plan,         \* the planned job of each job
  RunPlan,      \* the workflow-level settings of each run
  Results,      \* what a runner may report of each job
  TimesOut,     \* jobs that may overrun a budget
  RunTimesOut,  \* runs that may overrun theirs
  Operated,     \* runs an operator may approve, cancel or re-run
  Orders,       \* bound on approvals and cancels
  Restarts,     \* bound on restarts of the control plane
  Losses,       \* bound on runners that stop reporting
  Reruns        \* bound on re-runs

ASSUME SchedulerAssumption ==
  /\ Job \subseteq Nat /\ IsFiniteSet(Job) /\ Run \subseteq Nat
  /\ NoRunner \notin Runner
  /\ Orders \in Nat /\ Restarts \in Nat /\ Losses \in Nat /\ Reruns \in Nat

CancelActors ==
  {"user", "concurrency_group", "timeout", "runner_lost", "superseded_by_newer_run",
   "dependency_failed", "control_plane_shutdown"}

\* The columns of a job row the store carries for the scheduler.
Columns ==
  [conclusion : Conclusions \cup {""},
   cancel     : CancelActors \cup {""},
   retries    : 0..MaxAttempt,
   awaiting   : BOOLEAN]

\* A plan names a run and at least one attempt (workflow/retry.go refuses less),
\* the legs of a matrix share its max-parallel (plan.go evaluates it once for all),
\* and a report names a conclusion, a class and at most one who stopped the job.
ASSUME PlanAssumption ==
  /\ \A r \in Run : RunPlan[r].fork \in BOOLEAN
  /\ \A j \in Job :
       /\ Plan[j].run \in Run
       /\ Plan[j].retry.attempts \in Nat \ {0}
       /\ Plan[j].maxParallel \in Nat
       /\ Plan[j].cond \in {"success()", "failure()", "always()"}
       /\ Results[j] \subseteq [conclusion : Conclusions, class : FailureClasses,
                               cancel : CancelActors \cup {""}]
  /\ \A j, k \in Job : Plan[j].run = Plan[k].run /\ Plan[j].key = Plan[k].key
                         => Plan[j].maxParallel = Plan[k].maxParallel

NoColumns == [conclusion |-> "", cancel |-> "", retries |-> 0, awaiting |-> FALSE]

VARIABLES
  jobs, queue, dispatches,  \* the store's tables
  runs,     \* the runs table
  plans,    \* Scheduler.plans: the runs this process drives
  calls,    \* the calls under way
  spent     \* how many orders, restarts, losses and re-runs have been used

INSTANCE JobStore WITH Rest <- Columns, NoRest <- NoColumns, ClientRows <- {}, MaxTime <- 0

vars == <<jobs, queue, dispatches, runs, plans, calls, spent>>

-----------------------------------------------------------------------------
\* Rows.

JobsOf(r) == {j \in Job : Plan[j].run = r}

\* The i-th job of a set, in id order.
Nth(js, i) == CHOOSE j \in js : Cardinality({k \in js : k < j}) = i - 1

Completed(row) == row.status = "completed"

NewRow(j) ==
  LET held == RunPlan[Plan[j].run].fork IN
  [AbsentJob EXCEPT !.status = IF held THEN "waiting" ELSE "queued",
                    !.attempt = 1, !.rest.awaiting = held]

\* A result is a conclusion, the class of the failure, and who stopped the job.
Result(conclusion, class, cancel) ==
  [conclusion |-> conclusion, class |-> class, cancel |-> cancel]

Cancelled(actor) == Result("cancelled", "", actor)

\* finishAttempt, when the attempt is the last.
Finished(row, res) ==
  [row EXCEPT !.status = "completed", !.runner = NoRunner,
              !.rest.conclusion = res.conclusion, !.rest.cancel = res.cancel]

\* The fields requeueForRetry and reapExpiredLeases clear for the next attempt.
NextAttempt(row) ==
  [row EXCEPT !.status = "queued", !.attempt = @ + 1, !.runner = NoRunner,
              !.setup = FALSE, !.queued = TRUE,
              !.rest.conclusion = "", !.rest.cancel = ""]

RetryOf(row) == [NextAttempt(row) EXCEPT !.rest.retries = @ + 1]

\* rerun: queued_at is cleared, so that the job waits for a tick's decision.
RerunOf(row) ==
  [NextAttempt(row) EXCEPT !.queued = FALSE, !.rest.retries = 0]

-----------------------------------------------------------------------------
\* The writes a call has decided on: store transactions on a job or on a run,
\* and the two updates of the plans this process holds.

Update(j, row)     == <<[do |-> "update", job |-> j, row |-> row]>>
Create(j, row)     == <<[do |-> "create", job |-> j, row |-> row]>>
Drop(j)            == <<[do |-> "drop", job |-> j]>>
Offer(j)           == <<[do |-> "offer", job |-> j, attempt |-> 0, ready |-> TRUE]>>
\* requeueForRetry names the attempt, and a not_before that is still to come.
OfferRetry(j, row) == <<[do |-> "offer", job |-> j, attempt |-> row.attempt, ready |-> FALSE]>>
UpdateRun(r, row)  == <<[do |-> "run", run |-> r, row |-> row]>>
RegisterPlan(r)    == <<[do |-> "register", run |-> r]>>
ForgetPlan(r)      == <<[do |-> "forget", run |-> r]>>

\* Slips to guard against: no budget at all, and a retry not counted.
RetryAlways(j, row, res) == res.class = "infra" /\ row.status # "absent" /\ j \in Job
RetryUncounted(j, row, res) ==
  res.class = "infra" /\ Retries(Plan[j].retry, "infra", row.rest.retries)

RetryPermitted(j, row, res) ==
  res.class = "infra" /\ Retries(Plan[j].retry, "infra", row.rest.retries + 1)

\* finishAttempt: the row it leaves, and what it writes.
FinishedRow(j, row, res, allowRetry) ==
  IF allowRetry /\ RetryPermitted(j, row, res) THEN RetryOf(row) ELSE Finished(row, res)

\* Slips to guard against: the old entry is not voided; the job is offered
\* before its row is written; it is not offered at all.
FinishKeepsEntry(j, row, res, allowRetry) ==
  LET end == FinishedRow(j, row, res, allowRetry) IN
  IF Completed(end) THEN Update(j, end) ELSE Update(j, end) \o OfferRetry(j, end)
FinishOffersFirst(j, row, res, allowRetry) ==
  LET end == FinishedRow(j, row, res, allowRetry) IN
  IF Completed(end) THEN Update(j, end) ELSE Drop(j) \o Offer(j) \o Update(j, end)
FinishStrands(j, row, res, allowRetry) ==
  LET end == FinishedRow(j, row, res, allowRetry) IN
  IF Completed(end) THEN Update(j, end) ELSE Update(j, end) \o Drop(j)

FinishWrites(j, row, res, allowRetry) ==
  LET end == FinishedRow(j, row, res, allowRetry) IN
  IF Completed(end) THEN Update(j, end)
                    ELSE Update(j, end) \o Drop(j) \o OfferRetry(j, end)

\* The writes of a loop over jobs in id order, given what it writes for each.
ForEach(writes) ==
  FlattenSeq([i \in 1..Cardinality(DOMAIN writes) |-> writes[Nth(DOMAIN writes, i)]])

\* stopJob for every job of a snapshot that is not completed.
Live(snap) == {j \in DOMAIN snap : ~Completed(snap[j])}

Stopped(snap, res) ==
  [j \in DOMAIN snap |-> IF j \in Live(snap) THEN Finished(snap[j], res) ELSE snap[j]]

StopWrites(snap, res) ==
  ForEach([j \in Live(snap) |-> Update(j, Finished(snap[j], res))])

\* A slip to guard against: only a running job keeps its run open.
FinalizeIdle(r, rrow, snap) ==
  IF \E j \in DOMAIN snap : snap[j].status = "in_progress" THEN <<>>
  ELSE UpdateRun(r, [rrow EXCEPT !.status = "completed",
                       !.conclusion = Aggregate({snap[j].rest.conclusion : j \in Live(snap)})])
       \o ForgetPlan(r)

\* finalizeIfComplete: a run all of whose jobs are terminal in the call's copy
\* is closed, from the call's copy of the run, and its plan forgotten.
FinalizeWrites(r, rrow, snap) ==
  IF Live(snap) # {} THEN <<>>
  ELSE UpdateRun(r, [rrow EXCEPT !.status = "completed",
                       !.conclusion = Aggregate({snap[j].rest.conclusion : j \in DOMAIN snap})])
       \o ForgetPlan(r)

\* CancelAt and enforceRunTimeout: every live job stopped, the run closed.
StopRunWrites(r, rrow, snap, res) ==
  StopWrites(snap, res) \o FinalizeWrites(r, [rrow EXCEPT !.cancel = res.cancel], Stopped(snap, res))

-----------------------------------------------------------------------------
\* Readiness (readiness.go), over a call's own copy of the run's jobs.

Legs(snap, key) == {j \in DOMAIN snap : Plan[j].key = key}

\* A slip to guard against: a needed leg handed to the queue counts as done.
NeedsReadyHandedOn(snap, j) ==
  \A key \in Plan[j].needs : \A l \in Legs(snap, key) : Completed(snap[l]) \/ snap[l].queued

NeedsReady(snap, j) ==
  \A key \in Plan[j].needs : \A l \in Legs(snap, key) : Completed(snap[l])

\* What a needed leg counts as: a failure that may continue counts as success.
Counted(snap, l) ==
  IF IsFailure(snap[l].rest.conclusion) /\ Plan[l].continueOnError
  THEN "success" ELSE snap[l].rest.conclusion

ResultOf(snap, key) == NeedsResult({Counted(snap, l) : l \in Legs(snap, key)})

\* shouldRun: an if: that names no status function is success() && it.
ShouldRun(snap, j, runCancelled) ==
  LET results == {ResultOf(snap, key) : key \in Plan[j].needs}
  IN CASE Plan[j].cond = "success()" -> results \subseteq {"success"} /\ ~runCancelled
       [] Plan[j].cond = "failure()" -> "failure" \in results
       [] Plan[j].cond = "always()"  -> TRUE

\* Slips to guard against: an ended job is decided about again; only a job that
\* runs takes a slot.
PendingEnded(row)   == ~row.queued /\ ~row.rest.awaiting
InFlightRunning(row) == row.status = "in_progress"

Pending(row)  == ~Completed(row) /\ ~row.queued /\ ~row.rest.awaiting
InFlight(row) == ~Completed(row) /\ row.queued

SlotFree(snap, j) ==
  Plan[j].maxParallel > 0 =>
    Cardinality({l \in Legs(snap, Plan[j].key) : InFlight(snap[l])}) < Plan[j].maxParallel

\* The jobs after `last` the tick has something to decide about.
Candidates(c) ==
  {j \in DOMAIN c.snap :
     /\ j > c.last /\ Pending(c.snap[j]) /\ NeedsReady(c.snap, j)
     /\ ShouldRun(c.snap, j, c.rrow.cancel # "") => SlotFree(c.snap, j)}

FirstOf(js) == CHOOSE j \in js : \A k \in js : j <= k

\* A slip to guard against: a job that waits for a runner does not hold its group.
RunningHolders(j) ==
  {k \in Job \ {j} : Plan[k].group = Plan[j].group /\ jobs[k].status = "in_progress"}

\* admitToConcurrencyGroup: the jobs that hold the group, read afresh.
GroupHolders(j) ==
  {k \in Job \ {j} : /\ Plan[k].group = Plan[j].group
                     /\ jobs[k].status \notin {"absent", "completed"}
                     /\ jobs[k].queued \/ jobs[k].status = "in_progress"}

\* A slip to guard against: the older run waits for the newer.
BlockedByNewer(r) ==
  /\ RunPlan[r].group # "" /\ ~RunPlan[r].cancelInProgress
  /\ \E o \in plans \ {r} : /\ RunPlan[o].group = RunPlan[r].group
                            /\ runs[o].status # "completed"
                            /\ r < o

\* runGroupBlocked: an older run this process drives holds the run's group.
RunBlocked(r) ==
  /\ RunPlan[r].group # "" /\ ~RunPlan[r].cancelInProgress
  /\ \E o \in plans \ {r} : /\ RunPlan[o].group = RunPlan[r].group
                            /\ runs[o].status # "completed"
                            /\ o < r

\* applyFailFast: the live legs beside a leg that failed and may not continue.
FailFastLegs(snap) ==
  {j \in Live(snap) :
     /\ Plan[j].failFast
     /\ \E l \in Legs(snap, Plan[j].key) \ {j} :
          /\ Completed(snap[l]) /\ IsFailure(snap[l].rest.conclusion)
          /\ ~Plan[l].continueOnError}

-----------------------------------------------------------------------------
\* Calls.

NoRun == [status |-> "absent", conclusion |-> "", cancel |-> "", attempt |-> 0]

RunRow == [status : {"absent", "queued", "in_progress", "completed"},
           conclusion : Conclusions \cup {""}, cancel : CancelActors \cup {""},
           attempt : 0..(Reruns + 1)]

Idle == [op |-> "idle", at |-> "", run |-> 0, job |-> 0, runner |-> NoRunner,
         row |-> AbsentJob, rrow |-> NoRun, snap |-> <<>>, todo |-> <<>>,
         left |-> {}, taken |-> {}, last |-> 0, res |-> Result("", "", "")]

\* A call that has written everything and has nothing more to decide returns.
Goes(t, c) ==
  calls' = [calls EXCEPT ![t] = IF c.todo = <<>> /\ c.at = "return" THEN Idle ELSE c]

Returns(t) == calls' = [calls EXCEPT ![t] = Idle]

Begins(t) == calls[t] = Idle

\* A call that only has to write.
Writes(t, op, todo) == Begins(t) /\ Goes(t, [Idle EXCEPT !.op = op, !.at = "return", !.todo = todo])

\* A call of an operator's, counted.
Order(t, op, todo) ==
  /\ spent.orders < Orders
  /\ spent' = [spent EXCEPT !.orders = @ + 1]
  /\ Writes(t, op, todo)
  /\ UNCHANGED <<jobs, queue, dispatches, runs, plans>>

Deciding(t, at) == calls[t].at = at /\ calls[t].todo = <<>>

SnapOf(r) == [j \in {k \in JobsOf(r) : Exists(k)} |-> jobs[j]]

\* The next write of a call.  Enqueue refuses an attempt that is not the job's,
\* and the error ends the call, a tick with all the runs it had left included.
WriteStep(t) ==
  LET c == calls[t]
      w == Head(c.todo)
      refused == w.do = "offer" /\ EnqueueRefused(w.job, w.attempt)
  IN /\ c.todo # <<>>
     /\ \/ w.do = "create" /\ CreateJob(w.job, w.row)
        \/ w.do = "update" /\ UpdateJob(w.job, w.row)
        \/ w.do = "offer"  /\ Enqueue(w.job, w.attempt, 0, w.ready)
        \/ w.do = "drop"   /\ DropFromQueue(w.job)
        \/ (w.do \in {"run", "register", "forget"} \/ refused) /\ UNCHANGED <<jobs, queue, dispatches>>
     /\ runs' = IF w.do = "run" THEN [runs EXCEPT ![w.run] = w.row] ELSE runs
     /\ plans' = CASE w.do = "register" -> plans \cup {w.run}
                   [] w.do = "forget"   -> plans \ {w.run}
                   [] OTHER             -> plans
     /\ IF refused THEN Returns(t) ELSE Goes(t, [c EXCEPT !.todo = Tail(@)])
     /\ UNCHANGED spent

-----------------------------------------------------------------------------
\* StartRun of a run the webhook has just recorded: older runs of its group are
\* stopped one by one, then the jobs are created and the plan registered.
StartRun(t, r) ==
  /\ Begins(t)
  /\ runs[r].status = "absent"
  /\ \A o \in Run : o < r => runs[o].status # "absent"
  /\ runs' = [runs EXCEPT ![r] = [NoRun EXCEPT !.status = "queued", !.attempt = 1]]
  /\ Goes(t, [Idle EXCEPT !.op = "start", !.at = "supersede", !.run = r,
                          !.left = IF RunPlan[r].group # "" /\ RunPlan[r].cancelInProgress
                                   THEN {o \in plans \ {r} : RunPlan[o].group = RunPlan[r].group}
                                   ELSE {}])
  /\ UNCHANGED <<jobs, queue, dispatches, plans, spent>>

\* supersedeOlderRuns: CancelAt of the next older run, if it still is driven.
SupersedeNext(t) ==
  LET c == calls[t]
      o == FirstOf(c.left)
  IN /\ Deciding(t, "supersede") /\ c.left # {}
     /\ Goes(t, [c EXCEPT !.left = @ \ {o},
                  !.todo = IF o \notin plans \/ runs[o].status = "completed" THEN <<>>
                           ELSE StopRunWrites(o, runs[o], SnapOf(o),
                                              Cancelled("superseded_by_newer_run"))])
     /\ UNCHANGED <<jobs, queue, dispatches, runs, plans, spent>>

StartJobs(t) ==
  LET c == calls[t]
      r == c.run
  IN /\ Deciding(t, "supersede") /\ c.left = {}
     /\ Goes(t, [c EXCEPT !.at = "return",
          !.todo = ForEach([j \in JobsOf(r) |-> Create(j, NewRow(j))])
                   \o RegisterPlan(r)
                   \o UpdateRun(r, [NoRun EXCEPT !.status = "in_progress", !.attempt = 1])])
     /\ UNCHANGED <<jobs, queue, dispatches, runs, plans, spent>>

\* Approve lifts the fork hold in the copies it read, whatever their status.
Approve(t, r) ==
  LET held == {j \in DOMAIN SnapOf(r) : jobs[j].rest.awaiting} IN
  /\ r \in Operated /\ held # {}
  /\ Order(t, "approve",
       UpdateRun(r, runs[r])
       \o ForEach([j \in held |->
            Update(j, [jobs[j] EXCEPT !.status = "queued", !.rest.awaiting = FALSE])]))

-----------------------------------------------------------------------------
\* Tick.  One goroutine ticks, so ticks do not overlap each other.

\* The store gives the leases back, then each job is moved to its next attempt.
\* The Enqueue that follows finds the entry still there.
TickStart(t) ==
  /\ Begins(t)
  /\ \A u \in Call : calls[u].op # "tick"
  /\ ReapExpiredLeases
  /\ Goes(t, [Idle EXCEPT !.op = "tick", !.at = "track",
        !.todo = ForEach([j \in ExpiredLeases |->
                    Update(j, NextAttempt(BackToQueue(jobs[j]))) \o Offer(j)])])
  /\ UNCHANGED <<runs, plans, spent>>

\* What is left of a tick once it is done with a run.
TickOn(c, left) ==
  [Idle EXCEPT !.op = "tick", !.left = left, !.at = IF left = {} THEN "return" ELSE "runs"]

\* A tick that has something to decide about the run r: one it drove when the
\* tick took its list.
TickTracked(c) == IF c.at = "track" THEN plans ELSE c.left

TickAt(t, r) ==
  /\ calls[t].op = "tick" /\ calls[t].at \in {"track", "runs"} /\ calls[t].todo = <<>>
  /\ TickTracked(calls[t]) # {} /\ r = FirstOf(TickTracked(calls[t]))

\* The run is over, and its plan is dropped; or its plan is gone, and the error
\* ends the tick.
TickLeave(t, r) ==
  /\ TickAt(t, r) /\ (runs[r].status = "completed" \/ r \notin plans)
  /\ plans' = plans \ {r}
  /\ IF runs[r].status = "completed"
       THEN Goes(t, TickOn(calls[t], TickTracked(calls[t]) \ {r})) ELSE Returns(t)
  /\ UNCHANGED <<jobs, queue, dispatches, runs, spent>>

\* The run overran its budget: it is stopped and closed.
TickRunTimeout(t, r) ==
  /\ TickAt(t, r) /\ runs[r].status # "completed" /\ r \in plans /\ r \in RunTimesOut
  /\ Goes(t, [TickOn(calls[t], TickTracked(calls[t]) \ {r}) EXCEPT
        !.todo = StopRunWrites(r, runs[r], SnapOf(r), Result("timed_out", "user", "timeout"))])
  /\ UNCHANGED <<jobs, queue, dispatches, runs, plans, spent>>

\* Timeouts of its jobs (a setup phase that never ended is the platform's fault
\* and may be retried), then fail-fast, on the copies read.
TickRun(t, r) ==
  LET snap == SnapOf(r)
      running == {j \in DOMAIN snap : snap[j].status = "in_progress"} \cap TimesOut
      stop == Cancelled("dependency_failed")
  IN /\ TickAt(t, r) /\ runs[r].status # "completed" /\ r \in plans
     /\ \E setupLate \in SUBSET {j \in running : ~snap[j].setup} :
        \E late \in SUBSET (running \ setupLate) :
          LET ending(j) == IF j \in setupLate THEN Result("infra_failure", "infra", "timeout")
                                              ELSE Result("timed_out", "user", "timeout")
              timed == [j \in DOMAIN snap |->
                          IF j \in setupLate \cup late
                          THEN FinishedRow(j, snap[j], ending(j), j \in setupLate)
                          ELSE snap[j]]
              failed == FailFastLegs(timed)
          IN Goes(t, [TickOn(calls[t], TickTracked(calls[t]) \ {r}) EXCEPT
               !.at = "gate", !.run = r, !.rrow = runs[r],
               !.snap = [j \in DOMAIN snap |->
                           IF j \in failed THEN Finished(timed[j], stop) ELSE timed[j]],
               !.todo = ForEach([j \in setupLate \cup late |->
                          FinishWrites(j, snap[j], ending(j), j \in setupLate)])
                        \o ForEach([j \in failed |-> Update(j, Finished(timed[j], stop))])])
     /\ UNCHANGED <<jobs, queue, dispatches, runs, plans, spent>>

\* A tick with no run to drive.
TickNothing(t) ==
  /\ calls[t].op = "tick" /\ Deciding(t, "track") /\ plans = {}
  /\ Returns(t)
  /\ UNCHANGED <<jobs, queue, dispatches, runs, plans, spent>>

\* Past the gate the loop over the jobs goes on wherever it is.
Admitting(t) ==
  /\ calls[t].op = "tick" /\ calls[t].at \in {"gate", "admit"} /\ calls[t].todo = <<>>

Gated(c) == c.at = "gate" /\ RunBlocked(c.run)

\* admitReadyJobs, one job of the copy at a time: skipped, held for its group,
\* or handed to the queue after the holders it displaces were cancelled.
TickAdmit(t) ==
  LET c == calls[t]
      j == FirstOf(Candidates(c))
      row == c.snap[j]
      grouped == Plan[j].group # ""
      holders == IF grouped THEN GroupHolders(j) ELSE {}
      skipped == ~ShouldRun(c.snap, j, c.rrow.cancel # "")
      held == grouped /\ \/ Plan[j].group \in c.taken
                         \/ holders # {} /\ ~Plan[j].cancelInProgress
      new == IF skipped THEN Finished(row, Result("skipped", "", ""))
             ELSE IF held THEN [row EXCEPT !.status = "waiting"]
             ELSE [row EXCEPT !.status = "queued", !.queued = TRUE]
      writes == IF skipped THEN Update(j, new)
                ELSE IF held THEN IF row.status = "waiting" THEN <<>> ELSE Update(j, new)
                ELSE ForEach([k \in holders |->
                       Update(k, Finished(jobs[k], Cancelled("concurrency_group")))])
                     \o Update(j, new) \o Offer(j)
  IN /\ Admitting(t) /\ ~Gated(c) /\ Candidates(c) # {}
     /\ Goes(t, [c EXCEPT !.at = "admit", !.last = j, !.snap[j] = new, !.todo = writes,
                  !.taken = IF grouped /\ ~skipped /\ ~held THEN @ \cup {Plan[j].group} ELSE @])
     /\ UNCHANGED <<jobs, queue, dispatches, runs, plans, spent>>

\* finalizeIfComplete at the end of a run's turn.
TickFinalize(t) ==
  LET c == calls[t] IN
  /\ Admitting(t) /\ (Gated(c) \/ Candidates(c) = {})
  /\ Goes(t, [TickOn(c, c.left) EXCEPT !.todo = FinalizeWrites(c.run, c.rrow, c.snap)])
  /\ UNCHANGED <<jobs, queue, dispatches, runs, plans, spent>>

-----------------------------------------------------------------------------
\* The runner's requests.  A runner has one request about a job under way at a
\* time, heartbeats apart, and speaks of jobs whose assignment it was given.

\* Acquire: the lease, then the decision on the row Dequeue returned.
Acquire(t, r) ==
  /\ Begins(t)
  /\ \E j \in Eligible(r) :
       /\ Dequeue(r, j)
       /\ LET row == RunningOn(r, jobs[j]) IN
          Goes(t, [Idle EXCEPT !.op = "acquire", !.job = j, !.runner = r, !.row = row,
                   !.at = IF Completed(row) \/ row.rest.conclusion # "" THEN "withdraw" ELSE "dispatch"])
  /\ UNCHANGED <<runs, plans, spent>>

\* The job had concluded: the claim is withdrawn.  Acquire then tries again,
\* which is another Acquire.
Withdraw(t) ==
  LET c == calls[t] IN
  /\ Deciding(t, "withdraw")
  /\ IF LeasedBy(c.runner, c.job) THEN ReleaseLease(c.runner, c.job) ELSE UNCHANGED <<jobs, queue, dispatches>>
  /\ Returns(t)
  /\ UNCHANGED <<runs, plans, spent>>

\* dispatch: without a plan it fails and the lease stays; with one it writes
\* back the row Dequeue returned.
Dispatch(t) ==
  LET c == calls[t] IN
  /\ Deciding(t, "dispatch")
  /\ IF Plan[c.job].run \in plans
       THEN UpdateJob(c.job, [c.row EXCEPT !.status = "in_progress", !.runner = c.runner])
       ELSE UNCHANGED <<jobs, queue, dispatches>>
  /\ Returns(t)
  /\ UNCHANGED <<runs, plans, spent>>

\* holdsJob, which the setup and complete handlers ask first: the row names the
\* runner, and the attempt the runner was given.
HoldsJob(r, j) ==
  /\ Exists(j) /\ jobs[j].runner = r
  /\ \A t \in Call : calls[t].job = j => calls[t].op \notin {"acquire", "setup", "complete"}

Complete(t, r, j, res) ==
  /\ Begins(t) /\ HoldsJob(r, j)
  /\ Goes(t, [Idle EXCEPT !.op = "complete", !.at = "completed", !.job = j, !.res = res])
  /\ UNCHANGED <<jobs, queue, dispatches, runs, plans, spent>>

\* JobCompletedAt reads the job again.
JobCompleted(t) ==
  LET c == calls[t]
      j == c.job
  IN /\ Deciding(t, "completed")
     /\ IF Completed(jobs[j]) \/ Plan[j].run \notin plans THEN Returns(t)
        ELSE Goes(t, [c EXCEPT !.at = "return", !.todo = FinishWrites(j, jobs[j], c.res, TRUE)])
     /\ UNCHANGED <<jobs, queue, dispatches, runs, plans, spent>>

SetupDone(t, r, j) ==
  /\ Begins(t) /\ HoldsJob(r, j) /\ ~jobs[j].setup
  /\ Goes(t, [Idle EXCEPT !.op = "setup", !.at = "setup", !.job = j])
  /\ UNCHANGED <<jobs, queue, dispatches, runs, plans, spent>>

\* JobSetupCompleted reads the job again.
JobSetupCompleted(t) ==
  LET c == calls[t]
      j == c.job
  IN /\ Deciding(t, "setup")
     /\ IF jobs[j].setup THEN Returns(t)
        ELSE Goes(t, [c EXCEPT !.at = "return", !.todo = Update(j, [jobs[j] EXCEPT !.setup = TRUE])])
     /\ UNCHANGED <<jobs, queue, dispatches, runs, plans, spent>>

\* ReleaseJob and the heartbeat are one store operation each.
OneStepCall == (\E t \in Call : calls[t] = Idle) /\ UNCHANGED <<runs, plans, calls, spent>>

ReleaseJob(r, j) == HoldsJob(r, j) /\ ReleaseLease(r, j) /\ OneStepCall
Beat(r, j) == queue[j].expired /\ Heartbeat(r, j) /\ OneStepCall

-----------------------------------------------------------------------------
\* The operator's requests.

\* CancelAt of a run that is not completed.
CancelRun(t, r) ==
  /\ r \in Operated /\ runs[r].status \in {"queued", "in_progress"}
  /\ Order(t, "cancel", StopRunWrites(r, runs[r], SnapOf(r), Cancelled("user")))

CancelJob(t, j) ==
  /\ Plan[j].run \in Operated /\ Exists(j) /\ ~Completed(jobs[j])
  /\ Order(t, "cancelJob", Update(j, Finished(jobs[j], Cancelled("user"))))

\* expandDependents: the keys of a run's plan that need one of `keys`, at any
\* remove.
Needing(r, keys) ==
  {Plan[j].key : j \in {k \in JobsOf(r) : Plan[k].needs \cap keys # {}}}

Dependents(r, keys) ==
  LET step[n \in 0..Cardinality(Job)] ==
        IF n = 0 THEN keys ELSE step[n - 1] \cup Needing(r, step[n - 1])
  IN step[Cardinality(Job)]

\* Rerun, RerunFailed and RerunJob: which jobs each selects.
RerunSelections(r) ==
  LET snap == SnapOf(r) IN
  {DOMAIN snap, {j \in DOMAIN snap : snap[j].rest.conclusion # "success"}}
    \cup {{j} : j \in DOMAIN snap}

\* The selected jobs and their dependents are reset in the copies read, then the
\* run; their entries in the queue are left alone.
Rerun(t, r) ==
  /\ r \in Operated \cap plans /\ spent.reruns < Reruns
  /\ spent' = [spent EXCEPT !.reruns = @ + 1]
  /\ \E selected \in RerunSelections(r) \ {{}} :
       LET keys == Dependents(r, {Plan[j].key : j \in selected})
           reset == {j \in DOMAIN SnapOf(r) : Plan[j].key \in keys}
       IN Writes(t, "rerun",
            ForEach([j \in reset |-> Update(j, RerunOf(jobs[j]))])
            \o UpdateRun(r, [NoRun EXCEPT !.status = "in_progress", !.attempt = runs[r].attempt + 1])
            \o RegisterPlan(r))
  /\ UNCHANGED <<jobs, queue, dispatches, runs, plans>>

-----------------------------------------------------------------------------
\* The world.

\* The runner of a lease stops reporting for as long as the lease lasts.
Lost(j) ==
  /\ spent.losses < Losses
  /\ LeaseRunsOut(j)
  /\ spent' = [spent EXCEPT !.losses = @ + 1]
  /\ UNCHANGED <<runs, plans, calls>>

BackoffOver(j) == BackoffRunsOut(j) /\ UNCHANGED <<runs, plans, calls, spent>>

\* The control plane restarts: the calls under way and the plans are gone, the
\* tables stay.
Restart ==
  /\ spent.restarts < Restarts
  /\ spent' = [spent EXCEPT !.restarts = @ + 1]
  /\ plans' = {}
  /\ calls' = [t \in Call |-> Idle]
  /\ UNCHANGED <<jobs, queue, dispatches, runs>>

-----------------------------------------------------------------------------
Init ==
  /\ StoreInit
  /\ runs = [r \in Run |-> NoRun]
  /\ plans = {}
  /\ calls = [t \in Call |-> Idle]
  /\ spent = [orders |-> 0, losses |-> 0, restarts |-> 0, reruns |-> 0]

\* A step of a call that is under way.
Proceed(t) ==
  \/ WriteStep(t)
  \/ SupersedeNext(t) \/ StartJobs(t)
  \/ \E r \in Run : TickLeave(t, r) \/ TickRunTimeout(t, r) \/ TickRun(t, r)
  \/ TickNothing(t) \/ TickAdmit(t) \/ TickFinalize(t)
  \/ Withdraw(t) \/ Dispatch(t)
  \/ JobCompleted(t) \/ JobSetupCompleted(t)

Next ==
  \/ \E t \in Call : Proceed(t) \/ TickStart(t)
  \/ \E t \in Call, r \in Run : StartRun(t, r) \/ Approve(t, r) \/ CancelRun(t, r) \/ Rerun(t, r)
  \/ \E t \in Call, r \in Runner : Acquire(t, r)
  \/ \E t \in Call, r \in Runner, j \in Job :
       SetupDone(t, r, j) \/ \E res \in Results[j] : Complete(t, r, j, res)
  \/ \E r \in Runner, j \in Job : ReleaseJob(r, j) \/ Beat(r, j)
  \/ \E t \in Call, j \in Job : CancelJob(t, j)
  \/ \E j \in Job : Lost(j) \/ BackoffOver(j)
  \/ Restart

Spec == Init /\ [][Next]_vars

\* cmd/ciplatform ticks on a ticker; every call runs to its end; runners poll
\* for work, report what they ran, and do not hand the same job back for ever;
\* the clock moves.  Nobody need start, cancel or re-run anything, and no lease
\* need run out.  Strong fairness, because a call waits for a free thread.
Fairness ==
  /\ \A t \in Call : WF_vars(Proceed(t))
  /\ SF_vars(\E t \in Call : TickStart(t))
  /\ \A r \in Runner : SF_vars(\E t \in Call : Acquire(t, r))
  /\ \A j \in Job : SF_vars(\E t \in Call, r \in Runner, res \in Results[j] : Complete(t, r, j, res))
  /\ \A j \in Job : WF_vars(BackoffOver(j))

FairSpec == Spec /\ Fairness

-----------------------------------------------------------------------------
\* Every variable keeps its type.
TypeOK ==
  /\ StoreTypeOK
  /\ runs \in [Run -> RunRow]
  /\ plans \subseteq Run
  /\ \A t \in Call : calls[t] = Idle \/ calls[t].op # "idle"
  /\ spent.orders \in 0..Orders /\ spent.losses \in 0..Losses /\ spent.restarts \in 0..Restarts /\ spent.reruns \in 0..Reruns

AllIdle == \A t \in Call : calls[t] = Idle

\* A job that has been handed to the queue and has not ended.
Admitted(j) == jobs[j].status \notin {"absent", "completed"}
               /\ (jobs[j].queued \/ jobs[j].status = "in_progress")

\* concurrency.go: "at most one live job per group".  Two jobs of one group are
\* never admitted at once, in one run or in two.
GroupExclusive ==
  \A j, k \in Job : j # k /\ Plan[j].group # "" /\ Plan[j].group = Plan[k].group
                      => ~(Admitted(j) /\ Admitted(k))

\* A matrix never has more legs with the queue or with runners than its
\* max-parallel allows, through retries and requeues of its legs.
MaxParallelKept ==
  \A j \in Job :
    Plan[j].maxParallel > 0 =>
      Cardinality({k \in Job : /\ Plan[k].run = Plan[j].run /\ Plan[k].key = Plan[j].key
                               /\ Admitted(k)}) <= Plan[j].maxParallel

\* No job is offered to runners before everything it needs has ended in the way
\* its if: asks for (readiness.go, computeNeeds and shouldRun).
NeedsGate ==
  \A j \in Job : Admitted(j) =>
    /\ \A k \in Job : Plan[k].run = Plan[j].run /\ Plan[k].key \in Plan[j].needs
                        => jobs[k].status = "completed"
    /\ ShouldRun(SnapOf(Plan[j].run), j, FALSE)

\* Between calls the queue says what the job rows say: an admitted job has an
\* entry, so no admitted job is stranded; an entry belongs to an admitted job;
\* and it is leased by the runner that the job row names, or by none.
QueueMirrorsJobs ==
  AllIdle => \A j \in Job :
    /\ InQueue(j) <=> Admitted(j)
    /\ Leased(j) <=> jobs[j].status = "in_progress"
    /\ queue[j].runner = jobs[j].runner

\* scheduler.go: "finalizeIfComplete closes a run once every job is terminal".
\* A closed run concluded what its jobs add up to, and has no job left to do.
\* Approve makes one exception: it writes "queued" over a job that was cancelled
\* while it was held, and leaves the conclusion standing, so that Acquire never
\* leaves the job with a runner.
ClosedRunSettled ==
  AllIdle => \A r \in Run : runs[r].status = "completed" =>
    /\ \A j \in Live(SnapOf(r)) :
         RunPlan[r].fork /\ jobs[j].rest.conclusion = "cancelled" /\ jobs[j].status # "in_progress"
    /\ runs[r].conclusion = Aggregate({jobs[j].rest.conclusion : j \in DOMAIN SnapOf(r)})

\* concurrency.go, runGroupBlocked and supersedeOlderRuns: of two runs of one
\* workflow group that are driven, the newer one has been let nothing while the
\* older is not over; and a newer one that cancels has ended the older.
RunGroupKept ==
  AllIdle => \A o, r \in plans :
    /\ o < r /\ RunPlan[o].group # "" /\ RunPlan[o].group = RunPlan[r].group
    /\ runs[o].status # "completed"
    => ~RunPlan[r].cancelInProgress /\ \A j \in JobsOf(r) : ~Admitted(j)

\* assignment.go, Acquire: "A job cancelled while it sat in the queue must not
\* start now".  Only a new attempt, which a person asks for, opens a job that
\* has ended: no write from an older copy brings it back.  What Approve writes
\* over a job that was cancelled while it was held keeps the conclusion Acquire
\* refuses to start.
EndedJobStaysEnded ==
  [][\A j \in Job : Completed(jobs[j]) /\ ~Completed(jobs'[j])
       => \/ jobs'[j].attempt > jobs[j].attempt
          \/ /\ \E t \in Call : calls[t].op = "approve"
             /\ jobs'[j].rest.conclusion = jobs[j].rest.conclusion]_vars

\* A job is tried no more often than its policy says, not counting the attempts
\* a lost runner or a person cost it.
RetryBudgetKept ==
  \A j \in Job : Exists(j) => jobs[j].rest.retries < Plan[j].retry.attempts

\* readiness.go, needsView: "ready is false while any needed job still has work
\* outstanding".  Once the calls have returned, no runner is at work on a job
\* whose needs have work outstanding.
NothingRunsBeforeItsNeeds ==
  AllIdle => \A j \in Job :
    jobs[j].status = "in_progress" => NeedsReady(SnapOf(Plan[j].run), j)

\* store.go, QueuedJob.Attempt: the attempt is "half of the dispatch idempotency
\* key", and must not "silently point the key at the wrong attempt".  The attempt
\* a runner works on is the one its dispatch was recorded under.
DispatchedAttemptRecorded ==
  AllIdle => \A j \in Job :
    Leased(j) => dispatches[j][jobs[j].attempt] = queue[j].runner

\* As long as nobody approved, stopped, lost or re-ran anything, and no tick may
\* stop a job that is live (a timeout, fail-fast, a group or a run that displaces
\* another), calls that overlap do no harm: ticks write rows the runners' requests
\* do not and the other way round.  (With one of these they can: a write from an
\* older copy may undo the stop.)
Undisturbed == spent = [orders |-> 0, losses |-> 0, restarts |-> 0, reruns |-> 0]

TicksStopNothing ==
  /\ TimesOut = {} /\ RunTimesOut = {}
  /\ \A j \in Job : ~Plan[j].failFast /\ ~Plan[j].cancelInProgress
  /\ \A r \in Run : ~RunPlan[r].cancelInProgress

OverlapHarmless ==
  Undisturbed /\ TicksStopNothing =>
    /\ QueueMirrorsJobs /\ ClosedRunSettled
    /\ NeedsGate /\ MaxParallelKept /\ GroupExclusive

\* Every run that is started comes to its end: no job is stranded between the
\* jobs table and the queue, held for a group nobody holds any more, or waits
\* for a need that was skipped.
EveryRunEnds ==
  \A r \in Run : runs[r].status # "absent" ~> runs[r].status = "completed"

=============================================================================
