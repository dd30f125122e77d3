# ci-platform: TLA+ specifications and proofs

`ci-platform` is a CI control plane and its runners, written in Go. A webhook
makes a *run* of a workflow; the run is planned into *jobs*; the scheduler
decides which jobs may go on a queue; runners poll, get a job under a *lease*,
execute its steps in a sandbox, ship the log, and report; around that are a
cache, artifacts, tokens, check runs on GitHub and the enrolment of machines.
This directory models the parts of it where decisions are made or state is
shared: TLC checks them on small instances under every interleaving and fault
the bounds allow, and TLAPS proves for every instance what is most worth knowing
of the outcomes, the two job stores, the scheduler, the runner protocol, the log
store, the runner host and the services.

All paths below are relative to `src/internal` unless they start with `cmd` or
`docs`.

## Inventory

| Part | State it keeps | Operations | What is hard about it | Modules |
|---|---|---|---|---|
| Outcomes (`model/status.go`, `ir.go`) | none | `Aggregate`, `needsResult`, `Retries` | two reducers that differ on purpose; mixtures of skips, cancels, tolerated failures | Conclusions, ConclusionScan |
| Job store (`store/sqlite/{queue,leases,jobs}.go`) | `jobs`, `job_queue`, `job_dispatches` | create, update, enqueue, drop, dequeue, heartbeat, release, reap | concurrent clients with stale copies; leases that end; repeats | JobStore, LeaseQueue |
| In-memory store (`store/mem`) | the same, in maps | the same | a second implementation that may differ in a column | MemStore |
| Scheduler (`scheduler`) | plans of the runs it drives, in memory | `StartRun`, `Tick`, `Acquire`, `JobCompleted`, `JobSetupCompleted`, `ReleaseJob`, cancel, re-run | no lock: reads, decides, writes whole rows; a decision of two writes; restarts | Scheduler |
| Runner API, operator API (`runnerapi`, `api`) | none that matters | acquire ... release; cancel, re-run | check, then act on a second read | Scheduler, RunnerProtocol |
| Runner agent (`runner/agent`) | key store on disk, slots, log buffer | poll, mark, heartbeat, report, release | crash around the mark; lost answers; shutdown | RunnerProtocol, LogStore |
| Log store (`logstore`, `api/logs.go`) | hot entries, sealed blobs, subscribers | append, finalize, read, subscribe, reconnect | locks let go of in mid-call; a signal that coalesces; positions that two packages count | LogStore |
| Check-run reporter (`github/checks`) | pending update per job, annotations sent | report, flush | coalescing, failed and lost requests | ChecksReporter |
| Cache (`cachesvc`, `blob/chunked.go`) | open uploads in memory, entries | reserve, chunk, commit, lookup, evict | chunks in any order, failing commit, restart | CacheService |
| Artifacts (`artifacts`, `blob/azureshim`) | blocks, rows | create, block, list, finalize, delete | every request may come twice | Artifacts |
| Enrolment (`enrol`, `runnerapi/enrol.go`) | hosts, nonces, sessions | enrol, approve, renew | replay, clocks that differ, renewal | Enrolment |
| Runner host (`runnerhost`) | image id; containers | reconcile, update, drain | partly applied updates, jobs under way | RunnerHost |
| Step executor (`runner/exec`) | scopes, posts, verdict | run a step, composite, post | one verdict over all levels of nesting; retry, cancellation | StepRunner |
| Step output (`runner/exec/output.go`, `runner/commands`) | buffers, groups, pause | write, line, flush | two streams, chunks that split lines | StepOutput |
| Sandbox (`runner/sandbox`) | containers, volumes, a file lock | create, close | commands that fail or are cut off | Sandbox |
| Action cache (`runner/actions`) | a directory | resolve, download | a crash between two renames | ActionCache |
| Planner (`plan`) | none | topological order, matrix | order and identity of legs | JobGraph, Matrix |
| Triggers, expressions (`workflow`) | none | match, evaluate | filters; implied `success()` | Ingest, Conditions |
| Webhook, ingest, install policy | repos, runs | a delivery to runs | errors half way, redelivery | Ingest |
| Keys and tokens (`oidc`, `jobtoken`) | key ring and its file | issue, verify, rotate | rotation against lifetime, failed saves | IdTokens |
| GitHub client (`github/client.go`, `github/app`) | token cache | call, retry, page, mint | a token that ages while a call waits | GitHubClient |
| Classifier, config, programs, UI, read API, demo data, other tables | rows | | text, wiring, views | none |

Who calls whom: `cmd/ciplatform` runs one goroutine that ticks the scheduler
every five seconds and serves HTTP in one goroutine per request. Requests of
runners reach `runnerapi`, which asks the store (`holdsJob`, heartbeats), the
scheduler and the log store; requests of operators reach `api`; webhooks reach
`ingest`, which records a run and calls `StartRun`; steps reach cache, artifacts
and `oidc` with the tokens of their job. The scheduler shares nothing with
itself but the map of plans, behind a mutex, and the store, whose operations are
one transaction each. On a machine, `runner-host` keeps containers of
`ci-runner`, whose agent opens a sandbox per job and executes its steps there.

What can go wrong, and where, is listed under `hazards` in PROJECT.json with the
properties that would catch it.

## Modules

    LeaseQueue               what a job queue promises
        ^ refinement (Holder)
    JobStore  <------------- MemStore     the in-memory store implements it
        ^ INSTANCE / EXTENDS               Conclusions    the outcomes
        |                                      ^
    Scheduler    RunnerProtocol             ConclusionScan the loops behind them
    MCScheduler  MCRunner

    LogStore ChecksReporter CacheService Artifacts Enrolment RunnerHost StepRunner
    StepOutput Sandbox ActionCache JobGraph Matrix Ingest Conditions IdTokens GitHubClient
                 MCServices (also JobStore, MemStore, ConclusionScan), MCLog, MCSteps

    ConclusionProofs JobStoreProofs SchedulerProofs SerialProofs RunnerProofs
    HostProofs ServiceProofs LoopLemmas    the theorems, each beside what it extends

**Conclusions** has the conclusions, the failure classes and three decisions as
operators over sets. **ConclusionScan** is the two loops of the source, one
element of the slice per step, with the locals of the functions as variables;
`Mask` is the continue-on-error rule of `computeNeeds`. A comment at
`readiness.go:28` calls `Aggregate` the only reducer in the platform;
`needsResult` is another, as `docs/deviations.md:101` explains.

**LeaseQueue** is the abstract specification: every job is out, waiting or held
by one runner, and comes to be held only from waiting. **JobStore** has the
tables as functions from job ids to rows. Each Go method is one action, because
it is one transaction. `UpdateJob` takes the row it writes as a parameter: the
callers' copies may be as old as they like. Time is two flags, `expired` and
`ready`, that come true when the clock passes `lease_expires_at` and
`not_before`. **MemStore** has the maps of `store/mem` and is shown to implement
JobStore, operation by operation (`ImplementsJobStore`), so what is proved of
that one holds of this one too.

**Scheduler** composes the store (an INSTANCE whose `Rest` is the columns only
the scheduler reads) with the runs table, the plans and the calls under way. A
call is a record: where it is (`at`), what it has read (`row`, `rrow`, `snap`),
and the writes it has decided on and not done yet (`todo`). `WriteStep` does the
next of them; another call may come between any two. The other actions decide:
`TickStart` (reap), `TickLeave`, `TickRunTimeout`, `TickRun`, `TickAdmit`,
`TickFinalize`; `StartRun`, `SupersedeNext`, `StartJobs`; `Acquire` with
`Withdraw` or `Dispatch`; `Complete` with `JobCompleted`; `SetupDone`;
`ReleaseJob`, `Beat`; `CancelRun`, `CancelJob`, `Approve`, `Rerun`; and of the
world `Lost`, `BackoffOver`, `Restart`.

**RunnerProtocol** is the agent and the job-scoped requests over the same store.
A slot is one poll loop; `known` is the key store in memory, `file` and `torn`
the one on disk, so `MarkFails`, `Crash` and `Restart` are told apart. A request
is handled while its sender waits, or not at all, or handled with its answer
lost (`AcquireLost`; `Complete` and `Release` with a choice); the client's
repeats and its last attempt (`GiveUp`) follow. The report of a result is two
steps: `Complete` is `holdsJob`, `JobCompletedAt` the rest, on the job as it is by
then; between them the job may be reaped and taken again, and `ConnectionLost` may
leave the handler at work beside its repeat. The reap is two steps as well; any
other call of the scheduler is one step here.

**LogStore** is the log of one attempt from the runner's sink to the watchers.
Each stretch between two locks of `Append`, `Finalize`, `Subscribe` and the pump
is an action; a hot entry is an object, because a call may still hold one that
the index has forgotten. A reader first takes pages, then subscribes at the
position it has reached, and may lose its connection and subscribe again
(`ReadPage`, `Resume`: the API's handlers as the job page uses them).
**ChecksReporter** is one job's reporter with its send
lock, its caller and the ticker beside it. **CacheService** and **Artifacts**
are the handlers over the blob stores: chunks with and without `PutAt`, blocks
and block lists, quota and eviction, lost answers and repeats.

**Enrolment** follows a host from a signed request over approval to session
tokens and renewal, with a clock of its own that is off by a constant; one unit
of time is two minutes. **RunnerHost** is the supervisor as the docker commands
it gives, any of which fails, beside runners that take and finish jobs, and that
give them back and exit when `docker stop` has sent its signal (`RunnerStops`).
**Sandbox** is `Create` and `Close` of several jobs on one docker host, down to
the file lock on the cache volume. **ActionCache** is a download with a kill
between any two file operations.

**StepRunner** is the executor: the recursion of `runStep` through
`runComposite` is a stack of frames, what a command does is any outcome its kind
can have, and the job may be cancelled between any two steps. A post has its turn
under the job's context: it is tried in a job that failed, and dropped in one that
was cancelled (`PostTurn`). **StepOutput** is the cutting of two streams into lines
and the command processor behind it, with groups and stopped commands.
**Conditions** builds every expression tree up to a size and evaluates it by the
rules of `expr` (truthiness, loose equality, filtered arrays, the walk for a
status function). **JobGraph** and **Matrix** are the two algorithms of the
planner, one step per placed job or edited entry.

**Ingest** takes a delivery through the guard, the triggers and the calls for
each file, any of which fails or is cut by a restart. **IdTokens** is a request
for an ID token (verify, look up, date, sign) against rotations, failed saves,
restarts and the next attempt of the job. **GitHubClient** is calls with
retries, waits and pages over the cache of installation tokens.

Operators with a comment "a slip to guard against" are plausible errors in the
definition that follows them; putting one in the place of its neighbour makes
TLC report the property it is paired with.

### What the models assume

- *Scheduler.* A read and the decision it leads to are one step, also where the
  code reads the run, then its jobs; the writes are separate steps. One tick at
  a time, as in `RunBackground`. The store does not fail; an attempt `Enqueue`
  refuses and a plan that is gone are errors and end the call as in the code.
  Which of the jobs a runner may take it gets is left open (the order is in
  JobStore). A job in `TimesOut` may overrun at any tick at which it is in
  progress. `Approve` has no handler in this version; its tests cover it.
- *RunnerProtocol.* The server's map of pending cancels is left out, as only
  tests call `RequestCancel`; a job an operator cancels leaves the queue and its
  runner learns of it as of a lost lease. A runner whose directory went with its
  container keeps its name, which changes nothing it can do.
- *Services.* Every lock and every request is a step; what happens under one
  lock, or in one transaction, is atomic. Contents are sequences of positions,
  names are model values, a glob is the set of names it matches. S3 puts an
  object whole or not at all. One download of an action at a time.

## Runs

| Run | Instance | Checks |
|---|---|---|
| `serial` | two runs, four jobs, calls in sequence, one lost runner | what the scheduler promises: groups, max-parallel, needs, queue and rows, retry budget; every run ends |
| `ops` | three runs of one job in one workflow group, one a fork's, two orders, one re-run, one restart | groups of runs, closed runs, ended jobs |
| `overlap` | four jobs of two runs that share a concurrency group, a runner that may hold several, two calls that interleave, one cancel | ticks and requests do not harm each other |
| `rerun`, `cancel`, `reap` | one or two jobs | one property each, violated |
| `runner` | one job, `r1` with two slots and a lasting directory, `r2` without, two faults | repeats, late reports, every job ends |
| `livelock` | `r1` alone, one slot | `EveryJobEnds`, violated |
| `services` | one small instance of each of 19 components | 27 properties, one or two per component |
| `stream` | one watcher, two lines | `StreamEnds`, violated |
| `resume` | one reader, three lines, a page of one or one reconnect | `ResumedWhole`, violated |
| `steps` | one composite of one step | `ExcusedFailuresExcuse`, violated |

**MCServices** puts components side by side that share no state. `turn` names
the one whose behaviour it is; the others keep their initial state, so the
states of the run are those of the components one after another (about 690,000),
not their product. Composing them further would show nothing, since no step of
one reads a variable of another; the compositions that matter are Scheduler and
RunnerProtocol with the store.

*What each property of `services` says*, in the order of the components:
`CompletedNotDispatchable`, `DispatchNamesHolder`, `EntryKeepsItsPlace`,
`ImplementsLeaseQueue` (store) and `ImplementsJobStore` (memory);
`AggregateAgrees`, `NeedsResultAgrees` (the loops compute the set operators);
`LostOnlyInRaces` (an acknowledged log line is lost only if it met a finalize or
a leaving subscriber between two locks), `StreamsWhole` (a watcher sees each
line from its position on once, without a gap); `NewestNotLost` (the newest state of a check run
reaches GitHub or is pending); `ServedArchivesWhole` (a lookup serves no archive
with holes); `FinalizedIntact` (a finalized artifact keeps its bytes however
requests are repeated); `HonouredOnce`, `TokenAccepted` (a signed request counts
once, a fresh session works); `StoppedBeforeRemoved` (no
container is taken away while its runner is up or holds a job: it stopped first,
and gave its job back); `GreenIsEarned` (a green job has no
failure nobody excused), `PostsCleanUp` (posts run last registered first, and
all of them unless the job was cancelled);
`OrderIsCanonical`, `IncludesDecide`; `SuccessLeavesNothingOut` (a delivery
answered with success left, for each file its event selects or that is no valid
workflow, a run with all of its jobs or one closed as a configuration error); `IdTokensVerify`;
`TokenOutlivesCall`; `CacheSharedOnlyWithLeft` (two containers are on one cache
volume only if one was left behind by a killed runner or a failed teardown);
`LinesWhole`, `PausedIsOutput` (between a stop-commands and its token nothing a
step prints is a command); `StatusOnlyIfNamed`;
`ActionsServedWhole`.

*Why the bounds are enough.* The rules of the scheduler relate at most a job,
its needs, its siblings in a matrix and the holder of its group; the instance of
`serial` has one of each. `MaxAttempt = 3` is what a retry policy of two
attempts and one lost runner reach together, and `TypeOK` says that no attempt
goes past it. `ops` needs two orders, since what `Approve` does to a job shows only
after a cancel, and takes calls one at a time: what overlapping orders do is the
subject of `cancel`. `overlap` needs two calls, because every race in the code is
between a tick and a request or between two requests, and one runner, whose polls
may overlap as two runners' do (nothing is lost there, so no job changes hands
while it runs). The one cancel is there for the tick that finds a run closed that it
drives still; of what follows it the property says nothing. The calls are
interchangeable (`OverlapSymmetry`), and no liveness is checked under symmetry. `runner` needs two slots of one runner (they share the key store), a
second runner for the lost lease, two faults (a crash and a lost answer) and
`MaxAttempt = 5`, which two faults do not exhaust. In `services`: two lines and
a ring of one make a subscriber fall behind, with one page or one reconnect; three hot entries are a forgotten
one, its successor and one more; two chunks arrive in either order; two blocks,
two artifacts and two calls make each repeat overtake the other; seven units of
time and clocks that are off by -2, -1 or 1 lie on both sides of the window of
freshness; two starts, one fault and two images interrupt an update; the plans
of steps have a failure before, within and after a composite and a JavaScript
action; four jobs have every acyclic shape up to isomorphism; two dimensions of
two values, an exclude and two includes merge, append and collide;
`MaxIngestFaults = 1` with two tries is a failure and its redelivery; two
rotations drop a key that was retired; trees of three nodes have every operator
over every kind of value. `TriedOnce` keeps the second store job on its first
attempt, and `MCConclusions` leaves out `timed_out` and `stale`, which differ
from others in rank and name only: both are covered by the theorems, which have
no bounds. The counters of faults, orders and restarts bound what the code does
not bound.

Deadlock is checked in the runs of the scheduler and the runner, where a tick
can always begin or the job has ended. `services`, `stream`, `resume` and `steps` say
`CHECK_DEADLOCK FALSE`: their components really stop (a job's last step, a
closed stream, a tree of full size, a spent clock).

*What is checked where.* The scheduler's properties hold when calls follow each
other. With two calls at once `OverlapHarmless` says that five of them still
hold as long as nobody cancelled, approved, re-ran or lost anything. That
condition is needed: `rerun`, `cancel` and `reap` show what happens
without it. Nor may a tick be able to stop a live job, by fail-fast, a timeout or a
group that cancels (`TicksStopNothing`): a tick that stops is to the other calls
what an operator's cancel is (see "Also observed"). In `serial` and `ops` ticks stop
jobs in each of these ways, with nothing beside them. `ImplementsLeaseQueue` needs
no condition.

### Fairness

- *Scheduler* (`serial`). Every call that has begun proceeds (weak, a goroutine
  runs to its end). Ticks begin, runners poll, and a runner that holds a job
  reports one of the results it may report (strong, because a request waits for
  a free call: in the model calls are few). The clock passes `not_before`. The
  ticker, the poll loop and `http.Server` justify these. Nothing is assumed of
  starting, cancelling, re-running or losing anything.
- *RunnerProtocol* (`runner`, `livelock`). What a slot has begun it goes on
  with, jobs finish, requests are answered in the end, a stopped runner exits
  and its supervisor starts it again, leases nobody renews expire, the ticker
  reaps (all weak). `Acquire` is strongly fair per slot and job: a poll that
  finds the job on offer again and again gets it in the end. That is generous to
  the code, and `livelock` fails all the same.
- *LogStore* (`stream`). The pump is a goroutine and its reader reads (weak).
  Nobody has to leave, append or finalize.

## Findings

1. **A re-run leaves the queue entry behind** (`rerun.go:80-95`, run `rerun`). A
   dependent that is queued when a run under way is re-run keeps its entry, is
   dequeued, and runs before its need has.
2. **A cancel between the two writes of an admission is undone**
   (`readiness.go:259-262`, `queue.go:86-90`, run `cancel`). `Enqueue` sets the
   cancelled row to queued; each poll claims and withdraws the job again.
3. **After a lost lease the queue entry stays on the old attempt**
   (`complete.go:213-252`, run `reap`). The next runner's dispatch is filed under
   the lost runner's attempt.
4. **A lone runner hands a job back to itself for ever** (`agent.go:213`, run
   `livelock`). A release keeps the attempt and the key store outlives the
   restart, so the runner refuses and releases the job each time it is offered.
5. **A closed stream may not end** (`subscriber.go:109`, run `stream`). A push
   and a close share the one slot of the wake channel; the pump takes the last
   lines with the closed flag up and waits for a signal that was already spent.
6. **A reader that goes on loses a line** (`api/logs.go:161`, run `resume`). The
   API counts positions as the first line wanted, the store as the last line
   seen, so the line at the seam of two pages, of a page and the tail, or of a
   reconnect is skipped if it was there already.
7. **A step within a tolerated composite fails the job** (`step.go:200`, run
   `steps`). `firstFailure` belongs to the executor and is set before the
   composite that has continue-on-error is concluded.

Each is quoted with the lines that say otherwise under `findings`.

### Also observed

Things the models do as the code does, that no property calls wrong because
nothing in the repository says otherwise:

- *Scheduler.* `Approve` (`scheduler.go:254-263`) writes `queued` over every job
  that is marked as awaiting approval, and a cancel leaves the mark: a job that
  was cancelled while it waited is a queued job of a closed run again. Its
  conclusion stays, so `Acquire` never starts it. No handler calls `Approve` yet, and
  its test approves nothing that was cancelled. `ClosedRunSettled` and
  `EndedJobStaysEnded` make this exception, and no other, by name.
- *Scheduler, fail-fast.* What a tick stops can be opened by a call it overlaps.
  One leg has failed; the other's infrastructure failure has been read and a retry
  decided, not written; a tick cancels that leg for fail-fast (`cancel.go:114-118`),
  finds all jobs ended and closes the run; then the retry's `UpdateJob`
  (`complete.go:178`) writes the leg queued. It is a live job of a closed run whose
  plan is forgotten, with no order, loss or restart. A dispatch between its two
  writes does the same. TLC finds it when the legs of `overlap` have `failFast` and a failure in place of
  their `maxParallel` of one (with it no leg runs while the other's failure is news),
  which is why that run's property asks that ticks stop nothing; the finding of `cancel` is
  the same gap met by an operator.
- *Runner protocol.* `Heartbeat` and `ReleaseLease` do not ask for the attempt.
  `complete` asks for it in `holdsJob` (`handlers.go:191`) and not again: when the
  lease runs out and is reaped in between, the result of attempt 1 is recorded for
  attempt 2, and if it is an infrastructure failure it costs attempt 2 a retry. A job
  that is cancelled between the two transactions of a reap is opened again by the
  second, from the copy the first returned. Every job ends all the same.
- *Cache.* A chunk past the size limit is refused and the upload may still be
  committed; a chunk repeated after a lost answer spoils the save; reservations
  without an upload are never cleaned up; a lookup takes the newest entry across
  refs before it asks which the token may read; a slow upload may be evicted by
  its own commit.
- *Logs.* A subscriber that is cut off is told so and then that the attempt
  finished, so the browser does not reconnect.
- *Artifacts.* Deleting one keeps its finalized row, so its name stays taken, as
  does an unfinalized row; `ExpireArtifacts` is never called; a block list that
  is repeated after its blocks are gone is refused.
- *Enrolment.* Approving and narrowing labels are two calls; the limit on
  pending hosts is counted and used in two transactions; a restart forgets the
  nonces.
- *Runner host.* The image id is recorded before the slots are replaced, so an
  error leaves the rest on the old image; a drain holds up the loop for up to
  six hours; when the pool shrinks only the next eight slots are tidied.
- *Updates.* `docs/runners.md:92-95` and `runnerhost.go:8-12` say that the agent
  finishes the job it holds when it is drained. On SIGTERM the agent cancels its
  jobs and gives them back (`cmd/ci-runner/main.go:31-33`, `agent.go:264-298`, and a
  test of the agent has it so), so an update costs the job the work it has done, and
  the drain timeout is reached only by a runner that hangs.
- *Steps.* `runPost` "runs whatever the job's outcome" (`action.go:187-188`), but it
  is handed the job's context (`exec.go:208`) and no command starts under one that is
  done (`action.go:195`, `203`, `sandbox/docker.go:48`); the agent cancels it when the
  job is cancelled, its lease is lost or the runner shuts down (`agent.go:232`,
  `262`, `271-273`). A cancelled job is not cleaned up after. A failing post changes no verdict; posts are registered per attempt
  of a step; ids in a composite overwrite those of the job in the steps context;
  `success()` and `failure()` in a composite ask the job.
- *Planner and ingest.* Duplicate ids of legs are not refused; a pull request
  has no changed paths, so a `paths` filter never lets it through; an upsert for
  an installation writes an empty default branch; a redelivery may take the
  installation id back; `workflow_dispatch` has no head commit and always fails;
  a repository without `.github/workflows` is answered with an error; the
  deduper of deliveries is not wired.
- *Tokens.* No program calls `Rotate`; a save that fails leaves a key signing
  that the file does not have; a job token is good until timeout and grace have
  passed, whatever the job does.
- *GitHub.* A repeated POST may apply twice; the wait for a rate limit is cut to
  the largest backoff; paging stops without a word at a hundred pages; of two
  mints the later answer wins, be its token the older one. The check-run
  reporter and the statuses package are not constructed by any program yet.
- *Sandbox, actions.* The promise that two daemons never share a cache volume
  (`sandbox.go:34-36`, `lock_unix.go:14-16`, `docs/deviations.md:154`) ends where a
  container outlives its sandbox: `Close` gives the lock back after a `docker rm`
  that failed, and after a `docker run` that was cut off, whose container it does not
  try to remove (`sandbox.go:440-468`); a killed runner frees the lock with its
  container alive. Two downloads of one action share `dir.tmp`.

## Proofs

Every theorem is of the form `Spec => []P`, `Spec => [][A]_v` or a refinement,
for any value of the constants that the named `ASSUME`s allow. They are proved
alike: an inductive invariant, a lemma that the first state has it, one lemma per
action that the action keeps it, and a last temporal step. Below is, per module,
what the invariant has beyond the property and why.

*ConclusionProofs.* `ScanInvariant`: the invariant says of each local what it
says of the set read so far: a flag is set exactly when its conclusion was read,
`worst` is a read failure that outranks the others. The two agreement properties
follow. The order and multiplicity of the slice drop out, which is why the set
operators may be used in the scheduler model.

*JobStoreProofs*, for any sets of jobs and runners, labels, bounds and client
rows, from `JobAssumption`, `RunnerAssumption`, `BoundAssumption` and
`ClientRowsAssumption` (a client's row exists and has an attempt number from 1
on):

- `StoreInvariant`: `StoreInv == StoreTypeOK /\ CompletedNotDispatchable /\
  DispatchNamesHolder /\ RowsNumbered`. The properties are not inductive one by
  one: that the dispatch record names the holder needs the entry's attempt to be
  an index of the table, which needs the attempt `Enqueue` copies from the job
  row to be a number of a row that exists; that is `RowsNumbered`, and the type
  invariant carries the rest. One lemma per action.
- `StoreTypeCorrect`, `NoCompletedJobQueued`, `DispatchRecordExact`: its parts.
- `QueuePlaceKept`: the action property, from the same invariant.
- `StoreImplementsLeaseQueue`: the initial states map to initial states, and
  every step of the store to `Claim`, `Offer`, `Leave` or a stutter. It shows in
  particular that a reap of many leases is one `Offer`, and that a heartbeat and
  an update of a live job are invisible.
- `MemStoreTyped`, `MemStoreImplements`: every operation on the maps is the
  operation of the same name on the tables, or leaves them alone. It needs
  `MemInv`: a key is a job, and a queue row has a job. Without the latter a row
  taken back whose job is not in the map would tell the stores apart.

*SchedulerProofs*, with any number of calls that overlap at every write, from
`SchedulerAssumption` and `PlanAssumption` (the policy of a job allows at least
one attempt, as `workflow/retry.go` sees to). Every call writes rows from copies it read
earlier, so the tables keep nothing by themselves. `SchedInv` has `TablesInv`
for the tables and `CallOK` for every call: what its snapshot, the row of its
dispatch and each write in `todo` satisfy, whatever has happened since they were
read. That is the argument for `NoJobOverBudget`: `RetryBudgetKept` holds of
each copy, and `UpdateJob` writes copies. `SchedulerQueuesNoEnded` and
`SchedulerImplementsLeaseQueue` say that the queue under the scheduler keeps the
promises of LeaseQueue although nothing orders the calls: the store refuses what
a stale copy would spoil. What a call decides on comes from loops over jobs in
order of their ids, so `todo` is typed by LoopLemmas.

*SerialProofs*, on top of it, is about calls taken one after the other (`OneAtATime`: there is
at most one call under way; restarts, lost leases and ended backoffs still fall
between its writes) while no run has been re-run: `SerialGroupExclusive` and
`SerialMaxParallel`. A gate is decided from a snapshot and the rows are written
later, one by one, so what is inductive speaks of the writes a call has left
(`SerialInv`). They are *orderly*: only a job that holds its place already is
opened, or one job that enters, after the rows that close every job of its group
and while its matrix has room; and none that was closed is opened again. Each
offer follows the row that says so (`Offered`), a plan is registered after its
jobs (`Registers`), and the snapshot of a tick that admits is what the rows will
be once its writes are made (`Catches`), which is why the count of the legs in
the copy may be trusted. Both hypotheses are needed, TLC finds either property
violated without one: a re-run leaves queue entries behind that are leased
without a gate (the finding of run `rerun`), and two calls at once, one of them an
operator's, decide from copies that miss each other's writes.
`maxParallel` is assumed to be one number for the legs of a matrix.

Its second part proves `SerialNeedsGate` on top of the first, with cancels at
will, as long as no run is re-run and nothing is approved (`Approve` is about runs
of a fork only: no run is one, or no operator has ordered anything).
`GateInv` says of the tables that a job that was let in has its needs met (or its
condition does not wait for them), and of the writes a call has left that each
keeps what a job that has ended concluded (`Keeps`) and opens no job before its
needs are met by the rows as they will be then. So a verdict that let a job in
stays the verdict of its needs. A re-run takes conclusions back, and an approval
writes `queued` over its job whatever became of it (`scheduler.go:254-260`): a job
that was cancelled while it waited for the approval would be open again. No
handler calls `Approve` yet; the attempt to prove the property without that
hypothesis found this. `SerialEndedStay` is the action property over whole behaviours
with these two left out: nothing then takes back a job's end.

Its third part is about the runs, under the same two hypotheses:
`SerialClosedSettled` and `SerialGroupOfRuns`. A run is closed from a copy of its
jobs, and let in or held by a look at the plans and the runs; so `RunInv` says
of a call that each write that closes a run comes when its jobs have ended, or
will have by the writes before it, with the conclusions it was computed from
(`Settles`); that jobs are created, a plan registered and a run started only for
the newest run there is, in this order, and after the runs it cancels were closed
or left for later (`Superseding`); and that a job is opened only in a run that is
not held (`Passing`). The newest run gives the argument its order: a plan that is
registered is of a newer run than all others, so it can hold none of them back
that was let in before, and whether a run is held can only change from yes to no.
That is also why a restart, which forgets who holds whom, breaks neither property.
Whether a re-run keeps them is not claimed: it opens the jobs of a closed run.

*RunnerProofs*, from `SlotAssumption` and the store's assumptions.
`RepeatsOnlyGarbled` needs `KeysInv`:
a running agent knows each key it has executed, and so does its file if a
restart would read it, but for keys written behind a torn line.
`ProtocolQueuesNoEnded` and `ProtocolHandsOutOfQueue` need `ProtocolInv`, which
types the rows a reap carries between its two steps and the reports that are let
in and not yet recorded (`ReportsInv`): a result for a later attempt than the one
reported does no harm to the queue.

*HostProofs.* `ActionsWhole` (`CacheInv`: a directory with the marker has all
files, and while a download runs its directory has no marker, so that a removal
cut short cannot leave one behind). `CacheVolumeNotShared` (`BoxInv`: a job whose
container exists on the volume holds the lock unless it left the container behind;
what it says of each stage of Create and Close is what may exist by then beside what
`made` records. A container whose `docker run` was cut off is not recorded, but it
keeps the workspace volume, which is, from being removed). `GreenJobsEarned`
(`GreenInv`: an unexcused failure at any depth leaves a first failure that is
never taken back). `DeferredPostsRun` (`PostsInv`: what has run is the reverse
of the end of what was registered, and what is left is its beginning, unless the
job was cancelled; then what has run stays such an end).
`NoJobRemoved` (`PoolInv`: in the commands a pass has left, a removal directly
follows the wait for the drain of its slot, or is next and its container is
down; and a container that is down has no job, because a runner that stops gives
it back. A pass that failed or was killed
is begun anew, never taken up in its middle).

*ServiceProofs.*

- `AnsweredLinesKept`, from `LogBoundsAssumption`: a call between two locks may
  hold an entry that the index has forgotten, so `HotInv` speaks of the entry the
  index has and of the blob, and of how far a `Finalize` has come: whatever it
  drops it has copied. `StreamsInARow`: `StreamInv` says of every subscriber that
  what it was given, what the pump took and what is in the ring make one row, and
  that one that is registered with an entry has all of the entry in that row; the
  next push then continues it.
- `TokensOutliveCalls`, from `HubAssumption` (the refresh window is at least the
  slowest exchange): a request on its way left with more than the window.
- `RequestsHonouredOnce`: a served request is remembered by its nonce or stale
  for good, because a nonce is kept for two windows and a request is at most one
  window ahead. `SessionTokensAccepted`: the clock of a host that got a session
  is at most one window behind, and one window is within the margin of renewal
  (`EnrolmentAssumption`).
- `FinalizedStaysIntact`, from `UploadAssumption`: an assembly under way holds a
  beginning of what was sent, so a digest is of the whole or the call fails.
- `NewestUpdateKept`, from `ReporterAssumption` (the list of annotations only
  grows): when nothing is pending, the one flush that writes, writes the newest.
- `ArchivesServedWhole`, for chunks of any offset and length, in any order, twice
  or overlapping, both kinds of blob store, and any declared size (the code takes
  a negative one for an upload whose size was not declared). `ArchiveInv` says where
  the commit of each entry stands and what the object has by then: every byte
  that was recorded is under the key, or in a part that stands for its range; so
  a coverage without a hole makes an object without one, and an object behind a
  finalized row is dropped only after the row is gone from the index.
- `DeliveriesAccounted`: `IngestInv` says of each handler that has met no error
  that every file before the one in hand is accounted for, and that the run it
  is creating is its own and still queued, so that no other handler has ended it.
- `IdTokensServed`, for tokens whose key was saved at some time (one whose save
  failed is gone at the next start, and its tokens do not verify: `keyring.go:262-264`):
  the key of a token that has not run out is in the ring, and in the file,
  unretired or retired late enough. The token
  is dated before it is signed, so a rotation may come between; and a start goes
  back to the file, so the file must hold every saved key that still signs.

*LoopLemmas* has what the others need of loops: `LeastNatural` (from the
library's `WFMin`), the existence of the partial concatenations behind
`FlattenSeq`, and that a loop over a finite set of numbers in order visits its
members. These are statements about all lengths. The library's induction
theorems cannot be used, because they take an operator as a parameter; a least
counterexample among the naturals does the same where the function in question
is known to exist.

*What the proofs changed in the models.* Some definitions were rewritten to say the same in a form that can be
reasoned about: a `CASE` with overlapping guards became an `IF` chain in the
order of the source (StepRunner), nested `[@ EXCEPT ...]` became paths
(`![u].got = ...`), a fold became a loop in id order (`ForEach` in Scheduler),
the ring of keys became a set (IdTokens), and the constants got the assumptions
their meaning implies.

*Model-checked only, and why.*

- *Liveness*: `EveryRunEnds`, `EveryJobEnds`, `StreamEnds` need fairness and
  ENABLED, which the prover does not handle.
- *`QueueMirrorsJobs`*, which a restart in the middle of a call breaks, and
  `OverlapHarmless`, which is about calls that overlap undisturbed. `TypeOK` of Scheduler
  is about the bound of its run; `SchedulerTyped` is its counterpart without one.
- *Folds over data*: `OrderIsCanonical`, `IncludesDecide`, `LinesWhole` and
  `StatusOnlyIfNamed` are about what a fold, a filter of a sequence or the
  evaluation of a tree computes; the definitions of the library's folds are out
  of the prover's reach.
- The properties that do not hold, which are findings.

Worth proving next: `QueueMirrorsJobs` for calls that follow each other, on top
of `SerialInv`.

## Not modelled

- *Failure classifier* (`classify`): a table of text rules; its answer is an
  input of Scheduler and StepRunner.
- *Parsers*: of workflow files, expressions, globs, env files, masks; text in,
  text out. Ingest and Conditions begin behind them.
- *Other tables of the store*, steps, annotations, events, secrets, statistics:
  written and read back.
- *S3 requests and signatures*, job token scopes, signed URLs, operator sign-in:
  decisions on a single request.
- *Read API* but for logs, *web UI, demo data, configuration, programs*: views and wiring. The
  ticker and the restart policy of the programs are where fairness comes from.
- *`RetryPolicy.Delay`*: a backoff is a flag that time clears.
- *Re-requested checks and the deduper* of ingest: the first calls the modelled
  re-run, the second has no caller.
