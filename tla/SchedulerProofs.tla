--------------------------- MODULE SchedulerProofs ---------------------------
(***************************************************************************)
(* What holds of the scheduler however many calls overlap, for every plan, *)
(* set of jobs, runners, orders, restarts, losses and re-runs.             *)
(*                                                                         *)
(* Every call writes rows from copies it read earlier, so an invariant of  *)
(* the tables is inductive only together with what every copy under way    *)
(* satisfies: those in the snapshot, in the row of a dispatch, and in the  *)
(* writes a call has decided on (CallOK).                                  *)
(***************************************************************************)
EXTENDS Scheduler, LoopLemmas, SequenceTheorems

-----------------------------------------------------------------------------
\* The types.  Attempts are numbered without a bound: the bound of the runs is
\* only MaxAttempt's.

RowColumns ==
  [conclusion : Conclusions \cup {""}, cancel : CancelActors \cup {""},
   retries : Nat, awaiting : BOOLEAN]

SchedRow ==
  [status : {"absent", "queued", "in_progress", "completed", "waiting"}, attempt : Nat,
   runner : Runner \cup {NoRunner}, setup : BOOLEAN, queued : BOOLEAN, rest : RowColumns]

SchedEntry ==
  [state : {"absent", "queued", "leased"}, attempt : Nat, runner : Runner \cup {NoRunner},
   queuedAt : Nat, ready : BOOLEAN, expired : BOOLEAN]

SchedRun ==
  [status : {"absent", "queued", "in_progress", "completed"},
   conclusion : Conclusions \cup {""}, cancel : CancelActors \cup {""}, attempt : Nat]

AnyResult ==
  [conclusion : Conclusions \cup {""}, class : FailureClasses, cancel : CancelActors \cup {""}]

\* A row of a job that is there, within its budget of retries, and held for an
\* approval only if its run is of a fork.
Kept(j) ==
  {row \in SchedRow : /\ row.status # "absent" /\ row.rest.retries < Plan[j].retry.attempts
                      /\ row.rest.awaiting => RunPlan[Plan[j].run].fork}

\* A call's copy of some jobs.
Snaps == {s \in UNION {[js -> SchedRow] : js \in SUBSET Job} : \A j \in DOMAIN s : s[j] \in Kept(j)}

\* A write a call may have decided on.
RowWrites ==
  {w \in [do : {"create", "update"}, job : Job, row : SchedRow] : w.row \in Kept(w.job)}

QueueWrites ==
  [do : {"drop"}, job : Job] \cup [do : {"offer"}, job : Job, attempt : Nat, ready : BOOLEAN]

RunWrites ==
  [do : {"run"}, run : Run, row : SchedRun] \cup [do : {"register", "forget"}, run : Run]

Write == RowWrites \cup QueueWrites \cup RunWrites

Groups == {Plan[j].group : j \in Job}

Ops ==
  {"idle", "start", "tick", "acquire", "setup", "complete", "approve", "cancel", "cancelJob", "rerun"}

Places ==
  {"", "supersede", "return", "track", "runs", "gate", "admit", "dispatch", "withdraw",
   "completed", "setup"}

CallState ==
  [op : Ops, at : Places, run : Run \cup {0}, job : Job \cup {0},
   runner : Runner \cup {NoRunner}, row : SchedRow, rrow : SchedRun, snap : Snaps,
   todo : Seq(Write), left : SUBSET Run, taken : SUBSET Groups, last : Nat, res : AnyResult]

CallOK(c) ==
  /\ c \in CallState
  /\ c.at = "dispatch" => c.job \in Job /\ c.row \in Kept(c.job)
  /\ c.at \in {"completed", "setup", "withdraw"} => c.job \in Job
  /\ c.at \in {"gate", "admit", "supersede"} => c.run \in Run

\* A call that is about to read its job again has one to read.
CallsInv ==
  /\ calls = [t \in Call |-> calls[t]]
  /\ \A t \in Call : /\ CallOK(calls[t])
                     /\ calls[t].at \in {"completed", "setup"} => Exists(calls[t].job)

\* The rows of one job.
RowsFit(j, job, entry) ==
  /\ job \in SchedRow /\ entry \in SchedEntry
  /\ job.status # "absent" => job \in Kept(j)
  /\ entry.state # "absent" => job.status \notin {"completed", "absent"}

TablesInv ==
  /\ jobs = [j \in Job |-> jobs[j]] /\ queue = [j \in Job |-> queue[j]]
  /\ \A j \in Job : RowsFit(j, jobs[j], queue[j])

RunsInv == runs \in [Run -> SchedRun] /\ plans \subseteq Run

\* The inductive invariant.
SchedInv == TablesInv /\ CallsInv /\ RunsInv

-----------------------------------------------------------------------------
\* What the scheduler makes of a row is a row within its budget.

LEMMA Budget == \A j \in Job : Plan[j].retry.attempts \in Nat /\ 0 < Plan[j].retry.attempts
<1> TAKE j \in Job
<1>1. Plan[j].retry.attempts \in Nat /\ Plan[j].retry.attempts # 0
  BY PlanAssumption
<1> QED
  BY <1>1

LEMMA FinishedKept ==
  ASSUME NEW j \in Job, NEW row \in Kept(j), NEW res \in AnyResult
  PROVE  Finished(row, res) \in Kept(j) /\ Finished(row, res).status = "completed"
<1>1. row \in SchedRow /\ row.rest \in RowColumns /\ row.rest.retries < Plan[j].retry.attempts
  BY DEF Kept, SchedRow
<1> DEFINE rest == [row.rest EXCEPT !.conclusion = res.conclusion, !.cancel = res.cancel]
<1>2. rest \in RowColumns /\ rest.retries = row.rest.retries /\ rest.awaiting = row.rest.awaiting
  BY <1>1 DEF RowColumns, AnyResult
<1>3. Finished(row, res) = [row EXCEPT !.status = "completed", !.runner = NoRunner, !.rest = rest]
  BY <1>1 DEF Finished, SchedRow, RowColumns
<1> HIDE DEF rest
<1> QED
  BY <1>1, <1>2, <1>3 DEF Kept, SchedRow

LEMMA NextAttemptKept ==
  ASSUME NEW j \in Job, NEW row \in Kept(j)
  PROVE  /\ NextAttempt(row) \in Kept(j) /\ NextAttempt(row).status = "queued"
         /\ NextAttempt(row).rest.retries = row.rest.retries
<1>1. row \in SchedRow /\ row.rest \in RowColumns /\ row.rest.retries < Plan[j].retry.attempts
  BY DEF Kept, SchedRow
<1> DEFINE rest == [row.rest EXCEPT !.conclusion = "", !.cancel = ""]
<1>2. rest \in RowColumns /\ rest.retries = row.rest.retries /\ rest.awaiting = row.rest.awaiting
  BY <1>1 DEF RowColumns
<1>3. NextAttempt(row) = [status |-> "queued", attempt |-> row.attempt + 1, runner |-> NoRunner,
                          setup |-> FALSE, queued |-> TRUE, rest |-> rest]
  <2>1. NextAttempt(row) = [row EXCEPT !.status = "queued", !.attempt = row.attempt + 1,
          !.runner = NoRunner, !.setup = FALSE, !.queued = TRUE, !.rest = rest]
    BY <1>1 DEF NextAttempt, SchedRow, RowColumns
  <2>2. row = [status |-> row.status, attempt |-> row.attempt, runner |-> row.runner,
               setup |-> row.setup, queued |-> row.queued, rest |-> row.rest]
    BY <1>1 DEF SchedRow
  <2> HIDE DEF rest
  <2> QED
    BY <2>1, <2>2
<1>4. row.attempt + 1 \in Nat
  BY <1>1 DEF SchedRow
<1> HIDE DEF rest
<1> QED
  BY <1>1, <1>2, <1>3, <1>4 DEF Kept, SchedRow

\* A row of Kept(j) whose columns are changed to columns within the budget.
LEMMA ColumnsChanged ==
  ASSUME NEW j \in Job, NEW row \in Kept(j), NEW rest \in RowColumns,
         rest.retries < Plan[j].retry.attempts, rest.awaiting => row.rest.awaiting
  PROVE  [row EXCEPT !.rest = rest] \in Kept(j)
         /\ [row EXCEPT !.rest = rest].status = row.status
  BY DEF Kept, SchedRow

\* requeueForRetry is only reached with a retry left.
LEMMA RetryKept ==
  ASSUME NEW j \in Job, NEW row \in Kept(j),
         row.rest.retries + 1 < Plan[j].retry.attempts
  PROVE  RetryOf(row) \in Kept(j) /\ RetryOf(row).status = "queued"
<1> DEFINE next == NextAttempt(row)
           rest == [next.rest EXCEPT !.retries = next.rest.retries + 1]
<1>1. next \in Kept(j) /\ next.status = "queued" /\ next.rest.retries = row.rest.retries
  BY NextAttemptKept
<1>2. next.rest \in RowColumns
  BY <1>1 DEF Kept, SchedRow
<1>3. next.rest.retries + 1 \in Nat
  <2>1. next.rest.retries \in Nat
    BY <1>2 DEF RowColumns
  <2> HIDE DEF next
  <2> QED
    BY <2>1
<1>4. rest \in RowColumns /\ rest.retries = row.rest.retries + 1 /\ rest.awaiting = next.rest.awaiting
  BY <1>1, <1>2, <1>3 DEF RowColumns
<1>5. RetryOf(row) = [next EXCEPT !.rest = rest]
  BY <1>1, <1>2 DEF RetryOf
<1> HIDE DEF next, rest
<1> QED
  BY <1>1, <1>4, <1>5, ColumnsChanged

LEMMA RerunKept ==
  ASSUME NEW j \in Job, NEW row \in Kept(j)
  PROVE  RerunOf(row) \in Kept(j) /\ RerunOf(row).status = "queued"
<1> DEFINE next == NextAttempt(row)
           rest == [next.rest EXCEPT !.retries = 0]
           reset == [next EXCEPT !.queued = FALSE]
<1>1. next \in Kept(j) /\ next.status = "queued"
  BY NextAttemptKept
<1>2. next.rest \in RowColumns
  BY <1>1 DEF Kept, SchedRow
<1>3. rest \in RowColumns /\ rest.retries = 0 /\ rest.awaiting = next.rest.awaiting
  BY <1>2 DEF RowColumns
<1>4. reset \in Kept(j) /\ reset.status = "queued" /\ reset.rest = next.rest
  BY <1>1 DEF Kept, SchedRow
<1>5. RerunOf(row) = [reset EXCEPT !.rest = rest]
  BY <1>1, <1>2 DEF RerunOf, Kept, SchedRow
<1> HIDE DEF next, rest, reset
<1> QED
  BY <1>3, <1>4, <1>5, Budget, ColumnsChanged

\* What the store's operations and a call's own decisions make of a row.
LEMMA RowChanges ==
  ASSUME NEW j \in Job, NEW row \in Kept(j)
  PROVE  /\ BackToQueue(row) \in Kept(j) /\ BackToQueue(row).status = "queued"
         /\ [row EXCEPT !.status = "queued", !.queued = TRUE] \in Kept(j)
         /\ [row EXCEPT !.status = "queued", !.queued = TRUE].status = "queued"
         /\ [row EXCEPT !.status = "waiting"] \in Kept(j)
         /\ [row EXCEPT !.setup = TRUE] \in Kept(j)
  BY DEF BackToQueue, Kept, SchedRow

LEMMA RunningKept ==
  ASSUME NEW j \in Job, NEW row \in Kept(j), NEW r \in Runner
  PROVE  /\ RunningOn(r, row) \in Kept(j) /\ RunningOn(r, row).status = "in_progress"
         /\ [row EXCEPT !.status = "in_progress", !.runner = r] \in Kept(j)
  BY DEF RunningOn, Kept, SchedRow

LEMMA ApprovedKept ==
  ASSUME NEW j \in Job, NEW row \in Kept(j)
  PROVE  [row EXCEPT !.status = "queued", !.rest.awaiting = FALSE] \in Kept(j)
<1> DEFINE rest == [row.rest EXCEPT !.awaiting = FALSE]
           queued == [row EXCEPT !.status = "queued"]
<1>1. row \in SchedRow /\ row.rest \in RowColumns /\ row.rest.retries < Plan[j].retry.attempts
  BY DEF Kept, SchedRow
<1>2. rest \in RowColumns /\ rest.retries = row.rest.retries /\ ~rest.awaiting
  BY <1>1 DEF RowColumns
<1>3. queued \in Kept(j)
  BY DEF Kept, SchedRow
<1>4. [row EXCEPT !.status = "queued", !.rest.awaiting = FALSE] = [queued EXCEPT !.rest = rest]
  BY <1>1 DEF SchedRow
<1> HIDE DEF rest, queued
<1> QED
  BY <1>1, <1>2, <1>3, <1>4, ColumnsChanged

LEMMA NewRowKept == \A j \in Job : NewRow(j) \in Kept(j) /\ NewRow(j).status # "completed"
<1> TAKE j \in Job
<1> DEFINE held == RunPlan[Plan[j].run].fork
           rest == [NoColumns EXCEPT !.awaiting = held]
           status == IF held THEN "waiting" ELSE "queued"
<1>1. held \in BOOLEAN
  BY PlanAssumption
<1>2. rest \in RowColumns /\ rest.retries = 0 /\ rest.awaiting = held
  <2>1. NoColumns \in RowColumns /\ NoColumns.retries = 0
    BY DEF NoColumns, RowColumns
  <2> HIDE DEF held
  <2> QED
    BY <1>1, <2>1 DEF RowColumns
<1>3. NewRow(j) = [status |-> status, attempt |-> 1, runner |-> NoRunner,
                   setup |-> FALSE, queued |-> FALSE, rest |-> rest]
  <2>2. NewRow(j) = [AbsentJob EXCEPT !.status = status, !.attempt = 1,
                                      !.rest = [AbsentJob.rest EXCEPT !.awaiting = held]]
    BY DEF NewRow, AbsentJob
  <2>3. AbsentJob.rest = NoColumns
    BY DEF AbsentJob
  <2>4. NewRow(j) = [AbsentJob EXCEPT !.status = status, !.attempt = 1, !.rest = rest]
    BY <2>2, <2>3
  <2> HIDE DEF held, status, rest
  <2> QED
    BY <2>4 DEF AbsentJob
<1>4. status \in {"waiting", "queued"}
  OBVIOUS
<1>5. rest.awaiting => RunPlan[Plan[j].run].fork
  BY <1>2
<1> HIDE DEF held, rest, status
<1> QED
  BY <1>2, <1>3, <1>4, <1>5, Budget DEF Kept, SchedRow

\* The row finishAttempt leaves, with a retry or without one.
LEMMA FinishedRowKept ==
  ASSUME NEW j \in Job, NEW row \in Kept(j), NEW res \in AnyResult, NEW allow \in BOOLEAN
  PROVE  FinishedRow(j, row, res, allow) \in Kept(j)
<1>1. CASE allow /\ RetryPermitted(j, row, res)
  <2>1. row.rest.retries + 1 < Plan[j].retry.attempts
    BY <1>1 DEF RetryPermitted, Retries
  <2> QED
    BY <1>1, <2>1, RetryKept DEF FinishedRow
<1>2. CASE ~(allow /\ RetryPermitted(j, row, res))
  BY <1>2, FinishedKept DEF FinishedRow
<1> QED
  BY <1>1, <1>2

-----------------------------------------------------------------------------
\* What a call decides to write are writes.

LEMMA LoopWrites ==
  ASSUME NEW js \in SUBSET Job, NEW f \in [js -> Seq(Write)]
  PROVE  ForEach(f) \in Seq(Write)
<1> DEFINE n == Cardinality(DOMAIN f)
           rounds == [i \in 1..n |-> f[Nth(DOMAIN f, i)]]
<1>1. IsFiniteSet(js) /\ js \in SUBSET Nat /\ DOMAIN f = js
  BY FS_Subset, SchedulerAssumption
<1>2. n \in Nat
  BY <1>1, FS_CardinalityType
<1>3. ASSUME NEW i \in 1..n PROVE f[Nth(DOMAIN f, i)] \in Seq(Write)
  <2>1. \E j \in js : Cardinality({k \in js : k < j}) = i - 1
    BY <1>1, RankExists
  <2>2. Nth(js, i) \in js
    BY <2>1 DEF Nth
  <2> QED
    BY <1>1, <2>2
<1> HIDE DEF n
<1>4. rounds \in Seq(Seq(Write))
  BY <1>2, <1>3
<1> HIDE DEF rounds
<1>5. FlattenSeq(rounds) \in Seq(Write)
  BY <1>4, FlattenSeqType
<1> QED
  BY <1>5 DEF ForEach, rounds, n

LEMMA RowWrite ==
  ASSUME NEW j \in Job, NEW row \in Kept(j)
  PROVE  Update(j, row) \in Seq(Write) /\ Create(j, row) \in Seq(Write)
<1>1. row \in SchedRow
  BY DEF Kept
<1>2. ASSUME NEW do \in {"create", "update"}
      PROVE  [do |-> do, job |-> j, row |-> row] \in Write
  BY <1>1 DEF Write, RowWrites
<1> QED
  BY <1>2 DEF Update, Create

LEMMA QueueWrite ==
  ASSUME NEW j \in Job
  PROVE  /\ Drop(j) \in Seq(Write) /\ Offer(j) \in Seq(Write)
         /\ \A row \in SchedRow : OfferRetry(j, row) \in Seq(Write)
<1>1. [do |-> "drop", job |-> j] \in Write
  BY DEF Write, QueueWrites
<1>2. Offer(j) \in Seq(Write)
  <2>1. [do |-> "offer", job |-> j, attempt |-> 0, ready |-> TRUE] \in Write
    BY DEF Write, QueueWrites
  <2> QED
    BY <2>1 DEF Offer
<1>3. ASSUME NEW row \in SchedRow PROVE OfferRetry(j, row) \in Seq(Write)
  <2> DEFINE offer == [do |-> "offer", job |-> j, attempt |-> row.attempt, ready |-> FALSE]
  <2>1. row.attempt \in Nat
    BY DEF SchedRow
  <2>2. offer \in Write
    BY <2>1 DEF Write, QueueWrites
  <2>3. OfferRetry(j, row) = <<offer>>
    BY DEF OfferRetry
  <2> HIDE DEF offer
  <2> QED
    BY <2>2, <2>3
<1> QED
  BY <1>1, <1>2, <1>3 DEF Drop

LEMMA RunWrite ==
  ASSUME NEW r \in Run
  PROVE  /\ RegisterPlan(r) \in Seq(Write) /\ ForgetPlan(r) \in Seq(Write)
         /\ \A row \in SchedRun : UpdateRun(r, row) \in Seq(Write)
<1>1. ASSUME NEW do \in {"register", "forget"} PROVE [do |-> do, run |-> r] \in Write
  BY DEF Write, RunWrites
<1>2. ASSUME NEW row \in SchedRun PROVE [do |-> "run", run |-> r, row |-> row] \in Write
  BY DEF Write, RunWrites
<1> QED
  BY <1>1, <1>2 DEF RegisterPlan, ForgetPlan, UpdateRun

LEMMA FinishWritesType ==
  ASSUME NEW j \in Job, NEW row \in Kept(j), NEW res \in AnyResult, NEW allow \in BOOLEAN
  PROVE  FinishWrites(j, row, res, allow) \in Seq(Write)
<1> DEFINE end == FinishedRow(j, row, res, allow)
<1>1. end \in Kept(j) /\ end \in SchedRow
  BY FinishedRowKept DEF Kept
<1> HIDE DEF end
<1>2. /\ Update(j, end) \in Seq(Write) /\ Drop(j) \in Seq(Write)
      /\ OfferRetry(j, end) \in Seq(Write)
  BY <1>1, RowWrite, QueueWrite
<1>3. Update(j, end) \o Drop(j) \o OfferRetry(j, end) \in Seq(Write)
  BY <1>2
<1> QED
  BY <1>2, <1>3 DEF FinishWrites, end

\* A call's copy of some jobs, taken apart and put together.
LEMMA SnapIs ==
  ASSUME NEW s \in Snaps
  PROVE  /\ DOMAIN s \in SUBSET Job /\ s = [j \in DOMAIN s |-> s[j]]
         /\ \A j \in DOMAIN s : s[j] \in Kept(j) /\ s[j] \in SchedRow
  BY DEF Snaps, Kept

LEMMA IsSnap ==
  ASSUME NEW s, DOMAIN s \in SUBSET Job, s = [j \in DOMAIN s |-> s[j]],
         \A j \in DOMAIN s : s[j] \in Kept(j)
  PROVE  s \in Snaps
<1>1. s \in [DOMAIN s -> SchedRow]
  BY DEF Kept
<1> QED
  BY <1>1 DEF Snaps

LEMMA StoppedSnap ==
  ASSUME NEW snap \in Snaps, NEW res \in AnyResult
  PROVE  Stopped(snap, res) \in Snaps /\ StopWrites(snap, res) \in Seq(Write)
<1>1. /\ DOMAIN snap \in SUBSET Job /\ \A j \in DOMAIN snap : snap[j] \in Kept(j)
      /\ Live(snap) \in SUBSET Job /\ Live(snap) \in SUBSET DOMAIN snap
  BY SnapIs DEF Live
<1>2. \A j \in DOMAIN snap : Finished(snap[j], res) \in Kept(j)
  BY <1>1, FinishedKept
<1>3. Stopped(snap, res) \in Snaps
  <2> DEFINE s == Stopped(snap, res)
  <2>1. DOMAIN s = DOMAIN snap /\ s = [j \in DOMAIN s |-> s[j]]
    BY DEF Stopped
  <2>2. \A j \in DOMAIN s : s[j] \in Kept(j)
    BY <1>1, <1>2 DEF Stopped
  <2> HIDE DEF s
  <2>3. s \in Snaps
    BY <1>1, <2>1, <2>2, IsSnap
  <2> QED
    BY <2>3 DEF s
<1>4. [j \in Live(snap) |-> Update(j, Finished(snap[j], res))] \in [Live(snap) -> Seq(Write)]
  BY <1>1, <1>2, RowWrite
<1> QED
  BY <1>1, <1>3, <1>4, LoopWrites DEF StopWrites

LEMMA RankBetween ==
  /\ \A c : Rank(c) \in 0..5 /\ 5 - Rank(c) \in Nat
  /\ \A b, c : 5 - Rank(c) <= 5 - Rank(b) => Rank(b) <= Rank(c)
<1>1. \A c : Rank(c) \in 0..5
  BY DEF Rank
<1> QED
  BY <1>1

LEMMA AggregateType ==
  ASSUME NEW cs \in SUBSET (Conclusions \cup {""})
  PROVE  Aggregate(cs) \in Conclusions \cup {""}
<1>1. CASE cs \cap FailureConclusions # {}
  <2> DEFINE Depths == {5 - Rank(c) : c \in cs}
  <2>1. Depths \subseteq Nat /\ Depths # {}
    BY <1>1, RankBetween
  <2>2. PICK d \in Depths : \A e \in Depths : d <= e
    <3> HIDE DEF Depths
    <3> QED
      BY <2>1, LeastNatural
  <2>3. PICK c \in cs : d = 5 - Rank(c)
    BY <2>2
  <2>4. \A b \in cs : Rank(b) <= Rank(c)
    BY <2>2, <2>3, RankBetween
  <2>5. Worst(cs) \in cs
    BY <2>4 DEF Worst
  <2> QED
    BY <1>1, <2>5 DEF Aggregate
<1>2. CASE ~(cs \cap FailureConclusions # {})
  BY <1>2 DEF Aggregate, Conclusions
<1> QED
  BY <1>1, <1>2

LEMMA ClosedRunType ==
  ASSUME NEW rrow \in SchedRun, NEW snap \in Snaps
  PROVE  [rrow EXCEPT !.status = "completed",
            !.conclusion = Aggregate({snap[j].rest.conclusion : j \in DOMAIN snap})] \in SchedRun
<1> DEFINE cs == {snap[j].rest.conclusion : j \in DOMAIN snap}
<1>1. cs \in SUBSET (Conclusions \cup {""})
  <2>1. \A j \in DOMAIN snap : snap[j] \in SchedRow
    BY SnapIs
  <2>2. ASSUME NEW row \in SchedRow PROVE row.rest.conclusion \in Conclusions \cup {""}
    <3>1. row.rest \in RowColumns
      BY DEF SchedRow
    <3> QED
      BY <3>1 DEF RowColumns
  <2>3. \A j \in DOMAIN snap : snap[j].rest.conclusion \in Conclusions \cup {""}
    BY <2>1, <2>2
  <2> QED
    BY <2>3
<1> HIDE DEF cs
<1>2. [rrow EXCEPT !.status = "completed", !.conclusion = Aggregate(cs)] \in SchedRun
  BY <1>1, AggregateType DEF SchedRun
<1> QED
  BY <1>2 DEF cs

LEMMA FinalizeWritesType ==
  ASSUME NEW r \in Run, NEW rrow \in SchedRun, NEW snap \in Snaps
  PROVE  FinalizeWrites(r, rrow, snap) \in Seq(Write)
<1> DEFINE closed == [rrow EXCEPT !.status = "completed",
                        !.conclusion = Aggregate({snap[j].rest.conclusion : j \in DOMAIN snap})]
<1>1. closed \in SchedRun
  BY ClosedRunType
<1> HIDE DEF closed
<1>2. UpdateRun(r, closed) \o ForgetPlan(r) \in Seq(Write)
  BY <1>1, RunWrite
<1> QED
  BY <1>2 DEF FinalizeWrites, closed

LEMMA StopRunWritesType ==
  ASSUME NEW r \in Run, NEW rrow \in SchedRun, NEW snap \in Snaps, NEW res \in AnyResult
  PROVE  StopRunWrites(r, rrow, snap, res) \in Seq(Write)
<1>1. [rrow EXCEPT !.cancel = res.cancel] \in SchedRun
  BY DEF SchedRun, AnyResult
<1>2. FinalizeWrites(r, [rrow EXCEPT !.cancel = res.cancel], Stopped(snap, res)) \in Seq(Write)
  BY <1>1, StoppedSnap, FinalizeWritesType
<1> QED
  BY <1>2, StoppedSnap DEF StopRunWrites

\* What a step may make of an entry: a lease is what it was, or is new to a
\* runner and on a queued entry.
Follows(old, new) ==
  new.state = "leased" => \/ old.state = "queued" /\ new.runner \in Runner
                          \/ old.state = "leased" /\ new.runner = old.runner

\* A step of the tables: rows stay rows, none goes away, and the queue does what
\* the lease queue may.
TableStep ==
  TablesInv' /\ [LQ!Next]_Holder /\ \A j \in Job : Exists(j) => Exists(j)'

LEMMA EntryLeased ==
  ASSUME NEW entry \in SchedEntry, NEW r \in Runner
  PROVE  /\ LeasedTo(r, entry) \in SchedEntry /\ LeasedTo(r, entry).state = "leased"
         /\ LeasedTo(r, entry).runner = r
  BY DEF SchedEntry, LeasedTo

LEMMA EntryUnleased ==
  ASSUME NEW entry \in SchedEntry
  PROVE  Unleased(entry) \in SchedEntry /\ Unleased(entry).state = "queued"
  BY DEF SchedEntry, Unleased

LEMMA EntryFlagged ==
  ASSUME NEW entry \in SchedEntry, NEW b \in BOOLEAN
  PROVE  /\ [entry EXCEPT !.expired = b] \in SchedEntry
         /\ [entry EXCEPT !.expired = b].state = entry.state
         /\ [entry EXCEPT !.expired = b].runner = entry.runner
         /\ [entry EXCEPT !.ready = b] \in SchedEntry
         /\ [entry EXCEPT !.ready = b].state = entry.state
         /\ [entry EXCEPT !.ready = b].runner = entry.runner
  BY DEF SchedEntry

LEMMA EntryAbsent == AbsentEntry \in SchedEntry /\ AbsentEntry.state = "absent"
  BY DEF SchedEntry, AbsentEntry

LEMMA OneJobWritten ==
  ASSUME TablesInv, NEW k \in Job, NEW job, NEW entry,
         jobs' = [jobs EXCEPT ![k] = job], queue' = [queue EXCEPT ![k] = entry],
         RowsFit(k, job, entry), Follows(queue[k], entry),
         Exists(k) => job.status # "absent"
  PROVE  TableStep
<1>a. jobs = [j \in Job |-> jobs[j]] /\ queue = [j \in Job |-> queue[j]]
  BY DEF TablesInv
<1>b. /\ jobs'[k] = job /\ queue'[k] = entry
      /\ \A j \in Job : j # k => jobs'[j] = jobs[j] /\ queue'[j] = queue[j]
  BY <1>a
<1>1. TablesInv'
  <2>1. jobs' = [j \in Job |-> jobs'[j]] /\ queue' = [j \in Job |-> queue'[j]]
    BY <1>a
  <2>2. ASSUME NEW j \in Job PROVE RowsFit(j, jobs'[j], queue'[j])
    <3>1. CASE j = k
      BY <1>b, <3>1
    <3>2. CASE j # k
      BY <1>b, <3>2 DEF TablesInv
    <3> QED
      BY <3>1, <3>2
  <2> QED
    BY <2>1, <2>2 DEF TablesInv
<1>2. [LQ!Next]_Holder
  <2> DEFINE value == IF entry.state = "absent" THEN "out"
                      ELSE IF entry.state = "leased" THEN entry.runner ELSE "waiting"
  <2>2. Holder' = [Holder EXCEPT ![k] = value]
    BY <1>a, <1>b DEF Holder, InQueue, Leased
  <2>3. Holder[k] = IF queue[k].state = "absent" THEN "out"
                    ELSE IF queue[k].state = "leased" THEN queue[k].runner ELSE "waiting"
    BY DEF Holder, InQueue, Leased
  <2>4. Holder = [j \in Job |-> Holder[j]]
    BY DEF Holder
  <2>5. entry.state \in {"absent", "queued", "leased"}
    BY DEF RowsFit, SchedEntry
  <2>6. CASE entry.state = "absent"
    BY <2>2, <2>6 DEF LQ!Next, LQ!Leave
  <2>7. CASE entry.state = "queued"
    <3>1. Holder' = [j \in Job |-> IF j \in {k} THEN "waiting" ELSE Holder[j]]
      BY <2>2, <2>4, <2>7
    <3>2. {k} \in SUBSET Job
      OBVIOUS
    <3> QED
      BY <3>1, <3>2 DEF LQ!Next, LQ!Offer
  <2>8. CASE entry.state = "leased" /\ queue[k].state = "leased"
    <3>1. value = Holder[k]
      BY <2>3, <2>8 DEF Follows
    <3> QED
      BY <2>2, <2>4, <3>1
  <2>9. CASE entry.state = "leased" /\ queue[k].state # "leased"
    <3>1. queue[k].state = "queued" /\ entry.runner \in Runner
      BY <2>9 DEF Follows
    <3>2. Holder[k] = "waiting" /\ Holder' = [Holder EXCEPT ![k] = entry.runner]
      BY <2>2, <2>3, <2>9, <3>1
    <3> QED
      BY <3>1, <3>2 DEF LQ!Next, LQ!Claim
  <2> QED
    BY <2>5, <2>6, <2>7, <2>8, <2>9
<1>3. \A j \in Job : Exists(j) => Exists(j)'
  BY <1>b DEF Exists
<1> QED
  BY <1>1, <1>2, <1>3 DEF TableStep

LEMMA NoRowWritten ==
  ASSUME TablesInv, UNCHANGED <<jobs, queue>>
  PROVE  TableStep
  BY DEF TablesInv, TableStep, Holder, InQueue, Leased, Exists

\* The store's operations, on rows within the budget.
LEMMA RowsOfJob ==
  ASSUME TablesInv
  PROVE  /\ jobs = [j \in Job |-> jobs[j]] /\ queue = [j \in Job |-> queue[j]]
         /\ \A j \in Job : jobs[j] \in SchedRow /\ queue[j] \in SchedEntry
         /\ \A j \in Job : Exists(j) => jobs[j] \in Kept(j)
         /\ \A j \in Job : queue[j].state # "absent" => jobs[j] \in Kept(j) /\ jobs[j].status # "completed"
         /\ \A j \in Job : queue[j].state # "absent" => Exists(j)
  BY DEF TablesInv, RowsFit, Exists

LEMMA RowWriteSteps ==
  ASSUME TablesInv, NEW j \in Job, NEW row \in Kept(j), CreateJob(j, row) \/ UpdateJob(j, row)
  PROVE  TableStep
<1> DEFINE entry == IF row.status = "completed" THEN AbsentEntry ELSE queue[j]
<1>a. row \in SchedRow /\ row.status # "absent"
  BY DEF Kept
<1>1. CASE CreateJob(j, row)
  <2>1. jobs' = [jobs EXCEPT ![j] = row] /\ queue' = [queue EXCEPT ![j] = queue[j]]
    BY <1>1, RowsOfJob DEF CreateJob
  <2>2. queue[j] \in SchedEntry /\ queue[j].state = "absent"
    BY <1>1, RowsOfJob DEF CreateJob
  <2>3. RowsFit(j, row, queue[j]) /\ Follows(queue[j], queue[j])
    BY <1>a, <2>2 DEF RowsFit, Follows
  <2> QED
    BY <1>a, <2>1, <2>3, OneJobWritten
<1>2. CASE UpdateJob(j, row)
  <2>1. jobs' = [jobs EXCEPT ![j] = row] /\ queue' = [queue EXCEPT ![j] = entry]
    BY <1>2, RowsOfJob DEF UpdateJob
  <2>2. queue[j] \in SchedEntry
    BY RowsOfJob
  <2>3. RowsFit(j, row, entry) /\ Follows(queue[j], entry)
    BY <1>a, <2>2, EntryAbsent DEF RowsFit, Follows, SchedEntry
  <2> HIDE DEF entry
  <2> QED
    BY <1>a, <2>1, <2>3, OneJobWritten
<1> QED
  BY <1>1, <1>2

LEMMA EnqueueStep ==
  ASSUME TablesInv, NEW j \in Job, NEW a \in Nat, NEW ready \in BOOLEAN, Enqueue(j, a, 0, ready)
  PROVE  TableStep
<1>1. CASE InQueue(j)
  BY <1>1, NoRowWritten DEF Enqueue
<1>2. CASE ~InQueue(j)
  <2> DEFINE entry == [state |-> "queued", attempt |-> jobs[j].attempt, runner |-> NoRunner,
                       queuedAt |-> 0, ready |-> ready, expired |-> FALSE]
             job == [jobs[j] EXCEPT !.status = "queued", !.queued = TRUE]
  <2>1. jobs[j] \in Kept(j) /\ jobs[j] \in SchedRow
    BY RowsOfJob DEF Enqueue, EnqueueRefused
  <2>2. jobs' = [jobs EXCEPT ![j] = job] /\ queue' = [queue EXCEPT ![j] = entry]
    BY <1>2, RowsOfJob DEF Enqueue
  <2>3. job \in Kept(j) /\ job.status = "queued"
    BY <2>1, RowChanges
  <2>4. entry \in SchedEntry /\ entry.state = "queued"
    BY <2>1 DEF SchedEntry, SchedRow
  <2> HIDE DEF entry, job
  <2>5. RowsFit(j, job, entry) /\ Follows(queue[j], entry)
    BY <2>3, <2>4 DEF RowsFit, Follows, Kept
  <2> QED
    BY <2>2, <2>3, <2>5, OneJobWritten
<1> QED
  BY <1>1, <1>2

LEMMA DropStep ==
  ASSUME TablesInv, NEW j \in Job, DropFromQueue(j)
  PROVE  TableStep
<1>1. jobs' = [jobs EXCEPT ![j] = jobs[j]] /\ queue' = [queue EXCEPT ![j] = AbsentEntry]
  BY RowsOfJob DEF DropFromQueue
<1>2. RowsFit(j, jobs[j], AbsentEntry) /\ Follows(queue[j], AbsentEntry)
  BY EntryAbsent DEF TablesInv, RowsFit, Follows
<1> QED
  BY <1>1, <1>2, OneJobWritten DEF Exists

LEMMA DequeueStep ==
  ASSUME TablesInv, NEW r \in Runner, NEW j \in Job, Dequeue(r, j)
  PROVE  TableStep /\ jobs[j] \in Kept(j) /\ RunningOn(r, jobs[j]) \in Kept(j)
<1> DEFINE job == RunningOn(r, jobs[j])
           entry == LeasedTo(r, queue[j])
<1>1. queue[j].state = "queued" /\ jobs[j] \in Kept(j) /\ queue[j] \in SchedEntry
  BY RowsOfJob DEF Dequeue, Eligible
<1>2. job \in Kept(j) /\ job.status = "in_progress"
  BY <1>1, RunningKept
<1>3. entry \in SchedEntry /\ entry.state = "leased" /\ entry.runner = r
  BY <1>1, EntryLeased
<1>4. jobs' = [jobs EXCEPT ![j] = job] /\ queue' = [queue EXCEPT ![j] = entry]
  BY RowsOfJob DEF Dequeue
<1> HIDE DEF job, entry
<1>5. RowsFit(j, job, entry) /\ Follows(queue[j], entry)
  BY <1>1, <1>2, <1>3 DEF RowsFit, Follows, Kept
<1>6. TableStep
  BY <1>2, <1>4, <1>5, OneJobWritten
<1> QED
  BY <1>1, <1>2, <1>6 DEF job

LEMMA ReleaseStep ==
  ASSUME TablesInv, NEW r, NEW j \in Job, ReleaseLease(r, j)
  PROVE  TableStep
<1> DEFINE job == BackToQueue(jobs[j])
           entry == Unleased(queue[j])
<1>1. queue[j].state # "absent" /\ jobs[j] \in Kept(j) /\ queue[j] \in SchedEntry
  BY RowsOfJob DEF ReleaseLease, LeasedBy, Leased
<1>2. job \in Kept(j) /\ job.status = "queued"
  BY <1>1, RowChanges
<1>3. entry \in SchedEntry /\ entry.state = "queued"
  BY <1>1, EntryUnleased
<1>4. jobs' = [jobs EXCEPT ![j] = job] /\ queue' = [queue EXCEPT ![j] = entry]
  BY RowsOfJob DEF ReleaseLease
<1> HIDE DEF job, entry
<1>5. RowsFit(j, job, entry) /\ Follows(queue[j], entry)
  BY <1>2, <1>3 DEF RowsFit, Follows, Kept
<1> QED
  BY <1>2, <1>4, <1>5, OneJobWritten

\* The clock and the heartbeat move the flags of an entry.
LEMMA FlagStep ==
  ASSUME TablesInv, NEW j \in Job, NEW r,
         Heartbeat(r, j) \/ LeaseRunsOut(j) \/ BackoffRunsOut(j)
  PROVE  TableStep
<1>1. queue[j] \in SchedEntry /\ RowsFit(j, jobs[j], queue[j])
  BY RowsOfJob DEF TablesInv
<1>2. /\ jobs' = [jobs EXCEPT ![j] = jobs[j]]
      /\ \E b \in BOOLEAN : \/ queue' = [queue EXCEPT ![j] = [queue[j] EXCEPT !.expired = b]]
                            \/ queue' = [queue EXCEPT ![j] = [queue[j] EXCEPT !.ready = b]]
  BY RowsOfJob DEF Heartbeat, LeaseRunsOut, BackoffRunsOut
<1>3. PICK entry : /\ queue' = [queue EXCEPT ![j] = entry] /\ entry \in SchedEntry
                   /\ entry.state = queue[j].state /\ entry.runner = queue[j].runner
  <2>1. PICK b \in BOOLEAN : \/ queue' = [queue EXCEPT ![j] = [queue[j] EXCEPT !.expired = b]]
                            \/ queue' = [queue EXCEPT ![j] = [queue[j] EXCEPT !.ready = b]]
    BY <1>2
  <2>2. CASE queue' = [queue EXCEPT ![j] = [queue[j] EXCEPT !.expired = b]]
    BY <1>1, <2>2, EntryFlagged
  <2>3. CASE queue' = [queue EXCEPT ![j] = [queue[j] EXCEPT !.ready = b]]
    BY <1>1, <2>3, EntryFlagged
  <2> QED
    BY <2>1, <2>2, <2>3
<1>4. RowsFit(j, jobs[j], entry) /\ Follows(queue[j], entry)
  BY <1>1, <1>3 DEF RowsFit, Follows, SchedEntry
<1> QED
  BY <1>2, <1>3, <1>4, OneJobWritten DEF Exists

LEMMA ReapStep ==
  ASSUME TablesInv, ReapExpiredLeases
  PROVE  TableStep
<1>1. \A j \in Job : RowsFit(j, jobs[j], queue[j])
  BY DEF TablesInv
<1>2. ASSUME NEW j \in ExpiredLeases
      PROVE  j \in Job /\ RowsFit(j, BackToQueue(jobs[j]), Unleased(queue[j]))
             /\ BackToQueue(jobs[j]).status = "queued"
  <2>1. j \in Job /\ queue[j].state # "absent"
    BY DEF ExpiredLeases, Leased
  <2>2. jobs[j] \in Kept(j) /\ queue[j] \in SchedEntry
    BY <2>1, RowsOfJob
  <2> QED
    BY <2>1, <2>2, RowChanges, EntryUnleased DEF RowsFit, Kept
<1>3. /\ queue' = [j \in Job |-> IF j \in ExpiredLeases THEN Unleased(queue[j]) ELSE queue[j]]
      /\ jobs' = [j \in Job |-> IF j \in ExpiredLeases THEN BackToQueue(jobs[j]) ELSE jobs[j]]
  BY DEF ReapExpiredLeases
<1>4. TablesInv'
  <2>1. jobs' = [j \in Job |-> jobs'[j]] /\ queue' = [j \in Job |-> queue'[j]]
    BY <1>3
  <2>2. \A j \in Job : RowsFit(j, jobs'[j], queue'[j])
    BY <1>1, <1>2, <1>3
  <2> QED
    BY <2>1, <2>2 DEF TablesInv
<1>5. [LQ!Next]_Holder
  <2>1. ExpiredLeases \in SUBSET Job
    BY DEF ExpiredLeases
  <2>2. \A j \in ExpiredLeases : Unleased(queue[j]).state = "queued"
    BY RowsOfJob, EntryUnleased DEF ExpiredLeases
  <2>3. Holder' = [j \in Job |-> IF j \in ExpiredLeases THEN "waiting" ELSE Holder[j]]
    BY <1>3, <2>2 DEF Holder, InQueue, Leased
  <2> QED
    BY <2>1, <2>3 DEF LQ!Next, LQ!Offer
<1>6. \A j \in Job : Exists(j) => Exists(j)'
  BY <1>2, <1>3 DEF Exists
<1> QED
  BY <1>4, <1>5, <1>6 DEF TableStep

-----------------------------------------------------------------------------
\* Calls.

LEMMA FirstOfIn ==
  ASSUME NEW S, S \subseteq Nat, S # {}
  PROVE  FirstOf(S) \in S
  BY LeastNatural DEF FirstOf

LEMMA SnapOfType ==
  ASSUME TablesInv, NEW r
  PROVE  SnapOf(r) \in Snaps /\ \A j \in DOMAIN SnapOf(r) : SnapOf(r)[j] = jobs[j] /\ j \in Job
<1> DEFINE s == SnapOf(r)
<1>1. DOMAIN s \in SUBSET Job /\ s = [j \in DOMAIN s |-> s[j]]
  BY DEF SnapOf, JobsOf
<1>2. \A j \in DOMAIN s : s[j] = jobs[j] /\ Exists(j) /\ j \in Job
  BY DEF SnapOf, JobsOf
<1>3. \A j \in DOMAIN s : s[j] \in Kept(j)
  BY <1>2, RowsOfJob
<1> HIDE DEF s
<1>4. s \in Snaps
  BY <1>1, <1>3, IsSnap
<1> QED
  BY <1>2, <1>4 DEF s

LEMMA IdleOK ==
  /\ CallOK(Idle) /\ Idle \in CallState
  /\ Idle.at \notin {"completed", "setup"}
<1>1. AbsentJob \in SchedRow
  <2>1. NoColumns \in RowColumns
    BY DEF NoColumns, RowColumns
  <2> QED
    BY <2>1 DEF AbsentJob, SchedRow
<1>2. NoRun \in SchedRun
  BY DEF NoRun, SchedRun
<1>3. <<>> \in Snaps
  <2> DEFINE s == <<>>
  <2>1. DOMAIN s = {}
    OBVIOUS
  <2>2. s = [j \in DOMAIN s |-> s[j]]
    OBVIOUS
  <2> HIDE DEF s
  <2>3. s \in Snaps
    BY <2>1, <2>2, IsSnap
  <2> QED
    BY <2>3 DEF s
<1>4. Result("", "", "") \in AnyResult
  BY DEF Result, AnyResult, FailureClasses
<1>5. Idle \in CallState
  <2>1. "idle" \in Ops /\ "" \in Places
    BY DEF Ops, Places
  <2>2. <<>> \in Seq(Write) /\ {} \in SUBSET Run /\ {} \in SUBSET Groups
    OBVIOUS
  <2>3. 0 \in Run \cup {0} /\ 0 \in Job \cup {0} /\ NoRunner \in Runner \cup {NoRunner} /\ 0 \in Nat
    OBVIOUS
  <2> QED
    BY <1>1, <1>2, <1>3, <1>4, <2>1, <2>2, <2>3 DEF Idle, CallState
<1>6. Idle.at = ""
  BY DEF Idle
<1> QED
  BY <1>5, <1>6 DEF CallOK

\* A call that only has to write.
LEMMA WritingCall ==
  ASSUME NEW op \in Ops, NEW todo \in Seq(Write)
  PROVE  LET c == [Idle EXCEPT !.op = op, !.at = "return", !.todo = todo] IN
         CallOK(c) /\ c.at = "return"
<1> DEFINE c == [Idle EXCEPT !.op = op, !.at = "return", !.todo = todo]
<1>1. c \in CallState /\ c.at = "return"
  BY IdleOK DEF CallState, Places
<1> QED
  BY <1>1 DEF CallOK

\* A call whose writes are all that changes.
LEMMA CallWrites ==
  ASSUME NEW c, CallOK(c), NEW todo \in Seq(Write)
  PROVE  CallOK([c EXCEPT !.todo = todo]) /\ [c EXCEPT !.todo = todo].at = c.at
         /\ [c EXCEPT !.todo = todo].job = c.job
  BY DEF CallOK, CallState

\* What is left of a tick.
LEMMA TickOnOK ==
  ASSUME NEW c, NEW left \in SUBSET Run, NEW todo \in Seq(Write)
  PROVE  /\ CallOK(TickOn(c, left)) /\ TickOn(c, left).at \in {"return", "runs"}
         /\ CallOK([TickOn(c, left) EXCEPT !.todo = todo])
         /\ [TickOn(c, left) EXCEPT !.todo = todo].at \in {"return", "runs"}
<1> DEFINE at == IF left = {} THEN "return" ELSE "runs"
           next == [Idle EXCEPT !.op = "tick", !.left = left, !.at = at]
<1>1. at \in {"return", "runs"}
  OBVIOUS
<1> HIDE DEF at
<1>2. next \in CallState /\ next.at = at
  BY <1>1, IdleOK DEF CallState, Ops, Places
<1>3. CallOK(next)
  BY <1>1, <1>2 DEF CallOK
<1>4. TickOn(c, left) = next
  BY DEF TickOn, at
<1> HIDE DEF next
<1> QED
  BY <1>1, <1>2, <1>3, <1>4, CallWrites

\* A step of the tables in which one call goes on or returns.
LEMMA OneCall ==
  ASSUME TablesInv, CallsInv, TableStep, NEW t \in Call, NEW c, CallOK(c),
         c.at \in {"completed", "setup"} => Exists(c.job), Goes(t, c) \/ Returns(t)
  PROVE  CallsInv'
<1>0. \A u \in Call : /\ CallOK(calls[u])
                      /\ calls[u].at \in {"completed", "setup"} => Exists(calls[u].job)
  BY DEF CallsInv
<1>1. PICK d : /\ calls' = [calls EXCEPT ![t] = d] /\ CallOK(d)
               /\ d.at \in {"completed", "setup"} => Exists(d.job)
  <2>1. CASE Returns(t)
    BY <2>1, IdleOK DEF Returns
  <2>2. CASE Goes(t, c)
    BY <2>2, IdleOK DEF Goes
  <2> QED
    BY <2>1, <2>2
<1>2. ASSUME NEW e, CallOK(e), e.at \in {"completed", "setup"}, Exists(e.job)
      PROVE  Exists(e.job)'
  <2>1. e.job \in Job
    BY <1>2 DEF CallOK
  <2> QED
    BY <1>2, <2>1 DEF TableStep
<1>3. ASSUME NEW u \in Call
      PROVE  /\ CallOK(calls'[u])
             /\ calls'[u].at \in {"completed", "setup"} => Exists(calls[u].job)'
  <2>1. CASE u = t
    <3>1. calls'[u] = d
      BY <1>1, <2>1 DEF CallsInv
    <3>2. d.at \in {"completed", "setup"} => Exists(d.job)'
      BY <1>1, <1>2
    <3>3. CallOK(calls'[u])
      BY <1>1, <3>1
    <3>4. calls'[u].at \in {"completed", "setup"} => Exists(calls[u].job)'
      BY <3>1, <3>2 DEF Exists
    <3> QED
      BY <3>3, <3>4 DEF Exists
  <2>2. CASE u # t
    <3>1. calls'[u] = calls[u]
      BY <1>1, <2>2 DEF CallsInv
    <3>2. /\ CallOK(calls[u])
          /\ calls[u].at \in {"completed", "setup"} => Exists(calls[u].job)
      BY <1>0
    <3>3. ASSUME NEW e, e = calls[u] PROVE e.at \in {"completed", "setup"} => Exists(e.job)'
      BY <1>2, <3>2, <3>3
    <3>4. CallOK(calls'[u])
      BY <3>1, <3>2
    <3>5. calls'[u].at \in {"completed", "setup"} => Exists(calls[u].job)'
      BY <3>1, <3>3 DEF Exists
    <3> QED
      BY <3>4, <3>5
  <2> QED
    BY <2>1, <2>2
<1>4. calls' = [u \in Call |-> calls'[u]]
  BY <1>1 DEF CallsInv
<1> QED
  BY <1>3, <1>4 DEF CallsInv, Exists

LEMMA ResultTypes ==
  /\ \A actor \in CancelActors : Cancelled(actor) \in AnyResult
  /\ Result("timed_out", "user", "timeout") \in AnyResult
  /\ Result("infra_failure", "infra", "timeout") \in AnyResult
  /\ Result("skipped", "", "") \in AnyResult
  BY DEF Cancelled, Result, AnyResult, Conclusions, FailureClasses, CancelActors

-----------------------------------------------------------------------------
\* What each step of the scheduler keeps.

StepKeeps == SchedInv' /\ [LQ!Next]_Holder

LEMMA CallStep ==
  ASSUME SchedInv, TableStep, RunsInv', NEW t \in Call, NEW c, CallOK(c),
         c.at \notin {"completed", "setup"}, Goes(t, c) \/ Returns(t)
  PROVE  StepKeeps
<1>1. TablesInv /\ CallsInv
  BY DEF SchedInv
<1>2. CallsInv'
  BY <1>1, OneCall
<1> QED
  BY <1>2 DEF StepKeeps, SchedInv, TableStep

\* A call that decides, and writes nothing yet.
LEMMA Decides ==
  ASSUME SchedInv, UNCHANGED <<jobs, queue, runs, plans>>, NEW t \in Call, NEW c, CallOK(c),
         c.at \notin {"completed", "setup"}, Goes(t, c) \/ Returns(t)
  PROVE  StepKeeps
<1>1. TableStep
  BY NoRowWritten DEF SchedInv
<1>2. RunsInv'
  BY DEF SchedInv, RunsInv
<1> QED
  BY <1>1, <1>2, CallStep

\* A store operation outside any call.
LEMMA StoreStep ==
  ASSUME SchedInv, TableStep, UNCHANGED <<runs, plans, calls>>
  PROVE  StepKeeps
<1>1. RunsInv'
  BY DEF SchedInv, RunsInv
<1>2. CallsInv'
  <2>1. /\ calls = [t \in Call |-> calls[t]]
        /\ \A t \in Call : /\ CallOK(calls[t])
                           /\ calls[t].at \in {"completed", "setup"} => Exists(calls[t].job)
    BY DEF SchedInv, CallsInv
  <2>2. ASSUME NEW t \in Call, NEW e, e = calls[t]
        PROVE  e.at \in {"completed", "setup"} => Exists(e.job)'
    <3>1. e.at \in {"completed", "setup"} => e.job \in Job
      BY <2>1, <2>2 DEF CallOK
    <3> QED
      BY <2>1, <2>2, <3>1 DEF TableStep
  <2>3. \A t \in Call : calls[t].at \in {"completed", "setup"} => jobs'[calls[t].job].status # "absent"
    BY <2>2 DEF Exists
  <2> QED
    BY <2>1, <2>3 DEF CallsInv, Exists
<1> QED
  BY <1>1, <1>2 DEF StepKeeps, SchedInv, TableStep

LEMMA CallFacts ==
  ASSUME SchedInv, NEW t \in Call
  PROVE  /\ CallOK(calls[t]) /\ calls[t] \in CallState
         /\ calls[t].snap \in Snaps /\ calls[t].todo \in Seq(Write)
         /\ calls[t].left \in SUBSET Run /\ calls[t].rrow \in SchedRun
         /\ calls[t].res \in AnyResult
         /\ TablesInv
         /\ \A r \in Run : runs[r] \in SchedRun
         /\ plans \in SUBSET Run /\ runs \in [Run -> SchedRun]
<1>1. CallOK(calls[t]) /\ TablesInv /\ runs \in [Run -> SchedRun] /\ plans \in SUBSET Run
  BY DEF SchedInv, CallsInv, RunsInv
<1>2. calls[t] \in CallState
  BY <1>1 DEF CallOK
<1> QED
  BY <1>1, <1>2 DEF CallState

LEMMA KeepWrite ==
  ASSUME SchedInv, NEW t \in Call, WriteStep(t)
  PROVE  StepKeeps
<1> DEFINE c == calls[t]
           w == Head(c.todo)
           on == [c EXCEPT !.todo = Tail(c.todo)]
           refused == w.do = "offer" /\ EnqueueRefused(w.job, w.attempt)
<1>1. c.todo \in Seq(Write) /\ c.todo # <<>> /\ CallOK(c)
  BY CallFacts DEF WriteStep
<1>2. w \in Write /\ Tail(c.todo) \in Seq(Write)
  BY <1>1
<1>3. CallOK(on) /\ on.at = c.at /\ on.job = c.job
  BY <1>1, <1>2, CallWrites
<1>4. TablesInv /\ CallsInv /\ RunsInv
  BY DEF SchedInv
<1>5. TableStep
  <2>1. CASE w.do = "create" /\ CreateJob(w.job, w.row)
    <3>1. w \in RowWrites
      BY <1>2, <2>1 DEF Write, RowWrites, QueueWrites, RunWrites
    <3>2. w.job \in Job /\ w.row \in Kept(w.job)
      BY <3>1 DEF RowWrites
    <3> QED
      BY <1>4, <2>1, <3>2, RowWriteSteps
  <2>2. CASE w.do = "update" /\ UpdateJob(w.job, w.row)
    <3>1. w \in RowWrites
      BY <1>2, <2>2 DEF Write, RowWrites, QueueWrites, RunWrites
    <3>2. w.job \in Job /\ w.row \in Kept(w.job)
      BY <3>1 DEF RowWrites
    <3> QED
      BY <1>4, <2>2, <3>2, RowWriteSteps
  <2>3. CASE w.do = "offer" /\ Enqueue(w.job, w.attempt, 0, w.ready)
    <3>1. w \in [do : {"offer"}, job : Job, attempt : Nat, ready : BOOLEAN]
      BY <1>2, <2>3 DEF Write, RowWrites, QueueWrites, RunWrites
    <3>2. w.job \in Job /\ w.attempt \in Nat /\ w.ready \in BOOLEAN
      BY <3>1
    <3> QED
      BY <1>4, <2>3, <3>2, EnqueueStep
  <2>4. CASE w.do = "drop" /\ DropFromQueue(w.job)
    <3>1. w \in [do : {"drop"}, job : Job]
      BY <1>2, <2>4 DEF Write, RowWrites, QueueWrites, RunWrites
    <3> QED
      BY <1>4, <2>4, <3>1, DropStep
  <2>5. CASE UNCHANGED <<jobs, queue, dispatches>>
    BY <1>4, <2>5, NoRowWritten
  <2> QED
    BY <2>1, <2>2, <2>3, <2>4, <2>5 DEF WriteStep
<1>6. RunsInv'
  <2>1. CASE w.do = "run"
    <3>1. w \in [do : {"run"}, run : Run, row : SchedRun]
      BY <1>2, <2>1 DEF Write, RowWrites, QueueWrites, RunWrites
    <3>2. runs' = [runs EXCEPT ![w.run] = w.row] /\ plans' = plans
      BY <2>1 DEF WriteStep
    <3> QED
      BY <1>4, <3>1, <3>2 DEF RunsInv
  <2>2. CASE w.do \in {"register", "forget"}
    <3>1. w \in [do : {"register", "forget"}, run : Run]
      BY <1>2, <2>2 DEF Write, RowWrites, QueueWrites, RunWrites
    <3>2. runs' = runs /\ plans' \in {plans \cup {w.run}, plans \ {w.run}}
      BY <2>2 DEF WriteStep
    <3> QED
      BY <1>4, <3>1, <3>2 DEF RunsInv
  <2>3. CASE w.do \notin {"run", "register", "forget"}
    <3>1. runs' = runs /\ plans' = plans
      BY <2>3 DEF WriteStep
    <3> QED
      BY <1>4, <3>1 DEF RunsInv
  <2> QED
    BY <2>1, <2>2, <2>3
<1>7. CallsInv'
  <2>1. Goes(t, on) \/ Returns(t)
    BY DEF WriteStep
  <2>2. on.at \in {"completed", "setup"} => Exists(on.job)
    BY <1>3, <1>4 DEF CallsInv
  <2> HIDE DEF on
  <2> QED
    BY <1>3, <1>4, <1>5, <2>1, <2>2, OneCall
<1> QED
  BY <1>5, <1>6, <1>7 DEF StepKeeps, SchedInv, TableStep

LEMMA KeepSupersede ==
  ASSUME SchedInv, NEW t \in Call, SupersedeNext(t)
  PROVE  StepKeeps
<1> DEFINE c == calls[t]
           o == FirstOf(c.left)
           todo == IF o \notin plans \/ runs[o].status = "completed" THEN <<>>
                   ELSE StopRunWrites(o, runs[o], SnapOf(o), Cancelled("superseded_by_newer_run"))
           on == [c EXCEPT !.left = c.left \ {o}, !.todo = todo]
<1>1. CallOK(c) /\ c \in CallState /\ c.left \in SUBSET Run /\ c.at = "supersede" /\ c.left # {}
  BY CallFacts DEF SupersedeNext, Deciding
<1>2. o \in Run
  <2>1. c.left \subseteq Nat
    BY <1>1, SchedulerAssumption
  <2> QED
    BY <1>1, <2>1, FirstOfIn
<1>3. todo \in Seq(Write)
  <2>1. StopRunWrites(o, runs[o], SnapOf(o), Cancelled("superseded_by_newer_run")) \in Seq(Write)
    BY <1>2, CallFacts, SnapOfType, ResultTypes, StopRunWritesType DEF CancelActors
  <2> QED
    BY <2>1
<1>4. Goes(t, on)
  BY DEF SupersedeNext
<1>5. UNCHANGED <<jobs, queue, runs, plans>>
  BY DEF SupersedeNext
<1> HIDE DEF o, todo
<1>6. CallOK(on) /\ on.at = "supersede"
  <2>1. on \in CallState /\ on.at = "supersede" /\ on.run = c.run
    BY <1>1, <1>3 DEF CallState
  <2> QED
    BY <1>1, <2>1 DEF CallOK
<1> HIDE DEF on
<1> QED
  BY <1>4, <1>5, <1>6, Decides

LEMMA KeepStartJobs ==
  ASSUME SchedInv, NEW t \in Call, StartJobs(t)
  PROVE  StepKeeps
<1> DEFINE c == calls[t]
           r == c.run
           creates == [j \in JobsOf(r) |-> Create(j, NewRow(j))]
           row == [NoRun EXCEPT !.status = "in_progress", !.attempt = 1]
           todo == ForEach(creates) \o RegisterPlan(r) \o UpdateRun(r, row)
           on == [c EXCEPT !.at = "return", !.todo = todo]
<1>1. CallOK(c) /\ c \in CallState /\ r \in Run
  BY CallFacts DEF StartJobs, Deciding, CallOK
<1>2. todo \in Seq(Write)
  <2>1. JobsOf(r) \in SUBSET Job
    BY DEF JobsOf
  <2>2. creates \in [JobsOf(r) -> Seq(Write)]
    BY <2>1, NewRowKept, RowWrite
  <2> HIDE DEF creates
  <2>3. ForEach(creates) \in Seq(Write)
    BY <2>1, <2>2, LoopWrites
  <2>4. row \in SchedRun
    BY DEF NoRun, SchedRun
  <2> HIDE DEF row, r
  <2>5. RegisterPlan(r) \in Seq(Write) /\ UpdateRun(r, row) \in Seq(Write)
    BY <1>1, <2>4, RunWrite
  <2> QED
    BY <2>3, <2>5
<1>3. Goes(t, on)
  BY DEF StartJobs
<1>4. UNCHANGED <<jobs, queue, runs, plans>>
  BY DEF StartJobs
<1> HIDE DEF todo
<1>5. CallOK(on) /\ on.at = "return"
  <2>1. on \in CallState /\ on.at = "return"
    BY <1>1, <1>2 DEF CallState, Places
  <2> QED
    BY <2>1 DEF CallOK
<1> HIDE DEF on
<1> QED
  BY <1>3, <1>4, <1>5, Decides

\* The runs a tick has left are runs.
LEMMA TickLeft ==
  ASSUME SchedInv, NEW t \in Call, NEW r
  PROVE  TickTracked(calls[t]) \ {r} \in SUBSET Run
  BY CallFacts DEF TickTracked

LEMMA KeepTickLeave ==
  ASSUME SchedInv, NEW t \in Call, NEW r \in Run, TickLeave(t, r)
  PROVE  StepKeeps
<1> DEFINE on == TickOn(calls[t], TickTracked(calls[t]) \ {r})
<1>1. CallOK(on) /\ on.at \notin {"completed", "setup"}
  <2>1. <<>> \in Seq(Write)
    OBVIOUS
  <2> QED
    BY <2>1, TickLeft, TickOnOK
<1>2. TableStep
  BY CallFacts, NoRowWritten DEF TickLeave
<1>3. RunsInv'
  BY DEF TickLeave, SchedInv, RunsInv
<1>4. Goes(t, on) \/ Returns(t)
  BY DEF TickLeave
<1> HIDE DEF on
<1> QED
  BY <1>1, <1>2, <1>3, <1>4, CallStep

LEMMA KeepTickRunTimeout ==
  ASSUME SchedInv, NEW t \in Call, NEW r \in Run, TickRunTimeout(t, r)
  PROVE  StepKeeps
<1> DEFINE todo == StopRunWrites(r, runs[r], SnapOf(r), Result("timed_out", "user", "timeout"))
           on == [TickOn(calls[t], TickTracked(calls[t]) \ {r}) EXCEPT !.todo = todo]
<1>1. todo \in Seq(Write)
  BY CallFacts, SnapOfType, ResultTypes, StopRunWritesType
<1>2. Goes(t, on) /\ UNCHANGED <<jobs, queue, runs, plans>>
  BY DEF TickRunTimeout
<1> HIDE DEF todo
<1>3. CallOK(on) /\ on.at \notin {"completed", "setup"}
  BY <1>1, TickLeft, TickOnOK
<1> HIDE DEF on
<1> QED
  BY <1>2, <1>3, Decides

\* What the timeouts and fail-fast make of a tick's copy, and write.
LEMMA TimedOut ==
  ASSUME NEW snap \in Snaps, NEW setupLate \in SUBSET DOMAIN snap, NEW late \in SUBSET DOMAIN snap
  PROVE  LET ending(j) == IF j \in setupLate THEN Result("infra_failure", "infra", "timeout")
                                             ELSE Result("timed_out", "user", "timeout")
             timed == [j \in DOMAIN snap |->
                         IF j \in setupLate \cup late
                         THEN FinishedRow(j, snap[j], ending(j), j \in setupLate)
                         ELSE snap[j]]
         IN  /\ timed \in Snaps
             /\ ForEach([j \in setupLate \cup late |->
                          FinishWrites(j, snap[j], ending(j), j \in setupLate)]) \in Seq(Write)
<1> DEFINE ending(j) == IF j \in setupLate THEN Result("infra_failure", "infra", "timeout")
                                           ELSE Result("timed_out", "user", "timeout")
           over == setupLate \cup late
           timed == [j \in DOMAIN snap |->
                       IF j \in over THEN FinishedRow(j, snap[j], ending(j), j \in setupLate)
                       ELSE snap[j]]
           writes == [j \in over |-> FinishWrites(j, snap[j], ending(j), j \in setupLate)]
<1>1. \A j : ending(j) \in AnyResult
  BY ResultTypes
<1>2. \A j \in DOMAIN snap : j \in Job /\ snap[j] \in Kept(j)
  BY SnapIs
<1> HIDE DEF ending
<1>3. ASSUME NEW j \in over
      PROVE  /\ FinishedRow(j, snap[j], ending(j), j \in setupLate) \in Kept(j)
             /\ FinishWrites(j, snap[j], ending(j), j \in setupLate) \in Seq(Write)
             /\ j \in Job
  <2>1. j \in Job /\ snap[j] \in Kept(j) /\ ending(j) \in AnyResult
    BY <1>1, <1>2
  <2>2. (j \in setupLate) \in BOOLEAN
    OBVIOUS
  <2> QED
    BY <2>1, <2>2, FinishedRowKept, FinishWritesType
<1>4. timed \in Snaps
  <2>1. DOMAIN timed = DOMAIN snap /\ timed = [j \in DOMAIN timed |-> timed[j]]
    OBVIOUS
  <2>2. \A j \in DOMAIN timed : timed[j] \in Kept(j)
    BY <1>2, <1>3
  <2>3. DOMAIN timed \in SUBSET Job
    BY <1>2
  <2> HIDE DEF timed
  <2> QED
    BY <2>1, <2>2, <2>3, IsSnap
<1>5. ForEach(writes) \in Seq(Write)
  <2>1. over \in SUBSET Job /\ writes \in [over -> Seq(Write)]
    BY <1>3
  <2> HIDE DEF writes, over
  <2> QED
    BY <2>1, LoopWrites
<1> QED
  BY <1>4, <1>5 DEF ending, timed, writes, over

LEMMA FailedFast ==
  ASSUME NEW timed \in Snaps
  PROVE  LET failed == FailFastLegs(timed)
             stop == Cancelled("dependency_failed")
         IN  /\ [j \in DOMAIN timed |-> IF j \in failed THEN Finished(timed[j], stop) ELSE timed[j]]
                  \in Snaps
             /\ ForEach([j \in failed |-> Update(j, Finished(timed[j], stop))]) \in Seq(Write)
<1> DEFINE failed == FailFastLegs(timed)
           stop == Cancelled("dependency_failed")
           left == [j \in DOMAIN timed |-> IF j \in failed THEN Finished(timed[j], stop) ELSE timed[j]]
           writes == [j \in failed |-> Update(j, Finished(timed[j], stop))]
<1>1. stop \in AnyResult
  BY ResultTypes DEF CancelActors
<1>2. failed \in SUBSET DOMAIN timed
  BY DEF FailFastLegs, Live
<1>3. \A j \in DOMAIN timed : j \in Job /\ timed[j] \in Kept(j)
  BY SnapIs
<1> HIDE DEF stop, failed
<1>4. \A j \in DOMAIN timed : Finished(timed[j], stop) \in Kept(j)
  BY <1>1, <1>3, FinishedKept
<1>5. left \in Snaps
  <2>1. DOMAIN left \in SUBSET Job /\ left = [j \in DOMAIN left |-> left[j]]
    BY <1>3
  <2>2. \A j \in DOMAIN left : left[j] \in Kept(j)
    BY <1>3, <1>4
  <2> HIDE DEF left
  <2> QED
    BY <2>1, <2>2, IsSnap
<1>6. ForEach(writes) \in Seq(Write)
  <2>1. failed \in SUBSET Job /\ writes \in [failed -> Seq(Write)]
    BY <1>2, <1>3, <1>4, RowWrite
  <2> HIDE DEF writes
  <2> QED
    BY <2>1, LoopWrites
<1> QED
  BY <1>5, <1>6 DEF left, writes, failed, stop

\* The jobs of a run with a runner, and what its turn of a tick makes of those
\* that are out of time.
UnderWay(r) == {j \in DOMAIN SnapOf(r) : SnapOf(r)[j].status = "in_progress"}

Drives(t, r, setupLate, late) ==
  LET snap == SnapOf(r)
      stop == Cancelled("dependency_failed")
      ending(j) == IF j \in setupLate THEN Result("infra_failure", "infra", "timeout")
                                      ELSE Result("timed_out", "user", "timeout")
      timed == [j \in DOMAIN snap |->
                  IF j \in setupLate \cup late
                  THEN FinishedRow(j, snap[j], ending(j), j \in setupLate)
                  ELSE snap[j]]
      failed == FailFastLegs(timed)
  IN Goes(t, [TickOn(calls[t], TickTracked(calls[t]) \ {r}) EXCEPT
       !.at = "gate", !.run = r, !.rrow = runs[r],
       !.snap = [j \in DOMAIN snap |->
                   IF j \in failed THEN Finished(timed[j], stop) ELSE timed[j]],
       !.todo = ForEach([j \in setupLate \cup late |->
                  FinishWrites(j, snap[j], ending(j), j \in setupLate)])
                \o ForEach([j \in failed |-> Update(j, Finished(timed[j], stop))])])

LEMMA TickRunDrives ==
  ASSUME NEW t, NEW r, TickRun(t, r)
  PROVE  \E setupLate \in SUBSET UnderWay(r), late \in SUBSET UnderWay(r) :
           Drives(t, r, setupLate, late)
<1> DEFINE running == {j \in DOMAIN SnapOf(r) : SnapOf(r)[j].status = "in_progress"} \cap TimesOut
<1>1. \E setupLate \in SUBSET {j \in running : ~SnapOf(r)[j].setup} :
        \E late \in SUBSET (running \ setupLate) : Drives(t, r, setupLate, late)
  BY Zenon DEF TickRun, Drives
<1>2. running \subseteq UnderWay(r)
  BY DEF UnderWay
<1> HIDE DEF running
<1> QED
  BY <1>1, <1>2

LEMMA KeepTickRun ==
  ASSUME SchedInv, NEW t \in Call, NEW r \in Run, TickRun(t, r)
  PROVE  StepKeeps
<1> DEFINE snap == SnapOf(r)
           stop == Cancelled("dependency_failed")
<1>1. UNCHANGED <<jobs, queue, runs, plans>>
  BY DEF TickRun
<1>2. PICK setupLate \in SUBSET UnderWay(r), late \in SUBSET UnderWay(r) :
        Drives(t, r, setupLate, late)
  BY TickRunDrives
<1>a. /\ setupLate \in SUBSET DOMAIN snap /\ late \in SUBSET DOMAIN snap
      /\ \A j \in setupLate \cup late : snap[j].status = "in_progress"
  BY <1>2 DEF UnderWay
<1> DEFINE ending(j) == IF j \in setupLate THEN Result("infra_failure", "infra", "timeout")
                                           ELSE Result("timed_out", "user", "timeout")
           timed == [j \in DOMAIN snap |->
                       IF j \in setupLate \cup late
                       THEN FinishedRow(j, snap[j], ending(j), j \in setupLate)
                       ELSE snap[j]]
           failed == FailFastLegs(timed)
           left == [j \in DOMAIN snap |-> IF j \in failed THEN Finished(timed[j], stop) ELSE timed[j]]
           ends == ForEach([j \in setupLate \cup late |->
                             FinishWrites(j, snap[j], ending(j), j \in setupLate)])
           stops == ForEach([j \in failed |-> Update(j, Finished(timed[j], stop))])
           idle == TickOn(calls[t], TickTracked(calls[t]) \ {r})
           on == [idle EXCEPT !.at = "gate", !.run = r, !.rrow = runs[r], !.snap = left,
                              !.todo = ends \o stops]
<1>3. Goes(t, on)
  BY <1>2 DEF Drives
<1>4. snap \in Snaps
  BY CallFacts, SnapOfType
<1>5. timed \in Snaps /\ ends \in Seq(Write)
  <2> HIDE DEF snap
  <2> QED
    BY <1>4, <1>a, TimedOut
<1>6. left \in Snaps /\ stops \in Seq(Write)
  <2>1. DOMAIN timed = DOMAIN snap
    OBVIOUS
  <2> HIDE DEF timed
  <2> QED
    BY <1>5, <2>1, FailedFast
<1>7. CallOK(idle) /\ runs[r] \in SchedRun
  <2>1. <<>> \in Seq(Write)
    OBVIOUS
  <2> QED
    BY <2>1, TickLeft, TickOnOK, CallFacts
<1> HIDE DEF left, ends, stops, idle
<1>8. CallOK(on) /\ on.at = "gate"
  <2>1. idle \in CallState /\ ends \o stops \in Seq(Write)
    BY <1>5, <1>6, <1>7 DEF CallOK
  <2>2. on \in CallState /\ on.at = "gate" /\ on.run = r
    BY <1>6, <1>7, <2>1 DEF CallState, Places
  <2> QED
    BY <2>2 DEF CallOK
<1> HIDE DEF on
<1> QED
  BY <1>1, <1>3, <1>8, Decides

LEMMA KeepTickNothing ==
  ASSUME SchedInv, NEW t \in Call, TickNothing(t)
  PROVE  StepKeeps
  BY IdleOK, Decides DEF TickNothing

LEMMA KeepTickFinalize ==
  ASSUME SchedInv, NEW t \in Call, TickFinalize(t)
  PROVE  StepKeeps
<1> DEFINE c == calls[t]
           todo == FinalizeWrites(c.run, c.rrow, c.snap)
           on == [TickOn(c, c.left) EXCEPT !.todo = todo]
<1>1. /\ CallOK(c) /\ c.run \in Run /\ c.rrow \in SchedRun /\ c.snap \in Snaps
      /\ c.left \in SUBSET Run
  BY CallFacts DEF TickFinalize, Admitting, CallOK
<1>2. todo \in Seq(Write)
  BY <1>1, FinalizeWritesType
<1>3. Goes(t, on) /\ UNCHANGED <<jobs, queue, runs, plans>>
  BY DEF TickFinalize
<1> HIDE DEF todo
<1>4. CallOK(on) /\ on.at \notin {"completed", "setup"}
  BY <1>1, <1>2, TickOnOK
<1> HIDE DEF on
<1> QED
  BY <1>3, <1>4, Decides

LEMMA KeepTickAdmit ==
  ASSUME SchedInv, NEW t \in Call, TickAdmit(t)
  PROVE  StepKeeps
<1> DEFINE c == calls[t]
           j == FirstOf(Candidates(c))
           row == c.snap[j]
           grouped == Plan[j].group # ""
           holders == IF grouped THEN GroupHolders(j) ELSE {}
           skipped == ~ShouldRun(c.snap, j, c.rrow.cancel # "")
           held == grouped /\ \/ Plan[j].group \in c.taken
                              \/ holders # {} /\ ~Plan[j].cancelInProgress
           new == IF skipped THEN Finished(row, Result("skipped", "", ""))
                  ELSE IF held THEN [row EXCEPT !.status = "waiting"]
                  ELSE [row EXCEPT !.status = "queued", !.queued = TRUE]
           displaced == ForEach([k \in holders |->
                          Update(k, Finished(jobs[k], Cancelled("concurrency_group")))])
           writes == IF skipped THEN Update(j, new)
                     ELSE IF held THEN IF row.status = "waiting" THEN <<>> ELSE Update(j, new)
                     ELSE displaced \o Update(j, new) \o Offer(j)
           taken == IF grouped /\ ~skipped /\ ~held THEN c.taken \cup {Plan[j].group} ELSE c.taken
           snap == [c.snap EXCEPT ![j] = new]
           on == [c EXCEPT !.at = "admit", !.last = j, !.snap = snap, !.todo = writes,
                           !.taken = taken]
<1>1. /\ CallOK(c) /\ c \in CallState /\ c.run \in Run /\ c.snap \in Snaps
      /\ c.taken \in SUBSET Groups
  BY CallFacts DEF TickAdmit, Admitting, CallOK, CallState
<1>2. j \in DOMAIN c.snap /\ j \in Job /\ j \in Nat /\ row \in Kept(j)
  <2>1. DOMAIN c.snap \subseteq Job /\ \A k \in DOMAIN c.snap : c.snap[k] \in Kept(k)
    BY <1>1, SnapIs
  <2>2. Candidates(c) \subseteq Nat /\ Candidates(c) # {}
    BY <2>1, SchedulerAssumption DEF Candidates, TickAdmit
  <2>3. j \in Candidates(c)
    BY <2>2, FirstOfIn
  <2>4. j \in DOMAIN c.snap
    BY <2>3 DEF Candidates
  <2> HIDE DEF j
  <2> QED
    BY <2>1, <2>4, SchedulerAssumption
<1>3. UNCHANGED <<jobs, queue, runs, plans>>
  BY DEF TickAdmit
<1>4. Goes(t, on)
  <2>1. Goes(t, [c EXCEPT !.at = "admit", !.last = j, !.snap[j] = new, !.todo = writes,
                    !.taken = IF grouped /\ ~skipped /\ ~held THEN @ \cup {Plan[j].group} ELSE @])
    BY DEF TickAdmit
  <2> HIDE DEF j, grouped, skipped, held, new, writes
  <2>2. [c EXCEPT !.at = "admit", !.last = j, !.snap[j] = new, !.todo = writes,
            !.taken = IF grouped /\ ~skipped /\ ~held THEN @ \cup {Plan[j].group} ELSE @] = on
    BY <1>1 DEF CallState
  <2> QED
    BY <2>1, <2>2
<1> HIDE DEF j, row, skipped, held
<1>5. new \in Kept(j)
  <2>1. Finished(row, Result("skipped", "", "")) \in Kept(j)
    BY <1>2, ResultTypes, FinishedKept
  <2> QED
    BY <1>2, <2>1, RowChanges
<1> HIDE DEF new
<1>6. displaced \in Seq(Write)
  <2> DEFINE updates == [k \in holders |->
                          Update(k, Finished(jobs[k], Cancelled("concurrency_group")))]
  <2>1. holders \in SUBSET Job /\ \A k \in holders : jobs[k] \in Kept(k)
    BY CallFacts, RowsOfJob DEF GroupHolders, Exists
  <2>2. Cancelled("concurrency_group") \in AnyResult
    BY ResultTypes DEF CancelActors
  <2> HIDE DEF holders
  <2>3. updates \in [holders -> Seq(Write)]
    BY <2>1, <2>2, FinishedKept, RowWrite
  <2> HIDE DEF updates
  <2>4. ForEach(updates) \in Seq(Write)
    BY <2>1, <2>3, LoopWrites
  <2> QED
    BY <2>4 DEF updates
<1> HIDE DEF displaced
<1>7. writes \in Seq(Write)
  <2>1. Update(j, new) \in Seq(Write) /\ Offer(j) \in Seq(Write) /\ <<>> \in Seq(Write)
    BY <1>2, <1>5, RowWrite, QueueWrite
  <2>2. displaced \o Update(j, new) \o Offer(j) \in Seq(Write)
    BY <1>6, <2>1
  <2> QED
    BY <2>1, <2>2
<1> HIDE DEF writes
<1>8. snap \in Snaps
  <2>1. /\ DOMAIN c.snap \in SUBSET Job /\ c.snap = [k \in DOMAIN c.snap |-> c.snap[k]]
        /\ \A k \in DOMAIN c.snap : c.snap[k] \in Kept(k)
    BY <1>1, SnapIs
  <2>2. DOMAIN snap = DOMAIN c.snap /\ snap = [k \in DOMAIN snap |-> snap[k]]
    BY <2>1
  <2>3. \A k \in DOMAIN snap : snap[k] \in Kept(k)
    BY <1>5, <2>1
  <2> HIDE DEF snap
  <2> QED
    BY <2>1, <2>2, <2>3, IsSnap
<1>9. taken \in SUBSET Groups
  BY <1>1, <1>2 DEF Groups
<1> HIDE DEF snap, taken
<1>10. CallOK(on) /\ on.at = "admit"
  <2>1. on \in CallState /\ on.at = "admit" /\ on.run = c.run
    BY <1>1, <1>2, <1>7, <1>8, <1>9 DEF CallState, Places
  <2> QED
    BY <1>1, <2>1 DEF CallOK
<1> HIDE DEF on
<1> QED
  BY <1>3, <1>4, <1>10, Decides

\* Calls that return once the store has done what they asked.
LEMMA Ended ==
  ASSUME SchedInv, TableStep, UNCHANGED <<runs, plans>>, NEW t \in Call, Returns(t)
  PROVE  StepKeeps
<1>1. RunsInv'
  BY DEF SchedInv, RunsInv
<1> QED
  BY <1>1, IdleOK, CallStep

LEMMA KeepWithdraw ==
  ASSUME SchedInv, NEW t \in Call, Withdraw(t)
  PROVE  StepKeeps
<1>1. calls[t].job \in Job
  BY CallFacts DEF Withdraw, Deciding, CallOK
<1>2. TableStep
  <2>1. \/ ReleaseLease(calls[t].runner, calls[t].job)
        \/ UNCHANGED <<jobs, queue, dispatches>>
    BY DEF Withdraw
  <2> QED
    BY <1>1, <2>1, CallFacts, ReleaseStep, NoRowWritten
<1> QED
  BY <1>2, Ended DEF Withdraw

LEMMA KeepDispatch ==
  ASSUME SchedInv, NEW t \in Call, Dispatch(t)
  PROVE  StepKeeps
<1> DEFINE c == calls[t]
           row == [c.row EXCEPT !.status = "in_progress", !.runner = c.runner]
<1>1. c.job \in Job /\ c.row \in Kept(c.job) /\ c.runner \in Runner \cup {NoRunner}
  BY CallFacts DEF Dispatch, Deciding, CallOK, CallState
<1>2. row \in Kept(c.job)
  BY <1>1 DEF Kept, SchedRow
<1>3. UpdateJob(c.job, row) \/ UNCHANGED <<jobs, queue, dispatches>>
  BY DEF Dispatch
<1>4. TableStep
  <2> HIDE DEF row
  <2> QED
    BY <1>1, <1>2, <1>3, CallFacts, RowWriteSteps, NoRowWritten
<1> QED
  BY <1>4, Ended DEF Dispatch

\* A call that reads its job again finds one.
LEMMA ReadsAgain ==
  ASSUME SchedInv, NEW t \in Call, calls[t].at \in {"completed", "setup"}
  PROVE  calls[t].job \in Job /\ jobs[calls[t].job] \in Kept(calls[t].job)
<1>1. calls[t].job \in Job
  BY CallFacts DEF CallOK
<1>2. Exists(calls[t].job)
  BY DEF SchedInv, CallsInv
<1> QED
  BY <1>1, <1>2, CallFacts, RowsOfJob

LEMMA KeepJobCompleted ==
  ASSUME SchedInv, NEW t \in Call, JobCompleted(t)
  PROVE  StepKeeps
<1> DEFINE c == calls[t]
           todo == FinishWrites(c.job, jobs[c.job], c.res, TRUE)
           on == [c EXCEPT !.at = "return", !.todo = todo]
<1>1. c \in CallState /\ c.res \in AnyResult /\ c.job \in Job /\ jobs[c.job] \in Kept(c.job)
  BY CallFacts, ReadsAgain DEF JobCompleted, Deciding
<1>2. todo \in Seq(Write)
  BY <1>1, FinishWritesType
<1>3. (Goes(t, on) \/ Returns(t)) /\ UNCHANGED <<jobs, queue, runs, plans>>
  BY DEF JobCompleted
<1> HIDE DEF todo
<1>4. CallOK(on) /\ on.at = "return"
  <2>1. on \in CallState /\ on.at = "return"
    BY <1>1, <1>2 DEF CallState, Places
  <2> QED
    BY <2>1 DEF CallOK
<1> HIDE DEF on
<1> QED
  BY <1>3, <1>4, Decides

LEMMA KeepJobSetupCompleted ==
  ASSUME SchedInv, NEW t \in Call, JobSetupCompleted(t)
  PROVE  StepKeeps
<1> DEFINE c == calls[t]
           todo == Update(c.job, [jobs[c.job] EXCEPT !.setup = TRUE])
           on == [c EXCEPT !.at = "return", !.todo = todo]
<1>1. c \in CallState /\ c.job \in Job /\ jobs[c.job] \in Kept(c.job)
  BY CallFacts, ReadsAgain DEF JobSetupCompleted, Deciding
<1>2. todo \in Seq(Write)
  BY <1>1, RowChanges, RowWrite
<1>3. (Goes(t, on) \/ Returns(t)) /\ UNCHANGED <<jobs, queue, runs, plans>>
  BY DEF JobSetupCompleted
<1> HIDE DEF todo
<1>4. CallOK(on) /\ on.at = "return"
  <2>1. on \in CallState /\ on.at = "return"
    BY <1>1, <1>2 DEF CallState, Places
  <2> QED
    BY <2>1 DEF CallOK
<1> HIDE DEF on
<1> QED
  BY <1>3, <1>4, Decides

\* A request that only has to write.
LEMMA KeepWrites ==
  ASSUME SchedInv, TableStep, UNCHANGED <<runs, plans>>, NEW t \in Call,
         NEW op \in Ops, NEW todo \in Seq(Write), Writes(t, op, todo)
  PROVE  StepKeeps
<1> DEFINE on == [Idle EXCEPT !.op = op, !.at = "return", !.todo = todo]
<1>1. CallOK(on) /\ on.at = "return"
  BY WritingCall
<1>2. RunsInv'
  BY DEF SchedInv, RunsInv
<1>3. Goes(t, on)
  BY DEF Writes
<1> HIDE DEF on
<1> QED
  BY <1>1, <1>2, <1>3, CallStep

LEMMA KeepOrder ==
  ASSUME SchedInv, NEW t \in Call, NEW op \in Ops, NEW todo \in Seq(Write), Order(t, op, todo)
  PROVE  StepKeeps
<1>1. TableStep
  BY CallFacts, NoRowWritten DEF Order
<1> QED
  BY <1>1, KeepWrites DEF Order

LEMMA KeepStartRun ==
  ASSUME SchedInv, NEW t \in Call, NEW r \in Run, StartRun(t, r)
  PROVE  StepKeeps
<1> DEFINE older == IF RunPlan[r].group # "" /\ RunPlan[r].cancelInProgress
                    THEN {o \in plans \ {r} : RunPlan[o].group = RunPlan[r].group} ELSE {}
           on == [Idle EXCEPT !.op = "start", !.at = "supersede", !.run = r, !.left = older]
           row == [NoRun EXCEPT !.status = "queued", !.attempt = 1]
<1>1. older \in SUBSET Run
  BY CallFacts
<1>2. Goes(t, on) /\ runs' = [runs EXCEPT ![r] = row] /\ UNCHANGED <<jobs, queue, plans>>
  BY DEF StartRun
<1> HIDE DEF older
<1>3. CallOK(on) /\ on.at = "supersede"
  <2>1. on \in CallState /\ on.at = "supersede" /\ on.run = r
    BY <1>1, IdleOK DEF CallState, Ops, Places
  <2> QED
    BY <2>1 DEF CallOK
<1> HIDE DEF on
<1>4. RunsInv'
  <2>1. row \in SchedRun
    BY DEF NoRun, SchedRun
  <2> QED
    BY <1>2, <2>1 DEF SchedInv, RunsInv
<1>5. TableStep
  BY <1>2, CallFacts, NoRowWritten
<1> QED
  BY <1>2, <1>3, <1>4, <1>5, CallStep

LEMMA KeepApprove ==
  ASSUME SchedInv, NEW t \in Call, NEW r \in Run, Approve(t, r)
  PROVE  StepKeeps
<1> DEFINE held == {j \in DOMAIN SnapOf(r) : jobs[j].rest.awaiting}
           updates == [j \in held |->
                         Update(j, [jobs[j] EXCEPT !.status = "queued", !.rest.awaiting = FALSE])]
           todo == UpdateRun(r, runs[r]) \o ForEach(updates)
<1>1. Order(t, "approve", todo)
  BY DEF Approve
<1>2. held \in SUBSET Job /\ \A j \in held : jobs[j] \in Kept(j)
  BY CallFacts, RowsOfJob DEF SnapOf, JobsOf
<1> HIDE DEF held
<1>3. updates \in [held -> Seq(Write)]
  BY <1>2, ApprovedKept, RowWrite
<1> HIDE DEF updates
<1>4. todo \in Seq(Write)
  <2>1. UpdateRun(r, runs[r]) \in Seq(Write)
    BY CallFacts, RunWrite
  <2>2. ForEach(updates) \in Seq(Write)
    BY <1>2, <1>3, LoopWrites
  <2> QED
    BY <2>1, <2>2
<1> HIDE DEF todo
<1>5. "approve" \in Ops
  BY DEF Ops
<1> QED
  BY <1>1, <1>4, <1>5, KeepOrder

LEMMA KeepCancelRun ==
  ASSUME SchedInv, NEW t \in Call, NEW r \in Run, CancelRun(t, r)
  PROVE  StepKeeps
<1>1. StopRunWrites(r, runs[r], SnapOf(r), Cancelled("user")) \in Seq(Write)
  BY CallFacts, SnapOfType, ResultTypes, StopRunWritesType DEF CancelActors
<1>2. "cancel" \in Ops
  BY DEF Ops
<1> QED
  BY <1>1, <1>2, KeepOrder DEF CancelRun

LEMMA KeepCancelJob ==
  ASSUME SchedInv, NEW t \in Call, NEW j \in Job, CancelJob(t, j)
  PROVE  StepKeeps
<1>1. jobs[j] \in Kept(j)
  BY CallFacts, RowsOfJob DEF CancelJob
<1>2. Update(j, Finished(jobs[j], Cancelled("user"))) \in Seq(Write)
  BY <1>1, ResultTypes, FinishedKept, RowWrite DEF CancelActors
<1>3. "cancelJob" \in Ops
  BY DEF Ops
<1> QED
  BY <1>2, <1>3, KeepOrder DEF CancelJob

LEMMA KeepRerun ==
  ASSUME SchedInv, NEW t \in Call, NEW r \in Run, Rerun(t, r)
  PROVE  StepKeeps
<1> DEFINE row == [NoRun EXCEPT !.status = "in_progress", !.attempt = runs[r].attempt + 1]
<1>1. PICK reset \in SUBSET DOMAIN SnapOf(r) :
        Writes(t, "rerun", ForEach([j \in reset |-> Update(j, RerunOf(jobs[j]))])
                           \o UpdateRun(r, row) \o RegisterPlan(r))
  BY DEF Rerun
<1> DEFINE updates == [j \in reset |-> Update(j, RerunOf(jobs[j]))]
           todo == ForEach(updates) \o UpdateRun(r, row) \o RegisterPlan(r)
<1>2. row \in SchedRun
  <2>1. runs[r].attempt + 1 \in Nat
    <3>1. runs[r] \in SchedRun
      BY CallFacts
    <3>2. runs[r].attempt \in Nat
      BY <3>1 DEF SchedRun
    <3> QED
      BY <3>2
  <2> QED
    BY <2>1 DEF NoRun, SchedRun
<1> HIDE DEF row
<1>3. reset \in SUBSET Job /\ \A j \in reset : jobs[j] \in Kept(j)
  BY CallFacts, RowsOfJob DEF SnapOf, JobsOf
<1>4. updates \in [reset -> Seq(Write)]
  BY <1>3, RerunKept, RowWrite
<1>5. Writes(t, "rerun", todo)
  BY <1>1
<1> HIDE DEF updates
<1>6. todo \in Seq(Write)
  <2>1. ForEach(updates) \in Seq(Write)
    BY <1>3, <1>4, LoopWrites
  <2>2. UpdateRun(r, row) \in Seq(Write) /\ RegisterPlan(r) \in Seq(Write)
    BY <1>2, RunWrite
  <2> QED
    BY <2>1, <2>2
<1> HIDE DEF todo
<1>7. "rerun" \in Ops
  BY DEF Ops
<1>8. UNCHANGED <<jobs, queue, runs, plans>>
  BY DEF Rerun
<1>9. TableStep
  BY <1>8, CallFacts, NoRowWritten
<1> QED
  BY <1>5, <1>6, <1>7, <1>8, <1>9, KeepWrites

LEMMA KeepTickStart ==
  ASSUME SchedInv, NEW t \in Call, TickStart(t)
  PROVE  StepKeeps
<1> DEFINE rounds == [j \in ExpiredLeases |->
                        Update(j, NextAttempt(BackToQueue(jobs[j]))) \o Offer(j)]
           todo == ForEach(rounds)
           on == [Idle EXCEPT !.op = "tick", !.at = "track", !.todo = todo]
<1>1. ExpiredLeases \in SUBSET Job /\ \A j \in ExpiredLeases : jobs[j] \in Kept(j)
  BY CallFacts, RowsOfJob DEF ExpiredLeases, Leased
<1>2. ASSUME NEW j \in ExpiredLeases
      PROVE  Update(j, NextAttempt(BackToQueue(jobs[j]))) \o Offer(j) \in Seq(Write)
  <2>1. j \in Job /\ NextAttempt(BackToQueue(jobs[j])) \in Kept(j)
    BY <1>1, RowChanges, NextAttemptKept
  <2>2. Update(j, NextAttempt(BackToQueue(jobs[j]))) \in Seq(Write) /\ Offer(j) \in Seq(Write)
    BY <2>1, RowWrite, QueueWrite
  <2> QED
    BY <2>2
<1>3. rounds \in [ExpiredLeases -> Seq(Write)]
  BY <1>2
<1>4. Goes(t, on) /\ ReapExpiredLeases /\ UNCHANGED <<runs, plans>>
  BY DEF TickStart
<1> HIDE DEF rounds
<1>5. todo \in Seq(Write)
  BY <1>1, <1>3, LoopWrites
<1> HIDE DEF todo
<1>6. CallOK(on) /\ on.at = "track"
  <2>1. on \in CallState /\ on.at = "track"
    BY <1>5, IdleOK DEF CallState, Ops, Places
  <2> QED
    BY <2>1 DEF CallOK
<1> HIDE DEF on
<1>7. TableStep /\ RunsInv'
  BY <1>4, CallFacts, ReapStep DEF SchedInv, RunsInv
<1> QED
  BY <1>4, <1>6, <1>7, CallStep

LEMMA KeepAcquire ==
  ASSUME SchedInv, NEW t \in Call, NEW r \in Runner, Acquire(t, r)
  PROVE  StepKeeps
<1>1. PICK j \in Eligible(r) :
        /\ Dequeue(r, j)
        /\ LET row == RunningOn(r, jobs[j]) IN
           Goes(t, [Idle EXCEPT !.op = "acquire", !.job = j, !.runner = r, !.row = row,
                !.at = IF Completed(row) \/ row.rest.conclusion # "" THEN "withdraw" ELSE "dispatch"])
  BY DEF Acquire
<1> DEFINE row == RunningOn(r, jobs[j])
           at == IF Completed(row) \/ row.rest.conclusion # "" THEN "withdraw" ELSE "dispatch"
           on == [Idle EXCEPT !.op = "acquire", !.job = j, !.runner = r, !.row = row, !.at = at]
<1>2. j \in Job
  BY DEF Eligible
<1>3. TableStep /\ row \in Kept(j) /\ row \in SchedRow
  BY <1>1, <1>2, CallFacts, DequeueStep DEF Kept
<1>4. at \in {"withdraw", "dispatch"}
  OBVIOUS
<1>5. Goes(t, on)
  BY <1>1
<1> HIDE DEF row, at
<1>6. CallOK(on) /\ on.at = at
  <2>1. on \in CallState /\ on.at = at /\ on.job = j /\ on.row = row
    BY <1>2, <1>3, <1>4, IdleOK DEF CallState, Ops, Places
  <2> QED
    BY <1>2, <1>3, <1>4, <2>1 DEF CallOK
<1> HIDE DEF on
<1>7. RunsInv'
  BY DEF Acquire, SchedInv, RunsInv
<1> QED
  BY <1>3, <1>4, <1>5, <1>6, <1>7, CallStep

LEMMA KeepReport ==
  ASSUME SchedInv, NEW t \in Call, NEW r \in Runner, NEW j \in Job,
         SetupDone(t, r, j) \/ \E res \in Results[j] : Complete(t, r, j, res)
  PROVE  StepKeeps
<1>1. PICK op \in {"setup", "complete"}, at \in {"setup", "completed"}, res \in AnyResult :
        Goes(t, [Idle EXCEPT !.op = op, !.at = at, !.job = j, !.res = res])
  <2>1. CASE SetupDone(t, r, j)
    <3>1. Goes(t, [Idle EXCEPT !.op = "setup", !.at = "setup", !.job = j])
      BY <2>1 DEF SetupDone
    <3>2. [Idle EXCEPT !.op = "setup", !.at = "setup", !.job = j]
            = [Idle EXCEPT !.op = "setup", !.at = "setup", !.job = j, !.res = Idle.res]
      BY IdleOK DEF CallState
    <3>3. Idle.res \in AnyResult
      BY IdleOK DEF CallState
    <3> QED
      BY <3>1, <3>2, <3>3
  <2>2. CASE \E res \in Results[j] : Complete(t, r, j, res)
    <3>1. PICK res \in Results[j] : Complete(t, r, j, res)
      BY <2>2
    <3>2. res \in AnyResult
      BY PlanAssumption DEF AnyResult
    <3>3. Goes(t, [Idle EXCEPT !.op = "complete", !.at = "completed", !.job = j, !.res = res])
      BY <3>1 DEF Complete
    <3> QED
      BY <3>2, <3>3
  <2> QED
    BY <2>1, <2>2
<1> DEFINE on == [Idle EXCEPT !.op = op, !.at = at, !.job = j, !.res = res]
<1>2. Exists(j) /\ UNCHANGED <<jobs, queue, runs, plans>>
  BY DEF SetupDone, Complete, HoldsJob
<1>3. CallOK(on) /\ on.job = j
  <2>1. on \in CallState /\ on.at = at /\ on.job = j
    BY IdleOK DEF CallState, Ops, Places
  <2> QED
    BY <2>1 DEF CallOK
<1>4. TableStep
  BY <1>2, CallFacts, NoRowWritten
<1>5. CallsInv'
  <2> HIDE DEF on
  <2>1. Goes(t, on)
    BY <1>1 DEF on
  <2> QED
    BY <1>2, <1>3, <1>4, <2>1, OneCall DEF SchedInv
<1> QED
  BY <1>2, <1>4, <1>5 DEF StepKeeps, SchedInv, RunsInv, TableStep

LEMMA KeepRestart ==
  ASSUME SchedInv, Restart
  PROVE  StepKeeps
<1>1. TableStep /\ RunsInv'
  BY NoRowWritten DEF Restart, SchedInv, RunsInv
<1>2. CallsInv'
  BY IdleOK DEF Restart, CallsInv
<1> QED
  BY <1>1, <1>2 DEF StepKeeps, SchedInv, TableStep

LEMMA SchedStep ==
  ASSUME SchedInv, [Next]_vars
  PROVE  StepKeeps
<1>1. ASSUME NEW t \in Call, Proceed(t) PROVE StepKeeps
  BY <1>1, KeepWrite, KeepSupersede, KeepStartJobs, KeepTickLeave, KeepTickRunTimeout,
     KeepTickRun, KeepTickNothing, KeepTickAdmit, KeepTickFinalize, KeepWithdraw,
     KeepDispatch, KeepJobCompleted, KeepJobSetupCompleted DEF Proceed
<1>2. ASSUME NEW r \in Runner, NEW j \in Job, ReleaseJob(r, j) \/ Beat(r, j) PROVE StepKeeps
  <2>1. UNCHANGED <<runs, plans, calls>>
    BY <1>2 DEF ReleaseJob, Beat, OneStepCall
  <2>2. ReleaseLease(r, j) \/ Heartbeat(r, j)
    BY <1>2 DEF ReleaseJob, Beat
  <2>3. TableStep
    BY <2>2, ReleaseStep, FlagStep DEF SchedInv
  <2> QED
    BY <2>1, <2>3, StoreStep
<1>3. ASSUME NEW j \in Job, Lost(j) \/ BackoffOver(j) PROVE StepKeeps
  <2>1. UNCHANGED <<runs, plans, calls>> /\ (LeaseRunsOut(j) \/ BackoffRunsOut(j))
    BY <1>3 DEF Lost, BackoffOver
  <2>2. TableStep
    BY <2>1, FlagStep DEF SchedInv
  <2> QED
    BY <2>1, <2>2, StoreStep
<1>4. CASE UNCHANGED vars
  <2>1. UNCHANGED <<jobs, queue>> /\ UNCHANGED <<runs, plans, calls>>
    BY <1>4 DEF vars
  <2> QED
    BY <2>1, NoRowWritten, StoreStep DEF SchedInv
<1>5. CASE Next
  BY <1>1, <1>2, <1>3, <1>5, KeepTickStart, KeepStartRun, KeepApprove, KeepCancelRun, KeepRerun,
     KeepAcquire, KeepReport, KeepCancelJob, KeepRestart DEF Next
<1> QED
  BY <1>4, <1>5

LEMMA SchedStart == Init => SchedInv /\ LQ!Init
<1> SUFFICES ASSUME Init PROVE SchedInv /\ LQ!Init
  OBVIOUS
<1>1. TablesInv
  <2>1. ASSUME NEW j \in Job PROVE RowsFit(j, jobs[j], queue[j])
    <3>1. jobs[j] = AbsentJob /\ queue[j] = AbsentEntry
      BY DEF Init, StoreInit
    <3>2. AbsentJob \in SchedRow /\ AbsentJob.status = "absent"
      <4>1. AbsentJob = Idle.row /\ Idle.row \in SchedRow
        BY IdleOK DEF Idle, CallState
      <4> QED
        BY <4>1 DEF AbsentJob
    <3> QED
      BY <3>1, <3>2, EntryAbsent DEF RowsFit
  <2> QED
    BY <2>1 DEF Init, StoreInit, TablesInv
<1>2. CallsInv
  BY IdleOK DEF Init, CallsInv
<1>3. RunsInv
  <2>1. NoRun \in SchedRun
    BY DEF NoRun, SchedRun
  <2> QED
    BY <2>1 DEF Init, RunsInv
<1>4. LQ!Init
  BY DEF Init, StoreInit, LQ!Init, Holder, InQueue, Leased, AbsentEntry
<1> QED
  BY <1>1, <1>2, <1>3, <1>4 DEF SchedInv

\* Every row, entry and run keeps its type, and so does every copy a call has
\* read or is about to write, whichever calls overlap: no copy is of a job that
\* has no row, none is over its budget, and no job's row goes away.
THEOREM SchedulerTyped == Spec => []SchedInv
<1>1. SchedInv /\ [Next]_vars => SchedInv'
  BY SchedStep DEF StepKeeps
<1> QED
  BY <1>1, SchedStart, PTL DEF Spec

\* retry.go, MaxAttempts: no job is tried more often than its policy says, also
\* when a call that overlaps others finishes it from an older copy of its row.
THEOREM NoJobOverBudget == Spec => []RetryBudgetKept
<1>1. SchedInv => RetryBudgetKept
  BY RowsOfJob DEF SchedInv, RetryBudgetKept, Kept
<1> QED
  BY <1>1, SchedulerTyped, PTL

\* jobs.go, UpdateJob: under every overlap of the scheduler's calls, no
\* completed job and no job without a row is in the queue.
THEOREM SchedulerQueuesNoEnded == Spec => []CompletedNotDispatchable
<1>1. SchedInv => CompletedNotDispatchable
  BY DEF SchedInv, TablesInv, RowsFit, CompletedNotDispatchable, InQueue
<1> QED
  BY <1>1, SchedulerTyped, PTL

\* The scheduler's tables implement the lease queue: whichever calls overlap, and
\* whatever is restarted, cancelled, lost or re-run, a job goes to a runner only
\* from the queue and never from one runner to another.
THEOREM SchedulerImplementsLeaseQueue == Spec => ImplementsLeaseQueue
<1>1. SchedInv /\ [Next]_vars => [LQ!Next]_Holder
  BY SchedStep DEF StepKeeps
<1> QED
  BY <1>1, SchedulerTyped, SchedStart, PTL DEF Spec, ImplementsLeaseQueue, LQ!Spec
=============================================================================
