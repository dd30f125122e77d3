CONSTANTS
  r1 = r1
  r2 = r2
  t1 = t1
  t2 = t2
  NoRunner = NoRunner
  Job <- MCJob
  Runner = {r1}
  JobLabels <- MCJobLabels
  RunnerLabels <- MCRunnerLabels
  MaxAttempt = 3
  Run = {1, 2}
  Call = {t1}
  Plan <- MCPlan
  RunPlan <- MCRunPlan
  Results <- MCResults
  TimesOut = {1}
  RunTimesOut = {}
  Operated = {}
  Orders = 0
  Restarts = 0
  Losses = 1
  Reruns = 0
SPECIFICATION FairSpec
INVARIANTS
  TypeOK
  GroupExclusive
  MaxParallelKept
  NeedsGate
  QueueMirrorsJobs
  RetryBudgetKept
PROPERTY EveryRunEnds
