CONSTANTS
  r1 = r1
  r2 = r2
  t1 = t1
  t2 = t2
  NoRunner = NoRunner
  Job = {1, 2}
  Runner = {r1}
  JobLabels <- MCJobLabels
  RunnerLabels <- MCRunnerLabels
  MaxAttempt = 2
  Run = {1}
  Call = {t1}
  Plan <- PairPlan
  RunPlan <- OverlapRunPlan
  Results <- PairResults
  TimesOut = {}
  RunTimesOut = {}
  Operated = {1}
  Orders = 0
  Restarts = 0
  Losses = 0
  Reruns = 1
SPECIFICATION Spec
INVARIANT NothingRunsBeforeItsNeeds
