CONSTANTS
  r1 = r1
  r2 = r2
  t1 = t1
  t2 = t2
  NoRunner = NoRunner
  Job = {1, 2, 3}
  Runner = {r1}
  JobLabels <- MCJobLabels
  RunnerLabels <- MCRunnerLabels
  MaxAttempt = 2
  Run = {1, 2, 3}
  Call = {t1}
  Plan <- OpsPlan
  RunPlan <- OpsRunPlan
  Results <- OpsResults
  TimesOut = {}
  RunTimesOut = {1}
  Operated = {1, 3}
  Orders = 2
  Restarts = 1
  Losses = 0
  Reruns = 1
SPECIFICATION Spec
INVARIANTS
  RunGroupKept
  ClosedRunSettled
PROPERTY EndedJobStaysEnded
