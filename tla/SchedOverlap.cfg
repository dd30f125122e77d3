CONSTANTS
  r1 = r1
  r2 = r2
  t1 = t1
  t2 = t2
  NoRunner = NoRunner
  Job = {1, 2, 3, 4}
  Runner = {r1}
  JobLabels <- MCJobLabels
  RunnerLabels <- MCRunnerLabels
  MaxAttempt = 2
  Run = {1, 2}
  Call = {t1, t2}
  Plan <- OverlapPlan
  RunPlan <- OverlapRunPlan
  Results <- OverlapResults
  TimesOut = {}
  RunTimesOut = {}
  Operated = {2}
  Orders = 1
  Restarts = 0
  Losses = 0
  Reruns = 0
SPECIFICATION Spec
SYMMETRY OverlapSymmetry
INVARIANT OverlapHarmless
