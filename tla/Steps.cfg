CONSTANTS
  JobPlan <- MCJobPlan
  StepTries = 2
  RetryOn = {"infra"}
SPECIFICATION StepsSpec
CHECK_DEADLOCK FALSE
INVARIANT ExcusedFailuresExcuse
