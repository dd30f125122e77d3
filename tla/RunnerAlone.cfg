CONSTANTS
  r1 = r1
  r2 = r2
  s1 = s1
  s2 = s2
  s3 = s3
  NoRunner = NoRunner
  NoRest = ""
  NoSlotJob = 0
  Job <- MCJob
  Runner <- MCAlone
  JobLabels <- MCJobLabels
  RunnerLabels <- MCRunnerLabels
  Rest <- MCRest
  ClientRows = {}
  MaxAttempt = 5
  MaxTime = 0
  Slot <- MCOneSlot
  RunnerOf <- MCRunnerOf
  KeepsState = {r1}
  Results = {"success", "infra"}
  MaxFaults = 1
SPECIFICATION RunnerSpec
PROPERTY EveryJobEnds
