CONSTANTS
  u1 = u1
  Watcher = {u1}
  MaxLogLines = 3
  RingCap = 2
  PageSize = 1
  MaxResumes = 1
  MaxEntries = 1
  MaxLogFaults = 0
SPECIFICATION LogSpec
CHECK_DEADLOCK FALSE
INVARIANT ResumedWhole
