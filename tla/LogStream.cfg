CONSTANTS
  u1 = u1
  Watcher = {u1}
  MaxLogLines = 2
  RingCap = 1
  PageSize = 1
  MaxResumes = 0
  MaxEntries = 3
  MaxLogFaults = 0
SPECIFICATION LogSpec
CHECK_DEADLOCK FALSE
PROPERTY StreamEnds
