CONSTANTS
  SIZE = 3
  None = None
  MaxLines = 5
  MaxCells = 3
  rollSize = 5
  flushInterval = 0
  checkEveryN = 2
  kRollPerSeconds = 2
  MaxTime = 3
SPECIFICATION Spec
INVARIANTS BuffersSuffice LinesConserved RollsInTime
PROPERTIES LineIsWritten
\* A stopped logger has nothing more to do.
CHECK_DEADLOCK FALSE
