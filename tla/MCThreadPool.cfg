CONSTANTS
  threadSize = 3
  MaxTasks = 4
SPECIFICATION Spec
INVARIANTS NobodyOversleeps
PROPERTIES TaskIsRun DestructorDrains
\* A destroyed pool has nothing more to do.
CHECK_DEADLOCK FALSE
