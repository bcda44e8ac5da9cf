CONSTANTS
  numThreads = 2
  Clients = {c1, c2, c3}
  MaxFds = 2
SPECIFICATION Spec
INVARIANTS LoopsAreThere FdsAccounted
PROPERTIES ClientIsAccepted DestroyReturns
\* A destroyed server has nothing more to do.
CHECK_DEADLOCK FALSE
