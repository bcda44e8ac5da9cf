CONSTANTS
  Byte <- Bytes
  Nul = "nul"
  kCheapPrepend = 2
  kInitialSize = 8
  ExtraSize = 16
  IntMax = 127
  SizeMax = 1023
  Workloads <- Clients
SPECIFICATION HttpSpec
INVARIANTS BufferIsStream AnswersInOrder RefusedForCause
PROPERTY ClientIsServed
CHECK_DEADLOCK FALSE
