CONSTANTS
  w1 = w1
  w2 = w2
  Workers = {w1, w2}
  Setups <- AllSetups
  MaxSends = 2
SPECIFICATION Spec
INVARIANTS StreamPreserved FlushBeforeFin WritingIffOutput UpDownOnce WatchedIsAlive CarefulIsSafe
PROPERTIES GivesUpAfterDisconnect ClosedIsDestroyed
\* The connection ends, and nothing is left to do.
CHECK_DEADLOCK FALSE
