CONSTANTS
  w1 = w1
  w2 = w2
  Workers = {w1, w2}
  Setups <- OneCareless
  MaxSends = 1
SPECIFICATION SafetySpec
INVARIANT NoUseAfterFree
\* The connection ends, and nothing is left to do.
CHECK_DEADLOCK FALSE
