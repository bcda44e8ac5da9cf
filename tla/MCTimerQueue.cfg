CONSTANTS
  Timers = {1, 2, 3}
  Delays = {0, 2}
  Intervals = {0, 1}
  MaxLate = 1
  Disarmed = Disarmed
SPECIFICATION Spec
INVARIANTS OwnedOnce StillArmed OnTime
PROPERTIES TimerRuns
