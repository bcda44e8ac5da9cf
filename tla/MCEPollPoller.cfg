CONSTANTS
  c1 = c1
  c2 = c2
  c3 = c3
  f1 = f1
  f2 = f2
  Channels = {c1, c2, c3}
  Fds = {f1, f2}
  None = None
  InitSize = 1
SYMMETRY PollerSymmetry
SPECIFICATION Spec
INVARIANTS ChannelsAgree NeverFatal ActiveChannelsLive
