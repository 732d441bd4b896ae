\* Capture: two connections over two descriptors, a pipe of two messages, one interruption.
\* Caster: as many devices as one server period has seconds, a timeout of four seconds.
\* A connection may end for good, nobody has to connect, and time ends: deadlock is not
\* checked.
SPECIFICATION FieldSpec
CONSTANTS
  f1 = f1
  f2 = f2
  Fds = {f1, f2}
  HWM = 2
  MaxConns = 2
  MaxChunks = 2
  MaxExits = 1
  Devices = {1, 2, 3}
  ServerPeriod = 3
  Timeout = 4
  CaHWM = 4
  MaxTime = 9
  AhRequests <- MCRequests
INVARIANTS
  CaptureInv
  TargetsAlive
  Timely
  OneView
  AnswersInv
PROPERTIES
  OfflineFollows
  KeptWhileFresh
  NeverBack
CHECK_DEADLOCK FALSE
