\* Framer: two connections, the longest frame fills the buffer exactly. Lock: eleven
\* moments, a frame every other one. Each part ends at its bound: deadlock is not checked.
SPECIFICATION DecodingSpec
CONSTANTS
  c1 = c1
  c2 = c2
  Conns = {c1, c2}
  Bodies <- MCBodies
  Noise = {3, 5}
  Sync1 = 5
  Sync2 = 6
  Sync3 = 7
  LenAt = 4
  HeaderLen = 4
  CrcLen = 1
  MAXRAWLEN = 7
  Crc <- MCCrc
  LenOf <- MCLenOf
  MaxFrames = 3
  MaxNoise = 2
  Tolerance = 2
  Gap = 2
  MaxTime = 10
INVARIANTS
  LockInv
  Bounded
  FramesKept
  NoPhaseWithoutLock
PROPERTIES
  Recovers
  LockTimesTell
CHECK_DEADLOCK FALSE
