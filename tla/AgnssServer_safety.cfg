\* Two devices whose ticks and frames interleave, a table smaller than the sky.
SPECIFICATION Spec
CONSTANTS
  g1 = g1
  g2 = g2
  b1 = b1
  b2 = b2
  x1 = x1
  dev1 = dev1
  dev2 = dev2
  GpsSats = {g1, g2}
  BdsSats = {b1}
  OtherSats = {x1}
  MAXOBS = 2
  MaxEpoch = 2
  Devices = {dev1, dev2}
  MaxMessages = 2
  MaxFrames = 2
SYMMETRY Symmetry
INVARIANTS
  ServerInv
  PublishedWhole
PROPERTIES
  CorrectionsInTurn
  ImplementsMailbox
