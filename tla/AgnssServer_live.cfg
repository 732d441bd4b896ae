\* Liveness: one GPS and one BeiDou satellite, two devices.
SPECIFICATION FairSpec
CONSTANTS
  g1 = g1
  g2 = g2
  b1 = b1
  b2 = b2
  x1 = x1
  dev1 = dev1
  dev2 = dev2
  GpsSats = {g1}
  BdsSats = {b1}
  OtherSats = {}
  MAXOBS = 2
  MaxEpoch = 1
  Devices = {dev1, dev2}
  MaxMessages = 2
  MaxFrames = 2
PROPERTIES
  ServerGoesOn
  ImplementsFairMailbox
