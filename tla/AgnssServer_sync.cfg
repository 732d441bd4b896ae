\* The multiple-message bit of the published messages.
SPECIFICATION Spec
CONSTANTS
  g1 = g1
  g2 = g2
  b1 = b1
  b2 = b2
  x1 = x1
  dev1 = dev1
  dev2 = dev2
  GpsSats = {g1}
  BdsSats = {b1}
  OtherSats = {}
  MAXOBS = 2
  MaxEpoch = 1
  Devices = {dev1}
  MaxMessages = 1
  MaxFrames = 1
INVARIANT
  SyncAnnouncesNext
