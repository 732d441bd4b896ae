\* A lock that ends and begins again while frames come without the satellite.
SPECIFICATION LockSpec
CONSTANTS
  Tolerance = 2
  Gap = 2
  MaxTime = 10
PROPERTY
  LossIsIndicated
