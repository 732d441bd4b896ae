\* One client, the threads scheduled: no symmetry with liveness.
SPECIFICATION FairSpec
CONSTANTS
  c1 = c1
  c2 = c2
  t1 = t1
  t2 = t2
  Clients = {c1}
  Ids = {t1, t2}
  Intervals = {0, 1}
  MaxInterval = 2
  DEVIATION = 1
  MaxTime = 2
  MaxAdds = 2
PROPERTIES
  DueIsRun
  StopReturns
