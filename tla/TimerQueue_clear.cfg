\* A timer that runs while the queue is cleared.
SPECIFICATION Spec
CONSTANTS
  c1 = c1
  c2 = c2
  t1 = t1
  t2 = t2
  Clients = {c1}
  Ids = {t1}
  Intervals = {1}
  MaxInterval = 2
  DEVIATION = 0
  MaxTime = 1
  MaxAdds = 1
PROPERTY
  ClearCancelsAll
