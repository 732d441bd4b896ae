\* Two clients that add the same two timers, a clock of three moments; or one timer four
\* times, at one moment.
SPECIFICATION BoundedSpec
CONSTANTS
  c1 = c1
  c2 = c2
  t1 = t1
  t2 = t2
  Clients = {c1, c2}
  Ids = {t1, t2}
  Intervals = {0, 2}
  MaxInterval = 2
  DEVIATION = 1
  MaxTime = 2
  MaxAdds = 4
SYMMETRY Symmetry
INVARIANTS
  QueueInv
  DuplicatesBounded
PROPERTIES
  ImplementsService
