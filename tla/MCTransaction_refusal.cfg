SPECIFICATION Spec
CONSTANTS
  Procs = {p1}
  NoPid = NoPid
  Paths = {1, 2, 3}
  Requests <- Pairs
  MaxMishaps = 1
CHECK_DEADLOCK FALSE
INVARIANT RefusalRolledBack
