SPECIFICATION Spec
CONSTANTS
  Procs = {p1, p2}
  NoPid = NoPid
  Paths = {1, 2, 3}
  Requests <- Lists
  MaxMishaps = 3
CHECK_DEADLOCK FALSE
SYMMETRY Perms
INVARIANTS TypeOK NoCircularWait ReturnsUnlocked RolledBack
PROPERTY CommitsAtomically
