SPECIFICATION Spec
CONSTANTS
  Procs = {p1, p2, p3, p4}
  Nonces = {0, 1, 2, 3, 4, 5, 6, 7}
  NoFile = NoFile
  Caller = "StateManager"
  MaxLockRetries = 0
  MaxSteals = 3
  MaxCrashes = 2
  CrashInSteal = TRUE
SYMMETRY Perms
INVARIANT MutualExclusion
