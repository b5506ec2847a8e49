SPECIFICATION FamilySpec
CONSTANTS
  Procs = {p1, p2, p3}
  RetryProcs = {r1, r2, r3}
  Anyone = p1
  AnyRetrier = r1
  Nonces = {0, 1, 2, 3, 4, 5, 6, 7}
  NoFile = NoFile
  Caller = "StateManager"
  MaxLockRetries = 1
  MaxSteals = 3
  MaxCrashes = 2
  CrashInSteal = TRUE
PROPERTIES EitherSurvivorAcquires AnyStrandedLockIsFreed EitherCallReturns
