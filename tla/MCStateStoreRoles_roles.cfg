SPECIFICATION RolesSpec
CONSTANTS
  Procs = {p1, p2, p3}
  NoPid = NoPid
  NoTmp = NoTmp
  Corrupt <- Torn
  Updaters = {p1, p2, p3}
  Readers = {}
  Forcers = {}
  InitBases <- AllBases
  MaxOps = 1
  MaxIter = 1
  MaxClock = 1
  MaxDeaths = 2
  MayCorrupt = TRUE
  Updater = p1
  Reader = p2
INVARIANTS TypeOK LockedLosesNothing LockedMutatorSeesBase BaseNeverTorn WriterFindsItsTmp
PROPERTIES LockedDemotesOnlyDead MixedOrphansAreReaped
