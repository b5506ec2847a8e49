SPECIFICATION Spec
CONSTANTS
  Procs = {p1, p2}
  NoPid = NoPid
  NoTmp = NoTmp
  Corrupt <- Torn
  Updaters = {p1}
  Readers = {p2}
  Forcers = {}
  InitBases <- FreshOnly
  MaxOps = 1
  MaxIter = 1
  MaxClock = 1
  MaxDeaths = 0
  MayCorrupt = FALSE
INVARIANTS NoLostUpdate
