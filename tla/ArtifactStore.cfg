SPECIFICATION Spec
CONSTANTS
  Stores = {p1, p2}
  Tasks = {t1, t2}
  None = none
  MayMisread = TRUE
  MaxArtifacts = 3
  MaxCrashes = 2
  MaxTime = 1
INVARIANTS
  IndexedHasFile
PROPERTIES
  ImplementsLog
CHECK_DEADLOCK FALSE
