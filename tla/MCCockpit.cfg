SPECIFICATION Spec
CONSTANTS
  Convs = {c1, c2}
  Dirs = {d1, d2}
  ArtifactDir = d1
  None = None
  MaxRuns = 2
  MaxWorkers = 2
  MaxQueue = 1
  MaxFiles = 1
INVARIANTS
  RunningIsTrue
  
  TranscriptIsOfSelection
SYMMETRY Interchangeable
CHECK_DEADLOCK FALSE
