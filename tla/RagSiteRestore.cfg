SPECIFICATION RestoreSpec
CONSTANTS
  Workers = {w1}
  Admins = {d1}
  Articles = {a1}
  Contents = {c1, c2}
  Fps = {f1, f2}
  BatchSize = 1
  LastEpoch = 3
  MaxEdits = 1
  MaxSaves = 2
  MaxFaults = 1
  NoFp = NoFp
  NoJob = NoJob
  Gone = Gone
  None = None
  Sites <- MCSites
INVARIANTS
  TypeOK
  IndexComplete
PROPERTIES
  ReadyMeansRebuilt
SYMMETRY MCSymmetry
CHECK_DEADLOCK FALSE
