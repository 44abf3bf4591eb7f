SPECIFICATION FairSpec
CONSTANTS
  Workers = {w1}
  Admins = {d1}
  Articles = {a1}
  Contents = {c1}
  Fps = {f1, f2}
  BatchSize = 1
  LastEpoch = 4
  MaxEdits = 1
  MaxSaves = 3
  MaxFaults = 0
  NoFp = NoFp
  NoJob = NoJob
  Gone = Gone
  None = None
PROPERTIES
  EnabledBecomesReady
CHECK_DEADLOCK FALSE
