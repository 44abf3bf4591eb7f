SPECIFICATION FairSpec
CONSTANTS
  Workers = {w1, w2}
  Admins = {d1}
  Articles = {a1}
  Contents = {c1}
  Fps = {f1}
  BatchSize = 1
  LastEpoch = 3
  MaxEdits = 0
  MaxSaves = 1
  MaxFaults = 1
  NoFp = NoFp
  NoJob = NoJob
  Gone = Gone
  None = None
PROPERTIES
  StaleOwnersAreFenced
  IndexConverges
CHECK_DEADLOCK FALSE
