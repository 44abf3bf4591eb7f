SPECIFICATION FairSpec
CONSTANTS
  k1 = k1
  k2 = k2
  Keys <- MCKeys
  Archives <- MCArchives
  Procs = {p1}
  Ids = {r1}
  MaxFaults = 1
  NoId = NoId
  Dot = Dot
  NoJournal = NoJournal
  Free = Free
  Orphan = Orphan
PROPERTY
  RestoreConverges
