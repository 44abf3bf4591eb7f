SPECIFICATION PersistentSpec
CONSTANTS
  k1 = k1
  k2 = k2
  Keys <- MCKeys
  Archives <- MCArchives
  Procs = {p1, p2}
  Ids = {r1, r2}
  MaxFaults = 2
  NoId = NoId
  Dot = Dot
  NoJournal = NoJournal
  Free = Free
  Orphan = Orphan
INVARIANTS
  TypeOK
  OnlyLeaseOwnerRestores
  CommittedRestoreIsRecoverable
  NoReferencedMediaLost
  SettledMediaMatchesDatabase
  PublicationOnlyAfterCommit
PROPERTIES
  MarkerClearedOnlyWhenPublished
  StartupNeverRefuses
  AtomicSpec
  MaintenanceEnds
  RestoreConverges
