SPECIFICATION Spec
CONSTANTS
  Keys = {k1, k2}
  Requests = {r1, r2}
  MaxUploads = 3
  MaxDeletes = 2
  MaxCrashes = 2
  MaxErrors = 2
  MaxSkips = 2
  NoKey = NoKey
  Free = Free
INVARIANTS
  TypeOK
  NoFileLost
  OnlyListedServed
  RepairedBeforeUse
SYMMETRY MCSymmetry
CHECK_DEADLOCK FALSE
