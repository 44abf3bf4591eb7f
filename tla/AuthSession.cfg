SPECIFICATION Spec
CONSTANTS
  Users = {u1, u2}
  Requests = {r1, r2}
  MaxTokens = 3
  MaxChanges = 3
  MaxEvents = 5
  NoUser = NoUser
  NoSnapshot = NoSnapshot
INVARIANTS
  RotationIsExclusive
  SessionsEndWithVersion
  ActiveAdminRemains
PROPERTIES
  RotationOnlyWhileActive
  OnlyFirstIsAdmin
VIEW MCView
SYMMETRY MCSymmetry
CHECK_DEADLOCK FALSE
