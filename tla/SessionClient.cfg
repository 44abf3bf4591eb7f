CONSTANTS
  Users = {u1}
  Calls = {c1, c2}
  Me = me
  NoUser = NoUser
  MaxSerial = 2
  MaxFaults = 1
SPECIFICATION Spec
SYMMETRY CallSymmetry
INVARIANTS WriteOnce OwnRotationKeepsSession ReturnsWhereItExpired
PROPERTIES DraftsEndWithSession
CHECK_DEADLOCK FALSE
