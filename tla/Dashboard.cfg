SPECIFICATION MCSpec
CONSTANTS
  ann = ann
  bob = bob
  None = None
  Users <- MCUsers
  Owner <- MCOwner
  Limit = 1
  MaxDay = 2
  MaxRev = 2
  MaxFlight = 2
INVARIANTS
  Inv
  OwnLists
  NothingMissing
PROPERTIES
  Settles
CHECK_DEADLOCK FALSE
