SPECIFICATION Spec
CONSTANTS
  alice = alice
  bob = bob
  None = None
  Users <- MCUsers
  MaxGen = 3
  MaxRev = 2
INVARIANTS
  Inv
  ShownIsOwned
  NoHiddenRoom
  EndedIsEnded
  RoundTrip
PROPERTIES
  StaleNoTouch
  Settles
CHECK_DEADLOCK FALSE
