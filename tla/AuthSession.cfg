SPECIFICATION Spec
CONSTANTS
  Users = {ann, bob}
  Nameless = nameless
  Reqs = {q}
  None = None
  MaxRev = 4
INVARIANTS
  Inv
PROPERTIES
  RequestAsItself
  LoadingEnds
CHECK_DEADLOCK FALSE
