SPECIFICATION Spec
CONSTANTS
  Events = {e1, e2}
  Payloads = {p, q}
  Sentinel = Sentinel
  NoItem = NoItem
  Capacity = 1
  MaxAttempts = 2
  MaxSubmits = 3
INVARIANTS
  Inv
  StoredAsTold
PROPERTIES
  ClosedIsFinal
  CloseFinishes
CHECK_DEADLOCK FALSE
