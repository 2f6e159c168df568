SPECIFICATION Spec
CONSTANTS
  Events = {e1}
  Payloads = {p}
  Sentinel = Sentinel
  NoItem = NoItem
  Capacity = 2
  MaxAttempts = 2
  MaxSubmits = 1
INVARIANT
  SnapshotIdentity
CHECK_DEADLOCK FALSE
