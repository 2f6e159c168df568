SPECIFICATION Spec
CONSTANTS
  Ttl = 2
  HeartbeatAfter = 1
  Early = 0
  MaxNow = 5
  MaxOp = 4
INVARIANTS
  Inv
  HeldIsGuarded
PROPERTIES
  DisposedIsFinal
  HeldRunsOut
