SPECIFICATION Spec
CONSTANTS
  Jobs = {j1, j2}
  Workers = {w1, w2}
  MaxAttempts = 2
  MaxManual = 1
INVARIANTS
  Inv
  AppliedOnce
PROPERTIES
  OutcomeIsFinal
  JobSettles
CHECK_DEADLOCK FALSE
