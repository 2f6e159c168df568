SPECIFICATION JobSpec
CONSTANTS
  Errors = {e1, e2}
  Run = run
  Shutdown = shutdown
  Notify = notify
INVARIANTS
  JobInv
PROPERTIES
  JobCloseEnds
CHECK_DEADLOCK FALSE
