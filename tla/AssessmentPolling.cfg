SPECIFICATION PollingSpec
CONSTANTS
  Sessions = {s1, s2}
  NoSession = NoSession
  MaxStale = 2
  MaxPosts = 2
INVARIANTS
  PollingInv
CHECK_DEADLOCK FALSE
