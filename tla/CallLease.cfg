SPECIFICATION FairSpec
CONSTANTS
  Sessions = {s1, s2}
  Devices = {d1, d2}
  NoSession = NoSession
  NoDevice = NoDevice
  Ttl = 2
  TokenTtl = 1
  RefreshTtl = 2
  RevokeSkew = 2
  CloudTimeout = 1
  MaxClock = 3
  MaxGeneration = 2
INVARIANTS
  Inv
  OnlyHolderCapable
  EndAllOrNothing
  NextOwnerUnharmed
PROPERTIES
  GenerationsFence
  ImplementsExclusion
  LockReleased
CHECK_DEADLOCK FALSE
