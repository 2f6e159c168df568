SPECIFICATION Spec
CONSTANTS
  None = None
  NoKey = NoKey
  r1 = r1
  r2 = r2
  r3 = r3
  r4 = r4
  c1 = c1
  c2 = c2
  c3 = c3
  k = k
  talk = talk
  exam = exam
  Creates <- MCCreates
  Calls <- MCCalls
  KeyOf <- MCKeyOf
  BodyOf <- MCBodyOf
  Modes = {"disabled", "livekit_cloud"}
INVARIANTS
  IdempotentCreate
  EndedOnce
  AgentsAccounted
SYMMETRY MCSymmetry
CHECK_DEADLOCK FALSE
