CONSTANTS
  s1 = s1
  s2 = s2
  Sessions <- MCSessions
  Ids = {i1, i2}
  NoId = NoId
  MaxMsgs <- MCMaxMsgs
  MaxRcpts = 2
SPECIFICATION Spec
INVARIANT VerdictIsCurrent
CHECK_DEADLOCK FALSE
