SPECIFICATION Spec
CONSTANTS
  tuple = tuple
  hitlist = hitlist
  None = None
  Static <- MCStatic
  Dynamic <- MCDynamic
  Sql <- MCStatic
  Interval <- MCInterval
  Threads = {h1, h2}
  Life = 1
  MaxLate = 1
  MaxAge = 3
CHECK_DEADLOCK FALSE
PROPERTIES
  NeverEarly
  WalkUndisturbed
  EventuallyCleaned
  ShutsDown
