SPECIFICATION Spec
CONSTANTS
  Callbacks = {c1}
  Delays = {0, 3}
  Interval = 2
  MaxSlept = 1
  Nobody = Nobody
CHECK_DEADLOCK FALSE
INVARIANTS
  HelpersStopped
  DelaysServed
PROPERTIES
  TarpitEnds
  
