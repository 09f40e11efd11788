SPECIFICATION Spec
CONSTANTS
  Conns = {c1, c2}
  Tuples = {t1}
  Rcpts = {t1}
  RcptOf <- MCRcptOf
  Rules <- MCTwoRules
  CfDeadline = 1
  CfVisa = 1
  Interval = 3
  MaxTime = 2
  MaxCalls = 3
  MaxRcpts = 2
  NoRecord = NoRecord
  Operator = Operator
SYMMETRY Symmetry
  
PROPERTIES  VisaHonoured
CHECK_DEADLOCK FALSE
