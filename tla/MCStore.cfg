SPECIFICATION Spec
CONSTANTS
  d1 = d1
  d2 = d2
  a1 = a1
  a2 = a2
  b1 = b1
  Daemons = {d1, d2}
  Threads = {a1, a2, b1}
  Home <- MCHome
  MaxFaults = 1
  MaxHits = 3
  NoRow = NoRow
  None = None
INVARIANTS NeverOvercounts HitsExact TransactionsEnd
PROPERTY SetReturns
CHECK_DEADLOCK FALSE
