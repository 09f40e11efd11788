CONSTANTS
  Width4 = 2
  Width6 = 2
  ByteBits = 2
SPECIFICATION Spec
INVARIANTS
  MemorySafe
  
  ComparisonsAgree
  RegdomIsReference
  PackRoundTrip
  Base64RoundTrip
  PrefixIsNetwork
CHECK_DEADLOCK FALSE
