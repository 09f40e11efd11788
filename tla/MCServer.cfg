CONSTANTS
  Clients = {c1, c2, c3}
  MaxClients = 2
  Nobody = Nobody
  MaxRequests = 2
SPECIFICATION Spec
 
PROPERTIES AllAccepted SignalStops
CHECK_DEADLOCK FALSE
