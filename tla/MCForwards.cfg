CONSTANTS
  Apps = {a1, a2}
  N_FORWARDS = 2
  Unaddressable = {2}
  Handles = {1, 2}
  FIRST_PORT = 1
  LAST_PORT = 2
  PAUSE = 1
  MaxConnects = 3
  MaxFaults = 1
SPECIFICATION FairSpec
INVARIANTS
  SocketsOwned
  PortsDistinct
PROPERTIES
  
  
  CloseIsPassedOn
