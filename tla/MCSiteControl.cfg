CONSTANTS
  t1 = t1
  t2 = t2
  n1 = n1
  None = None
  Targets = {t1, t2}
  ExitNodes = {n1}
  TICK_MS = 2
  PING_RESEND_MS = 5
  REGISTER_RESEND_MS = 4
  HEARTBEAT_TICKS = 2
  MaxVersion = 2
  MaxFaults = 2
  MaxQueue = 2
SPECIFICATION FairSpec
INVARIANTS
  DataPlaneMatchesState
  RetryIsArmed
  InSync

 
