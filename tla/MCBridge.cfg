CONSTANTS
  TCP_RX = 2
  TCP_TX = 1
  CHANNEL = 1
  BUF = 2
  KERNEL = 2
  MaxBytes = 3
  MaxLosses = 1
SPECIFICATION FairSpec
INVARIANTS
  NothingLostToTarget
  NothingLostToClient
  FinIsLast
CHECK_DEADLOCK FALSE
PROPERTIES
  EndReachesClient
  NoOrphanTask
  BytesArrive
