CONSTANTS
  MaxLen = 3
  EXTENDED = 2
  MAX_FRAME = 2
  MaxFrames = 3
  MaxDrops = 1
  Whole = TRUE
SPECIFICATION FairSpec
INVARIANTS
  MessagesInOrder
  
CHECK_DEADLOCK FALSE
PROPERTY EventuallyReceived
