CONSTANTS
  MaxLen = 3
  EXTENDED = 2
  MAX_FRAME = 2
  MaxFrames = 2
  MaxDrops = 1
  Whole = FALSE
SPECIFICATION Spec
INVARIANT MessagesInOrder
CHECK_DEADLOCK FALSE
