CONSTANTS
  WORD_SIZE = 2
  N_WORDS = 3
  r1 = r1
  r2 = r2
  Receivers = {r1, r2}
  MaxCounter = 8
  Counters <- MCCounters
SPECIFICATION Spec
SYMMETRY Symmetry
INVARIANTS
  NoReplay
  WillAcceptIsExact
PROPERTY ImplementsAntiReplay
