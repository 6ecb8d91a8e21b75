---------------------------- MODULE MCReplayWindow ----------------------------
EXTENDS ReplayWindow, TLC

CONSTANT MaxCounter

MCCounters == 0 .. MaxCounter

Symmetry == Permutations(Receivers)
===============================================================================
