CONSTANTS
  Entry = {1, 2, 3}
  None = none
  Writer = {w1, w2}
  Job = {j1, j2}
  LastTick = 2
  MaxFaults = 1
SPECIFICATION FairSpec
INVARIANTS
  AnchorsCountOnce
  CalmIsIntact
PROPERTIES
  CalmIsAnchored
SYMMETRY Alike
CHECK_DEADLOCK FALSE
