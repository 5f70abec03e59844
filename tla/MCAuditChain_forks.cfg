CONSTANTS
  Entry = {1, 2, 3}
  None = none
  Writer = {w1, w2}
  Job = {j1}
  LastTick = 2
  MaxFaults = 0
SPECIFICATION Spec
INVARIANTS
  ChainIsLinear
CHECK_DEADLOCK FALSE
