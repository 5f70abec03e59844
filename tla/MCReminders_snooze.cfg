CONSTANTS
  Row = {1}
  Source = {s1}
  Slot = {1, 2}
  Manual = manual
  LastDay = 2
  Pass = {p1}
  User = {u1}
  BatchLimit = 1
  MaxFaults = 0
SPECIFICATION FairSpec
PROPERTIES
  SnoozeIsRearmed
CHECK_DEADLOCK FALSE
