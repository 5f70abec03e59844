CONSTANTS
  Row = {1, 2}
  Source = {s1}
  Slot = {1, 2}
  Manual = manual
  LastDay = 2
  Pass = {p1, p2}
  User = {u1}
  BatchLimit = 1
  MaxFaults = 1
SPECIFICATION FairSpec
INVARIANTS
  TypeOK
  OneMailPerReminder
PROPERTIES
  QuietAfterAnswer
  DueIsDispatched
CHECK_DEADLOCK FALSE
