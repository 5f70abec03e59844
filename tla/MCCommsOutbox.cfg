CONSTANTS
  Message = {1, 2}
  Pass = {p1, p2}
  BatchLimit = 1
  MaxAttempts = 2
  MaxFaults = 1
  MaxRequeue = 1
SPECIFICATION FairSpec
INVARIANTS
  AttemptsBounded
  SentIsTaken
PROPERTIES
  OutboxKept
CHECK_DEADLOCK FALSE
