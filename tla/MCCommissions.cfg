CONSTANTS
  Enrollment = {e1, e2}
  Request = {r1, r2}
  Amount = {0, 1}
  MaxAttempts = 2
  MaxRequests = 3
  MaxEdits = 1
  MaxFaults = 1
SPECIFICATION Spec
SYMMETRY Interchangeable
INVARIANTS
  TypeOK
  InvoicesAreNumbered
PROPERTIES
  PaidIsFinal
  RepricesOnlyOpen
CHECK_DEADLOCK FALSE
