CONSTANTS
  Request = {r1, r2}
  Plan = {1, 2}
  Item = {i1}
  MaxRequests = 3
  MaxFaults = 1
SPECIFICATION Spec
SYMMETRY Interchangeable
INVARIANTS
  TypeOK
  OneLivePlan
  ItemsFollowPlan
PROPERTIES
  LoneChangeSettlesBilling
CHECK_DEADLOCK FALSE
