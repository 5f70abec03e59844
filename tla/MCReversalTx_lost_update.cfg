CONSTANTS
  Installment = {1}
  Payment = {1}
  Refund = {1, 2}
  Credit = {1, 2}
  MaxMinor = 2
  Gross <- MCGross
  DueRank <- MCDueRank
  Worker = {w1, w2}
  Jobs = {"refund"}
SPECIFICATION TxSpec
INVARIANTS
  PaidIsFunded
CHECK_DEADLOCK FALSE
