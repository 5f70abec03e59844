CONSTANTS
  Installment = {1}
  Payment = {1}
  Refund = {1, 2}
  Credit = {1, 2}
  MaxMinor = 2
  Gross <- MCGross
  DueRank <- MCDueRank
  Worker = {w1, w2}
  Jobs = {"void", "refund"}
SYMMETRY WorkerSymmetry
SPECIFICATION TxSpec
INVARIANTS
  PaidIsBacked
PROPERTIES
  VoidIsSerial
  RefundPaidOnce
CHECK_DEADLOCK FALSE
