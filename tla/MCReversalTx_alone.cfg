CONSTANTS
  Installment = {1, 2}
  Payment = {1}
  Refund = {1}
  Credit = {1, 2}
  MaxMinor = 2
  Gross <- MCGross
  DueRank <- MCDueRank
  Worker = {w1}
  Jobs = {"void", "refund"}
SPECIFICATION TxSpec
INVARIANTS
  CreditWithinAmount
PROPERTIES
  SerialLedger
CHECK_DEADLOCK FALSE
