CONSTANTS
  Installment = {1, 2}
  Payment = {1}
  Refund = {1, 2}
  Credit = {1, 2}
  MaxMinor = 2
  Gross <- MCGross
  DueRank <- MCDueRank
SPECIFICATION Spec
INVARIANTS
  TypeOK
  AmountsAgree
  StatusTellsMoney
  PaidIsFunded
  ConsumedIsApplied
  PaymentConserved
  RefundsWithinGross
  PaymentStatusTellsRefunds
  OneLiveCreditPerPayment
PROPERTIES
  MoneyNeverLost
  LegalMoves
  TerminalStays
CHECK_DEADLOCK FALSE
