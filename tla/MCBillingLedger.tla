-------------------------- MODULE MCBillingLedger --------------------------
(* Small ledgers for TLC.                                                  *)
EXTENDS BillingLedger

MCGross == [i \in Installment |-> IF i = 1 THEN 2 ELSE 1]
MCDueRank == [i \in Installment |-> i]
=============================================================================
