---------------------------- MODULE MCReversalTx ----------------------------
(* Two requests in flight over one payment, for TLC.                       *)
EXTENDS ReversalTx, TLC

MCGross == [i \in Installment |-> 1]
MCDueRank == [i \in Installment |-> i]
WorkerSymmetry == Permutations(Worker)
=============================================================================
