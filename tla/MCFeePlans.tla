------------------------------ MODULE MCFeePlans ------------------------------
(* Two requests at a time, three in all, over two plans of one installment, *)
(* for TLC.  Requests are interchangeable.                                  *)
EXTENDS FeePlans, TLC

Interchangeable == Permutations(Request)
=============================================================================
