---------------------------- MODULE MCCommissions ----------------------------
(* Two requests at a time, three in all, on the claims of two enrollments.  *)
EXTENDS Commissions, TLC

Interchangeable == Permutations(Request) \union Permutations(Enrollment)
=============================================================================
