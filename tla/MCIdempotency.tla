--------------------------- MODULE MCIdempotency ---------------------------
(* Three requests over the keys of two users, for TLC.                     *)
EXTENDS Idempotency, TLC

Interchangeable == Permutations(Request) \union Permutations(User) \union Permutations(Payload)
=============================================================================
