----------------------------- MODULE MCCommsOutbox -----------------------------
(* Two overlapping passes over two messages, for TLC.                      *)
EXTENDS CommsOutbox
=============================================================================
