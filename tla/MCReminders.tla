------------------------------ MODULE MCReminders ------------------------------
(* Two overlapping passes over two rows, one request in flight, for TLC.   *)
EXTENDS Reminders
=============================================================================
