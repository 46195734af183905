------------------------------ MODULE MCLater ------------------------------
(* A saved item for TLC: nothing to define, the constants are in the cfgs. *)
EXTENDS LaterReminder
=============================================================================
