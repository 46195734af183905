------------------------------- MODULE MCAuth -------------------------------
(* A session for TLC.  Request slots are interchangeable. *)
EXTENDS SessionSockets, TLC

Symmetry == Permutations(Requests)
=============================================================================
