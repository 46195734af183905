------------------------------ MODULE MCHuddle ------------------------------
(* Huddle for TLC: users and slots are only compared for equality, and the *)
(* run is over when the bound on arrivals is reached.                      *)
EXTENDS Huddle, TLC

Symmetry == Permutations(Users) \cup Permutations(Requests)

Exhausted == arrived = MaxArrivals /\ Quiet /\ UNCHANGED vars

MCSpec     == Init /\ [][Next \/ Exhausted]_vars
MCFairSpec == MCSpec /\ \A r \in Requests : WF_vars(Step(r))
=============================================================================
