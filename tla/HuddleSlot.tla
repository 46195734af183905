----------------------------- MODULE HuddleSlot -----------------------------
(***************************************************************************)
(* What huddle_sessions promises about one target: the target has a single *)
(* slot for an open session.  A session takes the slot when it is free and *)
(* gives it up; it is never handed from one session to another in one step *)
(* and never taken twice.                                                  *)
(***************************************************************************)
CONSTANT Sessions

VARIABLE open   \* the sessions with ended_at IS NULL

Init == open = {}

Take(s) == open = {} /\ open' = {s}

GiveUp == open # {} /\ open' = {}

Next == GiveUp \/ \E s \in Sessions : Take(s)

Spec == Init /\ [][Next]_open
=============================================================================
