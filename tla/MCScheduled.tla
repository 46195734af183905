---------------------------- MODULE MCScheduled ----------------------------
(* A scheduled message for TLC.  Request slots are interchangeable, and so *)
(* are executions of the processor.                                        *)
EXTENDS ScheduledMessage, TLC

Symmetry == Permutations(Requests) \cup Permutations(Runs)
=============================================================================
