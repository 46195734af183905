--------------------------- MODULE MCConversation ---------------------------
(* Conversation for TLC: users and slots are interchangeable.              *)
EXTENDS Conversation, TLC

Symmetry == Permutations(Users) \cup Permutations(Requests)
=============================================================================
