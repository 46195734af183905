----------------------------- MODULE TokenChain -----------------------------
(***************************************************************************)
(* What a login session promises about its refresh tokens: at any time one *)
(* token is current; a successor is always a token that was never current  *)
(* before; once the session is over it stays over.                         *)
(***************************************************************************)
CONSTANTS Tokens, NoToken

VARIABLES current,   \* the current refresh token, NoToken when it is over
          past       \* every token that has been current

Init == \E t \in Tokens : current = t /\ past = {t}

Rotate(t) ==
    /\ current # NoToken
    /\ t \in Tokens \ past
    /\ current' = t /\ past' = past \cup {t}

End == current' = NoToken /\ past' = past

Next == End \/ \E t \in Tokens : Rotate(t)

Spec == Init /\ [][Next]_<<current, past>>
=============================================================================
