-------------------------- MODULE WorkspaceEmojis ---------------------------
(***************************************************************************)
(* The custom emojis of one workspace, their aliases, and the emojis of    *)
(* its one-click reactions (src/src/workspace-emojis).  The three slots    *)
(* are the set of the custom names in them; images, default emojis and     *)
(* who may do what are left out.  Arrive is a request up to its first      *)
(* write, its checks included; refused requests are left out.              *)
(***************************************************************************)
EXTENDS Naturals, FiniteSets

CONSTANTS
    Names,         \* names of emojis
    Requests,      \* slots in which requests are in flight together
    MaxEmojis,     \* bound: rows ever inserted
    MaxRequests    \* bound: requests that ever arrive

VARIABLES
    emoji,      \* emoji[e]: the row of workspace_custom_emojis
    settings,   \* the row of workspace_emoji_settings is there
    slots,      \* custom names in its slots
    ask,        \* the requests in flight
    asked,      \* how many have arrived
    raced       \* history: a write relied on what another had changed

vars == <<emoji, settings, slots, ask, asked, raced>>

Emojis == 1 .. MaxEmojis
NoRow  == [st |-> "none", name |-> 0, alias |-> 0]
Idle   == [pc |-> "idle", name |-> 0, source |-> 0, rows |-> {}, slots |-> {}, late |-> FALSE]

Rows     == {e \in Emojis : emoji[e].st = "there"}
Taken(n) == \E e \in Rows : emoji[e].name = n

Begin(r, q) ==
    /\ ask[r] = Idle /\ asked < MaxRequests
    /\ asked' = asked + 1
    /\ ask' = [ask EXCEPT ![r] = q]

\* r is over; what the others in flight have read is no longer so
Over(r, changed) ==
    ask' = [x \in Requests |-> IF x = r \/ ask[x] = Idle THEN Idle
                               ELSE [ask[x] EXCEPT !.late = @ \/ changed]]

\* ensureEmojiSettingsRow, in a request or when the emojis are listed
Ensure ==
    /\ ~settings /\ settings' = TRUE
    /\ UNCHANGED <<emoji, slots, ask, asked, raced>>

\* createCustomEmoji
ArriveCreate(r) ==
    /\ \E n \in Names : ~Taken(n) /\ Begin(r, [Idle EXCEPT !.pc = "insert", !.name = n])
    /\ UNCHANGED <<emoji, settings, slots, raced>>

\* createCustomEmojiAlias: an alias of an alias is one of its source
ArriveAlias(r) ==
    /\ \E n \in Names, e \in Rows :
         /\ ~Taken(n)
         /\ Begin(r, [Idle EXCEPT !.pc = "insert", !.name = n,
                                  !.source = IF emoji[e].alias = 0 THEN e ELSE emoji[e].alias])
    /\ UNCHANGED <<emoji, settings, slots, raced>>

\* the unique index refuses a name that was taken meanwhile
Insert(r) ==
    LET q == ask[r] IN
    /\ q.pc = "insert"
    /\ IF Taken(q.name) THEN UNCHANGED <<emoji, raced>>
       ELSE /\ \E e \in Emojis :
                 /\ emoji[e].st = "none" /\ \A f \in Emojis : emoji[f].st = "none" => e <= f
                 /\ emoji' = [emoji EXCEPT ![e] = [st |-> "there", name |-> q.name, alias |-> q.source]]
            /\ raced' = (raced \/ (q.late /\ q.source # 0))
    /\ Over(r, TRUE)
    /\ UNCHANGED <<settings, slots, asked>>

\* updateOneClickReactions
ArriveQuick(r) ==
    /\ settings
    /\ \E ns \in SUBSET Names : (\A n \in ns : Taken(n)) /\ Begin(r, [Idle EXCEPT !.pc = "quick", !.slots = ns])
    /\ UNCHANGED <<emoji, settings, slots, raced>>

Quick(r) ==
    /\ ask[r].pc = "quick"
    /\ slots' = ask[r].slots
    /\ raced' = (raced \/ ask[r].late)
    /\ Over(r, TRUE)
    /\ UNCHANGED <<emoji, settings, asked>>

\* mutation: the aliases are left
OnlyIt(e) == {f \in Rows : f = e}

\* deleteCustomEmoji: with its aliases, whose names leave the slots too
WithAliases(e) == {f \in Rows : f = e \/ emoji[f].alias = e}

ArriveDelete(r) ==
    /\ settings
    /\ \E e \in Rows :
         LET gone == WithAliases(e)
         IN  Begin(r, [Idle EXCEPT !.pc = "delete", !.rows = gone,
                                   !.slots = slots \ {emoji[f].name : f \in gone}])
    /\ UNCHANGED <<emoji, settings, slots, raced>>

Delete(r) ==
    LET q == ask[r] IN
    /\ q.pc = "delete"
    /\ emoji' = [e \in Emojis |-> IF e \in q.rows THEN [emoji[e] EXCEPT !.st = "gone"] ELSE emoji[e]]
    /\ slots' = q.slots
    /\ raced' = (raced \/ q.late)
    /\ Over(r, TRUE)
    /\ UNCHANGED <<settings, asked>>

Init ==
    /\ emoji = [e \in Emojis |-> NoRow] /\ settings = FALSE /\ slots = {}
    /\ ask = [r \in Requests |-> Idle] /\ asked = 0 /\ raced = FALSE

Next ==
    \/ Ensure
    \/ \E r \in Requests : \/ ArriveCreate(r) \/ ArriveAlias(r) \/ ArriveQuick(r) \/ ArriveDelete(r)
                           \/ Insert(r) \/ Quick(r) \/ Delete(r)

Spec == Init /\ [][Next]_vars

(***************************************************************************)
(* Properties                                                              *)
(***************************************************************************)
\* A one-click reaction is an emoji there is and an alias has its source,
\* unless a request wrote what it had read before another one changed the
\* emojis or the slots (deleteCustomEmoji, updateOneClickReactions,
\* createCustomEmojiAlias).
NothingDangles ==
    \/ raced
    \/ /\ \A n \in slots : Taken(n)
       /\ \A e \in Rows : emoji[e].alias # 0 => emoji[e].alias \in Rows

=============================================================================
