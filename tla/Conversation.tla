---------------------------- MODULE Conversation ---------------------------
(***************************************************************************)
(* Direct-message conversations of one workspace: dm_conversations,        *)
(* conversation_members, the root messages in them and the preview of the  *)
(* last one (src/src/direct-message, and what createMessage does for a     *)
(* conversation).  Replies, deleted contents and the cache are in Message; *)
(* folders, notification overrides and attachments follow the messages in  *)
(* a merge and are not represented.                                        *)
(*                                                                         *)
(* A request is a record with a program counter; an action is a statement  *)
(* or a transaction, reads with no write between them are one.  Arrive is  *)
(* a handler up to its first write; refused requests are left out.         *)
(***************************************************************************)
EXTENDS Naturals, FiniteSets, Sequences

CONSTANTS
    Users,             \* users with a membership of the workspace
    Requests,          \* slots in which requests are in flight together
    Limit,             \* members a conversation may have, 9 in the code
    MaxConversations,  \* bound: conversations ever made
    MaxMessages,       \* bound: root messages ever inserted
    MaxArrivals        \* bound: requests, changes from outside and crashes

ASSUME ConversationAssumption ==
    /\ Limit \in Nat /\ MaxMessages \in Nat \ {0} /\ MaxArrivals \in Nat
    /\ MaxConversations \in Nat

VARIABLES
    made,       \* the conversations there are
    members,    \* members[c]: conversation_members
    group,      \* group[c]: is_group
    starred,    \* pairs of a conversation and a member who starred it
    active,     \* users whose membership of the workspace is active
    post,       \* post[m]: the root message m
    last,       \* last[c]: last_message_id
    req,        \* the requests in flight
    arrived,    \* how many of these there were
    raced,      \* history: written after another changed some membership
    shrunk,     \* history: lost a member
    crossed     \* history: a message came or went while one was posted

rows  == <<made, members, group>>
texts == <<post, last>>
past  == <<raced, shrunk, crossed>>
vars  == <<rows, starred, active, texts, req, arrived, past>>

Conversations == 1 .. MaxConversations
Messages      == 1 .. MaxMessages
None          == 0

\* to and heard are for the properties: whom the sender named (nobody, when
\* it named a conversation) and who was a member when the row was inserted
Post == [at : 0 .. MaxConversations, st : {"none", "there", "gone"}, line : BOOLEAN,
         to : SUBSET Users, heard : SUBSET Users, late : BOOLEAN]
NoPost == [at |-> None, st |-> "none", line |-> FALSE, to |-> {}, heard |-> {}, late |-> FALSE]

Here(c)   == {m \in Messages : post[m].st = "there" /\ post[m].at = c}
Newest(S) == IF S = {} THEN None ELSE CHOOSE m \in S : \A n \in S : n <= m

\* mutation: the second count of the HAVING is left out
AtLeast(S) == {c \in made : S \subseteq members[c]}

\* mutation: conversations of two are overlooked
ExactlyGroup(S) == {c \in made : members[c] = S /\ group[c]}

\* findConversationIdByExactMemberSet: any one of these, when there are more
Exactly(S) == {c \in made : members[c] = S}

Idle == [pc |-> "idle", op |-> "none", user |-> None, c |-> None, who |-> {}, to |-> {},
         m |-> None, next |-> <<>>, line |-> FALSE, late |-> FALSE, size |-> 0, seen |-> {}]
Free(r)   == req[r] = Idle
Go(r, pc) == req' = [req EXCEPT ![r].pc = pc]
Finish(r) == req' = [req EXCEPT ![r] = Idle]

\* request r has changed a membership and goes on as q; what the others have
\* read is late
Changed(r, q) ==
    req' = [x \in Requests |-> IF x = r THEN q
                               ELSE IF Free(x) THEN Idle ELSE [req[x] EXCEPT !.late = TRUE]]

(***************************************************************************)
(* Who sees a conversation                                                 *)
(***************************************************************************)
Others(u, c) == members[c] \ {u}

\* getConversationById
Opens(u, c) == u \in members[c] /\ (group[c] \/ Cardinality(Others(u, c)) # 1 \/ Others(u, c) \subseteq active)
\* the filter at the end of getConversations
Lists(u, c) == u \in members[c] /\ (group[c] \/ Others(u, c) \subseteq active)
\* getHiddenOneToOneConvIds, for conversations that are no group
Hidden(u, c) == ~(Others(u, c) \subseteq active)
\* getUnreadSummary counts a conversation that has something unread
Counts(u, c) == u \in members[c] /\ ~(~group[c] /\ Hidden(u, c))

(***************************************************************************)
(* The beginning of a request                                              *)
(***************************************************************************)
Begin(r, call) ==
    /\ Free(r) /\ arrived < MaxArrivals
    /\ arrived' = arrived + 1
    /\ req' = [req EXCEPT ![r] = call]
    /\ UNCHANGED <<rows, starred, active, texts, past>>

\* getOrCreateConversation, when there is no such conversation
ArriveOpen(r, u) ==
    \E S \in SUBSET active :
        /\ u \in S /\ Cardinality(S) \in 2 .. Limit
        /\ Exactly(S) = {}
        /\ Begin(r, [Idle EXCEPT !.pc = "make", !.op = "open", !.who = S])

\* assertConversationAccess
Access(u, c) == c \in made /\ u \in members[c] /\ u \in active

\* createMessage that names its recipients: no limit, no check of them
ArriveSend(r, u) ==
    \E S \in {T \cup {u} : T \in SUBSET Users} :
        IF Exactly(S) = {}
        THEN Begin(r, [Idle EXCEPT !.pc = "make", !.op = "send", !.user = u, !.who = S, !.to = S])
        ELSE \E c \in Exactly(S) :
               /\ Access(u, c)
               /\ Begin(r, [Idle EXCEPT !.pc = "post", !.op = "send", !.user = u, !.c = c, !.to = S])

\* createMessage in a conversation
ArrivePost(r, u, c) ==
    /\ Access(u, c)
    /\ Begin(r, [Idle EXCEPT !.pc = "post", !.op = "send", !.user = u, !.c = c])

\* updateConversation: one timeline message each for a new topic and a new
\* description; the row itself holds nothing the properties look at
ArriveUpdate(r, u, c) ==
    /\ Opens(u, c) /\ Access(u, c)
    /\ \E n \in {<<>>, <<c>>} :
         Begin(r, [Idle EXCEPT !.pc = "post", !.op = "update", !.user = u, !.c = c, !.line = TRUE, !.next = n])

\* the look for a conversation that has the resulting members already, into
\* which this one is merged
Adding(r, u, c, S) ==
    LET size == Cardinality(members[c]) + Cardinality(S)
        same == Exactly(members[c] \cup S) \ {c}
    IN  \/ /\ same = {}
           /\ Begin(r, [Idle EXCEPT !.pc = "join", !.op = "add", !.c = c, !.who = S, !.size = size])
        \/ \E d \in same :
             Begin(r, [Idle EXCEPT !.pc = "merge", !.op = "add", !.user = u, !.c = c, !.next = <<d>>])

\* addConversationMembers
ArriveAdd(r, u, c) ==
    /\ Opens(u, c)
    /\ \E S \in SUBSET (active \ members[c]) \ {{}} :
         Cardinality(members[c]) + Cardinality(S) <= Limit /\ Adding(r, u, c, S)

\* addAllWorkspaceMembersToConversation: as many as there is room for
ArriveAddAll(r, u, c) ==
    LET left == active \ members[c]
        room == IF Cardinality(members[c]) < Limit THEN Limit - Cardinality(members[c]) ELSE 0
    IN  /\ Opens(u, c) /\ room > 0 /\ left # {}
        /\ \E S \in SUBSET left :
             /\ Cardinality(S) = IF Cardinality(left) < room THEN Cardinality(left) ELSE room
             /\ Adding(r, u, c, S)

\* removeConversationMember: by someone with the permission, of a group
ArriveRemove(r, u, c) ==
    /\ group[c]
    /\ \E v \in members[c] \ {u} :
         Begin(r, [Idle EXCEPT !.pc = "remove", !.op = "remove", !.c = c, !.who = {v}])

\* starConversation and unstarConversation read the row of the member
ArriveStar(r, u, c) ==
    /\ Opens(u, c)
    /\ \E on \in BOOLEAN :
         Begin(r, [Idle EXCEPT !.pc = "star", !.op = "star", !.user = u, !.c = c, !.line = on])

Arrive(r) ==
    \E u \in Users :
        \/ ArriveOpen(r, u) \/ ArriveSend(r, u)
        \/ \E c \in made : \/ ArrivePost(r, u, c) \/ ArriveUpdate(r, u, c)
                           \/ ArriveAdd(r, u, c) \/ ArriveAddAll(r, u, c)
                           \/ ArriveRemove(r, u, c) \/ ArriveStar(r, u, c)

\* deactivation and reactivation of a member of the workspace
Toggle ==
    /\ arrived < MaxArrivals /\ arrived' = arrived + 1
    /\ \E u \in Users : active' = IF u \in active THEN active \ {u} ELSE active \cup {u}
    /\ UNCHANGED <<rows, starred, texts, req, past>>

(***************************************************************************)
(* Memberships                                                             *)
(***************************************************************************)
\* the transaction that inserts a conversation and its members
Make(r) ==
    LET q == req[r] IN
    /\ q.pc = "make"
    /\ \E c \in Conversations \ made :
         /\ \A d \in Conversations \ made : c <= d
         /\ made' = made \cup {c}
         /\ members' = [members EXCEPT ![c] = q.who]
         /\ group' = [group EXCEPT ![c] = Cardinality(q.who) > 2]
         /\ raced' = IF q.late THEN raced \cup {c} ELSE raced
         /\ Changed(r, IF q.op = "open" THEN Idle ELSE [q EXCEPT !.pc = "access", !.c = c])
    /\ UNCHANGED <<starred, active, texts, arrived, shrunk, crossed>>

\* mutation: a conversation of two that gets a third stays one of two
JoinKeepsKind(r) ==
    LET q == req[r] IN
    /\ q.pc = "join"
    /\ IF q.who \cap members[q.c] # {}
       THEN Finish(r) /\ UNCHANGED <<members, raced>>
       ELSE /\ members' = [members EXCEPT ![q.c] = @ \cup q.who]
            /\ raced' = IF q.late THEN raced \cup {q.c} ELSE raced
            /\ Changed(r, Idle)
    /\ UNCHANGED <<made, group, starred, active, texts, arrived, shrunk, crossed>>

\* the transaction that inserts members; the unique index refuses one who is
\* there, and the request fails
Join(r) ==
    LET q == req[r] IN
    /\ q.pc = "join"
    /\ IF q.who \cap members[q.c] # {}
       THEN Finish(r) /\ UNCHANGED <<members, group, raced>>
       ELSE /\ members' = [members EXCEPT ![q.c] = @ \cup q.who]
            /\ group' = [group EXCEPT ![q.c] = @ \/ q.size > 2]
            /\ raced' = IF q.late THEN raced \cup {q.c} ELSE raced
            /\ Changed(r, Idle)
    /\ UNCHANGED <<made, starred, active, texts, arrived, shrunk, crossed>>

\* the transaction that deletes a member and counts those who remain
Remove(r) ==
    LET q    == req[r]
        rest == members[q.c] \ q.who
    IN  /\ q.pc = "remove"
        /\ members' = [members EXCEPT ![q.c] = rest]
        /\ group' = [group EXCEPT ![q.c] = @ /\ Cardinality(rest) > 2]
        /\ starred' = {p \in starred : ~(p[1] = q.c /\ p[2] \in q.who)}
        /\ shrunk' = shrunk \cup {q.c}
        /\ Changed(r, Idle)
        /\ UNCHANGED <<made, active, texts, arrived, raced, crossed>>

\* by the id of the row that was read: it may have gone, or come anew
Star(r) ==
    LET q == req[r]
        p == <<q.c, q.user>>
    IN  /\ q.pc = "star"
        /\ \/ q.user \in members[q.c] /\ starred' = IF q.line THEN starred \cup {p} ELSE starred \ {p}
           \/ q.late /\ UNCHANGED starred
        /\ Finish(r)
        /\ UNCHANGED <<rows, active, texts, arrived, past>>

(***************************************************************************)
(* Messages                                                                *)
(***************************************************************************)
\* another request has inserted a message of c and not written its preview
Posting(r, c) == \E x \in Requests \ {r} : req[x].pc = "preview" /\ req[x].c = c
Cross(r, S)   == crossed' = crossed \cup {c \in S : Posting(r, c)}

Enter(r) ==
    LET q == req[r] IN
    /\ q.pc = "access"
    /\ IF Access(q.user, q.c) THEN Go(r, "post") ELSE Finish(r)
    /\ UNCHANGED <<rows, starred, active, texts, arrived, past>>

Insert(r) ==
    LET q == req[r] IN
    /\ q.pc = "post"
    /\ \E m \in Messages :
         /\ post[m].st = "none" /\ \A n \in Messages : post[n].st = "none" => m <= n
         /\ post' = [post EXCEPT ![m] = [at |-> q.c, st |-> "there", line |-> q.line, to |-> q.to,
                                         heard |-> members[q.c], late |-> q.late]]
         /\ req' = [req EXCEPT ![r].pc = "preview", ![r].m = m]
    /\ Cross(r, {q.c})
    /\ UNCHANGED <<rows, starred, active, last, arrived, raced, shrunk>>

\* the preview of the conversation, then the next timeline message if any
Preview(r) ==
    LET q == req[r] IN
    /\ q.pc = "preview"
    /\ last' = [last EXCEPT ![q.c] = q.m]
    /\ IF q.next = <<>> THEN Finish(r)
       ELSE req' = [req EXCEPT ![r].pc = "access", ![r].c = Head(q.next), ![r].next = Tail(q.next)]
    /\ UNCHANGED <<rows, starred, active, post, arrived, past>>

\* mergeDmConversationsTx: it reads the timeline messages it will delete
ReadLines(r) ==
    LET q == req[r] IN
    /\ q.pc = "merge"
    /\ req' = [req EXCEPT ![r].pc = "move", ![r].seen = {m \in Here(q.c) : post[m].line}]
    /\ UNCHANGED <<rows, starred, active, texts, arrived, past>>

\* mutation: the preview of the target is left as it was
MoveSilently(r) ==
    LET q == req[r]
        d == Head(q.next)
        moved == Here(q.c) \ q.seen
    IN  /\ q.pc = "move"
        /\ post' = [m \in Messages |-> IF m \in q.seen \cap Here(q.c) THEN [post[m] EXCEPT !.st = "gone"]
                                       ELSE IF m \in moved THEN [post[m] EXCEPT !.at = d] ELSE post[m]]
        /\ last' = [last EXCEPT ![q.c] = None]
        /\ Cross(r, {q.c, d})
        /\ req' = [req EXCEPT ![r] = [q EXCEPT !.pc = "access", !.line = TRUE, !.seen = {}]]
        /\ UNCHANGED <<rows, starred, active, arrived, raced, shrunk>>

\* ... deletes them, moves all the other rows and writes both previews.  The
\* source stays as it is, without its messages.  A timeline message then
\* follows in the source, and one in the target
Move(r) ==
    LET q == req[r]
        d == Head(q.next)
        moved == Here(q.c) \ q.seen
    IN  /\ q.pc = "move"
        /\ post' = [m \in Messages |-> IF m \in q.seen \cap Here(q.c) THEN [post[m] EXCEPT !.st = "gone"]
                                       ELSE IF m \in moved THEN [post[m] EXCEPT !.at = d] ELSE post[m]]
        /\ last' = [last EXCEPT ![q.c] = None, ![d] = Newest(Here(d) \cup moved)]
        /\ Cross(r, {q.c, d})
        /\ req' = [req EXCEPT ![r] = [q EXCEPT !.pc = "access", !.line = TRUE, !.seen = {}]]
        /\ UNCHANGED <<rows, starred, active, arrived, raced, shrunk>>

\* abortMessage and the clean-up of stale uploads delete a row and leave the
\* preview alone
Vanish ==
    /\ arrived < MaxArrivals /\ arrived' = arrived + 1
    /\ \E m \in Messages :
         /\ post[m].st = "there" /\ ~post[m].line
         /\ post' = [post EXCEPT ![m].st = "gone"]
         /\ crossed' = crossed \cup {post[m].at}
    /\ UNCHANGED <<rows, starred, active, last, req, raced, shrunk>>

Step(r) ==
    \/ Make(r) \/ Join(r) \/ Remove(r) \/ Star(r)
    \/ Enter(r) \/ Insert(r) \/ Preview(r)
    \/ ReadLines(r) \/ Move(r)

\* the worker of a request dies, or the database refuses a statement
Stop(r) ==
    LET q == req[r] IN
    /\ q.pc \in {"access", "preview"}
    /\ arrived < MaxArrivals /\ arrived' = arrived + 1
    /\ crossed' = IF q.pc = "preview" THEN crossed \cup {q.c} ELSE crossed
    /\ Finish(r)
    /\ UNCHANGED <<rows, starred, active, texts, raced, shrunk>>

\* a conversation of two with a message, and perhaps one with all
Init ==
    /\ \E S \in SUBSET Users, n \in {1, 2} :
         /\ Cardinality(S) = 2 /\ n <= MaxConversations /\ Cardinality(Users) \in 3 .. Limit
         /\ made = 1 .. n
         /\ members = [c \in Conversations |-> IF c > n THEN {} ELSE IF c = 1 THEN S ELSE Users]
         /\ group = [c \in Conversations |-> c = 2 /\ n = 2]
         /\ post = [m \in Messages |-> IF m > 1 THEN NoPost
                                       ELSE [NoPost EXCEPT !.at = 1, !.st = "there", !.heard = S]]
    /\ last = [c \in Conversations |-> IF c = 1 THEN 1 ELSE None]
    /\ starred = {} /\ active = Users
    /\ req = [r \in Requests |-> Idle] /\ arrived = 0
    /\ raced = {} /\ shrunk = {} /\ crossed = {}

Next ==
    \/ \E r \in Requests : Arrive(r) \/ Step(r) \/ Stop(r)
    \/ Toggle \/ Vanish

Spec == Init /\ [][Next]_vars

(***************************************************************************)
(* Properties                                                              *)
(***************************************************************************)
TypeOK ==
    /\ made \subseteq Conversations /\ members \in [Conversations -> SUBSET Users]
    /\ group \in [Conversations -> BOOLEAN]
    /\ starred \subseteq {p \in Conversations \X Users : p[2] \in members[p[1]]}
    /\ active \subseteq Users /\ post \in [Messages -> Post]
    /\ last \in [Conversations -> 0 .. MaxMessages] /\ arrived \in 0 .. MaxArrivals

\* Two conversations have the same members only when one of them lost a
\* member, or was made or enlarged by a request that another membership
\* change overtook between its look and its write
\* (findConversationIdByExactMemberSet and its callers).
OneConversation ==
    \A c, d \in made :
        c # d /\ members[c] = members[d] => {c, d} \cap (raced \cup shrunk) # {}

\* The list of conversations, the page of one and the unread count leave out
\* the same conversations, whatever members came, went or were deactivated,
\* unless two membership changes of the conversation raced.
HiddenAlike ==
    \A c \in made \ raced : \A u \in members[c] :
        /\ Opens(u, c) <=> Lists(u, c)
        /\ Lists(u, c) <=> Counts(u, c)

\* A message that named its recipients was inserted where they and nobody
\* else were members, unless a membership changed while it was on its way
\* (createMessage).
HeardByThose ==
    \A m \in Messages : post[m].to # {} /\ ~post[m].late => post[m].heard = post[m].to

\* The preview of a conversation is its newest message, unless a second
\* message, a merge or a removal crossed the insertion of a message and the
\* writing of its preview (createMessage, syncConversationLastMessageFromMessagesTx).
PreviewNewest ==
    \A c \in made \ crossed :
        (\A r \in Requests : ~(req[r].pc = "preview" /\ req[r].c = c)) => last[c] = Newest(Here(c))

=============================================================================
