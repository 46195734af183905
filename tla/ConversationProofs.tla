-------------------------- MODULE ConversationProofs ------------------------
(***************************************************************************)
(* Direct-message conversations: what is promised of their members and of  *)
(* their previews holds for any number of users, of conversations, of      *)
(* messages and of requests in flight.                                     *)
(***************************************************************************)
EXTENDS Conversation, FiniteSetTheorems, TLAPS

(***************************************************************************)
(* The inductive invariant                                                 *)
(***************************************************************************)
Pcs == {"idle", "make", "join", "remove", "star", "access", "post", "preview", "merge", "move"}
Ops == {"none", "open", "send", "update", "add", "remove", "star"}

Request == [pc : Pcs, op : Ops, user : Users \cup {None}, c : Conversations \cup {None},
            who : SUBSET Users, to : SUBSET Users, m : Messages \cup {None},
            next : Seq(Conversations), line : BOOLEAN, late : BOOLEAN, size : Nat,
            seen : SUBSET Messages]

TypeInv ==
    /\ made \subseteq Conversations /\ members \in [Conversations -> SUBSET Users]
    /\ group \in [Conversations -> BOOLEAN] /\ active \subseteq Users
    /\ post \in [Messages -> Post] /\ req \in [Requests -> Request]

\* how a request was begun: one that merges or tells two conversations of a
\* change has named no recipients
Form(q) ==
    /\ q.pc \in {"join", "remove"} => q.c \in made
    /\ q.pc \in {"access", "post", "merge", "move"} => q.c \in Conversations
    /\ q.pc = "make" => q.op = "open" \/ q.to = q.who
    /\ q.pc \in {"merge", "move"} => q.next # <<>>
    /\ q.next # <<>> => q.to = {}

\* what a request has found, as long as no membership has changed since
Found(q) ==
    /\ q.pc = "make" => \A d \in made : members[d] # q.who
    /\ q.pc = "join" => /\ \A d \in made \ {q.c} : members[d] # members[q.c] \cup q.who
                        /\ q.size = Cardinality(members[q.c]) + Cardinality(q.who)
    /\ q.pc \in {"access", "post"} /\ q.to # {} => members[q.c] = q.to

\* a conversation of three is a group
Kinds == \A c \in made \ raced : group[c] \/ Cardinality(members[c]) <= 2

Inv ==
    /\ TypeInv
    /\ \A x \in Requests : Form(req[x]) /\ (req[x].late \/ Found(req[x]))
    /\ OneConversation /\ Kinds /\ HeardByThose

\* A slot with no request in it has found nothing.
LEMMA IdleRequest ==
    Idle \in Request /\ Idle.next = <<>> /\ Idle.to = {} /\ Form(Idle) /\ Found(Idle)
BY DEF Idle, Request, Pcs, Ops, None, Form, Found

(***************************************************************************)
(* Two kinds of steps                                                      *)
(***************************************************************************)
\* A step that leaves the memberships alone: the requests are what remains.
LEMMA SteadyStep ==
    ASSUME Inv, UNCHANGED <<rows, raced, shrunk>>, active' \subseteq Users,
           post' \in [Messages -> Post], HeardByThose', req' \in [Requests -> Request],
           \A x \in Requests : Form(req'[x]) /\ (req'[x].late \/ Found(req'[x]))
    PROVE  Inv'
<1> USE DEF rows
<1>1. TypeInv'
  BY DEF Inv, TypeInv
<1>2. \A x \in Requests : Form(req[x])' /\ (req'[x].late \/ Found(req[x])')
  BY DEF Form, Found
<1>3. OneConversation' /\ Kinds'
  BY DEF Inv, OneConversation, Kinds
<1> QED
  BY <1>1, <1>2, <1>3 DEF Inv

\* A step of one request, by which no message comes or changes.
LEMMA OwnStep ==
    ASSUME Inv, UNCHANGED <<rows, raced, shrunk, active, post>>, NEW r \in Requests,
           NEW q \in Request, req' = [req EXCEPT ![r] = q], Form(q), q.late \/ Found(q)
    PROVE  Inv'
<1>1. HeardByThose'
  BY DEF Inv, HeardByThose
<1>2. /\ req' \in [Requests -> Request]
      /\ \A x \in Requests : Form(req'[x]) /\ (req'[x].late \/ Found(req'[x]))
  BY DEF Inv, TypeInv
<1> QED
  BY <1>1, <1>2, SteadyStep DEF Inv, TypeInv

\* A step that changes a membership: every other request in flight is late.
LEMMA ChangeStep ==
    ASSUME Inv, NEW r \in Requests, NEW q \in Request, Changed(r, q),
           UNCHANGED <<post, active>>, made' \subseteq Conversations, made \subseteq made',
           members' \in [Conversations -> SUBSET Users], group' \in [Conversations -> BOOLEAN],
           Form(q), q.late \/ Found(q)', OneConversation', Kinds'
    PROVE  Inv'
<1>1. ASSUME NEW x \in Requests, x # r
      PROVE  /\ req'[x] \in Request /\ Form(req'[x])
             /\ req'[x] = Idle \/ req'[x].late
  <2>1. req[x] \in Request /\ Form(req[x])
    BY DEF Inv, TypeInv
  <2>2. req'[x] = Idle \/ req'[x] = [req[x] EXCEPT !.late = TRUE]
    BY <1>1 DEF Changed, Free
  <2> DEFINE p == req[x]
             p1 == [p EXCEPT !.late = TRUE]
  <2>3. p1 \in Request /\ p1.late /\ Form(p1)
    BY <2>1 DEF Request, Form
  <2> HIDE DEF p1
  <2> QED
    BY <2>2, <2>3, IdleRequest DEF p1
<1>2. req'[r] = q
  BY DEF Changed
<1>3. TypeInv'
  <2>1. req' \in [Requests -> Request]
    BY <1>1, <1>2 DEF Changed
  <2> QED
    BY <2>1 DEF Inv, TypeInv
<1>4. ASSUME NEW x \in Requests PROVE Form(req[x])' /\ (req'[x].late \/ Found(req[x])')
  <2>1. Form(req'[x])
    BY <1>1, <1>2
  <2>2. Form(req[x])'
    BY <2>1 DEF Form
  <2>3. ASSUME x = r PROVE req'[x].late \/ Found(req[x])'
    BY <2>3, <1>2 DEF Found
  <2>4. ASSUME x # r PROVE req'[x].late \/ Found(req[x])'
    BY <2>4, <1>1 DEF Found, Idle
  <2> QED
    BY <2>2, <2>3, <2>4
<1>5. HeardByThose'
  BY DEF Inv, HeardByThose
<1> QED
  BY <1>3, <1>4, <1>5 DEF Inv

(***************************************************************************)
(* The beginning of a request                                              *)
(***************************************************************************)
LEMMA BeginStep ==
    ASSUME Inv, NEW r \in Requests, NEW q \in Request, Begin(r, q), Form(q), Found(q)
    PROVE  Inv'
BY OwnStep DEF Begin, past, texts

\* Finding or making a conversation: what is made has members nobody else's has.
LEMMA OpenArrives ==
    ASSUME Inv, NEW r \in Requests, NEW u \in Users, ArriveOpen(r, u) PROVE Inv'
<1> DEFINE Q(S) == [Idle EXCEPT !.pc = "make", !.op = "open", !.who = S]
<1>1. PICK S \in SUBSET active : Exactly(S) = {} /\ Begin(r, Q(S))
  BY DEF ArriveOpen
<1>2. S \in SUBSET Users
  BY DEF Inv, TypeInv
<1>3. /\ Q(S) \in Request /\ Q(S).pc = "make" /\ Q(S).who = S
      /\ Q(S).op = "open" /\ Q(S).next = <<>>
  BY <1>2, IdleRequest DEF Request, Pcs, Ops, None
<1> HIDE DEF Q
<1> QED
  BY <1>1, <1>3, BeginStep DEF Form, Found, Exactly

\* A send that names people finds their conversation or sets out to make it.
LEMMA SendArrives ==
    ASSUME Inv, NEW r \in Requests, NEW u \in Users, ArriveSend(r, u) PROVE Inv'
<1> DEFINE M(S)    == [Idle EXCEPT !.pc = "make", !.op = "send", !.user = u, !.who = S, !.to = S]
           P(c, S) == [Idle EXCEPT !.pc = "post", !.op = "send", !.user = u, !.c = c, !.to = S]
<1>1. PICK S \in {T \cup {u} : T \in SUBSET Users} :
        IF Exactly(S) = {} THEN Begin(r, M(S)) ELSE \E c \in Exactly(S) : Begin(r, P(c, S))
  BY DEF ArriveSend
<1>2. S \in SUBSET Users
  OBVIOUS
<1>3. CASE Exactly(S) = {}
  <2>1. M(S) \in Request /\ M(S).pc = "make" /\ M(S).who = S /\ M(S).to = S /\ M(S).next = <<>>
    BY <1>2, IdleRequest DEF Request, Pcs, Ops, None
  <2> HIDE DEF M, P
  <2> QED
    BY <1>1, <1>3, <2>1, BeginStep DEF Form, Found, Exactly
<1>4. ASSUME NEW c \in Exactly(S), Begin(r, P(c, S)) PROVE Inv'
  <2>1. c \in Conversations /\ members[c] = S
    BY DEF Exactly, Inv, TypeInv
  <2>2. /\ P(c, S) \in Request /\ P(c, S).pc = "post" /\ P(c, S).c = c
        /\ P(c, S).to = S /\ P(c, S).next = <<>>
    BY <1>2, <2>1, IdleRequest DEF Request, Pcs, Ops, None
  <2> HIDE DEF M, P
  <2> QED
    BY <1>4, <2>1, <2>2, BeginStep DEF Form, Found
<1> QED
  BY <1>1, <1>3, <1>4

\* A send into a conversation reads no membership.
LEMMA PostArrives ==
    ASSUME Inv, NEW r \in Requests, NEW u \in Users, NEW c \in made, ArrivePost(r, u, c)
    PROVE  Inv'
<1> DEFINE q == [Idle EXCEPT !.pc = "post", !.op = "send", !.user = u, !.c = c]
<1>1. Begin(r, q)
  BY DEF ArrivePost
<1>2. c \in Conversations
  BY DEF Inv, TypeInv
<1>3. q \in Request /\ q.pc = "post" /\ q.c = c /\ q.to = {} /\ q.next = <<>>
  BY <1>2, IdleRequest DEF Request, Pcs, Ops, None
<1> HIDE DEF q
<1> QED
  BY <1>1, <1>2, <1>3, BeginStep DEF Form, Found

\* A change of the topic posts a line and reads no membership.
LEMMA UpdateArrives ==
    ASSUME Inv, NEW r \in Requests, NEW u \in Users, NEW c \in made, ArriveUpdate(r, u, c)
    PROVE  Inv'
<1> DEFINE Q(n) == [Idle EXCEPT !.pc = "post", !.op = "update", !.user = u, !.c = c,
                                !.line = TRUE, !.next = n]
<1>1. PICK n \in {<<>>, <<c>>} : Begin(r, Q(n))
  BY DEF ArriveUpdate
<1>2. c \in Conversations
  BY DEF Inv, TypeInv
<1>3. n \in Seq(Conversations)
  <2>1. <<>> \in Seq(Conversations) /\ <<c>> \in Seq(Conversations)
    BY <1>2, IdleRequest DEF Request
  <2> QED
    BY <2>1
<1>4. Q(n) \in Request /\ Q(n).pc = "post" /\ Q(n).c = c /\ Q(n).to = {} /\ Q(n).next = n
  BY <1>2, <1>3, IdleRequest DEF Request, Pcs, Ops, None
<1> HIDE DEF Q
<1> QED
  BY <1>1, <1>2, <1>4, BeginStep DEF Form, Found

\* Adding members counts them and looks for who has the union already.
LEMMA MembersJoin ==
    ASSUME Inv, IsFiniteSet(Users), NEW r \in Requests, NEW u \in Users, NEW c \in made,
           NEW S \in SUBSET Users, Adding(r, u, c, S)
    PROVE  Inv'
<1> DEFINE size == Cardinality(members[c]) + Cardinality(S)
           same == Exactly(members[c] \cup S) \ {c}
           J    == [Idle EXCEPT !.pc = "join", !.op = "add", !.c = c, !.who = S, !.size = size]
           M(d) == [Idle EXCEPT !.pc = "merge", !.op = "add", !.user = u, !.c = c, !.next = <<d>>]
<1>1. \/ same = {} /\ Begin(r, J)
      \/ \E d \in same : Begin(r, M(d))
  BY DEF Adding
<1>2. c \in Conversations /\ members[c] \in SUBSET Users
  BY DEF Inv, TypeInv
<1>3. CASE same = {} /\ Begin(r, J)
  <2>1. size \in Nat
    <3>1. IsFiniteSet(members[c]) /\ IsFiniteSet(S)
      BY <1>2, FS_Subset
    <3>2. Cardinality(members[c]) \in Nat /\ Cardinality(S) \in Nat
      BY <3>1, FS_CardinalityType
    <3> QED
      BY <3>2
  <2> HIDE DEF size
  <2>2. /\ J \in Request /\ J.pc = "join" /\ J.c = c /\ J.who = S /\ J.size = size
        /\ J.next = <<>>
    BY <1>2, <2>1, IdleRequest DEF Request, Pcs, Ops, None
  <2> HIDE DEF J
  <2>3. Form(J) /\ Found(J)
    BY <1>3, <2>2 DEF Form, Found, Exactly, size
  <2> QED
    BY <1>3, <2>2, <2>3, BeginStep
<1>4. ASSUME NEW d \in same, Begin(r, M(d)) PROVE Inv'
  <2>1. d \in Conversations
    BY DEF Exactly, Inv, TypeInv
  <2>2. <<d>> \in Seq(Conversations)
    BY <2>1
  <2>3. M(d) \in Request /\ M(d).pc = "merge" /\ M(d).c = c /\ M(d).to = {} /\ M(d).next = <<d>>
    BY <1>2, <2>2, IdleRequest DEF Request, Pcs, Ops, None
  <2>4. M(d).next # <<>>
    BY <2>3
  <2> HIDE DEF M
  <2> QED
    BY <1>2, <1>4, <2>3, <2>4, BeginStep DEF Form, Found
<1> QED
  BY <1>1, <1>3, <1>4

\* A removal names one member.
LEMMA RemoveArrives ==
    ASSUME Inv, NEW r \in Requests, NEW u \in Users, NEW c \in made, ArriveRemove(r, u, c)
    PROVE  Inv'
<1> DEFINE Q(v) == [Idle EXCEPT !.pc = "remove", !.op = "remove", !.c = c, !.who = {v}]
<1>1. PICK v \in members[c] \ {u} : Begin(r, Q(v))
  BY DEF ArriveRemove
<1>2. c \in Conversations /\ {v} \in SUBSET Users
  BY DEF Inv, TypeInv
<1>3. Q(v) \in Request /\ Q(v).pc = "remove" /\ Q(v).c = c /\ Q(v).next = <<>>
  BY <1>2, IdleRequest DEF Request, Pcs, Ops, None
<1> HIDE DEF Q
<1> QED
  BY <1>1, <1>3, BeginStep DEF Form, Found

\* A star reads no membership.
LEMMA StarArrives ==
    ASSUME Inv, NEW r \in Requests, NEW u \in Users, NEW c \in made, ArriveStar(r, u, c)
    PROVE  Inv'
<1> DEFINE Q(on) == [Idle EXCEPT !.pc = "star", !.op = "star", !.user = u, !.c = c, !.line = on]
<1>1. PICK on \in BOOLEAN : Begin(r, Q(on))
  BY DEF ArriveStar
<1>2. c \in Conversations
  BY DEF Inv, TypeInv
<1>3. Q(on) \in Request /\ Q(on).pc = "star" /\ Q(on).next = <<>>
  BY <1>2, IdleRequest DEF Request, Pcs, Ops, None
<1> HIDE DEF Q
<1> QED
  BY <1>1, <1>3, BeginStep DEF Form, Found

\* Whatever arrives has found what the tables say.
LEMMA ArriveStep ==
    ASSUME Inv, IsFiniteSet(Users), NEW r \in Requests, Arrive(r) PROVE Inv'
<1>1. PICK u \in Users :
        \/ ArriveOpen(r, u) \/ ArriveSend(r, u)
        \/ \E c \in made : \/ ArrivePost(r, u, c) \/ ArriveUpdate(r, u, c)
                           \/ ArriveAdd(r, u, c) \/ ArriveAddAll(r, u, c)
                           \/ ArriveRemove(r, u, c) \/ ArriveStar(r, u, c)
  BY DEF Arrive
<1>2. active \subseteq Users
  BY DEF Inv, TypeInv
<1>3. ASSUME NEW c \in made, ArriveAdd(r, u, c) PROVE Inv'
  <2>1. PICK S \in SUBSET (active \ members[c]) : Adding(r, u, c, S)
    BY <1>3 DEF ArriveAdd
  <2> QED
    BY <1>2, <2>1, MembersJoin
<1>4. ASSUME NEW c \in made, ArriveAddAll(r, u, c) PROVE Inv'
  <2>1. PICK S \in SUBSET (active \ members[c]) : Adding(r, u, c, S)
    BY <1>4 DEF ArriveAddAll
  <2> QED
    BY <1>2, <2>1, MembersJoin
<1> QED
  BY <1>1, <1>3, <1>4, OpenArrives, SendArrives, PostArrives, UpdateArrives, RemoveArrives,
     StarArrives

(***************************************************************************)
(* Memberships                                                             *)
(***************************************************************************)
LEMMA MakeStep == ASSUME Inv, IsFiniteSet(Users), NEW r \in Requests, Make(r) PROVE Inv'
<1>1. PICK q : q = req[r]
  OBVIOUS
<1> DEFINE n(c) == IF q.op = "open" THEN Idle ELSE [q EXCEPT !.pc = "access", !.c = c]
<1>2. q \in Request /\ q.pc = "make" /\ Form(q) /\ (q.late \/ Found(q))
  BY <1>1 DEF Inv, TypeInv, Make
<1>3. PICK c \in Conversations \ made :
        /\ made' = made \cup {c}
        /\ members' = [members EXCEPT ![c] = q.who]
        /\ group' = [group EXCEPT ![c] = Cardinality(q.who) > 2]
        /\ raced' = IF q.late THEN raced \cup {c} ELSE raced
        /\ Changed(r, n(c))
  BY <1>1 DEF Make
<1>4. UNCHANGED <<post, active, shrunk>>
  BY DEF Make, texts
<1>5. /\ made' \subseteq Conversations /\ made \subseteq made'
      /\ members' \in [Conversations -> SUBSET Users] /\ group' \in [Conversations -> BOOLEAN]
      /\ members'[c] = q.who /\ \A d \in made : members'[d] = members[d] /\ group'[d] = group[d]
  BY <1>2, <1>3 DEF Inv, TypeInv, Request
<1>6. n(c) \in Request /\ Form(n(c)) /\ (n(c).late \/ Found(n(c))')
  <2>1. CASE q.op = "open"
    <3>1. Found(Idle)'
      BY DEF Found, Idle
    <3> QED
      BY <2>1, <3>1, IdleRequest
  <2>2. CASE q.op # "open"
    <3> DEFINE p == [q EXCEPT !.pc = "access", !.c = c]
    <3>1. /\ p \in Request /\ p.pc = "access" /\ p.c = c /\ p.to = q.to
          /\ p.next = q.next /\ p.late = q.late
      BY <1>2, <1>3 DEF Request, Pcs
    <3>2. q.to = q.who /\ (q.next # <<>> => q.to = {})
      BY <1>2, <2>2 DEF Form
    <3>3. n(c) = p
      BY <2>2
    <3> HIDE DEF p, n
    <3>4. Form(p)
      BY <3>1, <3>2 DEF Form
    <3>5. Found(p)'
      BY <3>1, <3>2, <1>5 DEF Found
    <3> QED
      BY <3>1, <3>3, <3>4, <3>5
  <2> QED
    BY <2>1, <2>2
<1>7. OneConversation'
  <2>1. q.late \/ \A d \in made : members[d] # q.who
    BY <1>2 DEF Found
  <2>2. raced \subseteq raced' /\ (q.late => c \in raced')
    BY <1>3
  <2> QED
    BY <2>1, <2>2, <1>3, <1>4, <1>5 DEF Inv, OneConversation
<1>8. Kinds'
  <2>1. raced \subseteq raced' /\ made' = made \cup {c}
    BY <1>3
  <2>2. Cardinality(members'[c]) \in Nat
    BY <1>2, <1>5, FS_Subset, FS_CardinalityType DEF Request
  <2>3. group'[c] \/ ~(Cardinality(members'[c]) > 2)
    BY <1>3, <1>5 DEF Inv, TypeInv
  <2>4. group'[c] \/ Cardinality(members'[c]) <= 2
    BY <2>2, <2>3
  <2> QED
    BY <2>1, <2>4, <1>5 DEF Inv, Kinds
<1> HIDE DEF n
<1> QED
  BY <1>3, <1>4, <1>5, <1>6, <1>7, <1>8, ChangeStep

\* New members: the conversation becomes a group when there are three.
LEMMA JoinStep == ASSUME Inv, IsFiniteSet(Users), NEW r \in Requests, Join(r) PROVE Inv'
<1> DEFINE q == req[r]
           c == q.c
<1>1. q \in Request /\ q.pc = "join" /\ c \in made /\ c \in Conversations /\ (q.late \/ Found(q))
  BY DEF Inv, TypeInv, Join, Form
<1>2. CASE q.who \cap members[c] # {}
  BY <1>2, IdleRequest, OwnStep DEF Join, Finish, rows, texts
<1>3. CASE q.who \cap members[c] = {}
  <2>1. /\ made' = made /\ members' = [members EXCEPT ![c] = @ \cup q.who]
        /\ group' = [group EXCEPT ![c] = @ \/ q.size > 2]
        /\ raced' = (IF q.late THEN raced \cup {c} ELSE raced) /\ Changed(r, Idle)
        /\ UNCHANGED <<post, active, shrunk>>
    BY <1>3 DEF Join, texts
  <2>2. /\ members' \in [Conversations -> SUBSET Users] /\ group' \in [Conversations -> BOOLEAN]
        /\ members'[c] = members[c] \cup q.who
        /\ \A d \in made : d # c => members'[d] = members[d] /\ group'[d] = group[d]
    BY <1>1, <2>1 DEF Inv, TypeInv, Request
  <2>3. raced \subseteq raced' /\ (q.late => c \in raced')
    BY <2>1
  <2>4. OneConversation'
    <3>1. q.late \/ \A d \in made \ {c} : members[d] # members[c] \cup q.who
      BY <1>1 DEF Found
    <3> HIDE DEF q, c
    <3> QED
      BY <3>1, <2>1, <2>2, <2>3 DEF Inv, OneConversation
  <2>5. Kinds'
    <3>1. q.late \/ group'[c] \/ Cardinality(members'[c]) <= 2
      <4>1. IsFiniteSet(members[c]) /\ IsFiniteSet(q.who)
        BY <1>1, FS_Subset DEF Inv, TypeInv, Request
      <4>2. Cardinality(members[c] \cup q.who)
              = Cardinality(members[c]) + Cardinality(q.who) - Cardinality(members[c] \cap q.who)
        BY <4>1, FS_Union
      <4>3. Cardinality(members[c] \cap q.who) = 0
        BY <1>3, FS_EmptySet
      <4>4. Cardinality(members[c]) \in Nat /\ Cardinality(q.who) \in Nat
        BY <4>1, FS_CardinalityType
      <4>5. q.late \/ q.size = Cardinality(members[c]) + Cardinality(q.who)
        BY <1>1 DEF Found
      <4>6. group'[c] \/ ~(q.size > 2)
        BY <1>1, <2>1 DEF Inv, TypeInv
      <4> HIDE DEF q, c
      <4> QED
        BY <2>2, <4>2, <4>3, <4>4, <4>5, <4>6
    <3> HIDE DEF q, c
    <3> QED
      BY <3>1, <2>1, <2>2, <2>3 DEF Inv, Kinds
  <2>6. Found(Idle)'
    BY DEF Found, Idle
  <2> HIDE DEF q, c
  <2> QED
    BY <2>1, <2>2, <2>4, <2>5, <2>6, IdleRequest, ChangeStep DEF Inv, TypeInv
<1> QED
  BY <1>2, <1>3

\* A removal takes one member out and makes the other requests late.
LEMMA RemoveStep == ASSUME Inv, IsFiniteSet(Users), NEW r \in Requests, Remove(r) PROVE Inv'
<1> DEFINE q == req[r]
           c == q.c
           rest == members[c] \ q.who
<1>1. q \in Request /\ c \in made /\ c \in Conversations
  BY DEF Inv, TypeInv, Remove, Form
<1>2. /\ made' = made /\ members' = [members EXCEPT ![c] = rest]
      /\ group' = [group EXCEPT ![c] = @ /\ Cardinality(rest) > 2]
      /\ shrunk' = shrunk \cup {c} /\ Changed(r, Idle)
      /\ UNCHANGED <<post, active, raced>>
  BY DEF Remove, texts
<1>3. /\ members' \in [Conversations -> SUBSET Users] /\ group' \in [Conversations -> BOOLEAN]
      /\ members'[c] = rest
      /\ \A d \in made : d # c => members'[d] = members[d] /\ group'[d] = group[d]
  BY <1>1, <1>2 DEF Inv, TypeInv
<1>4. OneConversation'
  <2> HIDE DEF q, c, rest
  <2> QED
    BY <1>2, <1>3 DEF Inv, OneConversation
<1>5. Kinds'
  <2>1. ASSUME c \notin raced PROVE group'[c] \/ Cardinality(rest) <= 2
    <3>1. IsFiniteSet(members[c]) /\ members[c] \subseteq Users
      BY <1>1, FS_Subset DEF Inv, TypeInv
    <3>2. /\ Cardinality(rest) \in Nat /\ Cardinality(members[c]) \in Nat
          /\ Cardinality(rest) <= Cardinality(members[c])
      BY <3>1, FS_Subset, FS_CardinalityType
    <3>3. group[c] \/ Cardinality(members[c]) <= 2
      BY <1>1, <2>1 DEF Inv, Kinds
    <3>4. group'[c] <=> group[c] /\ Cardinality(rest) > 2
      BY <1>1, <1>2 DEF Inv, TypeInv
    <3> HIDE DEF q, c, rest
    <3> QED
      BY <3>2, <3>3, <3>4
  <2> HIDE DEF q, c, rest
  <2> QED
    BY <2>1, <1>2, <1>3 DEF Inv, Kinds
<1>6. Found(Idle)'
  BY DEF Found, Idle
<1> HIDE DEF q, c, rest
<1> QED
  BY <1>2, <1>3, <1>4, <1>5, <1>6, IdleRequest, ChangeStep DEF Inv, TypeInv

(***************************************************************************)
(* Messages                                                                *)
(***************************************************************************)
\* a request is over and nothing else has changed of it
LEMMA FinishStep ==
    ASSUME Inv, NEW r \in Requests, Finish(r), UNCHANGED <<rows, raced, shrunk, active, post>>
    PROVE  Inv'
BY IdleRequest, OwnStep DEF Finish

\* A send checks its sender and goes on to post.
LEMMA EnterStep == ASSUME Inv, NEW r \in Requests, Enter(r) PROVE Inv'
<1> DEFINE q == req[r]
           p == [q EXCEPT !.pc = "post"]
<1>1. q \in Request /\ q.pc = "access" /\ Form(q) /\ (q.late \/ Found(q))
  BY DEF Inv, TypeInv, Enter
<1>2. UNCHANGED <<rows, raced, shrunk, active, post>>
  BY DEF Enter, past, texts
<1>3. CASE Finish(r)
  BY <1>2, <1>3, FinishStep
<1>4. CASE Go(r, "post")
  <2>1. req' = [req EXCEPT ![r] = p]
    BY <1>4 DEF Go, Inv, TypeInv
  <2>2. /\ p \in Request /\ p.pc = "post" /\ p.c = q.c /\ p.to = q.to
        /\ p.next = q.next /\ p.late = q.late
    BY <1>1 DEF Request, Pcs
  <2> HIDE DEF p, q
  <2>3. Form(p) /\ (p.late \/ Found(p))
    BY <1>1, <2>2 DEF Form, Found
  <2> QED
    BY <1>2, <2>1, <2>2, <2>3, OwnStep
<1> QED
  BY <1>3, <1>4 DEF Enter

\* A message goes where the members are still those it names.
LEMMA InsertStep == ASSUME Inv, NEW r \in Requests, Insert(r) PROVE Inv'
<1> DEFINE q == req[r]
           New == [at |-> q.c, st |-> "there", line |-> q.line, to |-> q.to,
                   heard |-> members[q.c], late |-> q.late]
           P(m) == [q EXCEPT !.pc = "preview", !.m = m]
<1>1. q \in Request /\ q.pc = "post" /\ Form(q) /\ (q.late \/ Found(q))
  BY DEF Inv, TypeInv, Insert
<1>2. UNCHANGED <<rows, raced, shrunk, active>>
  BY DEF Insert, past, texts
<1>3. PICK m \in Messages : post' = [post EXCEPT ![m] = New] /\ req' = [req EXCEPT ![r] = P(m)]
  BY DEF Insert, Inv, TypeInv
<1>4. post' \in [Messages -> Post]
  <2>1. q.c \in 0 .. MaxConversations
    BY <1>1, ConversationAssumption DEF Request, Conversations, None
  <2>2. members[q.c] \in SUBSET Users
    BY <1>1 DEF Inv, TypeInv, Form
  <2>3. New \in Post
    BY <1>1, <2>1, <2>2 DEF Request, Post
  <2> QED
    BY <1>3, <2>3 DEF Inv, TypeInv
<1>5. HeardByThose'
  <2>1. New.to # {} /\ ~New.late => New.heard = New.to
    BY <1>1 DEF Found
  <2>2. post'[m] = New /\ \A k \in Messages : k # m => post'[k] = post[k]
    BY <1>3 DEF Inv, TypeInv
  <2> HIDE DEF New
  <2> QED
    BY <2>1, <2>2 DEF Inv, HeardByThose
<1>6. P(m) \in Request /\ Form(P(m)) /\ Found(P(m))
  <2>1. P(m) \in Request /\ P(m).pc = "preview" /\ P(m).next = q.next /\ P(m).to = q.to
    BY <1>1 DEF Request, Pcs
  <2> HIDE DEF P, q
  <2> QED
    BY <1>1, <2>1 DEF Form, Found
<1>7. /\ req' \in [Requests -> Request]
      /\ \A x \in Requests : Form(req'[x]) /\ (req'[x].late \/ Found(req'[x]))
  <2> HIDE DEF P
  <2> QED
    BY <1>3, <1>6 DEF Inv, TypeInv
<1> QED
  BY <1>2, <1>4, <1>5, <1>7, SteadyStep DEF Inv, TypeInv

\* A preview is written beside the memberships.
LEMMA PreviewStep == ASSUME Inv, NEW r \in Requests, Preview(r) PROVE Inv'
<1> DEFINE q == req[r]
           p == [q EXCEPT !.pc = "access", !.c = Head(q.next), !.next = Tail(q.next)]
<1>1. q \in Request /\ Form(q)
  BY DEF Inv, TypeInv
<1>2. UNCHANGED <<rows, raced, shrunk, active, post>>
  BY DEF Preview, past
<1>3. CASE q.next = <<>>
  BY <1>2, <1>3, FinishStep DEF Preview
<1>4. CASE q.next # <<>>
  <2>1. req' = [req EXCEPT ![r] = p]
    BY <1>4 DEF Preview, Inv, TypeInv
  <2>2. q.next \in Seq(Conversations)
    BY <1>1 DEF Request
  <2>3. Head(q.next) \in Conversations /\ Tail(q.next) \in Seq(Conversations)
    BY <1>4, <2>2
  <2>4. q.to = {}
    BY <1>1, <1>4 DEF Form
  <2>5. p \in Request /\ p.pc = "access" /\ p.c \in Conversations /\ p.to = {}
    BY <1>1, <2>3, <2>4 DEF Request, Pcs
  <2> HIDE DEF p, q
  <2>6. Form(p) /\ Found(p)
    BY <2>5 DEF Form, Found
  <2> QED
    BY <1>2, <2>1, <2>5, <2>6, OwnStep
<1> QED
  BY <1>3, <1>4

\* The merge reads the lines it will write.
LEMMA ReadLinesStep == ASSUME Inv, NEW r \in Requests, ReadLines(r) PROVE Inv'
<1> DEFINE q == req[r]
           S == {m \in Here(q.c) : post[m].line}
           p == [q EXCEPT !.pc = "move", !.seen = S]
<1>1. q \in Request /\ q.pc = "merge" /\ Form(q)
  BY DEF Inv, TypeInv, ReadLines
<1>2. UNCHANGED <<rows, raced, shrunk, active, post>>
  BY DEF ReadLines, past, texts
<1>3. req' = [req EXCEPT ![r] = p]
  BY DEF ReadLines, Inv, TypeInv
<1>4. S \in SUBSET Messages
  BY DEF Here
<1> HIDE DEF S
<1>5. p \in Request /\ p.pc = "move" /\ p.c = q.c /\ p.next = q.next /\ p.to = q.to
  BY <1>1, <1>4 DEF Request, Pcs
<1> HIDE DEF p, q
<1>6. Form(p) /\ Found(p)
  BY <1>1, <1>5 DEF Form, Found
<1> QED
  BY <1>2, <1>3, <1>5, <1>6, OwnStep

\* messages that change place or state were heard by whom they were heard
LEMMA StillHeard ==
    ASSUME Inv, post' \in [Messages -> Post],
           \A m \in Messages : /\ post'[m].to = post[m].to /\ post'[m].heard = post[m].heard
                               /\ post'[m].late = post[m].late
    PROVE  HeardByThose'
BY DEF Inv, HeardByThose

\* The merge moves messages, and its target keeps its members.
LEMMA MoveStep == ASSUME Inv, NEW r \in Requests, Move(r) PROVE Inv'
<1> DEFINE q == req[r]
           d == Head(q.next)
           p == [q EXCEPT !.pc = "access", !.line = TRUE, !.seen = {}]
<1>1. q \in Request /\ q.pc = "move" /\ Form(q)
  BY DEF Inv, TypeInv, Move
<1>2. q.next \in Seq(Conversations) /\ q.next # <<>> /\ q.to = {}
  BY <1>1 DEF Request, Form
<1>3. d \in 0 .. MaxConversations
  <2>1. d \in Conversations
    BY <1>2
  <2> QED
    BY <2>1 DEF Conversations
<1>4. UNCHANGED <<rows, raced, shrunk, active>>
  BY DEF Move
<1>5. ASSUME NEW m \in Messages
      PROVE  \/ post'[m] = post[m] \/ post'[m] = [post[m] EXCEPT !.st = "gone"]
             \/ post'[m] = [post[m] EXCEPT !.at = d]
  BY DEF Move
<1> HIDE DEF d
<1>6. ASSUME NEW m \in Messages
      PROVE  /\ post'[m] \in Post
             /\ post'[m].to = post[m].to /\ post'[m].heard = post[m].heard
             /\ post'[m].late = post[m].late
  <2> DEFINE k == post[m]
  <2>1. k \in Post
    BY DEF Inv, TypeInv
  <2>2. post'[m] = k \/ post'[m] = [k EXCEPT !.st = "gone"] \/ post'[m] = [k EXCEPT !.at = d]
    BY <1>5
  <2> HIDE DEF k
  <2> DEFINE Same == post'[m].to = k.to /\ post'[m].heard = k.heard /\ post'[m].late = k.late
  <2>3. ASSUME post'[m] = [k EXCEPT !.at = d] PROVE post'[m] \in Post /\ Same
    BY <2>1, <2>3, <1>3 DEF Post
  <2>4. ASSUME post'[m] # [k EXCEPT !.at = d] PROVE post'[m] \in Post /\ Same
    BY <2>1, <2>2, <2>4 DEF Post
  <2>5. post'[m] \in Post /\ Same
    BY <2>3, <2>4
  <2> QED
    BY <2>5 DEF k
<1>7. post' \in [Messages -> Post]
  BY <1>6 DEF Move
<1>8. p \in Request /\ p.pc = "access" /\ p.c \in Conversations /\ p.to = {}
  BY <1>1, <1>2 DEF Request, Pcs, Form
<1>9. req' = [req EXCEPT ![r] = p]
  BY DEF Move
<1> HIDE DEF p, q
<1>10. Form(p) /\ Found(p)
  BY <1>8 DEF Form, Found
<1>11. /\ req' \in [Requests -> Request]
       /\ \A x \in Requests : Form(req'[x]) /\ (req'[x].late \/ Found(req'[x]))
  BY <1>8, <1>9, <1>10 DEF Inv, TypeInv
<1>12. HeardByThose'
  BY <1>6, <1>7, StillHeard
<1> QED
  BY <1>4, <1>7, <1>11, <1>12, SteadyStep DEF Inv, TypeInv

\* An aborted message changes no membership.
LEMMA VanishStep == ASSUME Inv, Vanish PROVE Inv'
<1>1. UNCHANGED <<rows, active, req, raced, shrunk>>
  BY DEF Vanish
<1>2. PICK m \in Messages : post' = [post EXCEPT ![m].st = "gone"]
  BY DEF Vanish
<1>3. ASSUME NEW k \in Messages
      PROVE  /\ post'[k] \in Post
             /\ post'[k].to = post[k].to /\ post'[k].heard = post[k].heard
             /\ post'[k].late = post[k].late
  <2>1. post[k] \in Post
    BY DEF Inv, TypeInv
  <2>2. post'[k] = post[k] \/ post'[k] = [post[k] EXCEPT !.st = "gone"]
    BY <1>2 DEF Inv, TypeInv
  <2> QED
    BY <2>1, <2>2 DEF Post
<1>4. post' \in [Messages -> Post]
  BY <1>2, <1>3 DEF Inv, TypeInv
<1>5. HeardByThose'
  BY <1>3, <1>4, StillHeard
<1> QED
  BY <1>1, <1>4, <1>5, SteadyStep DEF Inv, TypeInv

\* Nor does the activation or deactivation of a member.
LEMMA ToggleStep == ASSUME Inv, Toggle PROVE Inv'
<1>1. UNCHANGED <<rows, post, req, raced, shrunk>> /\ active' \subseteq Users
  BY DEF Toggle, texts, past, Inv, TypeInv
<1>2. HeardByThose'
  BY <1>1 DEF Inv, HeardByThose
<1> QED
  BY <1>1, <1>2, SteadyStep DEF Inv, TypeInv

\* Nor do stars, nor a request that stops.
LEMMA StarStep == ASSUME Inv, NEW r \in Requests, Star(r) \/ Stop(r) PROVE Inv'
<1>1. Finish(r) /\ UNCHANGED <<rows, raced, shrunk, active, post>>
  BY DEF Star, Stop, past, texts
<1> QED
  BY <1>1, FinishStep

(***************************************************************************)
(* The theorems                                                            *)
(***************************************************************************)
LEMMA InitInv == ASSUME Init PROVE Inv
<1>1. PICK S \in SUBSET Users, n \in {1, 2} :
        /\ Cardinality(S) = 2 /\ n <= MaxConversations /\ Cardinality(Users) \in 3 .. Limit
        /\ made = 1 .. n
        /\ members = [c \in Conversations |-> IF c > n THEN {} ELSE IF c = 1 THEN S ELSE Users]
        /\ group = [c \in Conversations |-> c = 2 /\ n = 2]
        /\ post = [m \in Messages |-> IF m > 1 THEN NoPost
                                      ELSE [NoPost EXCEPT !.at = 1, !.st = "there", !.heard = S]]
  BY DEF Init
<1>2. active = Users /\ req = [r \in Requests |-> Idle]
  BY DEF Init
<1>3. made \subseteq Conversations
  BY <1>1, ConversationAssumption DEF Conversations
<1>4. ASSUME NEW m \in Messages PROVE post[m] \in Post /\ post[m].to = {}
  <2>1. 1 \in 0 .. MaxConversations /\ 0 \in 0 .. MaxConversations
    BY <1>1, ConversationAssumption
  <2> QED
    BY <1>1, <2>1 DEF NoPost, Post, None
<1>5. TypeInv
  BY <1>1, <1>2, <1>3, <1>4, IdleRequest DEF TypeInv
<1>6. HeardByThose
  BY <1>4 DEF HeardByThose
<1>7. S # Users
  BY <1>1
<1>8. \A c \in made : (c = 1 /\ members[c] = S) \/ (c = 2 /\ members[c] = Users /\ group[c])
  <2>1. ASSUME NEW c \in made PROVE c = 1 \/ (c = 2 /\ n = 2)
    BY <1>1
  <2>2. ASSUME NEW c \in made, c = 1 PROVE members[c] = S
    BY <1>1, <1>3, <2>2
  <2>3. ASSUME NEW c \in made, c = 2, n = 2 PROVE members[c] = Users /\ group[c]
    <3>1. c \in Conversations /\ ~(c > n) /\ c # 1
      BY <1>3, <2>3
    <3>2. members[c] = Users
      BY <1>1, <3>1
    <3>3. group[c] = (c = 2 /\ n = 2)
      BY <1>1, <3>1
    <3> QED
      BY <2>3, <3>2, <3>3
  <2> QED
    BY <2>1, <2>2, <2>3
<1>9. OneConversation
  BY <1>7, <1>8 DEF OneConversation
<1>10. Kinds
  <2>1. Cardinality(S) <= 2
    BY <1>1
  <2> QED
    BY <2>1, <1>8 DEF Kinds
<1> QED
  BY <1>2, <1>5, <1>6, <1>9, <1>10, IdleRequest DEF Inv

\* Every step keeps the invariant.
LEMMA NextInv == ASSUME Inv, IsFiniteSet(Users), [Next]_vars PROVE Inv'
<1>1. CASE UNCHANGED vars
  <2>1. UNCHANGED <<rows, active, post, req, raced, shrunk>>
    BY <1>1 DEF vars, rows, texts, past
  <2>2. HeardByThose'
    BY <2>1 DEF Inv, HeardByThose
  <2> QED
    BY <2>1, <2>2, SteadyStep DEF Inv, TypeInv
<1>2. ASSUME NEW r \in Requests, Step(r) PROVE Inv'
  BY <1>2, MakeStep, JoinStep, RemoveStep, StarStep, EnterStep, InsertStep, PreviewStep,
     ReadLinesStep, MoveStep DEF Step
<1> QED
  BY <1>1, <1>2, ArriveStep, StarStep, ToggleStep, VanishStep DEF Next

\* Two conversations have the same members only when one of them lost a
\* member, or was made or enlarged by a request that another membership
\* change overtook (findConversationIdByExactMemberSet and its callers).
THEOREM OnePerMembers == ASSUME IsFiniteSet(Users) PROVE Spec => []OneConversation
<1>1. Inv => OneConversation
  BY DEF Inv
<1>2. Inv /\ [Next]_vars => Inv'
  BY NextInv
<1> QED
  BY InitInv, <1>1, <1>2, PTL DEF Spec

\* A message that named its recipients was inserted where they and nobody
\* else were members, unless a membership changed while it was on its way
\* (createMessage).
THEOREM HeardByNobodyElse == ASSUME IsFiniteSet(Users) PROVE Spec => []HeardByThose
<1>1. Inv => HeardByThose
  BY DEF Inv
<1>2. Inv /\ [Next]_vars => Inv'
  BY NextInv
<1> QED
  BY InitInv, <1>1, <1>2, PTL DEF Spec

\* The list of conversations, the page of one and the unread count leave out
\* the same conversations, unless two membership changes of one raced
\* (getConversations, getConversationById, getUnreadSummary).
THEOREM HiddenEverywhere == ASSUME IsFiniteSet(Users) PROVE Spec => []HiddenAlike
<1>1. ASSUME Inv PROVE HiddenAlike
  <2>1. ASSUME NEW c \in made \ raced, NEW u \in members[c], ~group[c],
               Cardinality(Others(u, c)) # 1
        PROVE  Others(u, c) \subseteq active
    <3>1. members[c] \subseteq Users /\ IsFiniteSet(members[c])
      BY <1>1, FS_Subset DEF Inv, TypeInv
    <3>2. Cardinality(members[c]) <= 2
      BY <1>1, <2>1 DEF Inv, Kinds
    <3>3. IsFiniteSet(Others(u, c)) /\ Cardinality(Others(u, c)) = Cardinality(members[c]) - 1
      BY <3>1, FS_RemoveElement DEF Others
    <3>4. Cardinality(Others(u, c)) \in Nat /\ Cardinality(members[c]) \in Nat
      BY <3>1, <3>3, FS_CardinalityType
    <3>5. Cardinality(Others(u, c)) = 0
      BY <2>1, <3>2, <3>3, <3>4
    <3> QED
      BY <3>3, <3>5, FS_EmptySet
  <2> QED
    BY <2>1 DEF HiddenAlike, Opens, Lists, Counts, Hidden
<1>2. Inv /\ [Next]_vars => Inv'
  BY NextInv
<1> QED
  BY InitInv, <1>1, <1>2, PTL DEF Spec

(***************************************************************************)
(* The preview: its inductive invariant                                    *)
(***************************************************************************)
\* messages are inserted in the order of their ids
Ordered ==
    \A m, n \in Messages : post[m].st = "none" /\ m <= n => post[n].st = "none"

Writes(x, c) == req[x].pc = "preview" /\ req[x].c = c
Merging(x)   == req[x].pc \in {"merge", "move"} => Head(req[x].next) # req[x].c

\* nobody crossed: one request at most is to write the preview, and its
\* message is the newest; when there is none, the preview has been written
Tracked(c) ==
    /\ \A x, y \in Requests : Writes(x, c) /\ Writes(y, c) => x = y
    /\ \A x \in Requests : Writes(x, c) => req[x].m = Newest(Here(c))
    /\ (\A x \in Requests : ~Writes(x, c)) => last[c] = Newest(Here(c))

PreviewInv ==
    /\ DOMAIN last = Conversations
    /\ Ordered
    /\ \A x \in Requests : Merging(x)
    /\ \A c \in Conversations \ crossed : Tracked(c)
\* A message that no other one follows is the newest.
LEMMA NewestIs ==
    ASSUME NEW S \in SUBSET Messages, NEW m \in S, \A n \in S : n <= m
    PROVE  Newest(S) = m
<1>1. \A k \in S : k \in Nat
  BY DEF Messages
<1>2. \E k \in S : \A n \in S : n <= k
  OBVIOUS
<1>3. Newest(S) \in S /\ \A n \in S : n <= Newest(S)
  BY <1>2 DEF Newest
<1> QED
  BY <1>1, <1>3

\* the request goes on with the same conversation and message
Keeps(x) ==
    /\ req'[x].pc = req[x].pc /\ req'[x].c = req[x].c
    /\ req'[x].m = req[x].m /\ req'[x].next = req[x].next
\* it does not come to write a preview, and if it was to write one it has
\* left the conversation to those that are crossed
Apart(x) ==
    /\ req[x].pc = "preview" => req[x].c \in crossed'
    /\ req'[x].pc # "preview"
    /\ Merging(x)'

\* A step by which no message and no preview changes.
LEMMA CalmPreviews ==
    ASSUME PreviewInv, UNCHANGED <<post, last>>, crossed \subseteq crossed',
           \A x \in Requests : Keeps(x) \/ Apart(x)
    PROVE  PreviewInv'
<1>1. ASSUME NEW c \in Conversations \ crossed' PROVE Tracked(c)'
  <2>1. Tracked(c)
    BY DEF PreviewInv
  <2>2. \A x \in Requests : Writes(x, c)' <=> Writes(x, c)
    BY DEF Keeps, Apart, Writes
  <2>3. \A x \in Requests : Writes(x, c) => req'[x].m = req[x].m
    BY DEF Keeps, Apart, Writes
  <2>4. Here(c)' = Here(c)
    BY DEF Here
  <2>5. last'[c] = last[c]
    OBVIOUS
  <2> QED
    BY <2>1, <2>2, <2>3, <2>4, <2>5 DEF Tracked
<1>2. \A x \in Requests : Merging(x)'
  BY DEF PreviewInv, Merging, Keeps, Apart
<1> QED
  BY <1>1, <1>2 DEF PreviewInv, Ordered

\* A change of membership leaves the other requests where they are, but late, or
\* ends them.
LEMMA ChangedKeeps ==
    ASSUME Inv, NEW r \in Requests, NEW q, Changed(r, q)
    PROVE  req'[r] = q /\ \A x \in Requests \ {r} : Keeps(x)
<1>1. req' = [x \in Requests |-> IF x = r THEN q
                                 ELSE IF Free(x) THEN Idle ELSE [req[x] EXCEPT !.late = TRUE]]
  BY DEF Changed
<1>2. ASSUME NEW x \in Requests \ {r} PROVE Keeps(x)
  <2> DEFINE p == req[x]
  <2>1. p \in Request
    BY DEF Inv, TypeInv
  <2>2. CASE Free(x)
    BY <1>1, <2>2 DEF Free, Keeps
  <2>3. CASE ~Free(x)
    <3>1. req'[x] = [p EXCEPT !.late = TRUE]
      BY <1>1, <2>3
    <3>2. req'[x].pc = p.pc /\ req'[x].c = p.c /\ req'[x].m = p.m /\ req'[x].next = p.next
      <4> HIDE DEF p
      <4> QED
        BY <2>1, <3>1 DEF Request
    <3> QED
      BY <3>2 DEF Keeps
  <2> QED
    BY <2>2, <2>3
<1> QED
  BY <1>1, <1>2

\* Any other step leaves them as they are.
LEMMA ExceptKeeps ==
    ASSUME Inv, NEW r \in Requests, NEW q, req' = [req EXCEPT ![r] = q]
    PROVE  req'[r] = q /\ \A x \in Requests \ {r} : Keeps(x)
BY DEF Inv, TypeInv, Keeps

(***************************************************************************)
(* The preview: requests and memberships                                   *)
(***************************************************************************)
Begins(q) == q.pc \notin {"preview", "move"} /\ (q.pc = "merge" => Head(q.next) # q.c)

\* An addition begins with a merge or a join, and writes no preview yet.
LEMMA AddBegins ==
    ASSUME Inv, NEW r \in Requests, NEW u \in Users, NEW c \in made, NEW S, Adding(r, u, c, S)
    PROVE  \E q : Begin(r, q) /\ Begins(q)
<1> DEFINE J == [Idle EXCEPT !.pc = "join", !.op = "add", !.c = c, !.who = S,
                             !.size = Cardinality(members[c]) + Cardinality(S)]
           M(d) == [Idle EXCEPT !.pc = "merge", !.op = "add", !.user = u, !.c = c, !.next = <<d>>]
           same == Exactly(members[c] \cup S) \ {c}
<1>1. \/ Begin(r, J)
      \/ \E d \in same : Begin(r, M(d))
  BY Zenon DEF Adding
<1>2. Begins(J)
  BY DEF Begins, Idle
<1>3. ASSUME NEW d \in same PROVE Begins(M(d))
  <2>1. M(d).next = <<d>> /\ M(d).c = c /\ M(d).pc = "merge" /\ d # c
    BY DEF Idle
  <2>2. Head(M(d).next) = d
    BY <2>1
  <2> HIDE DEF M
  <2> QED
    BY <2>1, <2>2 DEF Begins
<1> HIDE DEF J, M
<1> QED
  BY <1>1, <1>2, <1>3

\* So does every request that arrives.
LEMMA ArriveBegins ==
    ASSUME Inv, NEW r \in Requests, Arrive(r)
    PROVE  \E q : Begin(r, q) /\ Begins(q)
<1>1. PICK u \in Users :
        \/ ArriveOpen(r, u) \/ ArriveSend(r, u)
        \/ \E c \in made : \/ ArrivePost(r, u, c) \/ ArriveUpdate(r, u, c)
                           \/ ArriveAdd(r, u, c) \/ ArriveAddAll(r, u, c)
                           \/ ArriveRemove(r, u, c) \/ ArriveStar(r, u, c)
  BY DEF Arrive
<1>2. CASE ArriveOpen(r, u)
  <2>1. PICK S : Begin(r, [Idle EXCEPT !.pc = "make", !.op = "open", !.who = S])
    BY <1>2, Zenon DEF ArriveOpen
  <2>2. Begins([Idle EXCEPT !.pc = "make", !.op = "open", !.who = S])
    BY DEF Begins, Idle
  <2> QED
    BY <2>1, <2>2
<1>3. CASE ArriveSend(r, u)
  <2> DEFINE M(S)    == [Idle EXCEPT !.pc = "make", !.op = "send", !.user = u, !.who = S, !.to = S]
             P(c, S) == [Idle EXCEPT !.pc = "post", !.op = "send", !.user = u, !.c = c, !.to = S]
  <2>1. \E S, c : Begin(r, M(S)) \/ Begin(r, P(c, S))
    BY <1>3, Zenon DEF ArriveSend
  <2>2. \A S, c : Begins(M(S)) /\ Begins(P(c, S))
    BY DEF Begins, Idle
  <2> HIDE DEF M, P
  <2> QED
    BY <2>1, <2>2
<1>4. ASSUME NEW c \in made, ArrivePost(r, u, c) PROVE \E q : Begin(r, q) /\ Begins(q)
  <2>1. Begins([Idle EXCEPT !.pc = "post", !.op = "send", !.user = u, !.c = c])
    BY DEF Begins, Idle
  <2> QED
    BY <1>4, <2>1, Zenon DEF ArrivePost
<1>5. ASSUME NEW c \in made, ArriveUpdate(r, u, c) PROVE \E q : Begin(r, q) /\ Begins(q)
  <2> DEFINE Q(n) == [Idle EXCEPT !.pc = "post", !.op = "update", !.user = u, !.c = c,
                                  !.line = TRUE, !.next = n]
  <2>1. \E n : Begin(r, Q(n))
    BY <1>5, Zenon DEF ArriveUpdate
  <2>2. \A n : Begins(Q(n))
    BY DEF Begins, Idle
  <2> HIDE DEF Q
  <2> QED
    BY <2>1, <2>2
<1>6. ASSUME NEW c \in made, ArriveAdd(r, u, c) \/ ArriveAddAll(r, u, c)
      PROVE  \E q : Begin(r, q) /\ Begins(q)
  <2>1. \E S : Adding(r, u, c, S)
    BY <1>6, Zenon DEF ArriveAdd, ArriveAddAll
  <2> QED
    BY <2>1, AddBegins
<1>7. ASSUME NEW c \in made, ArriveRemove(r, u, c) PROVE \E q : Begin(r, q) /\ Begins(q)
  <2>1. PICK v : Begin(r, [Idle EXCEPT !.pc = "remove", !.op = "remove", !.c = c, !.who = {v}])
    BY <1>7, Zenon DEF ArriveRemove
  <2>2. Begins([Idle EXCEPT !.pc = "remove", !.op = "remove", !.c = c, !.who = {v}])
    BY DEF Begins, Idle
  <2> QED
    BY <2>1, <2>2
<1>8. ASSUME NEW c \in made, ArriveStar(r, u, c) PROVE \E q : Begin(r, q) /\ Begins(q)
  <2>1. PICK on : Begin(r, [Idle EXCEPT !.pc = "star", !.op = "star", !.user = u, !.c = c, !.line = on])
    BY <1>8, Zenon DEF ArriveStar
  <2>2. Begins([Idle EXCEPT !.pc = "star", !.op = "star", !.user = u, !.c = c, !.line = on])
    BY DEF Begins, Idle
  <2> QED
    BY <2>1, <2>2
<1> QED
  BY <1>1, <1>2, <1>3, <1>4, <1>5, <1>6, <1>7, <1>8
\* The steps that write neither messages nor previews keep what previews rest
\* on.
LEMMA RequestPreviews ==
    ASSUME Inv, PreviewInv, NEW r \in Requests,
           \/ Arrive(r) \/ Make(r) \/ Join(r) \/ Remove(r) \/ Star(r) \/ Enter(r) \/ ReadLines(r)
           \/ Stop(r)
    PROVE  PreviewInv'
<1> DEFINE q0 == req[r]
<1>1. UNCHANGED <<post, last>> /\ crossed \subseteq crossed'
  <2>1. CASE Arrive(r)
    BY <2>1, ArriveBegins DEF Begin, texts, past
  <2>2. CASE Make(r) \/ Join(r) \/ Remove(r) \/ Star(r) \/ Enter(r) \/ ReadLines(r)
    BY <2>2, Zenon DEF Make, Join, Remove, Star, Enter, ReadLines, texts, past
  <2>3. CASE Stop(r)
    BY <2>3 DEF Stop, texts
  <2> QED
    BY <2>1, <2>2, <2>3
<1>2. (\A x \in Requests \ {r} : Keeps(x)) /\ Apart(r)
  <2>1. CASE Arrive(r)
    <3>1. PICK q : Begin(r, q) /\ Begins(q)
      BY <2>1, ArriveBegins
    <3>2. req' = [req EXCEPT ![r] = q] /\ req[r].pc = "idle"
      BY <3>1 DEF Begin, Free, Idle
    <3> QED
      BY <3>1, <3>2, ExceptKeeps DEF Begins, Apart, Merging
  <2>2. CASE Star(r) \/ Stop(r) \/ ((Enter(r) \/ Join(r)) /\ Finish(r))
    <3>1. req' = [req EXCEPT ![r] = Idle]
      BY <2>2 DEF Star, Stop, Finish
    <3>2. q0.pc = "preview" => q0.c \in crossed'
      BY <2>2 DEF Star, Stop, Enter, Join
    <3>3. req'[r] = Idle /\ \A x \in Requests \ {r} : Keeps(x)
      BY <3>1, ExceptKeeps
    <3>4. Idle.pc = "idle"
      BY DEF Idle
    <3> QED
      BY <3>2, <3>3, <3>4 DEF Apart, Merging
  <2>3. CASE Enter(r) /\ Go(r, "post")
    <3>1. req' = [req EXCEPT ![r].pc = "post"] /\ q0.pc = "access"
      BY <2>3 DEF Go, Enter
    <3>2. req'[r].pc = "post" /\ \A x \in Requests \ {r} : Keeps(x)
      BY <3>1 DEF Inv, TypeInv, Request, Keeps
    <3> QED
      BY <3>1, <3>2 DEF Apart, Merging
  <2>4. CASE ReadLines(r)
    <3> DEFINE S == {m \in Here(q0.c) : post[m].line}
               q == [q0 EXCEPT !.pc = "move", !.seen = S]
    <3>1. req' = [req EXCEPT ![r] = q] /\ q0.pc = "merge" /\ q0 \in Request
      BY <2>4 DEF ReadLines, Inv, TypeInv
    <3>2. q.pc = "move" /\ q.c = q0.c /\ q.next = q0.next
      <4> HIDE DEF S, q0
      <4> QED
        BY <3>1 DEF Request
    <3> HIDE DEF q
    <3>3. Head(q.next) # q.c
      BY <3>1, <3>2 DEF PreviewInv, Merging
    <3> QED
      BY <3>1, <3>2, <3>3, ExceptKeeps DEF Apart, Merging
  <2>5. CASE Make(r)
    <3> DEFINE n(c) == IF q0.op = "open" THEN Idle ELSE [q0 EXCEPT !.pc = "access", !.c = c]
    <3>1. q0.pc = "make" /\ q0 \in Request
      <4>1. q0.pc = "make"
        BY <2>5, Zenon DEF Make
      <4> QED
        BY <4>1 DEF Inv, TypeInv
    <3>3. \E c \in Conversations : Changed(r, n(c))
      BY <2>5, Zenon DEF Make
    <3>2. ASSUME NEW c PROVE n(c).pc \in {"idle", "access"}
      <4> HIDE DEF q0
      <4> QED
        BY <3>1 DEF Request, Idle
    <3> HIDE DEF n
    <3> QED
      BY <3>1, <3>2, <3>3, ChangedKeeps DEF Apart, Merging
  <2>6. CASE (Join(r) /\ ~Finish(r)) \/ Remove(r)
    <3>1. q0.pc \in {"join", "remove"} /\ Changed(r, Idle)
      BY <2>6 DEF Join, Remove
    <3> QED
      BY <3>1, ChangedKeeps DEF Apart, Merging, Idle
  <2> QED
    <3>1. Enter(r) => Finish(r) \/ Go(r, "post")
      BY DEF Enter
    <3> QED
      BY <2>1, <2>2, <2>3, <2>4, <2>5, <2>6, <3>1, Zenon
<1> QED
  BY <1>1, <1>2, CalmPreviews

\* So does an activation or deactivation.
LEMMA TogglePreviews == ASSUME PreviewInv, Toggle PROVE PreviewInv'
<1>1. UNCHANGED <<post, last, req, crossed>>
  BY DEF Toggle, texts, past
<1> QED
  BY <1>1, CalmPreviews DEF Keeps

(***************************************************************************)
(* The preview: messages                                                   *)
(***************************************************************************)
LEMMA InsertPreviews == ASSUME Inv, PreviewInv, NEW r \in Requests, Insert(r) PROVE PreviewInv'
<1> DEFINE q0 == req[r]
           New == [at |-> q0.c, st |-> "there", line |-> q0.line, to |-> q0.to,
                   heard |-> members[q0.c], late |-> q0.late]
<1>1. q0 \in Request /\ q0.pc = "post"
  BY DEF Inv, TypeInv, Insert
<1>2. PICK c0 : c0 = q0.c
  OBVIOUS
<1>3. PICK m \in Messages :
        /\ post[m].st = "none" /\ \A n \in Messages : post[n].st = "none" => m <= n
        /\ post' = [post EXCEPT ![m] = New] /\ req' = [req EXCEPT ![r].pc = "preview", ![r].m = m]
  BY DEF Insert
<1>4. last' = last /\ crossed' = crossed \cup {c \in {c0} : Posting(r, c)}
  BY <1>2 DEF Insert, Cross
<1> DEFINE q == [q0 EXCEPT !.pc = "preview", !.m = m]
<1>5. req' = [req EXCEPT ![r] = q]
  BY <1>3 DEF Inv, TypeInv
<1>6. q.pc = "preview" /\ q.c = c0 /\ q.m = m
  <2> HIDE DEF q0
  <2> QED
    BY <1>1, <1>2 DEF Request
<1> HIDE DEF q
<1>7. req'[r] = q /\ \A x \in Requests \ {r} : Keeps(x)
  BY <1>5, ExceptKeeps
<1>8. post'[m].st = "there" /\ post'[m].at = c0 /\ \A n \in Messages \ {m} : post'[n] = post[n]
  BY <1>2, <1>3 DEF Inv, TypeInv
<1> HIDE DEF q0, New
<1>9. Ordered'
  <2>1. ASSUME NEW k \in Messages, NEW n \in Messages, post'[k].st = "none", k <= n
        PROVE  post'[n].st = "none"
    <3>1. k # m /\ post[k].st = "none" /\ m <= k
      BY <1>3, <1>8, <2>1
    <3>2. n # m /\ post[n].st = "none"
      BY <2>1, <3>1 DEF PreviewInv, Ordered, Messages
    <3> QED
      BY <1>8, <3>2
  <2> QED
    BY <2>1 DEF Ordered
<1>10. \A x \in Requests : Merging(x)'
  BY <1>6, <1>7 DEF PreviewInv, Merging, Keeps
<1>11. ASSUME NEW c \in Conversations \ crossed' PROVE Tracked(c)'
  <2>1. Tracked(c)
    BY <1>4 DEF PreviewInv
  <2>2. \A x \in Requests \ {r} : /\ Writes(x, c)' <=> Writes(x, c)
                                  /\ req'[x].m = req[x].m
    BY <1>7 DEF Keeps, Writes
  <2>3. ~Writes(r, c)
    BY <1>1 DEF Writes, q0
  <2>4. CASE c # c0
    <3>1. Here(c)' = Here(c)
      BY <1>3, <1>8, <2>4 DEF Here
    <3>2. ~Writes(r, c)'
      BY <1>6, <1>7, <2>4 DEF Writes
    <3> QED
      BY <1>4, <2>1, <2>2, <2>3, <3>1, <3>2 DEF Tracked
  <2>5. CASE c = c0
    <3>1. \A x \in Requests \ {r} : ~Writes(x, c)
      BY <1>4, <2>5 DEF Posting, Writes
    <3>2. Here(c)' = Here(c) \cup {m}
      BY <1>3, <1>8, <2>5 DEF Here
    <3>3. \A n \in Here(c) : n <= m
      BY <1>3 DEF Here, PreviewInv, Ordered, Messages
    <3>4. Newest(Here(c)')  = m
      <4>1. Here(c) \cup {m} \in SUBSET Messages /\ m <= m
        BY DEF Here, Messages
      <4>2. Newest(Here(c) \cup {m}) = m
        BY <3>3, <4>1, NewestIs
      <4> QED
        BY <3>2, <4>2
    <3>5. Writes(r, c)' /\ req'[r].m = m
      BY <1>6, <1>7, <2>5 DEF Writes
    <3>6. Newest(Here(c))' = m
      BY <3>4 DEF Newest
    <3> QED
      BY <2>2, <3>1, <3>5, <3>6 DEF Tracked
  <2> QED
    BY <2>4, <2>5
<1> QED
  BY <1>4, <1>9, <1>10, <1>11 DEF PreviewInv

\* The writer of the preview writes the newest message, if nothing crossed it.
LEMMA PreviewPreviews == ASSUME Inv, PreviewInv, NEW r \in Requests, Preview(r) PROVE PreviewInv'
<1>1. PICK q0 : q0 = req[r]
  OBVIOUS
<1>2. /\ q0 \in Request /\ q0.pc = "preview" /\ last' = [last EXCEPT ![q0.c] = q0.m]
      /\ UNCHANGED <<post, crossed>>
  BY <1>1 DEF Inv, TypeInv, Preview, past
<1>3. PICK q : req' = [req EXCEPT ![r] = q] /\ q.pc \in {"idle", "access"}
  <2> DEFINE p == [q0 EXCEPT !.pc = "access", !.c = Head(q0.next), !.next = Tail(q0.next)]
  <2>1. req' = [req EXCEPT ![r] = Idle] \/ req' = [req EXCEPT ![r] = p]
    BY <1>1 DEF Preview, Finish
  <2>2. p.pc = "access" /\ Idle.pc = "idle"
    BY <1>2 DEF Request, Idle
  <2> HIDE DEF p
  <2> QED
    BY <2>1, <2>2
<1>4. req'[r] = q /\ \A x \in Requests \ {r} : Keeps(x)
  BY <1>3, ExceptKeeps
<1>5. \A x \in Requests : Merging(x)'
  BY <1>3, <1>4 DEF PreviewInv, Merging, Keeps
<1>6. ASSUME NEW c \in Conversations \ crossed' PROVE Tracked(c)'
  <2>1. Tracked(c)
    BY <1>2 DEF PreviewInv
  <2>2. \A x \in Requests \ {r} : /\ Writes(x, c)' <=> Writes(x, c)
                                  /\ req'[x].m = req[x].m
    BY <1>4 DEF Keeps, Writes
  <2>3. ~Writes(r, c)'
    BY <1>3, <1>4 DEF Writes
  <2>4. Here(c)' = Here(c) /\ Newest(Here(c))' = Newest(Here(c))
    BY <1>2 DEF Here, Newest
  <2>5. CASE c # q0.c
    <3>1. ~Writes(r, c) /\ last'[c] = last[c]
      BY <1>1, <1>2, <2>5 DEF Writes, PreviewInv
    <3> QED
      BY <2>1, <2>2, <2>3, <2>4, <3>1 DEF Tracked
  <2>6. CASE c = q0.c
    <3>1. Writes(r, c)
      BY <1>1, <1>2, <2>6 DEF Writes
    <3>2. last'[c] = req[r].m
      BY <1>1, <1>2, <2>6 DEF PreviewInv
    <3> QED
      BY <2>1, <2>2, <2>3, <2>4, <3>1, <3>2 DEF Tracked
  <2> QED
    BY <2>5, <2>6
<1>7. DOMAIN last' = Conversations
  BY <1>2 DEF PreviewInv
<1> QED
  BY <1>2, <1>5, <1>6, <1>7 DEF PreviewInv, Ordered

\* A merge leaves no message in its source and writes both previews.
LEMMA MovePreviews == ASSUME Inv, PreviewInv, NEW r \in Requests, Move(r) PROVE PreviewInv'
<1>1. PICK q0, c0, d, moved :
         q0 = req[r] /\ c0 = q0.c /\ d = Head(q0.next) /\ moved = Here(c0) \ q0.seen
  OBVIOUS
<1>2. q0 \in Request /\ q0.pc = "move" /\ c0 \in Conversations /\ d # c0
  BY <1>1 DEF Inv, TypeInv, Move, Form, PreviewInv, Merging
<1>3. /\ post' = [m \in Messages |-> IF m \in q0.seen \cap Here(c0) THEN [post[m] EXCEPT !.st = "gone"]
                                     ELSE IF m \in moved THEN [post[m] EXCEPT !.at = d] ELSE post[m]]
      /\ last' = [last EXCEPT ![c0] = None, ![d] = Newest(Here(d) \cup moved)]
      /\ crossed' = crossed \cup {c \in {c0, d} : Posting(r, c)}
      /\ req' = [req EXCEPT ![r] = [q0 EXCEPT !.pc = "access", !.line = TRUE, !.seen = {}]]
  BY <1>1 DEF Move, Cross
<1>4. [q0 EXCEPT !.pc = "access", !.line = TRUE, !.seen = {}].pc = "access"
  BY <1>2 DEF Request
<1>5. PICK q : req' = [req EXCEPT ![r] = q] /\ q.pc = "access"
  BY <1>3, <1>4
<1>6. req'[r] = q /\ \A x \in Requests \ {r} : Keeps(x)
  BY <1>5, ExceptKeeps
<1>7. \A x \in Requests : Merging(x)'
  BY <1>5, <1>6 DEF PreviewInv, Merging, Keeps
<1>8. ASSUME NEW m \in Messages
      PROVE  /\ m \in q0.seen \cap Here(c0) => post'[m].st = "gone"
             /\ m \in moved => post'[m].st = "there" /\ post'[m].at = d
             /\ m \notin Here(c0) => post'[m] = post[m]
             /\ post'[m].st = "none" <=> post[m].st = "none"
  <2> DEFINE p == post[m]
  <2>1. p \in Post
    BY DEF Inv, TypeInv
  <2>2. post'[m] = IF m \in q0.seen \cap Here(c0) THEN [p EXCEPT !.st = "gone"]
                   ELSE IF m \in moved THEN [p EXCEPT !.at = d] ELSE p
    BY <1>3
  <2>3. m \in Here(c0) => p.st = "there"
    BY DEF Here
  <2>4. [p EXCEPT !.st = "gone"].st = "gone" /\ [p EXCEPT !.at = d].st = p.st /\ [p EXCEPT !.at = d].at = d
    <3> HIDE DEF p
    <3> QED
      BY <2>1 DEF Post
  <2> DEFINE g == [p EXCEPT !.st = "gone"]
             t == [p EXCEPT !.at = d]
  <2>5. post'[m] = (IF m \in q0.seen \cap Here(c0) THEN g ELSE IF m \in moved THEN t ELSE p)
    BY <2>2
  <2> HIDE DEF g, t, p
  <2>6. moved = Here(c0) \ q0.seen
    BY <1>1
  <2>7. g.st = "gone" /\ t.st = p.st /\ t.at = d
    BY <2>4 DEF g, t
  <2> QED
    BY <2>3, <2>5, <2>6, <2>7 DEF p
<1>9. Ordered'
  BY <1>8 DEF PreviewInv, Ordered
<1>10. Here(c0)' = {}
  <2>1. ASSUME NEW m \in Messages, post'[m].st = "there", post'[m].at = c0 PROVE FALSE
    <3>1. CASE m \in Here(c0)
      BY <1>1, <1>2, <1>8, <2>1, <3>1
    <3>2. CASE m \notin Here(c0)
      BY <1>8, <2>1, <3>2 DEF Here
    <3> QED
      BY <3>1, <3>2
  <2> QED
    BY <2>1 DEF Here
<1>11. Here(d)' = Here(d) \cup moved
  <2>1. ASSUME NEW m \in Messages
        PROVE  (post'[m].st = "there" /\ post'[m].at = d) <=> (m \in Here(d) \/ m \in moved)
    <3>1. CASE m \in Here(c0)
      <4>1. m \notin Here(d)
        BY <1>2, <3>1 DEF Here
      <4> QED
        BY <1>1, <1>8, <3>1, <4>1
    <3>2. CASE m \notin Here(c0)
      BY <1>1, <1>8, <3>2 DEF Here
    <3> QED
      BY <3>1, <3>2
  <2>2. moved \subseteq Messages /\ Here(d) \subseteq Messages
    BY <1>1 DEF Here
  <2>3. Here(d)' = {m \in Messages : post'[m].st = "there" /\ post'[m].at = d}
    BY DEF Here
  <2> QED
    BY <2>1, <2>2, <2>3
<1>12. ASSUME NEW c \in Conversations \ {c0, d} PROVE Here(c)' = Here(c)
  <2>1. ASSUME NEW m \in Messages
        PROVE  (post'[m].st = "there" /\ post'[m].at = c) <=> m \in Here(c)
    <3>1. CASE m \in Here(c0)
      <4>1. m \notin Here(c)
        BY <1>12, <3>1 DEF Here
      <4> QED
        BY <1>1, <1>8, <1>12, <3>1, <4>1
    <3>2. CASE m \notin Here(c0)
      BY <1>8, <3>2 DEF Here
    <3> QED
      BY <3>1, <3>2
  <2> QED
    BY <2>1 DEF Here
<1>13. ASSUME NEW c \in Conversations \ crossed' PROVE Tracked(c)'
  <2>1. Tracked(c)
    BY <1>3 DEF PreviewInv
  <2>2. \A x \in Requests \ {r} : /\ Writes(x, c)' <=> Writes(x, c)
                                  /\ req'[x].m = req[x].m
    BY <1>6 DEF Keeps, Writes
  <2>3. ~Writes(r, c)' /\ ~Writes(r, c)
    BY <1>1, <1>2, <1>5, <1>6 DEF Writes
  <2>4. CASE c \in {c0, d}
    <3>1. \A x \in Requests \ {r} : ~Writes(x, c)
      BY <1>3, <2>4 DEF Posting, Writes
    <3>2. DOMAIN last = Conversations
      BY DEF PreviewInv
    <3>3. last'[c] = Newest(Here(c)')
      <4>1. CASE c = c0
        BY <1>2, <1>3, <1>10, <3>2, <4>1 DEF Newest
      <4>2. CASE c = d
        BY <1>3, <1>11, <3>2, <4>2
      <4> QED
        BY <2>4, <4>1, <4>2
    <3>4. Newest(Here(c))' = Newest(Here(c)')
      BY DEF Newest
    <3> QED
      BY <2>2, <2>3, <3>1, <3>3, <3>4 DEF Tracked
  <2>5. CASE c \notin {c0, d}
    <3>1. last'[c] = last[c]
      BY <1>3, <2>5 DEF PreviewInv
    <3>2. Newest(Here(c))' = Newest(Here(c))
      <4>1. Here(c)' = Here(c)
        BY <1>12, <2>5
      <4> QED
        BY <4>1 DEF Newest
    <3> QED
      BY <2>1, <2>2, <2>3, <3>1, <3>2 DEF Tracked
  <2> QED
    BY <2>4, <2>5
<1>14. DOMAIN last' = Conversations
  BY <1>3 DEF PreviewInv
<1> QED
  BY <1>7, <1>9, <1>13, <1>14 DEF PreviewInv
\* A message that vanishes crosses its conversation.
LEMMA VanishPreviews == ASSUME Inv, PreviewInv, Vanish PROVE PreviewInv'
<1>1. UNCHANGED <<last, req>>
  BY DEF Vanish
<1>2. PICK m \in Messages :
         /\ post[m].st = "there" /\ post' = [post EXCEPT ![m].st = "gone"]
         /\ crossed' = crossed \cup {post[m].at}
  BY DEF Vanish
<1>3. PICK c0 : c0 = post[m].at
  OBVIOUS
<1>4. /\ post[m].st = "there" /\ c0 = post[m].at
      /\ post' = [post EXCEPT ![m].st = "gone"] /\ crossed' = crossed \cup {c0}
  BY <1>2, <1>3
<1>5. /\ post'[m].st = "gone" /\ post'[m].at = c0
      /\ \A n \in Messages \ {m} : post'[n] = post[n]
  BY <1>4 DEF Inv, TypeInv, Post
<1>6. Ordered'
  BY <1>4, <1>5 DEF PreviewInv, Ordered
<1>7. \A x \in Requests : Merging(x)'
  BY <1>1 DEF PreviewInv, Merging
<1>8. ASSUME NEW c \in Conversations \ crossed' PROVE Tracked(c)'
  <2>1. Tracked(c) /\ c # c0
    BY <1>4, <1>8 DEF PreviewInv
  <2>2. Here(c)' = Here(c)
    BY <1>4, <1>5, <2>1 DEF Here
  <2>3. Newest(Here(c))' = Newest(Here(c))
    BY <2>2 DEF Newest
  <2>4. \A x \in Requests : (Writes(x, c)' <=> Writes(x, c)) /\ req'[x].m = req[x].m
    BY <1>1 DEF Writes
  <2> QED
    BY <1>1, <2>1, <2>3, <2>4 DEF Tracked
<1> QED
  BY <1>1, <1>6, <1>7, <1>8 DEF PreviewInv

(***************************************************************************)
(* The preview: the theorem                                                *)
(***************************************************************************)
LEMMA InitPreviews == ASSUME Init PROVE PreviewInv
<1>1. /\ \A m \in Messages : m > 1 => post[m] = NoPost
      /\ 1 \in Messages => post[1].st = "there" /\ post[1].at = 1
  BY DEF Init, NoPost
<1>2. 1 \in Messages /\ \A m \in Messages : m \in Nat /\ (m = 1 \/ m > 1)
  BY ConversationAssumption DEF Messages
<1>3. last = [c \in Conversations |-> IF c = 1 THEN 1 ELSE None]
  BY DEF Init
<1>4. Ordered
  BY <1>1, <1>2 DEF Ordered, NoPost
<1>5. \A x \in Requests : Merging(x) /\ \A c \in Conversations : ~Writes(x, c)
  BY DEF Init, Merging, Writes, Idle
<1>6. ASSUME NEW c \in Conversations PROVE last[c] = Newest(Here(c))
  <2>1. CASE c = 1
    <3>1. Here(c) = {1}
      BY <1>1, <1>2, <2>1 DEF Here, NoPost
    <3>2. Newest({1}) = 1
      BY <1>2, NewestIs
    <3> QED
      BY <1>3, <2>1, <3>1, <3>2
  <2>2. CASE c # 1
    <3>1. Here(c) = {}
      BY <1>1, <1>2, <2>2 DEF Here, NoPost
    <3> QED
      BY <1>3, <2>2, <3>1 DEF Newest
  <2> QED
    BY <2>1, <2>2
<1> QED
  BY <1>3, <1>4, <1>5, <1>6 DEF PreviewInv, Tracked

\* Every step keeps what previews rest on.
LEMMA NextPreviews == ASSUME Inv, PreviewInv, [Next]_vars PROVE PreviewInv'
<1>1. CASE UNCHANGED vars
  <2>1. UNCHANGED <<post, last, req, crossed>>
    BY <1>1 DEF vars, texts, past
  <2> QED
    BY <2>1, CalmPreviews DEF Keeps
<1>2. ASSUME NEW r \in Requests, Arrive(r) \/ Step(r) \/ Stop(r) PROVE PreviewInv'
  BY <1>2, RequestPreviews, InsertPreviews, PreviewPreviews, MovePreviews DEF Step
<1> QED
  BY <1>1, <1>2, TogglePreviews, VanishPreviews DEF Next

\* The preview of a conversation is its newest message, once the request
\* that inserted it is over, unless another message, a merge or a removal
\* crossed the insertion and the writing of the preview (createMessage,
\* mergeDmConversationsTx).
THEOREM PreviewIsNewest == ASSUME IsFiniteSet(Users) PROVE Spec => []PreviewNewest
<1>1. Inv /\ PreviewInv => PreviewNewest
  BY DEF Inv, TypeInv, PreviewInv, PreviewNewest, Tracked, Writes
<1>2. Inv /\ PreviewInv /\ [Next]_vars => Inv' /\ PreviewInv'
  BY NextInv, NextPreviews
<1> QED
  BY InitInv, InitPreviews, <1>1, <1>2, PTL DEF Spec
=============================================================================
