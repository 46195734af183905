---------------------------- MODULE MessageProofs ---------------------------
(***************************************************************************)
(* The messages of a channel, for any number of users, messages, files and *)
(* requests in flight: replies are counted, messages are delivered once    *)
(* their files have come, pages in the cache are honest, and the files     *)
(* that rows name are stored.                                              *)
(***************************************************************************)
EXTENDS Message, FiniteSetTheorems, TLAPS

(***************************************************************************)
(* Types                                                                   *)
(***************************************************************************)
Pcs == {"idle", "insert", "url", "objects", "edit", "unattach", "mark", "remove", "pin",
        "like", "store", "sweep", "drop", "count", "seek", "join", "cast", "look", "last"}
Ops == {"none", "create", "finalize", "edit", "unattach", "delete", "abort", "pin", "like",
        "get", "clean"}

NewFile == [st : {"ready", "pending", "hollow"}, obj : 0 .. MaxFiles, quote : BOOLEAN]
Card    == [deleted : BOOLEAN, content : 0 .. 2, pinned : BOOLEAN, replies : Nat,
            files : SUBSET (Files \X {"none", "pending", "ready", "hollow", "gone"}),
            likes : SUBSET Users]
Pages   == {NoPage} \cup UNION {[S -> Card] : S \in SUBSET Messages}

Request == [pc : Pcs, op : Ops, m : 0 .. MaxMessages, f : 0 .. MaxFiles,
            user : Users \cup {None}, parent : 0 .. MaxMessages, source : 0 .. MaxMessages,
            text : 0 .. 2, new : Seq(NewFile), dels : SUBSET Files, flag : BOOLEAN,
            page : Pages, todo : SUBSET Messages]

RowTypes ==
    /\ msg \in [Messages -> Row] /\ file \in [Files -> File] /\ lost \in [Messages -> Nat]
OtherTypes ==
    /\ stored \subseteq Files /\ subs \subseteq Messages \X Users
    /\ liked \subseteq Messages \X Users /\ cache \in Pages
    /\ told \in [Messages -> SUBSET {"job", "cast"}]
    /\ excused \in BOOLEAN /\ cut \subseteq Messages /\ torn \subseteq Files

(***************************************************************************)
(* Rows and requests                                                       *)
(***************************************************************************)
\* ids are given in order
Ordered ==
    /\ \E k \in 0 .. MaxMessages : \A m \in Messages : msg[m].st = "none" <=> m > k
    /\ \E k \in 0 .. MaxFiles : \A f \in Files : file[f].st = "none" <=> f > k

RowOK(m) ==
    /\ msg[m].st = "none" => lost[m] = 0 /\ msg[m].parent = None
    /\ msg[m].parent # None => msg[msg[m].parent].st # "none"
FileOK(f) ==
    /\ file[f].st \in {"none", "pending"} => file[f].obj = None
    /\ file[f].st = "ready" => file[f].obj # None
    /\ file[f].st \notin {"none", "gone"} => file[f].msg \in Messages /\ There(file[f].msg)

\* rows to be inserted: one with an upload to come is alone, one with an
\* object of another row has that row
NewOK(s) ==
    \A i \in DOMAIN s :
        /\ s[i].st = "pending" => Len(s) = 1 /\ s[i].obj = None
        /\ s[i].st = "ready" /\ s[i].obj # None =>
             \E g \in Files : file[g].st # "none" /\ file[g].obj = s[i].obj

ReqOK(q) ==
    /\ q.parent # None => msg[q.parent].st # "none"
    /\ q.op = "create" =>
         /\ q.pc \in {"insert", "drop", "count", "seek", "join", "cast"}
         /\ q.user \in Users
         /\ q.pc = "insert" => NewOK(q.new)
         /\ q.pc # "insert" => q.m \in Messages /\ msg[q.m].st # "none"
         /\ q.pc \in {"count", "seek", "join"} => q.parent # None
    /\ q.op = "finalize" =>
         /\ q.pc \in {"url", "drop", "look", "last"}
         /\ q.m \in Messages /\ q.f \in Files
         /\ file[q.f].st # "none" /\ file[q.f].msg = q.m /\ file[q.f].obj \in {None, q.f}
    /\ q.op = "edit" =>
         /\ q.pc \in {"objects", "edit", "drop"} /\ q.m \in Messages
         /\ NewOK(q.new)
         /\ \A i \in DOMAIN q.new : q.new[i].st = "pending"
         /\ \A f \in q.dels : file[f].st # "none"
         /\ q.pc = "edit" => \A f \in q.dels : file[f].obj # None
    /\ q.op = "unattach" =>
         /\ q.pc \in {"objects", "unattach"} /\ q.f \in Files /\ q.dels = {q.f}
         /\ file[q.f].st \in {"ready", "gone"} /\ file[q.f].obj # None
    /\ q.op \in {"delete", "abort", "pin", "like"} => q.m \in Messages
    /\ q.op = "like" => q.user \in Users
    /\ q.pc = "insert" => q.op = "create"
    /\ q.pc \in {"count", "seek", "join", "cast"} => q.op = "create"
    /\ q.pc \in {"url", "look", "last"} => q.op = "finalize"
    /\ q.pc = "edit" => q.op = "edit"
    /\ q.pc = "objects" => q.op \in {"edit", "unattach"}
    /\ q.pc = "unattach" => q.op = "unattach"
    /\ q.pc = "mark" => q.op = "delete"
    /\ q.pc = "remove" => q.op = "abort"
    /\ q.pc = "pin" => q.op = "pin"
    /\ q.pc = "like" => q.op = "like"
    /\ q.op = "none" <=> q.pc = "idle"

Tables ==
    /\ RowTypes /\ Ordered
    /\ \A m \in Messages : RowOK(m)
    /\ \A f \in Files : FileOK(f)
Base ==
    /\ Tables /\ OtherTypes
    /\ req \in [Requests -> Request] /\ \A x \in Requests : ReqOK(req[x])

(***************************************************************************)
(* What the properties need                                                *)
(***************************************************************************)
\* a page that differs has an invalidation to come that will take place
Sweeps(q) == q.pc = "drop" /\ (q.op = "finalize" => There(q.m))
PageInv   == cache \notin {NoPage, View} => excused \/ \E x \in Requests : Sweeps(req[x])

\* who is still to announce m: its sender, or the last to finalize a file
Sends(q, m)    == /\ q.op = "create" /\ q.pc \in {"drop", "count", "seek", "join", "cast"}
                  /\ q.m = m /\ ~q.flag
                  /\ q.pc # "drop" => "job" \in told[m]
Finishes(q, m) == /\ q.op = "finalize" /\ q.m = m
                  /\ q.pc \in {"drop", "look"} \/ (q.pc = "last" /\ ~q.flag)
Owed(m) ==
    There(m) /\ m \notin cut =>
        \/ {"job", "cast"} \subseteq told[m] \/ StillPending(m)
        \/ \E x \in Requests : Sends(req[x], m) \/ Finishes(req[x], m)
OwedInv == \A m \in Messages : Owed(m)

\* object o of file f is stored, or there is a reason why it is not
Removing(q, f) == q.pc \in {"edit", "unattach"} /\ f \in q.dels
Kept(f, o) ==
    \/ o \in stored \/ f \in torn
    \/ \E g \in Files \ {f} : file[g].st # "none" /\ file[g].obj = o
    \/ \E x \in Requests : Removing(req[x], f)
StoredInv ==
    /\ \A f \in Files : file[f].st = "ready" => Kept(f, file[f].obj)
    /\ \A x \in Requests : req[x].pc = "url" /\ file[req[x].f].st # "gone" => Kept(req[x].f, req[x].f)

\* the parent a request has yet to count its reply at
Counts(q)  == IF q.op = "create" /\ q.pc \in {"drop", "count"} THEN q.parent ELSE None
Waiting(p) == {x \in Requests : Counts(req[x]) = p}
Replies(p) == {m \in Messages : msg[m].st # "none" /\ msg[m].parent = p}
Counted ==
    \A p \in Messages : There(p) =>
        msg[p].replies + lost[p] + Cardinality(Waiting(p)) = Cardinality(Replies(p))

Inv == Base /\ Counted /\ PageInv /\ OwedInv /\ StoredInv

(***************************************************************************)
(* Steps in general                                                        *)
(***************************************************************************)
\* no row is taken back, and a file keeps its message and its object
Grows ==
    /\ \A m \in Messages : msg[m].st # "none" => msg'[m].st # "none"
    /\ \A f \in Files :
         /\ file[f].st # "none" => file'[f].st # "none" /\ file'[f].msg = file[f].msg
         /\ file[f].obj # None => file'[f].obj = file[f].obj
         /\ file[f].st # "none" => file'[f].obj \in {file[f].obj, f}
         /\ file[f].st \in {"ready", "gone"} => file'[f].st \in {"ready", "gone"}

\* A slot with no request in it has read nothing.
LEMMA IdleRequest == Idle \in Request /\ ReqOK(Idle)
<1>1. <<>> \in Seq(NewFile) /\ NoPage \in Pages
  BY DEF Pages
<1> QED
  BY <1>1, MessageAssumption DEF Request, Pcs, Ops, Idle, None, ReqOK

\* A page is a page.
LEMMA ViewPage == ASSUME RowTypes PROVE View \in Pages
<1> DEFINE S == {n \in Messages : There(n) /\ msg[n].parent = None}
<1>1. ASSUME NEW m \in S PROVE Shown(m) \in Card
  <2>1. {<<f, file[f].st>> : f \in FilesOf(m)} \in SUBSET (Files \X {"none", "pending", "ready", "hollow", "gone"})
    BY DEF RowTypes, FilesOf, File
  <2>2. Likes(m) \in SUBSET Users
    BY DEF Likes
  <2> QED
    BY <2>1, <2>2 DEF Shown, Card, RowTypes, Row
<1>2. View \in [S -> Card]
  BY <1>1 DEF View
<1>3. S \in SUBSET Messages
  OBVIOUS
<1> QED
  BY <1>2, <1>3 DEF Pages

\* What a request has read stays true.
LEMMA StillOK == ASSUME NEW q \in Request, ReqOK(q), Grows PROVE ReqOK(q)'
<1>1. ASSUME NEW s \in Seq(NewFile), NewOK(s) PROVE NewOK(s)'
  <2>1. \A i \in DOMAIN s : s[i] \in NewFile
    OBVIOUS
  <2> QED
    BY <1>1, <2>1 DEF NewOK, Grows, None
<1>2. q.new \in Seq(NewFile) /\ q.dels \in SUBSET Files /\ q.parent \in 0 .. MaxMessages
  BY DEF Request
<1>3. q.parent # None => q.parent \in Messages
  BY <1>2, MessageAssumption DEF Messages, None
<1> QED
  BY <1>1, <1>2, <1>3 DEF ReqOK, Grows, None

\* A step of one request on rows that only grow keeps what the others have read.
LEMMA BaseStep ==
    ASSUME Base, NEW r \in Requests, NEW q \in Request, req' = [req EXCEPT ![r] = q],
           Tables', OtherTypes', Grows, ReqOK(q)'
    PROVE  Base'
<1>1. req' \in [Requests -> Request]
  BY DEF Base
<1>2. ASSUME NEW x \in Requests PROVE ReqOK(req[x])'
  <2>1. CASE x = r
    BY <2>1 DEF Base
  <2>2. CASE x # r
    <3>1. req'[x] = req[x] /\ req[x] \in Request /\ ReqOK(req[x])
      BY <2>2 DEF Base
    <3>2. ReqOK(req[x])'
      BY <3>1, StillOK
    <3> QED
      BY <3>1, <3>2
  <2> QED
    BY <2>1, <2>2
<1> QED
  BY <1>1, <1>2 DEF Base

\* Rows that stay as they are grow.
LEMMA SameTables == ASSUME Tables, UNCHANGED <<msg, file, lost>> PROVE Tables' /\ Grows
<1>1. RowTypes' /\ Ordered'
  BY DEF Tables, RowTypes, Ordered
<1>2. \A m \in Messages : RowOK(m)'
  BY DEF Tables, RowOK
<1>3. \A f \in Files : FileOK(f)'
  BY DEF Tables, FileOK, There
<1>4. Grows
  BY DEF Grows
<1> QED
  BY <1>1, <1>2, <1>3, <1>4 DEF Tables

\* A step of one request that writes no row.
LEMMA QuietStep ==
    ASSUME Base, NEW r \in Requests, NEW q \in Request, req' = [req EXCEPT ![r] = q],
           UNCHANGED <<msg, file, lost>>, OtherTypes', ReqOK(q)
    PROVE  Base'
<1>1. Tables' /\ Grows
  BY SameTables DEF Base
<1>2. ReqOK(q)'
  BY <1>1, StillOK
<1> QED
  BY <1>1, <1>2, BaseStep

(***************************************************************************)
(* The beginning of a request                                              *)
(***************************************************************************)
LEMMA BeginBase ==
    ASSUME Base, NEW r \in Requests, NEW q \in Request, Begin(r, q), ReqOK(q), stored' \subseteq Files
    PROVE  Base'
<1>1. UNCHANGED <<msg, file, lost>> /\ req' = [req EXCEPT ![r] = q]
  BY DEF Begin, tables, past
<1>2. OtherTypes'
  BY DEF Begin, tables, past, Base, OtherTypes
<1> QED
  BY <1>1, <1>2, QuietStep

\* the record of a call to createMessage
LEMMA CreateCall ==
    ASSUME NEW q, NEW u \in Users, NEW p \in 0 .. MaxMessages, NEW s \in 0 .. MaxMessages,
           NEW t \in 0 .. 2, NEW n \in Seq(NewFile),
           \/ q = [Idle EXCEPT !.pc = "insert", !.op = "create", !.user = u, !.parent = p, !.new = n]
           \/ q = [Idle EXCEPT !.pc = "insert", !.op = "create", !.user = u, !.text = t, !.source = s, !.new = n]
    PROVE  q \in Request
<1>1. "insert" \in Pcs /\ "create" \in Ops /\ u \in Users \cup {None}
  BY DEF Pcs, Ops
<1>2. NoPage \in Pages /\ None \in 0 .. MaxMessages /\ None \in 0 .. MaxFiles /\ 1 \in 0 .. 2
  BY MessageAssumption DEF Pages, None
<1>3. {} \in SUBSET Files /\ {} \in SUBSET Messages /\ FALSE \in BOOLEAN
  OBVIOUS
<1>4. CASE q = [Idle EXCEPT !.pc = "insert", !.op = "create", !.user = u, !.parent = p, !.new = n]
  <2>1. q = [pc |-> "insert", op |-> "create", m |-> None, f |-> None, user |-> u, parent |-> p,
             source |-> None, text |-> 1, new |-> n, dels |-> {}, flag |-> FALSE, page |-> NoPage, todo |-> {}]
    BY <1>4 DEF Idle
  <2> QED
    BY <1>1, <1>2, <1>3, <2>1 DEF Request
<1>5. CASE q = [Idle EXCEPT !.pc = "insert", !.op = "create", !.user = u, !.text = t, !.source = s, !.new = n]
  <2>1. q = [pc |-> "insert", op |-> "create", m |-> None, f |-> None, user |-> u, parent |-> None,
             source |-> s, text |-> t, new |-> n, dels |-> {}, flag |-> FALSE, page |-> NoPage, todo |-> {}]
    BY <1>5 DEF Idle
  <2> QED
    BY <1>1, <1>2, <1>3, <2>1 DEF Request
<1> QED
  BY <1>4, <1>5

\* rows for new files
LEMMA NewRows ==
    ASSUME NEW n \in {<<>>, Fresh("ready"), Fresh("pending")}
    PROVE  /\ n \in Seq(NewFile) /\ NewOK(n)
           /\ n \in {<<>>, Fresh("pending")} => \A i \in DOMAIN n : n[i].st = "pending"
<1>1. ASSUME NEW st \in {"ready", "pending"} PROVE Fresh(st) \in Seq(NewFile)
  <2>1. [st |-> st, obj |-> None, quote |-> FALSE] \in NewFile
    BY MessageAssumption DEF NewFile, None
  <2> QED
    BY <2>1 DEF Fresh
<1>2. NewOK(Fresh("ready")) /\ NewOK(Fresh("pending"))
  BY DEF Fresh, NewOK, None
<1>3. NewOK(<<>>) /\ <<>> \in Seq(NewFile)
  BY DEF NewOK
<1>4. n = Fresh("pending") => \A i \in DOMAIN n : n[i].st = "pending"
  BY DEF Fresh
<1>5. n = <<>> => \A i \in DOMAIN n : n[i].st = "pending"
  OBVIOUS
<1> QED
  BY <1>1, <1>2, <1>3, <1>4, <1>5

\* A message that is to be created is a reply to one that is there, or to none.
LEMMA CreateArrives == ASSUME Base, NEW r \in Requests, NEW u \in Users, ArriveCreate(r, u) PROVE Base'
<1>1. PICK p \in {m \in Messages : There(m)} \cup {None}, n \in {<<>>, Fresh("ready"), Fresh("pending")} :
        /\ Begin(r, [Idle EXCEPT !.pc = "insert", !.op = "create", !.user = u, !.parent = p, !.new = n])
        /\ stored' = stored
  BY DEF ArriveCreate
<1> DEFINE q == [Idle EXCEPT !.pc = "insert", !.op = "create", !.user = u, !.parent = p, !.new = n]
<1>2. n \in Seq(NewFile) /\ NewOK(n)
  BY NewRows
<1>3. q \in Request
  <2>1. p \in 0 .. MaxMessages /\ None \in 0 .. MaxMessages /\ 1 \in 0 .. 2
    BY MessageAssumption DEF Messages, None
  <2> QED
    BY <1>2, <2>1, CreateCall
<1>4. ReqOK(q)
  BY <1>1, <1>2 DEF ReqOK, Idle, There, None
<1>5. stored' \subseteq Files
  BY <1>1 DEF Base, OtherTypes
<1> QED
  BY <1>1, <1>3, <1>4, <1>5, BeginBase

\* the copies of a forward
LEMMA SetSeq ==
    ASSUME NEW S, IsFiniteSet(S)
    PROVE  SetToSeq(S) \in [1 .. Cardinality(S) -> S] /\ Cardinality(S) \in Nat
<1>1. Cardinality(S) \in Nat /\ ExistsBijection(1 .. Cardinality(S), S)
  BY FS_CardinalityType, FS_NatBijection
<1>2. PICK f \in Bijection(1 .. Cardinality(S), S) : TRUE
  BY <1>1 DEF ExistsBijection
<1>3. f \in [1 .. Cardinality(S) -> S] /\ IsInjective(f)
  BY <1>2 DEF Bijection, Injection, IsInjective
<1> QED
  BY <1>1, <1>3 DEF SetToSeq

\* There are finitely many files and messages.
LEMMA FilesFinite == IsFiniteSet(Files) /\ IsFiniteSet(Messages)
BY FS_Interval, MessageAssumption DEF Files, Messages

\* A forward copies the files of its source.
LEMMA ForwardArrives == ASSUME Base, NEW r \in Requests, NEW u \in Users, ArriveForward(r, u) PROVE Base'
<1> DEFINE S(m)    == IF Mixed(m) THEN {f \in FilesOf(m) : ~file[f].quote} ELSE FilesOf(m)
           s(m)    == SetToSeq(S(m))
           src(m)  == IF Mixed(m) THEN None ELSE Origin(m)
           new(m)  == [i \in DOMAIN s(m) |-> Quoted(s(m)[i], ~Mixed(m))]
           Q(m, t) == [Idle EXCEPT !.pc = "insert", !.op = "create", !.user = u, !.text = t,
                                   !.source = src(m), !.new = new(m)]
<1>1. PICK m \in Messages, text \in 0 .. 1 : Begin(r, Q(m, text)) /\ stored' = stored
  BY DEF ArriveForward
<1>2. S(m) \subseteq FilesOf(m) /\ FilesOf(m) \subseteq Files
  BY DEF FilesOf
<1>3. IsFiniteSet(S(m))
  BY <1>2, FilesFinite, FS_Subset
<1> HIDE DEF S
<1>4. s(m) \in [1 .. Cardinality(S(m)) -> S(m)] /\ Cardinality(S(m)) \in Nat
  BY <1>3, SetSeq
<1> HIDE DEF s
<1>5. ASSUME NEW f \in S(m)
      PROVE  /\ Quoted(f, ~Mixed(m)) \in NewFile
             /\ Quoted(f, ~Mixed(m)).st # "pending"
             /\ Quoted(f, ~Mixed(m)).obj = file[f].obj /\ file[f].st # "none"
  <2>1. f \in Files /\ file[f].st # "none" /\ file[f] \in File
    BY <1>2 DEF FilesOf, Base, Tables, RowTypes
  <2>2. (~Mixed(m)) \in BOOLEAN
    OBVIOUS
  <2> QED
    BY <2>1, <2>2 DEF Quoted, NewFile, File
<1>6. new(m) \in [1 .. Cardinality(S(m)) -> NewFile]
  BY <1>4, <1>5
<1>7. new(m) \in Seq(NewFile)
  BY <1>4, <1>6
<1>8. NewOK(new(m))
  <2>1. ASSUME NEW i \in DOMAIN new(m)
        PROVE  \E f \in Files : /\ new(m)[i] = Quoted(f, ~Mixed(m)) /\ f \in S(m)
    BY <1>2, <1>4
  <2> HIDE DEF new
  <2> QED
    BY <2>1, <1>5 DEF NewOK
<1>9. src(m) \in 0 .. MaxMessages
  BY MessageAssumption DEF Origin, Base, Tables, RowTypes, Row, Messages, None
<1> HIDE DEF new, src
<1>10. Q(m, text) \in Request
  <2>1. None \in 0 .. MaxMessages /\ text \in 0 .. 2
    BY MessageAssumption DEF None
  <2> QED
    BY <1>7, <1>9, <2>1, CreateCall
<1>11. ReqOK(Q(m, text))
  BY <1>8 DEF ReqOK, Idle, None
<1>12. stored' \subseteq Files
  BY <1>1 DEF Base, OtherTypes
<1> QED
  BY <1>1, <1>10, <1>11, <1>12, BeginBase
\* Ids are positive and None is not one.
LEMMA Ids == /\ \A m \in Messages : m \in 0 .. MaxMessages /\ m # None
             /\ \A f \in Files : f \in 0 .. MaxFiles /\ f # None
             /\ None \in 0 .. MaxMessages /\ None \in 0 .. MaxFiles
BY MessageAssumption DEF Messages, Files, None

\* An upload that ends is that of a file there is.
LEMMA FinalizeArrives == ASSUME Base, NEW r \in Requests, ArriveFinalize(r) PROVE Base'
<1>1. PICK f \in Files, m \in Messages :
        /\ file[f].st = "pending" /\ file[f].msg = m /\ There(m)
        /\ Begin(r, [Idle EXCEPT !.pc = "url", !.op = "finalize", !.m = m, !.f = f])
        /\ stored' = stored \cup {f}
  BY DEF ArriveFinalize, Base, Tables, FileOK
<1> DEFINE q == [Idle EXCEPT !.pc = "url", !.op = "finalize", !.m = m, !.f = f]
<1>2. file[f].obj = None
  BY <1>1 DEF Base, Tables, FileOK
<1>3. q \in Request
  <2>1. m \in 0 .. MaxMessages /\ f \in 0 .. MaxFiles
    BY Ids
  <2> QED
    BY <2>1, IdleRequest DEF Idle, Request, Pcs, Ops
<1>4. ReqOK(q)
  BY <1>1, <1>2 DEF ReqOK, Idle, None
<1>5. stored' \subseteq Files
  BY <1>1 DEF Base, OtherTypes
<1> QED
  BY <1>1, <1>3, <1>4, <1>5, BeginBase

\* An edit names the files it drops and those it adds.
LEMMA EditArrives == ASSUME Base, NEW r \in Requests, ArriveEdit(r) PROVE Base'
<1>1. PICK m \in Messages, n \in {<<>>, Fresh("pending")} :
        /\ \E d \in SUBSET {f \in FilesOf(m) : ~file[f].quote}, empty \in BOOLEAN :
             Begin(r, [Idle EXCEPT !.pc = IF d = {} THEN "edit" ELSE "objects", !.op = "edit",
                       !.m = m, !.dels = d, !.new = n, !.flag = empty])
        /\ stored' = stored
  BY DEF ArriveEdit
<1>2. PICK d \in SUBSET {f \in FilesOf(m) : ~file[f].quote}, empty \in BOOLEAN :
        Begin(r, [Idle EXCEPT !.pc = IF d = {} THEN "edit" ELSE "objects", !.op = "edit",
                              !.m = m, !.dels = d, !.new = n, !.flag = empty])
  BY <1>1
<1> DEFINE q == [Idle EXCEPT !.pc = IF d = {} THEN "edit" ELSE "objects", !.op = "edit",
                             !.m = m, !.dels = d, !.new = n, !.flag = empty]
<1>3. n \in Seq(NewFile) /\ NewOK(n) /\ \A i \in DOMAIN n : n[i].st = "pending"
  BY NewRows
<1>4. d \in SUBSET Files /\ \A f \in d : file[f].st # "none"
  BY DEF FilesOf
<1>5. q \in Request
  BY <1>3, <1>4, Ids, IdleRequest DEF Idle, Request, Pcs, Ops
<1>6. ReqOK(q)
  BY <1>3, <1>4 DEF ReqOK, Idle, None
<1>7. stored' \subseteq Files
  BY <1>1 DEF Base, OtherTypes
<1> QED
  BY <1>2, <1>5, <1>6, <1>7, BeginBase

\* A removal of an attachment names one file of a message.
LEMMA UnattachArrives == ASSUME Base, NEW r \in Requests, ArriveUnattach(r) PROVE Base'
<1>1. PICK f \in Files :
        /\ file[f].st = "ready"
        /\ Begin(r, [Idle EXCEPT !.pc = "objects", !.op = "unattach", !.m = file[f].msg, !.f = f, !.dels = {f}])
        /\ stored' = stored
  BY DEF ArriveUnattach
<1> DEFINE q == [Idle EXCEPT !.pc = "objects", !.op = "unattach", !.m = file[f].msg, !.f = f, !.dels = {f}]
<1>2. file[f].msg \in Messages /\ file[f].obj # None
  BY <1>1 DEF Base, Tables, FileOK
<1>3. q \in Request
  BY <1>2, Ids, IdleRequest DEF Idle, Request, Pcs, Ops
<1>4. ReqOK(q)
  BY <1>1, <1>2 DEF ReqOK, Idle, None
<1>5. stored' \subseteq Files
  BY <1>1 DEF Base, OtherTypes
<1> QED
  BY <1>1, <1>3, <1>4, <1>5, BeginBase

\* Deletion, abort, pin and reaction name a message that is there.
LEMMA SimpleArrives ==
    ASSUME Base, NEW r \in Requests, NEW m \in Messages, NEW u \in Users,
           ArriveDelete(r, m) \/ ArriveAbort(r, m) \/ ArrivePin(r, m) \/ ArriveLike(r, m, u)
    PROVE  Base'
<1>1. stored' \subseteq Files
  BY DEF ArriveDelete, ArriveAbort, ArrivePin, ArriveLike, Base, OtherTypes
<1>2. CASE ArriveDelete(r, m)
  <2> DEFINE q == [Idle EXCEPT !.pc = "mark", !.op = "delete", !.m = m]
  <2>1. q \in Request
    BY Ids, IdleRequest DEF Idle, Request, Pcs, Ops
  <2>2. ReqOK(q)
    BY DEF ReqOK, Idle, None
  <2> QED
    BY <1>1, <1>2, <2>1, <2>2, BeginBase DEF ArriveDelete
<1>3. CASE ArriveAbort(r, m)
  <2> DEFINE q == [Idle EXCEPT !.pc = "remove", !.op = "abort", !.m = m]
  <2>1. q \in Request
    BY Ids, IdleRequest DEF Idle, Request, Pcs, Ops
  <2>2. ReqOK(q)
    BY DEF ReqOK, Idle, None
  <2> QED
    BY <1>1, <1>3, <2>1, <2>2, BeginBase DEF ArriveAbort
<1>4. CASE ArrivePin(r, m)
  <2> DEFINE q == [Idle EXCEPT !.pc = "pin", !.op = "pin", !.m = m, !.flag = ~msg[m].pinned]
  <2>1. q \in Request
    BY Ids, IdleRequest DEF Idle, Request, Pcs, Ops
  <2>2. ReqOK(q)
    BY DEF ReqOK, Idle, None
  <2> QED
    BY <1>1, <1>4, <2>1, <2>2, BeginBase DEF ArrivePin
<1>5. CASE ArriveLike(r, m, u)
  <2> DEFINE b == <<m, u>> \in liked
  <2>1. b \in BOOLEAN /\ Begin(r, [Idle EXCEPT !.pc = "like", !.op = "like", !.m = m, !.user = u, !.flag = b])
    BY <1>5 DEF ArriveLike
  <2> HIDE DEF b
  <2> DEFINE q == [Idle EXCEPT !.pc = "like", !.op = "like", !.m = m, !.user = u, !.flag = b]
  <2>2. q \in Request
    BY <2>1, Ids, IdleRequest DEF Idle, Request, Pcs, Ops
  <2>3. ReqOK(q)
    BY DEF ReqOK, Idle, None
  <2> QED
    BY <1>1, <2>1, <2>2, <2>3, BeginBase
<1> QED
  BY <1>2, <1>3, <1>4, <1>5

\* A read of the page, and a clean-up, begin with what is in the tables.
LEMMA GetArrives == ASSUME Base, NEW r \in Requests, ArriveGet(r) \/ ArriveClean(r) PROVE Base'
<1>1. stored' \subseteq Files
  BY DEF ArriveGet, ArriveClean, Base, OtherTypes
<1>2. CASE ArriveGet(r)
  <2> DEFINE q == [Idle EXCEPT !.pc = "store", !.op = "get", !.page = View]
  <2>1. View \in Pages
    BY ViewPage DEF Base, Tables
  <2>2. q \in Request
    BY <2>1, IdleRequest DEF Idle, Request, Pcs, Ops
  <2>3. ReqOK(q)
    BY DEF ReqOK, Idle, None
  <2> QED
    BY <1>1, <1>2, <2>2, <2>3, BeginBase DEF ArriveGet
<1>3. CASE ArriveClean(r)
  <2>1. PICK s \in SUBSET Messages : Begin(r, [Idle EXCEPT !.pc = "sweep", !.op = "clean", !.todo = s])
    BY <1>3 DEF ArriveClean, Orphans
  <2> DEFINE q == [Idle EXCEPT !.pc = "sweep", !.op = "clean", !.todo = s]
  <2>2. q \in Request
    BY <2>1, IdleRequest DEF Idle, Request, Pcs, Ops
  <2>3. ReqOK(q)
    BY DEF ReqOK, Idle, None
  <2> QED
    BY <1>1, <2>1, <2>2, <2>3, BeginBase
<1> QED
  BY <1>2, <1>3
(***************************************************************************)
(* Steps that leave the rows of messages and files alone                   *)
(***************************************************************************)
LEMMA GoOn ==
    ASSUME Base, NEW r \in Requests, NEW pc \in Pcs, Go(r, pc)
    PROVE  /\ req' = [req EXCEPT ![r] = [req[r] EXCEPT !.pc = pc]]
           /\ [req[r] EXCEPT !.pc = pc] \in Request
<1>1. req \in [Requests -> Request]
  BY DEF Base
<1> QED
  BY <1>1 DEF Go, Request

\* A request that ends leaves nothing behind.
LEMMA FinishOK == ASSUME Base, NEW r \in Requests, Finish(r), UNCHANGED <<msg, file, lost>>, OtherTypes' PROVE Base'
BY IdleRequest, QuietStep DEF Finish

\* Subscribing reads and writes no row of a message.
LEMMA SeekBase == ASSUME Base, NEW r \in Requests, Seek(r) \/ Join(r) PROVE Base'
<1> DEFINE q == req[r]
           n == IF <<q.parent, q.user>> \in subs THEN Onward(q) ELSE [q EXCEPT !.pc = "join"]
<1>1. q \in Request /\ ReqOK(q)
  BY DEF Base
<1>2. UNCHANGED <<msg, file, lost>>
  BY DEF Seek, Join, tables, past
<1>3. q.op = "create" /\ q.m \in Messages /\ q.parent \in Messages /\ q.user \in Users
      /\ msg[q.parent].author \in Users
  <2>1. q.op = "create" /\ q.m \in Messages /\ q.parent # None /\ q.user \in Users
    BY <1>1 DEF Seek, Join, ReqOK
  <2>2. q.parent \in Messages
    BY <1>1, <2>1, MessageAssumption DEF Request, Messages, None
  <2> QED
    BY <2>1, <2>2 DEF Base, Tables, RowTypes, Row
<1>4. q.pc \in {"seek", "join"}
  BY DEF Seek, Join
<1>5. /\ Onward(q) \in Request /\ ReqOK(Onward(q))
      /\ [q EXCEPT !.pc = "join"] \in Request /\ ReqOK([q EXCEPT !.pc = "join"])
  <2>1. "seek" \in Pcs /\ "join" \in Pcs /\ "cast" \in Pcs
    BY DEF Pcs
  <2>2. [q EXCEPT !.pc = "join"] \in Request /\ ReqOK([q EXCEPT !.pc = "join"])
    BY <1>1, <1>3, <1>4, <2>1 DEF Request, ReqOK
  <2>3. [q EXCEPT !.pc = "cast"] \in Request /\ ReqOK([q EXCEPT !.pc = "cast"])
    BY <1>1, <1>3, <1>4, <2>1 DEF Request, ReqOK
  <2>4. ASSUME NEW a \in Users
        PROVE  [q EXCEPT !.pc = "seek", !.user = a] \in Request /\ ReqOK([q EXCEPT !.pc = "seek", !.user = a])
    BY <1>1, <1>3, <1>4, <2>1 DEF Request, ReqOK
  <2> QED
    BY <1>3, <2>2, <2>3, <2>4 DEF Onward
<1>6. CASE Seek(r)
  <2>1. OtherTypes'
    BY <1>6 DEF Seek, Base, OtherTypes, tables, past
  <2>2. req' = [req EXCEPT ![r] = n] /\ n \in Request /\ ReqOK(n)
    BY <1>5, <1>6 DEF Seek
  <2> QED
    BY <1>2, <2>1, <2>2, QuietStep
<1>7. CASE Join(r)
  <2>1. OtherTypes'
    BY <1>3, <1>7 DEF Join, Base, OtherTypes
  <2>2. CASE Finish(r)
    BY <1>2, <2>1, <2>2, FinishOK
  <2>3. CASE req' = [req EXCEPT ![r] = Onward(q)]
    BY <1>2, <1>5, <2>1, <2>3, QuietStep
  <2> QED
    BY <1>7, <2>2, <2>3 DEF Join
<1> QED
  BY <1>6, <1>7

\* Nor does an announcement.
LEMMA TellBase == ASSUME Base, NEW r \in Requests, Cast(r) \/ Announce(r) PROVE Base'
<1>1. OtherTypes'
  BY DEF Cast, Announce, Base, OtherTypes, tables, past
<1> QED
  BY <1>1, FinishOK DEF Cast, Announce, tables, past

\* The look after an upload finds the message waiting for another file or not.
LEMMA LookBase == ASSUME Base, NEW r \in Requests, Look(r) PROVE Base'
<1>1. OtherTypes' /\ UNCHANGED <<msg, file, lost>>
  BY DEF Look, Base, OtherTypes, tables, past
<1>2. CASE There(req[r].m)
  <2> DEFINE b == StillPending(req[r].m)
             n == [req[r] EXCEPT !.pc = "last", !.flag = b]
  <2>1. b \in BOOLEAN /\ req[r] \in Request /\ ReqOK(req[r]) /\ req[r].pc = "look"
    BY DEF Base, Look, StillPending
  <2>2. req' = [req EXCEPT ![r] = n]
    BY <1>2, <2>1 DEF Look, Base
  <2> HIDE DEF b
  <2>3. n \in Request /\ ReqOK(n)
    BY <2>1 DEF Request, ReqOK, Pcs
  <2> QED
    BY <1>1, <2>2, <2>3, QuietStep
<1>3. CASE ~There(req[r].m)
  BY <1>1, <1>3, FinishOK DEF Look
<1> QED
  BY <1>2, <1>3

\* Objects are removed from the storage before any row.
LEMMA ObjectsBase == ASSUME Base, NEW r \in Requests, Objects(r) PROVE Base'
<1> DEFINE q == req[r]
<1>1. UNCHANGED <<msg, file, lost>> /\ q \in Request /\ ReqOK(q) /\ q.pc = "objects"
  BY DEF Objects, tables, Base
<1>2. OtherTypes'
  BY <1>1 DEF Objects, Base, OtherTypes, tables, Request
<1>3. CASE Finish(r)
  BY <1>1, <1>2, <1>3, FinishOK
<1>4. CASE q.dels = {f \in q.dels : file[f].obj # None} /\ Go(r, IF q.op = "edit" THEN "edit" ELSE "unattach")
  <2> DEFINE n == [q EXCEPT !.pc = IF q.op = "edit" THEN "edit" ELSE "unattach"]
  <2>1. req' = [req EXCEPT ![r] = n] /\ n \in Request
    BY <1>4, GoOn DEF Pcs
  <2>2. \A f \in q.dels : file[f].obj # None
    BY <1>4
  <2>3. ReqOK(n)
    BY <1>1, <2>2 DEF ReqOK, Request
  <2> QED
    BY <1>1, <1>2, <2>1, <2>3, QuietStep
<1> QED
  BY <1>3, <1>4 DEF Objects

\* Reactions, and the page that is stored, are of messages that were there.
LEMMA LikeBase == ASSUME Base, NEW r \in Requests, Like(r) \/ Store(r) PROVE Base'
<1>1. req[r] \in Request /\ ReqOK(req[r])
  BY DEF Base
<1>2. CASE Like(r)
  <2>1. <<req[r].m, req[r].user>> \in Messages \X Users
    BY <1>1, <1>2 DEF Like, ReqOK
  <2>2. OtherTypes'
    BY <1>2, <2>1 DEF Like, Base, OtherTypes, Unswept
  <2> QED
    BY <1>2, <2>2, FinishOK DEF Like
<1>3. CASE Store(r)
  <2>1. OtherTypes'
    BY <1>1, <1>3 DEF Store, Base, OtherTypes, tables, Request
  <2> QED
    BY <1>3, <2>1, FinishOK DEF Store, tables
<1> QED
  BY <1>2, <1>3

\* An invalidation empties the cache.
LEMMA DropBase == ASSUME Base, NEW r \in Requests, Drop(r) PROVE Base'
<1> DEFINE q == req[r]
<1>1. UNCHANGED <<msg, file, lost>> /\ q \in Request /\ ReqOK(q) /\ q.pc = "drop"
  BY DEF Drop, tables, Base
<1>2. OtherTypes'
  BY <1>1 DEF Drop, Base, OtherTypes, tables, Pages
<1>3. CASE Finish(r)
  BY <1>1, <1>2, <1>3, FinishOK
<1>4. CASE q.op = "create" /\ Go(r, IF q.parent = None THEN "cast" ELSE "count")
  <2> DEFINE n == [q EXCEPT !.pc = IF q.parent = None THEN "cast" ELSE "count"]
  <2>1. req' = [req EXCEPT ![r] = n] /\ n \in Request
    BY <1>4, GoOn DEF Pcs
  <2>2. ReqOK(n)
    BY <1>1, <1>4 DEF ReqOK, Request
  <2> QED
    BY <1>1, <1>2, <2>1, <2>2, QuietStep
<1>5. CASE q.op = "finalize" /\ Go(r, "look")
  <2> DEFINE n == [q EXCEPT !.pc = "look"]
  <2>1. req' = [req EXCEPT ![r] = n] /\ n \in Request
    BY <1>5, GoOn DEF Pcs
  <2>2. ReqOK(n)
    BY <1>1, <1>5 DEF ReqOK, Request
  <2> QED
    BY <1>1, <1>2, <2>1, <2>2, QuietStep
<1> QED
  BY <1>3, <1>4, <1>5 DEF Drop
(***************************************************************************)
(* Ids and new rows                                                        *)
(***************************************************************************)
LEMMA UsedIds == ASSUME Ordered PROVE Used \in 0 .. MaxFiles /\ \A f \in Files : file[f].st = "none" <=> f > Used
BY DEF Ordered, Used

\* The next id is the first that has no row.
LEMMA FirstRow ==
    ASSUME Ordered, \E n \in Messages : msg[n].st = "none"
    PROVE  /\ NewRow \in Messages /\ msg[NewRow].st = "none"
           /\ \A n \in Messages : msg[n].st = "none" => NewRow <= n
<1>1. PICK k \in 0 .. MaxMessages : \A m \in Messages : msg[m].st = "none" <=> m > k
  BY DEF Ordered
<1>2. k + 1 \in Messages
  BY <1>1, MessageAssumption DEF Messages
<1>3. msg[k + 1].st = "none" /\ \A n \in Messages : msg[n].st = "none" => k + 1 <= n
  BY <1>1, <1>2, MessageAssumption DEF Messages
<1> QED
  BY <1>2, <1>3 DEF NewRow

\* Rows for new files take the ids after the last one.
LEMMA InsertedRows ==
    ASSUME Ordered, NEW rows \in [Files -> File], NEW m \in Messages, NEW s \in Seq(NewFile),
           Used + Len(s) <= MaxFiles, NEW after, after = Inserted(rows, m, s)
    PROVE  /\ after \in [Files -> File]
           /\ \A f \in Files : f <= Used \/ f > Used + Len(s) => after[f] = rows[f]
           /\ \A f \in Files : f > Used /\ f <= Used + Len(s) =>
                /\ f - Used \in DOMAIN s /\ after[f].msg = m /\ after[f].st = s[f - Used].st
                /\ after[f].obj = IF s[f - Used].st = "ready" /\ s[f - Used].obj = None THEN f ELSE s[f - Used].obj
           /\ \A i \in DOMAIN s : Used + i \in Files /\ file[Used + i].st = "none"
                                  /\ after[Used + i].st = s[i].st
<1>1. Used \in 0 .. MaxFiles /\ \A f \in Files : file[f].st = "none" <=> f > Used
  BY UsedIds
<1>2. DOMAIN s = 1 .. Len(s) /\ Len(s) \in Nat /\ \A i \in 1 .. Len(s) : s[i] \in NewFile
  OBVIOUS
<1>3. ASSUME NEW f \in Files
      PROVE  /\ f - Used \in DOMAIN s <=> f > Used /\ f <= Used + Len(s)
             /\ f - Used \notin DOMAIN s => after[f] = rows[f]
  BY <1>1, <1>2, MessageAssumption DEF Files, Inserted
<1>4. ASSUME NEW f \in Files, f - Used \in DOMAIN s
      PROVE  /\ after[f] \in File /\ after[f].msg = m /\ after[f].st = s[f - Used].st
             /\ after[f].obj = IF s[f - Used].st = "ready" /\ s[f - Used].obj = None THEN f ELSE s[f - Used].obj
  <2> DEFINE n == s[f - Used]
             o == IF n.st = "ready" /\ n.obj = None THEN f ELSE n.obj
  <2>1. n \in NewFile
    BY <1>2, <1>4
  <2>2. after[f] = [st |-> n.st, msg |-> m, quote |-> n.quote, obj |-> o]
    BY <1>4 DEF Inserted
  <2>3. o \in 0 .. MaxFiles /\ m \in 0 .. MaxMessages
    BY <2>1, Ids DEF NewFile
  <2> HIDE DEF o, n
  <2>4. n.st \in {"none", "pending", "ready", "hollow", "gone"} /\ n.quote \in BOOLEAN
    BY <2>1 DEF NewFile
  <2>5. after[f] \in File /\ after[f].msg = m /\ after[f].st = n.st /\ after[f].obj = o
    BY <2>2, <2>3, <2>4 DEF File
  <2> QED
    BY <2>5 DEF o, n
<1>5. after \in [Files -> File]
  <2>1. after = [f \in Files |-> after[f]]
    BY DEF Inserted
  <2>2. \A f \in Files : after[f] \in File
    BY <1>3, <1>4
  <2> QED
    BY <2>1, <2>2
<1>6. ASSUME NEW i \in DOMAIN s
      PROVE  Used + i \in Files /\ (Used + i) - Used = i /\ file[Used + i].st = "none"
  BY <1>1, <1>2, MessageAssumption DEF Files
<1>7. \A f \in Files : f <= Used \/ f > Used + Len(s) => f - Used \notin DOMAIN s
  BY <1>3, <1>1, <1>2 DEF Files
<1> QED
  BY <1>3, <1>4, <1>5, <1>6, <1>7
(***************************************************************************)
(* Steps that write rows                                                   *)
(***************************************************************************)
\* the rows that the transaction of createMessage leaves
InsertEffect(q, m) ==
    /\ m \in Messages /\ msg[m].st = "none"
    /\ msg' = [msg EXCEPT ![m] = [NewMessage(q.user) EXCEPT
                                 !.parent = q.parent, !.source = q.source, !.content = q.text]]
    /\ \A n \in Messages : msg[n].st = "none" => m <= n
    /\ file' \in [Files -> File]
    /\ \A f \in Files : f <= Used \/ f > Used + Len(q.new) => file'[f] = file[f]
    /\ \A f \in Files : f > Used /\ f <= Used + Len(q.new) =>
         /\ f - Used \in DOMAIN q.new /\ file'[f].msg = m /\ file'[f].st = q.new[f - Used].st
         /\ file'[f].obj = IF q.new[f - Used].st = "ready" /\ q.new[f - Used].obj = None
                           THEN f ELSE q.new[f - Used].obj
    /\ \A i \in DOMAIN q.new : Used + i \in Files /\ file[Used + i].st = "none"
                               /\ file'[Used + i].st = q.new[i].st
    /\ Used \in 0 .. MaxFiles /\ Used + Len(q.new) <= MaxFiles
    /\ \A f \in Files : file[f].st = "none" <=> f > Used

\* What the transaction of a new message writes.
LEMMA InsertDoes == ASSUME Base, NEW r \in Requests, Insert(r) PROVE InsertEffect(req[r], NewRow)
<1> DEFINE q == req[r]
<1>1. q \in Request /\ q.new \in Seq(NewFile)
  BY DEF Base, Request
<1>2. Ordered /\ file \in [Files -> File]
  BY DEF Base, Tables, RowTypes
<1>3. NewRow \in Messages /\ msg[NewRow].st = "none" /\ \A n \in Messages : msg[n].st = "none" => NewRow <= n
  BY <1>2, FirstRow DEF Insert
<1>4. Used \in 0 .. MaxFiles /\ \A f \in Files : file[f].st = "none" <=> f > Used
  BY <1>2, UsedIds
<1>5. file' = Inserted(file, NewRow, q.new) /\ Used + Len(q.new) <= MaxFiles
      /\ msg' = [msg EXCEPT ![NewRow] = [NewMessage(q.user) EXCEPT
                                        !.parent = q.parent, !.source = q.source, !.content = q.text]]
  BY DEF Insert
<1> HIDE DEF q
<1>6. /\ file' \in [Files -> File]
      /\ \A f \in Files : f <= Used \/ f > Used + Len(q.new) => file'[f] = file[f]
      /\ \A f \in Files : f > Used /\ f <= Used + Len(q.new) =>
           /\ f - Used \in DOMAIN q.new /\ file'[f].msg = NewRow /\ file'[f].st = q.new[f - Used].st
           /\ file'[f].obj = IF q.new[f - Used].st = "ready" /\ q.new[f - Used].obj = None
                             THEN f ELSE q.new[f - Used].obj
      /\ \A i \in DOMAIN q.new : Used + i \in Files /\ file[Used + i].st = "none"
                                 /\ file'[Used + i].st = q.new[i].st
  BY <1>1, <1>2, <1>3, <1>5, InsertedRows
<1> QED
  BY <1>3, <1>4, <1>5, <1>6 DEF InsertEffect, q

\* A new message, its parent and its files are rows in order.
LEMMA InsertBase == ASSUME Base, NEW r \in Requests, Insert(r) PROVE Base'
<1> DEFINE q == req[r]
           m == NewRow
           row == [NewMessage(q.user) EXCEPT !.parent = q.parent, !.source = q.source, !.content = q.text]
<1>1. /\ q \in Request /\ q.new \in Seq(NewFile) /\ q.user \in Users /\ q.op = "create" /\ NewOK(q.new)
      /\ q.parent # None => q.parent \in Messages /\ msg[q.parent].st # "none"
  <2>1. q \in Request /\ ReqOK(q) /\ q.pc = "insert"
    BY DEF Base, Insert
  <2>2. q.op = "create"
    BY <2>1 DEF ReqOK
  <2>3. q.parent # None => q.parent \in Messages
    BY <2>1, MessageAssumption DEF Request, Messages, None
  <2> QED
    BY <2>1, <2>2, <2>3 DEF ReqOK, Request
<1>2. InsertEffect(q, m)
  BY InsertDoes
<1>3. Tables /\ RowTypes /\ Ordered /\ lost' = lost
  BY DEF Base, Tables, Insert, past
<1> HIDE DEF m, q
<1>4. row \in Row /\ row.st = "there" /\ row.parent = q.parent
  BY <1>1, Ids DEF Request, Row, NewMessage, None
<1> HIDE DEF row
<1>5. msg' = [msg EXCEPT ![m] = row]
  BY <1>2 DEF InsertEffect, row
<1>6. RowTypes'
  BY <1>2, <1>3, <1>4, <1>5 DEF InsertEffect, RowTypes
<1>7. /\ \A x \in Messages : x # m => msg'[x] = msg[x]
      /\ m \in Messages /\ msg'[m] = row /\ msg[m].st = "none"
  BY <1>2, <1>3, <1>5 DEF InsertEffect, RowTypes
<1>8. Ordered'
  <2>1. \A x \in Messages : msg'[x].st = "none" <=> x > m
    <3>1. PICK k \in 0 .. MaxMessages : \A x \in Messages : msg[x].st = "none" <=> x > k
      BY <1>3 DEF Ordered
    <3>2. m > k /\ \A x \in Messages : x > k => m <= x
      BY <1>2, <3>1 DEF InsertEffect
    <3>3. m = k + 1
      BY <1>7, <3>1, <3>2, MessageAssumption DEF Messages
    <3> QED
      BY <1>4, <1>7, <3>1, <3>3, MessageAssumption DEF Messages
  <2>2. Used + Len(q.new) \in 0 .. MaxFiles
    BY <1>1, <1>2 DEF InsertEffect
  <2>3. \A f \in Files : file'[f].st = "none" <=> f > Used + Len(q.new)
    <3>1. ASSUME NEW f \in Files, f > Used, f <= Used + Len(q.new) PROVE file'[f].st # "none"
      <4>1. file'[f].st = q.new[f - Used].st /\ f - Used \in DOMAIN q.new
        BY <1>2, <3>1 DEF InsertEffect
      <4>2. q.new[f - Used] \in NewFile
        BY <1>1, <4>1
      <4> QED
        BY <4>1, <4>2 DEF NewFile
    <3>2. ASSUME NEW f \in Files, f <= Used \/ f > Used + Len(q.new) PROVE file'[f] = file[f]
      BY <1>2, <3>2 DEF InsertEffect
    <3>3. Used \in Nat /\ Len(q.new) \in Nat /\ \A f \in Files : file[f].st = "none" <=> f > Used
      BY <1>1, <1>2 DEF InsertEffect
    <3> QED
      BY <3>1, <3>2, <3>3, MessageAssumption DEF Files
  <2>4. m \in 0 .. MaxMessages
    BY <1>7, Ids
  <2> QED
    BY <2>1, <2>2, <2>3, <2>4 DEF Ordered
<1>9. \A x \in Messages : RowOK(x)'
  <2>1. ASSUME NEW x \in Messages, msg[x].parent # None PROVE msg[x].parent \in Messages
    BY <1>3, <2>1, MessageAssumption DEF RowTypes, Row, Messages, None
  <2> QED
    BY <1>1, <1>3, <1>4, <1>7, <2>1 DEF Tables, RowOK
<1>10. \A f \in Files : FileOK(f)'
  <2> SUFFICES ASSUME NEW f \in Files PROVE FileOK(f)'
    OBVIOUS
  <2>1. CASE f <= Used \/ f > Used + Len(q.new)
    <3>1. file'[f] = file[f]
      BY <1>2, <2>1 DEF InsertEffect
    <3> QED
      BY <1>3, <1>4, <1>7, <3>1 DEF Tables, FileOK, There
  <2>2. CASE f > Used /\ f <= Used + Len(q.new)
    <3>1. /\ f - Used \in DOMAIN q.new /\ file'[f].msg = m /\ file'[f].st = q.new[f - Used].st
          /\ file'[f].obj = IF q.new[f - Used].st = "ready" /\ q.new[f - Used].obj = None
                            THEN f ELSE q.new[f - Used].obj
      BY <1>2, <2>2 DEF InsertEffect
    <3>2. q.new[f - Used] \in NewFile
          /\ (q.new[f - Used].st = "pending" => q.new[f - Used].obj = None)
      BY <1>1, <3>1 DEF NewOK
    <3>3. f # None
      BY Ids
    <3> QED
      BY <1>4, <1>7, <3>1, <3>2, <3>3 DEF FileOK, There, NewFile
  <2> QED
    BY <1>1, <1>2, <2>1, <2>2 DEF InsertEffect, Files
<1>11. Grows
  <2>1. \A f \in Files : file[f].st # "none" => file'[f] = file[f]
    BY <1>2, MessageAssumption DEF InsertEffect, Files
  <2>2. \A f \in Files : file[f].obj # None => file'[f] = file[f]
    BY <1>3, <2>1 DEF Tables, FileOK
  <2> QED
    BY <1>4, <1>7, <2>1, <2>2 DEF Grows
<1>12. OtherTypes'
  <2>1. stored' \subseteq Files
    BY DEF Insert, Uploaded, Base, OtherTypes
  <2> QED
    BY <2>1 DEF Insert, past, Base, OtherTypes
<1>13. PICK n \in Request : /\ req' = [req EXCEPT ![r] = n]
                            /\ n.pc = "drop" /\ n.op = "create" /\ n.m = m
                            /\ n.parent = q.parent /\ n.user = q.user
  <2> DEFINE b == \E i \in DOMAIN q.new : q.new[i].st = "pending"
             n == [q EXCEPT !.pc = "drop", !.m = m, !.flag = b]
  <2>1. req' = [req EXCEPT ![r] = n]
    BY DEF Insert, Base, q, m
  <2>2. b \in BOOLEAN /\ m \in 0 .. MaxMessages /\ "drop" \in Pcs
    BY <1>7, Ids DEF Pcs
  <2> HIDE DEF b
  <2>3. n \in Request /\ n.pc = "drop" /\ n.op = "create" /\ n.m = m /\ n.parent = q.parent /\ n.user = q.user
    BY <1>1, <2>2 DEF Request
  <2> QED
    BY <2>1, <2>3
<1>14. ReqOK(n)'
  <2>1. n.parent # None => msg'[n.parent].st # "none"
    BY <1>1, <1>4, <1>7, <1>13
  <2> QED
    BY <1>1, <1>4, <1>7, <1>13, <2>1 DEF ReqOK
<1>15. Tables'
  BY <1>6, <1>8, <1>9, <1>10 DEF Tables
<1> QED
  BY <1>11, <1>12, <1>13, <1>14, <1>15, BaseStep
\* One row of messages is written, and stays what it was to the others.
LEMMA RowStep ==
    ASSUME Base, NEW r \in Requests, NEW q \in Request, req' = [req EXCEPT ![r] = q],
           NEW m \in Messages, NEW row \in Row, msg' = [msg EXCEPT ![m] = row],
           row.st = msg[m].st, row.parent = msg[m].parent,
           UNCHANGED <<file, lost>>, OtherTypes', ReqOK(q)
    PROVE  Base'
<1>1. \A x \in Messages : msg'[x].st = msg[x].st /\ msg'[x].parent = msg[x].parent
  BY DEF Base, Tables, RowTypes
<1>2. RowTypes'
  BY DEF Base, Tables, RowTypes
<1>3. Ordered'
  BY <1>1 DEF Base, Tables, Ordered
<1>4. \A x \in Messages : RowOK(x)'
  <2>1. ASSUME NEW x \in Messages, msg[x].parent # None PROVE msg[x].parent \in Messages
    BY <2>1, MessageAssumption DEF Base, Tables, RowTypes, Row, Messages, None
  <2> QED
    BY <1>1, <2>1 DEF Base, Tables, RowOK
<1>5. \A f \in Files : FileOK(f)'
  BY <1>1 DEF Base, Tables, FileOK, There
<1>6. Grows
  BY <1>1 DEF Grows
<1>7. ReqOK(q)'
  BY <1>6, StillOK
<1> QED
  BY <1>2, <1>3, <1>4, <1>5, <1>6, <1>7, BaseStep DEF Tables

\* The row of a file is written.
LEMMA FileStep ==
    ASSUME Base, NEW r \in Requests, NEW q \in Request, req' = [req EXCEPT ![r] = q],
           NEW f \in Files, NEW row \in File, file' = [file EXCEPT ![f] = row],
           file[f].st # "none", row.msg = file[f].msg,
           \/ row.st = "gone" /\ row.obj = file[f].obj
           \/ file[f].st # "gone" /\ row.st = "ready" /\ row.obj = f /\ file[f].obj \in {None, f},
           UNCHANGED <<msg, lost>>, OtherTypes', ReqOK(q)
    PROVE  Base'
<1>1. /\ file'[f] = row /\ \A g \in Files : g # f => file'[g] = file[g]
      /\ f # None
  BY Ids DEF Base, Tables, RowTypes
<1>2. RowTypes'
  BY DEF Base, Tables, RowTypes
<1>3. Ordered'
  BY <1>1 DEF Base, Tables, Ordered
<1>4. \A x \in Messages : RowOK(x)'
  BY DEF Base, Tables, RowOK
<1>5. \A g \in Files : FileOK(g)'
  BY <1>1 DEF Base, Tables, FileOK, There
<1>6. Grows
  BY <1>1 DEF Grows
<1>7. ReqOK(q)'
  BY <1>6, StillOK
<1> QED
  BY <1>2, <1>3, <1>4, <1>5, <1>6, <1>7, BaseStep DEF Tables

\* The counter of the parent goes up by one.
LEMMA CountBase == ASSUME Base, NEW r \in Requests, Count(r) PROVE Base'
<1> DEFINE q == req[r]
<1>1. q \in Request /\ ReqOK(q) /\ q.pc = "count" /\ q.op = "create" /\ q.parent \in Messages
  <2>1. q \in Request /\ ReqOK(q) /\ q.pc = "count" /\ q.op = "create" /\ q.parent # None
    BY DEF Base, Count, ReqOK
  <2> QED
    BY <2>1, MessageAssumption DEF Request, Messages, None
<1>2. PICK n \in Request : req' = [req EXCEPT ![r] = n] /\ n = [q EXCEPT !.pc = "seek"]
  BY GoOn DEF Count, Pcs
<1>3. ReqOK(n)
  BY <1>1, <1>2 DEF ReqOK, Request, None
<1>4. OtherTypes'
  BY DEF Count, Unswept, Base, OtherTypes
<1>5. CASE There(q.parent)
  <2> DEFINE row == [msg[q.parent] EXCEPT !.replies = @ + 1]
  <2>1. row \in Row /\ row.st = msg[q.parent].st /\ row.parent = msg[q.parent].parent
    BY <1>1 DEF Base, Tables, RowTypes, Row
  <2>2. msg' = [msg EXCEPT ![q.parent] = row] /\ UNCHANGED <<file, lost>>
    BY <1>1, <1>5 DEF Count, Base, Tables, RowTypes
  <2> HIDE DEF row
  <2> QED
    BY <1>1, <1>2, <1>3, <1>4, <2>1, <2>2, RowStep
<1>6. CASE ~There(q.parent)
  <2>1. UNCHANGED <<msg, file, lost>>
    BY <1>6 DEF Count
  <2> QED
    BY <1>2, <1>3, <1>4, <2>1, QuietStep
<1> QED
  BY <1>5, <1>6

\* A deletion or a pin is a mark on a row.
LEMMA MarkBase == ASSUME Base, NEW r \in Requests, Mark(r) \/ Pin(r) PROVE Base'
<1> DEFINE q == req[r]
<1>1. q \in Request /\ ReqOK(q) /\ q.pc \in {"mark", "pin"} /\ q.op \in {"delete", "pin"} /\ q.m \in Messages
  BY DEF Base, Mark, Pin, ReqOK
<1>2. PICK n \in Request : req' = [req EXCEPT ![r] = n] /\ n = [q EXCEPT !.pc = "drop"]
  BY GoOn DEF Mark, Pin, Pcs
<1>3. ReqOK(n)
  BY <1>1, <1>2 DEF ReqOK, Request
<1>4. OtherTypes' /\ UNCHANGED <<file, lost>>
  BY DEF Mark, Pin, Base, OtherTypes, past
<1>5. PICK row \in Row : msg' = [msg EXCEPT ![q.m] = row] /\ row.st = msg[q.m].st /\ row.parent = msg[q.m].parent
  <2> DEFINE marked == [msg[q.m] EXCEPT !.deleted = TRUE, !.content = 0]
             pinned == [msg[q.m] EXCEPT !.pinned = q.flag]
  <2>1. msg[q.m] \in Row /\ msg \in [Messages -> Row]
    BY <1>1 DEF Base, Tables, RowTypes
  <2>2. marked \in Row /\ marked.st = msg[q.m].st /\ marked.parent = msg[q.m].parent
    <3>1. 0 \in 0 .. 2 /\ TRUE \in BOOLEAN
      OBVIOUS
    <3> QED
      BY <2>1, <3>1 DEF Row
  <2>3. pinned \in Row /\ pinned.st = msg[q.m].st /\ pinned.parent = msg[q.m].parent
    BY <1>1, <2>1 DEF Row, Request
  <2>4. \/ msg' = [msg EXCEPT ![q.m] = marked] \/ msg' = [msg EXCEPT ![q.m] = pinned]
        \/ msg' = [msg EXCEPT ![q.m] = msg[q.m]]
    BY <1>1, <2>1 DEF Mark, Pin
  <2> QED
    BY <2>1, <2>2, <2>3, <2>4
<1> QED
  BY <1>1, <1>2, <1>3, <1>4, <1>5, RowStep

\* A file becomes ready, if its row is still pending.
LEMMA UrlBase == ASSUME Base, NEW r \in Requests, Url(r) PROVE Base'
<1> DEFINE q == req[r]
<1>1. q \in Request /\ ReqOK(q) /\ q.op = "finalize" /\ q.f \in Files /\ q.pc = "url"
      /\ file[q.f].st # "none" /\ file[q.f].obj \in {None, q.f}
  BY DEF Base, Url, ReqOK
<1>2. OtherTypes' /\ UNCHANGED <<msg, lost>>
  BY DEF Url, Base, OtherTypes, past
<1>3. CASE file[q.f].st = "gone"
  BY <1>2, <1>3, FinishOK DEF Url
<1>4. CASE file[q.f].st # "gone"
  <2>1. PICK n \in Request : req' = [req EXCEPT ![r] = n] /\ n = [q EXCEPT !.pc = "drop"]
    BY <1>4, GoOn DEF Url, Pcs
  <2>2. ReqOK(n)
    BY <1>1, <2>1 DEF ReqOK, Request
  <2> DEFINE row == [file[q.f] EXCEPT !.st = "ready", !.obj = q.f]
  <2>3. file[q.f] \in File /\ file \in [Files -> File] /\ q.f \in 0 .. MaxFiles
    BY <1>1, Ids DEF Base, Tables, RowTypes
  <2>4. row \in File /\ row.st = "ready" /\ row.obj = q.f /\ row.msg = file[q.f].msg
    BY <2>3 DEF File
  <2>5. file' = [file EXCEPT ![q.f] = row]
    BY <1>1, <1>4, <2>3 DEF Url
  <2> HIDE DEF row
  <2> QED
    BY <1>1, <1>2, <1>4, <2>1, <2>2, <2>4, <2>5, FileStep
<1> QED
  BY <1>3, <1>4

\* The row of a removed attachment is gone, and its request ends.
LEMMA UnattachBase == ASSUME Base, NEW r \in Requests, Unattach(r) PROVE Base'
<1> DEFINE q == req[r]
           row == [file[q.f] EXCEPT !.st = "gone"]
<1>1. q.f \in Files /\ file[q.f].st \in {"ready", "gone"}
  BY DEF Base, Unattach, ReqOK
<1>2. OtherTypes' /\ UNCHANGED <<msg, lost>>
  BY DEF Unattach, Unswept, Base, OtherTypes
<1>3. row \in File /\ row.st = "gone" /\ row.obj = file[q.f].obj /\ row.msg = file[q.f].msg
  BY <1>1 DEF Base, Tables, RowTypes, File
<1>4. file' = [file EXCEPT ![q.f] = row] /\ req' = [req EXCEPT ![r] = Idle]
  BY <1>1 DEF Unattach, Finish, Base, Tables, RowTypes
<1> HIDE DEF row
<1> QED
  BY <1>1, <1>2, <1>3, <1>4, IdleRequest, FileStep
\* The cascade of a deletion.
LEMMA RemovedRows ==
    ASSUME Base, NEW m \in Messages, Removed(m), lost' = lost
    PROVE  /\ Tables' /\ Grows /\ liked' \subseteq Messages \X Users /\ subs' \subseteq Messages \X Users
           /\ \A x \in Messages : x # m => msg'[x] = msg[x]
           /\ msg'[m].st = (IF There(m) THEN "gone" ELSE msg[m].st)
           /\ \A f \in Files : file'[f] = IF f \in FilesOf(m) THEN [file[f] EXCEPT !.st = "gone"] ELSE file[f]
           /\ \A x \in Messages : msg'[x].parent = msg[x].parent /\ msg'[x].replies = msg[x].replies
<1>1. /\ msg \in [Messages -> Row] /\ file \in [Files -> File] /\ lost' \in [Messages -> Nat] /\ Tables
  BY DEF Base, Tables, RowTypes
<1>2. /\ \A x \in Messages : x # m => msg'[x] = msg[x]
      /\ msg'[m] = [msg[m] EXCEPT !.st = IF There(m) THEN "gone" ELSE msg[m].st]
      /\ msg' \in [Messages -> Row]
  <2> DEFINE row == [msg[m] EXCEPT !.st = IF There(m) THEN "gone" ELSE msg[m].st]
  <2>1. row \in Row
    BY <1>1 DEF Row
  <2>2. msg' = [msg EXCEPT ![m] = row]
    BY <1>1 DEF Removed, There
  <2> HIDE DEF row
  <2>3. msg' \in [Messages -> Row] /\ msg'[m] = row /\ \A x \in Messages : x # m => msg'[x] = msg[x]
    BY <1>1, <2>1, <2>2
  <2> QED
    BY <2>3 DEF row
<1>3. \A x \in Messages : msg'[x].parent = msg[x].parent /\ msg'[x].replies = msg[x].replies
                          /\ (msg'[x].st = "none" <=> msg[x].st = "none")
  BY <1>1, <1>2 DEF Row, There
<1>4. /\ file' \in [Files -> File]
      /\ \A f \in Files : file'[f] = IF f \in FilesOf(m) THEN [file[f] EXCEPT !.st = "gone"] ELSE file[f]
  <2>1. \A f \in Files : [file[f] EXCEPT !.st = "gone"] \in File
    BY <1>1 DEF File
  <2> QED
    BY <1>1, <2>1 DEF Removed
<1>5. \A f \in Files : /\ file'[f].msg = file[f].msg /\ file'[f].obj = file[f].obj
                       /\ file'[f].st = IF f \in FilesOf(m) THEN "gone" ELSE file[f].st
  BY <1>1, <1>4 DEF File
<1>6. \A f \in Files : f \in FilesOf(m) <=> file[f].msg = m /\ file[f].st \notin {"none", "gone"}
  BY DEF FilesOf
<1>7. Ordered'
  BY <1>1, <1>3, <1>5, <1>6 DEF Tables, Ordered
<1>8. \A x \in Messages : RowOK(x)'
  <2>1. ASSUME NEW x \in Messages, msg[x].parent # None PROVE msg[x].parent \in Messages
    BY <1>1, <2>1, MessageAssumption DEF Row, Messages, None
  <2> QED
    BY <1>1, <1>3, <2>1 DEF Tables, RowOK
<1>9. \A f \in Files : FileOK(f)'
  BY <1>1, <1>2, <1>5, <1>6 DEF Tables, FileOK, There
<1>10. Grows
  BY <1>1, <1>3, <1>5, <1>6 DEF Grows
<1>11. liked' \subseteq Messages \X Users /\ subs' \subseteq Messages \X Users
  BY DEF Removed, Base, OtherTypes
<1>12. msg'[m].st = (IF There(m) THEN "gone" ELSE msg[m].st)
  BY <1>1, <1>2 DEF Row
<1> QED
  BY <1>1, <1>2, <1>3, <1>4, <1>7, <1>8, <1>9, <1>10, <1>11, <1>12 DEF Tables, RowTypes

\* An abort takes the row and its files.
LEMMA AbortBase == ASSUME Base, NEW r \in Requests, Abort(r) PROVE Base'
<1> DEFINE q == req[r]
<1>1. q \in Request /\ ReqOK(q) /\ q.m \in Messages /\ q.pc = "remove" /\ q.op = "abort"
  BY DEF Base, Abort, ReqOK
<1>2. Removed(q.m) /\ lost' = lost
  BY DEF Abort, past
<1>3. PICK n \in Request : req' = [req EXCEPT ![r] = n] /\ n = [q EXCEPT !.pc = "drop"]
  BY GoOn DEF Abort, Pcs
<1>4. ReqOK(n)
  BY <1>1, <1>3 DEF ReqOK, Request
<1>5. Tables' /\ Grows /\ liked' \subseteq Messages \X Users /\ subs' \subseteq Messages \X Users
  BY <1>1, <1>2, RemovedRows
<1>6. OtherTypes'
  BY <1>5 DEF Abort, Base, OtherTypes, past
<1>7. ReqOK(n)'
  BY <1>4, <1>5, StillOK
<1> QED
  BY <1>3, <1>5, <1>6, <1>7, BaseStep

\* A clean-up takes a stale message and its files by id.
LEMMA SweepBase == ASSUME Base, NEW r \in Requests, Sweep(r) PROVE Base'
<1> DEFINE q == req[r]
<1>1. q \in Request /\ ReqOK(q) /\ q.pc = "sweep" /\ lost' = lost
  BY DEF Base, Sweep
<1>2. PICK m \in q.todo :
        /\ Removed(m)
        /\ req' = [req EXCEPT ![r] = IF q.todo = {m} THEN Idle ELSE [q EXCEPT !.todo = @ \ {m}]]
  BY DEF Sweep
<1>3. m \in Messages
  BY <1>1 DEF Request
<1>4. PICK n \in Request : req' = [req EXCEPT ![r] = n] /\ ReqOK(n)
  <2> DEFINE less == [q EXCEPT !.todo = @ \ {m}]
  <2>1. less \in Request /\ ReqOK(less)
    BY <1>1 DEF Request, ReqOK
  <2>2. req' = [req EXCEPT ![r] = Idle] \/ req' = [req EXCEPT ![r] = less]
    <3>1. CASE q.todo = {m}
      BY <1>2, <3>1
    <3>2. CASE q.todo # {m}
      BY <1>2, <3>2
    <3> QED
      BY <3>1, <3>2
  <2> QED
    BY <2>1, <2>2, IdleRequest
<1>5. Tables' /\ Grows /\ liked' \subseteq Messages \X Users /\ subs' \subseteq Messages \X Users
  BY <1>1, <1>2, <1>3, RemovedRows
<1>6. OtherTypes'
  BY <1>5 DEF Sweep, Unswept, Base, OtherTypes
<1>7. ReqOK(n)'
  BY <1>4, <1>5, StillOK
<1> QED
  BY <1>4, <1>5, <1>6, <1>7, BaseStep
\* the rows that the transaction of updateMessage leaves
EditEffect(q) ==
    /\ There(q.m) /\ q.m \in Messages
    /\ msg' = [msg EXCEPT ![q.m].content = IF q.flag THEN 0 ELSE 2]
    /\ file' \in [Files -> File]
    /\ \A f \in Files : file[f].st # "none" =>
         file'[f] = IF f \in q.dels THEN [file[f] EXCEPT !.st = "gone"] ELSE file[f]
    /\ \A f \in Files : file[f].st = "none" /\ f > Used + Len(q.new) => file'[f] = file[f]
    /\ \A f \in Files : file[f].st = "none" /\ f <= Used + Len(q.new) =>
         file'[f].msg = q.m /\ file'[f].st = "pending" /\ file'[f].obj = None
    /\ Used \in 0 .. MaxFiles /\ Used + Len(q.new) <= MaxFiles
    /\ \A f \in Files : file[f].st = "none" <=> f > Used

\* An edit writes text and files in one transaction, or its files are left torn.
LEMMA EditDoes ==
    ASSUME Base, NEW r \in Requests, Edit(r)
    PROVE  \/ EditEffect(req[r]) /\ Go(r, "drop") /\ torn' = torn
           \/ UNCHANGED <<msg, file>> /\ Finish(r) /\ torn' = torn \cup req[r].dels
<1> DEFINE q    == req[r]
           less == [f \in Files |-> IF f \in q.dels THEN [file[f] EXCEPT !.st = "gone"] ELSE file[f]]
<1>1. /\ q \in Request /\ q.new \in Seq(NewFile) /\ q.dels \subseteq Files /\ q.m \in Messages
      /\ \A i \in DOMAIN q.new : q.new[i].st = "pending" /\ q.new[i].obj = None
      /\ \A f \in q.dels : file[f].st # "none"
  <2>1. q \in Request /\ ReqOK(q) /\ q.pc = "edit" /\ q.op = "edit"
    BY DEF Base, Edit, ReqOK
  <2> QED
    BY <2>1 DEF Request, ReqOK, NewOK
<1>2. Ordered /\ file \in [Files -> File]
  BY DEF Base, Tables, RowTypes
<1>3. less \in [Files -> File]
  BY <1>2 DEF File
<1>4. Used \in 0 .. MaxFiles /\ \A f \in Files : file[f].st = "none" <=> f > Used
  BY <1>2, UsedIds
<1>5. \/ /\ There(q.m) /\ msg' = [msg EXCEPT ![q.m].content = IF q.flag THEN 0 ELSE 2]
         /\ file' = Inserted(less, q.m, q.new) /\ Used + Len(q.new) <= MaxFiles
         /\ Go(r, "drop") /\ torn' = torn
      \/ UNCHANGED <<msg, file>> /\ Finish(r) /\ torn' = torn \cup q.dels
  BY DEF Edit
<1>6. \A f \in Files : less[f] = IF f \in q.dels THEN [file[f] EXCEPT !.st = "gone"] ELSE file[f]
  OBVIOUS
<1> HIDE DEF q, less
<1>7. ASSUME file' = Inserted(less, q.m, q.new), Used + Len(q.new) <= MaxFiles, There(q.m),
             msg' = [msg EXCEPT ![q.m].content = IF q.flag THEN 0 ELSE 2]
      PROVE  EditEffect(q)
  <2>1. /\ file' \in [Files -> File]
        /\ \A f \in Files : f <= Used \/ f > Used + Len(q.new) => file'[f] = less[f]
        /\ \A f \in Files : f > Used /\ f <= Used + Len(q.new) =>
             /\ f - Used \in DOMAIN q.new /\ file'[f].msg = q.m /\ file'[f].st = q.new[f - Used].st
             /\ file'[f].obj = IF q.new[f - Used].st = "ready" /\ q.new[f - Used].obj = None
                               THEN f ELSE q.new[f - Used].obj
    BY <1>1, <1>2, <1>3, <1>7, InsertedRows
  <2>2. \A f \in Files : f > Used /\ f <= Used + Len(q.new) =>
             file'[f].msg = q.m /\ file'[f].st = "pending" /\ file'[f].obj = None
    BY <1>1, <2>1
  <2>3. \A f \in Files : file[f].st # "none" =>
          file'[f] = IF f \in q.dels THEN [file[f] EXCEPT !.st = "gone"] ELSE file[f]
    <3> SUFFICES ASSUME NEW f \in Files, file[f].st # "none"
                 PROVE  file'[f] = IF f \in q.dels THEN [file[f] EXCEPT !.st = "gone"] ELSE file[f]
      OBVIOUS
    <3>1. f <= Used
      BY <1>4, MessageAssumption DEF Files
    <3>2. file'[f] = less[f]
      BY <2>1, <3>1
    <3> QED
      BY <1>6, <3>2
  <2>4. \A f \in Files : file[f].st = "none" /\ f > Used + Len(q.new) => file'[f] = file[f]
    BY <1>1, <1>6, <2>1
  <2> QED
    BY <1>1, <1>4, <1>7, <2>1, <2>2, <2>3, <2>4 DEF EditEffect
<1> QED
  BY <1>5, <1>7 DEF q

\* An edit drops files and adds new rows.
LEMMA EditBase == ASSUME Base, NEW r \in Requests, Edit(r) PROVE Base'
<1> DEFINE q == req[r]
<1>1. /\ q \in Request /\ ReqOK(q) /\ q.op = "edit" /\ q.new \in Seq(NewFile) /\ q.dels \subseteq Files
      /\ q.flag \in BOOLEAN
  BY DEF Base, Edit, ReqOK, Request
<1>2. OtherTypes' /\ lost' = lost
  BY <1>1 DEF Edit, Base, OtherTypes
<1>3. CASE UNCHANGED <<msg, file>> /\ Finish(r)
  BY <1>2, <1>3, FinishOK
<1>4. CASE EditEffect(q) /\ Go(r, "drop")
  <2>1. PICK n \in Request : req' = [req EXCEPT ![r] = n] /\ n = [q EXCEPT !.pc = "drop"]
    BY <1>4, GoOn DEF Pcs
  <2>2. ReqOK(n)
    BY <1>1, <2>1 DEF ReqOK, Request
  <2>3. /\ msg' \in [Messages -> Row]
        /\ \A x \in Messages : msg'[x].st = msg[x].st /\ msg'[x].parent = msg[x].parent
    <3> DEFINE row == [msg[q.m] EXCEPT !.content = IF q.flag THEN 0 ELSE 2]
    <3>1. msg[q.m] \in Row /\ q.m \in Messages /\ msg \in [Messages -> Row]
      BY <1>4 DEF EditEffect, Base, Tables, RowTypes
    <3>2. (IF q.flag THEN 0 ELSE 2) \in 0 .. 2
      OBVIOUS
    <3>3. row \in Row /\ row.st = msg[q.m].st /\ row.parent = msg[q.m].parent
      BY <3>1, <3>2 DEF Row
    <3>4. msg' = [msg EXCEPT ![q.m] = row]
      BY <1>4, <3>1 DEF EditEffect
    <3> HIDE DEF row
    <3> QED
      BY <3>1, <3>3, <3>4
  <2>4. /\ file \in [Files -> File] /\ file' \in [Files -> File]
        /\ \A f \in Files : file[f].st # "none" =>
             file'[f] = IF f \in q.dels THEN [file[f] EXCEPT !.st = "gone"] ELSE file[f]
        /\ \A f \in Files : file[f].st = "none" =>
             \/ file'[f] = file[f]
             \/ file'[f].msg = q.m /\ file'[f].st = "pending" /\ file'[f].obj = None
    BY <1>1, <1>4 DEF EditEffect, Base, Tables, RowTypes, Files
  <2>5. \A f \in Files : file[f].st # "none" =>
          /\ file'[f].msg = file[f].msg /\ file'[f].obj = file[f].obj
          /\ file'[f].st = IF f \in q.dels THEN "gone" ELSE file[f].st
    BY <2>4 DEF File
  <2>6. Ordered'
    <3>1. Used + Len(q.new) \in 0 .. MaxFiles
      BY <1>1, <1>4 DEF EditEffect
    <3>2. \A f \in Files : file'[f].st = "none" <=> f > Used + Len(q.new)
      <4>1. ASSUME NEW f \in Files, f <= Used PROVE file'[f].st # "none"
        <5>1. file[f].st # "none"
          BY <1>4, <4>1 DEF EditEffect, Files
        <5> QED
          BY <2>5, <5>1
      <4>2. ASSUME NEW f \in Files, f > Used
            PROVE  file'[f].st = "none" <=> f > Used + Len(q.new)
        BY <1>1, <1>4, <4>2, MessageAssumption DEF EditEffect, Files
      <4> QED
        BY <1>1, <1>4, <4>1, <4>2 DEF EditEffect, Files
    <3> QED
      BY <2>3, <3>1, <3>2 DEF Base, Tables, Ordered
  <2>7. \A x \in Messages : RowOK(x)'
    <3>1. ASSUME NEW x \in Messages, msg[x].parent # None PROVE msg[x].parent \in Messages
      BY <3>1, MessageAssumption DEF Base, Tables, RowTypes, Row, Messages, None
    <3> QED
      BY <1>2, <2>3, <3>1 DEF Base, Tables, RowOK
  <2>8. \A f \in Files : FileOK(f)'
    <3> SUFFICES ASSUME NEW f \in Files PROVE FileOK(f)'
      OBVIOUS
    <3>1. CASE file[f].st # "none"
      BY <2>3, <2>5, <3>1 DEF Base, Tables, FileOK, There
    <3>2. CASE file[f].st = "none"
      BY <1>4, <2>3, <2>4, <3>2 DEF Base, Tables, FileOK, There, EditEffect
    <3> QED
      BY <3>1, <3>2
  <2>9. Grows
    <3>1. \A f \in Files : file[f].obj # None => file[f].st # "none"
      BY DEF Base, Tables, FileOK
    <3> QED
      BY <2>3, <2>5, <3>1 DEF Grows
  <2>10. ReqOK(n)'
    BY <2>2, <2>9, StillOK
  <2>11. Tables'
    BY <1>2, <2>3, <2>4, <2>6, <2>7, <2>8 DEF Tables, RowTypes, Base
  <2> QED
    BY <1>2, <2>1, <2>9, <2>10, <2>11, BaseStep
<1> QED
  BY <1>3, <1>4, EditDoes

\* A request that stops leaves its rows as they are.
LEMMA StopBase == ASSUME Base, NEW r \in Requests, Stop(r) PROVE Base'
<1> DEFINE q == req[r]
<1>1. q \in Request /\ ReqOK(q)
  BY DEF Base
<1>2. UNCHANGED <<msg, file>> /\ req' = [req EXCEPT ![r] = Idle]
  BY DEF Stop, Finish, tables
<1>3. OtherTypes'
  <2>1. q.op \in {"create", "finalize"} => q.m \in Messages
    BY <1>1 DEF Stop, ReqOK
  <2> QED
    BY <1>1, <2>1 DEF Stop, Base, OtherTypes, Request, tables
<1>4. lost' \in [Messages -> Nat] /\ \A x \in Messages : msg[x].st = "none" => lost'[x] = 0
  <2>1. CASE Uncounted(r)
    <3>1. q.parent \in Messages /\ msg[q.parent].st # "none"
      BY <1>1, <2>1, MessageAssumption DEF Uncounted, ReqOK, Request, Messages, None
    <3>2. lost' = [lost EXCEPT ![q.parent] = @ + 1]
      BY <2>1 DEF Stop
    <3> QED
      BY <3>1, <3>2 DEF Base, Tables, RowTypes, RowOK
  <2>2. CASE ~Uncounted(r)
    BY <2>2 DEF Stop, Base, Tables, RowTypes, RowOK
  <2> QED
    BY <2>1, <2>2
<1>5. Tables'
  <2>1. RowTypes' /\ Ordered'
    BY <1>2, <1>4 DEF Base, Tables, RowTypes, Ordered
  <2>2. \A x \in Messages : RowOK(x)'
    BY <1>2, <1>4 DEF Base, Tables, RowOK
  <2>3. \A f \in Files : FileOK(f)'
    BY <1>2 DEF Base, Tables, FileOK, There
  <2> QED
    BY <2>1, <2>2, <2>3 DEF Tables
<1>6. Grows
  BY <1>2 DEF Grows
<1>7. Idle \in Request /\ ReqOK(Idle)'
  BY <1>6, IdleRequest, StillOK
<1> QED
  BY <1>2, <1>3, <1>5, <1>6, <1>7, BaseStep
(***************************************************************************)
(* The types and the shape of rows and requests, always                    *)
(***************************************************************************)
LEMMA BaseInit == ASSUME Init PROVE Base
<1>1. PICK u \in Users, n \in 0 .. 2 :
        /\ n <= MaxFiles
        /\ msg = [m \in Messages |-> IF m = 1 THEN NewMessage(u) ELSE [NewMessage(u) EXCEPT !.st = "none"]]
        /\ file = [f \in Files |-> IF f <= n THEN [NoFile EXCEPT !.st = "pending", !.msg = 1] ELSE NoFile]
        /\ told = [m \in Messages |-> IF m = 1 /\ n = 0 THEN {"job", "cast"} ELSE {}]
  BY DEF Init
<1>2. 1 \in Messages /\ 0 \in 0 .. MaxMessages /\ 1 \in 0 .. 2 /\ 0 \in 0 .. MaxFiles /\ 1 \in 0 .. MaxMessages
  BY MessageAssumption DEF Messages
<1>3. /\ NewMessage(u) \in Row /\ [NewMessage(u) EXCEPT !.st = "none"] \in Row
      /\ NewMessage(u).st = "there" /\ [NewMessage(u) EXCEPT !.st = "none"].st = "none"
      /\ NewMessage(u).parent = None /\ [NewMessage(u) EXCEPT !.st = "none"].parent = None
  BY <1>2 DEF NewMessage, Row, None
<1>4. /\ NoFile \in File /\ [NoFile EXCEPT !.st = "pending", !.msg = 1] \in File
      /\ NoFile.st = "none" /\ NoFile.obj = None
      /\ [NoFile EXCEPT !.st = "pending", !.msg = 1].st = "pending"
      /\ [NoFile EXCEPT !.st = "pending", !.msg = 1].obj = None
      /\ [NoFile EXCEPT !.st = "pending", !.msg = 1].msg = 1
  BY <1>2 DEF NoFile, File, None
<1>5. RowTypes
  <2>1. msg \in [Messages -> Row]
    BY <1>1, <1>3
  <2>2. file \in [Files -> File]
    BY <1>1, <1>4
  <2>3. lost \in [Messages -> Nat]
    BY DEF Init
  <2> QED
    BY <2>1, <2>2, <2>3 DEF RowTypes
<1>6. Ordered
  <2>1. \A m \in Messages : msg[m].st = "none" <=> m > 1
    BY <1>1, <1>3, MessageAssumption DEF Messages
  <2>2. \A f \in Files : file[f].st = "none" <=> f > n
    BY <1>1, <1>4, MessageAssumption DEF Files
  <2>3. n \in 0 .. MaxFiles
    BY <1>1, MessageAssumption
  <2> QED
    BY <1>2, <2>1, <2>2, <2>3 DEF Ordered
<1>7. \A m \in Messages : RowOK(m)
  BY <1>1, <1>3 DEF RowOK, Init
<1>8. \A f \in Files : FileOK(f)
  BY <1>1, <1>2, <1>3, <1>4 DEF FileOK, There
<1>9. OtherTypes
  <2>1. NoPage \in Pages /\ View \in Pages
    BY <1>5, ViewPage DEF Pages
  <2>2. told \in [Messages -> SUBSET {"job", "cast"}]
    BY <1>1
  <2> QED
    BY <2>1, <2>2 DEF OtherTypes, Init
<1>10. req \in [Requests -> Request] /\ \A x \in Requests : ReqOK(req[x])
  BY IdleRequest DEF Init
<1> QED
  BY <1>5, <1>6, <1>7, <1>8, <1>9, <1>10 DEF Base, Tables

\* Every step keeps the types, the order of the rows and what was read.
LEMMA BaseNext == ASSUME Base, [Next]_vars PROVE Base'
<1>1. ASSUME NEW r \in Requests, Arrive(r) PROVE Base'
  <2>1. ASSUME NEW u \in Users, ArriveCreate(r, u) \/ ArriveForward(r, u) PROVE Base'
    BY <2>1, CreateArrives, ForwardArrives
  <2>2. ASSUME NEW m \in Messages, ArriveDelete(r, m) \/ ArriveAbort(r, m) \/ ArrivePin(r, m)
        PROVE  Base'
    <3>1. PICK u \in Users : TRUE
      BY <2>2 DEF Base, Tables, RowTypes, Row
    <3> QED
      BY <2>2, <3>1, SimpleArrives
  <2>3. ASSUME NEW m \in Messages, NEW u \in Users, ArriveLike(r, m, u) PROVE Base'
    BY <2>3, SimpleArrives
  <2> QED
    BY <1>1, <2>1, <2>2, <2>3, FinalizeArrives, EditArrives, UnattachArrives, GetArrives DEF Arrive
<1>2. ASSUME NEW r \in Requests, Step(r) PROVE Base'
  BY <1>2, InsertBase, CountBase, SeekBase, TellBase, UrlBase, LookBase, ObjectsBase, EditBase,
     UnattachBase, MarkBase, AbortBase, LikeBase, SweepBase, DropBase DEF Step
<1>3. CASE Expire
  <2>1. Tables' /\ Grows
    BY <1>3, SameTables DEF Expire, tables, Base
  <2>2. OtherTypes'
    BY <1>3 DEF Expire, tables, Base, OtherTypes, Pages
  <2>3. ASSUME NEW x \in Requests PROVE ReqOK(req[x])'
    <3>1. PICK q \in Request : q = req[x] /\ ReqOK(q)
      BY DEF Base
    <3>2. ReqOK(q)' /\ req'[x] = q
      BY <1>3, <2>1, <3>1, StillOK DEF Expire
    <3> QED
      BY <3>2
  <2> QED
    BY <1>3, <2>1, <2>2, <2>3 DEF Expire, Base
<1>4. CASE UNCHANGED vars
  <2>1. Tables' /\ Grows
    BY <1>4, SameTables DEF vars, tables, past, Base
  <2>2. OtherTypes'
    BY <1>4 DEF vars, tables, past, Base, OtherTypes, Pages
  <2>3. ASSUME NEW x \in Requests PROVE ReqOK(req[x])'
    <3>1. PICK q \in Request : q = req[x] /\ ReqOK(q)
      BY DEF Base
    <3>2. ReqOK(q)' /\ req'[x] = q
      BY <1>4, <2>1, <3>1, StillOK DEF vars
    <3> QED
      BY <3>2
  <2> QED
    BY <1>4, <2>1, <2>2, <2>3 DEF vars, Base
<1> QED
  BY <1>1, <1>2, <1>3, <1>4, StopBase DEF Next
(***************************************************************************)
(* The reply counters                                                      *)
(***************************************************************************)
LEMMA CountedMeans == RepliesCounted <=> Counted
<1>1. ASSUME NEW p \in Messages
      PROVE  {r \in Requests : Uncounted(r) /\ req[r].parent = p} = Waiting(p)
  BY Ids DEF Waiting, Counts, Uncounted
<1> QED
  BY <1>1 DEF RepliesCounted, Counted, Replies

\* Who has yet to count a reply, after the step of one request.
LEMMA WaitingNext ==
    ASSUME Base, NEW r \in Requests, NEW q, req' = [req EXCEPT ![r] = q], NEW p
    PROVE  Waiting(p)' = IF Counts(q) = p THEN Waiting(p) \cup {r} ELSE Waiting(p) \ {r}
<1>1. req'[r] = q /\ \A x \in Requests : x # r => req'[x] = req[x]
  BY DEF Base
<1> QED
  BY <1>1 DEF Waiting, Counts

\* A step that neither inserts nor counts a reply keeps the counters right.
LEMMA CountedFrame ==
    ASSUME Base, Counted, NEW r \in Requests, NEW q, req' = [req EXCEPT ![r] = q],
           Counts(q) = Counts(req[r]), lost' = lost,
           \A m \in Messages : /\ msg'[m].parent = msg[m].parent
                               /\ msg'[m].st = "none" <=> msg[m].st = "none"
                               /\ msg'[m].st = "there" => msg[m].st = "there" /\ msg'[m].replies = msg[m].replies
    PROVE  Counted'
<1>1. ASSUME NEW p \in Messages PROVE Waiting(p)' = Waiting(p) /\ Replies(p)' = Replies(p)
  BY WaitingNext DEF Waiting, Replies
<1> QED
  BY <1>1 DEF Counted, There

\* So does a step of nobody.
LEMMA CountedSame == ASSUME Counted, req' = req, msg' = msg, lost' = lost PROVE Counted'
BY DEF Counted, Waiting, Counts, Replies, There

\* A reply is waited for from the transaction that inserts it.
LEMMA CountedInsert ==
    ASSUME IsFiniteSet(Requests), Base, Counted, NEW r \in Requests, Insert(r)
    PROVE  Counted'
<1> DEFINE q == req[r]
<1>1. /\ q \in Request /\ q.op = "create" /\ q.pc = "insert"
      /\ q.parent # None => q.parent \in Messages /\ msg[q.parent].st # "none"
  <2>1. q \in Request /\ ReqOK(q) /\ q.pc = "insert" /\ q.op = "create"
    BY DEF Base, Insert, ReqOK
  <2> QED
    BY <2>1, MessageAssumption DEF Request, ReqOK, Messages, None
<1>2. PICK m \in Messages :
        /\ msg[m].st = "none" /\ lost' = lost
        /\ msg' = [msg EXCEPT ![m] = [NewMessage(q.user) EXCEPT
                                     !.parent = q.parent, !.source = q.source, !.content = q.text]]
        /\ req' = [req EXCEPT ![r].pc = "drop", ![r].m = m,
                              ![r].flag = \E i \in DOMAIN q.new : q.new[i].st = "pending"]
  BY InsertDoes DEF InsertEffect, Insert, past
<1>3. PICK n : req' = [req EXCEPT ![r] = n] /\ Counts(n) = q.parent
  <2> DEFINE n == [q EXCEPT !.pc = "drop", !.m = m, !.flag = \E i \in DOMAIN q.new : q.new[i].st = "pending"]
  <2>1. req' = [req EXCEPT ![r] = n]
    BY <1>2 DEF Base
  <2>2. n.op = "create" /\ n.pc = "drop" /\ n.parent = q.parent
    BY <1>1 DEF Request
  <2> QED
    BY <2>1, <2>2 DEF Counts
<1>4. /\ msg'[m].st = "there" /\ msg'[m].parent = q.parent /\ msg'[m].replies = 0
      /\ \A x \in Messages : x # m => msg'[x] = msg[x]
  BY <1>2 DEF Base, Tables, RowTypes, NewMessage
<1>5. Counts(q) = None
  BY <1>1 DEF Counts
<1>6. ASSUME NEW p \in Messages
      PROVE  /\ IsFiniteSet(Waiting(p)) /\ IsFiniteSet(Replies(p))
             /\ Cardinality(Waiting(p)) \in Nat /\ Cardinality(Replies(p)) \in Nat
             /\ r \notin Waiting(p) /\ m \notin Replies(p)
  <2>1. Waiting(p) \subseteq Requests /\ Replies(p) \subseteq Messages
    BY DEF Waiting, Replies
  <2>2. IsFiniteSet(Waiting(p)) /\ IsFiniteSet(Replies(p))
    BY <2>1, FilesFinite, FS_Subset
  <2> QED
    BY <1>2, <1>5, <2>2, FS_CardinalityType, Ids DEF Waiting, Replies
<1> SUFFICES ASSUME NEW p \in Messages, There(p)'
             PROVE  msg'[p].replies + lost'[p] + Cardinality(Waiting(p))' = Cardinality(Replies(p))'
  BY DEF Counted
<1>7. Waiting(p)' = IF q.parent = p THEN Waiting(p) \cup {r} ELSE Waiting(p) \ {r}
  BY <1>3, WaitingNext
<1>8. Replies(p)' = IF q.parent = p THEN Replies(p) \cup {m} ELSE Replies(p)
  BY <1>2, <1>4 DEF Replies
<1>9. CASE p = m
  <2>1. Waiting(p) = {} /\ Replies(p) = {}
    <3>1. ASSUME NEW x \in Requests PROVE Counts(req[x]) # m
      <4>1. ReqOK(req[x])
        BY DEF Base
      <4> QED
        BY <1>2, <4>1, Ids DEF Counts, ReqOK
    <3>2. ASSUME NEW x \in Messages, msg[x].st # "none" PROVE msg[x].parent # m
      BY <1>2, Ids DEF Base, Tables, RowOK
    <3> QED
      BY <1>9, <3>1, <3>2 DEF Waiting, Replies
  <2>2. q.parent # p
    BY <1>1, <1>2, <1>9, Ids
  <2>3. lost'[p] = 0 /\ msg'[p].replies = 0
    BY <1>2, <1>4, <1>9 DEF Base, Tables, RowOK
  <2> QED
    BY <1>7, <1>8, <2>1, <2>2, <2>3, FS_EmptySet
<1>10. CASE p # m
  <2>1. msg'[p] = msg[p] /\ There(p) /\ lost'[p] = lost[p] /\ msg[p].replies \in Nat /\ lost[p] \in Nat
    BY <1>2, <1>4, <1>10 DEF There, Base, Tables, RowTypes, Row
  <2>2. msg[p].replies + lost[p] + Cardinality(Waiting(p)) = Cardinality(Replies(p))
    BY <2>1 DEF Counted
  <2>3. CASE q.parent = p
    <3>1. Cardinality(Waiting(p) \cup {r}) = Cardinality(Waiting(p)) + 1
          /\ Cardinality(Replies(p) \cup {m}) = Cardinality(Replies(p)) + 1
      BY <1>6, FS_AddElement
    <3> QED
      BY <1>6, <1>7, <1>8, <2>1, <2>2, <2>3, <3>1
  <2>4. CASE q.parent # p
    <3>1. Waiting(p)' = Waiting(p) /\ Replies(p)' = Replies(p)
      BY <1>6, <1>7, <1>8, <2>4
    <3> QED
      BY <2>1, <2>2, <3>1
  <2> QED
    BY <2>3, <2>4
<1> QED
  BY <1>9, <1>10

\* It is counted, or its request stops and it is lost.
LEMMA CountedEnd ==
    ASSUME IsFiniteSet(Requests), Base, Counted, NEW r \in Requests, Counts(req[r]) # None,
           NEW q, req' = [req EXCEPT ![r] = q], Counts(q) = None,
           LET p == req[r].parent IN
             \/ /\ lost' = lost
                /\ msg' = IF There(p) THEN [msg EXCEPT ![p].replies = @ + 1] ELSE msg
             \/ lost' = [lost EXCEPT ![p] = @ + 1] /\ msg' = msg
    PROVE  Counted'
<1> DEFINE p == req[r].parent
<1>1. p \in Messages /\ Counts(req[r]) = p
  <2>1. p # None /\ p \in 0 .. MaxMessages /\ Counts(req[r]) = p
    BY DEF Counts, Base, Request
  <2> QED
    BY <2>1, MessageAssumption DEF Messages, None
<1>2. /\ msg \in [Messages -> Row] /\ lost \in [Messages -> Nat]
      /\ \A x \in Messages : msg[x].replies \in Nat /\ msg[x] \in Row
  BY DEF Base, Tables, RowTypes, Row
<1>3. ASSUME NEW x \in Messages
      PROVE  /\ msg'[x].st = msg[x].st /\ msg'[x].parent = msg[x].parent
             /\ x # p => msg'[x].replies = msg[x].replies /\ lost'[x] = lost[x]
             /\ x = p /\ There(p) => msg'[x].replies + lost'[x] = msg[x].replies + lost[x] + 1
             /\ msg'[x].replies \in Nat /\ lost'[x] \in Nat
  <2>1. CASE lost' = lost /\ msg' = [msg EXCEPT ![p].replies = @ + 1] /\ There(p)
    <3>1. msg'[x] = IF x = p THEN [msg[p] EXCEPT !.replies = @ + 1] ELSE msg[x]
      BY <1>1, <1>2, <2>1
    <3>2. msg[p].replies \in Nat /\ msg[p] \in Row
      BY <1>1, <1>2
    <3> DEFINE row == [msg[p] EXCEPT !.replies = @ + 1]
    <3>3. row.st = msg[p].st /\ row.parent = msg[p].parent /\ row.replies = msg[p].replies + 1
      BY <3>2 DEF Row
    <3> HIDE DEF row
    <3>4. lost'[x] = lost[x] /\ lost[x] \in Nat /\ msg[x].replies \in Nat
      BY <1>2, <2>1
    <3>5. CASE x = p
      <4>1. msg'[x] = row
        BY <3>1, <3>5 DEF row
      <4> QED
        BY <3>2, <3>3, <3>4, <3>5, <4>1
    <3>6. CASE x # p
      BY <3>1, <3>4, <3>6
    <3> QED
      BY <3>5, <3>6
  <2>2. CASE lost' = lost /\ msg' = msg /\ ~There(p)
    BY <1>2, <2>2
  <2>3. CASE lost' = [lost EXCEPT ![p] = @ + 1] /\ msg' = msg
    BY <1>1, <1>2, <2>3
  <2> QED
    BY <2>1, <2>2, <2>3
<1> HIDE DEF p
<1> SUFFICES ASSUME NEW x \in Messages, There(x)'
             PROVE  msg'[x].replies + lost'[x] + Cardinality(Waiting(x))' = Cardinality(Replies(x))'
  BY DEF Counted
<1>4. There(x) /\ msg[x].replies + lost[x] + Cardinality(Waiting(x)) = Cardinality(Replies(x))
  BY <1>3 DEF Counted, There
<1>5. Replies(x)' = Replies(x)
  BY <1>3 DEF Replies
<1>6. Waiting(x)' = Waiting(x) \ {r} /\ (r \in Waiting(x) <=> x = p)
  <2>1. Waiting(x)' = Waiting(x) \ {r}
    BY WaitingNext, Ids
  <2> QED
    BY <1>1, <2>1 DEF Waiting
<1>7. IsFiniteSet(Waiting(x)) /\ Cardinality(Waiting(x)) \in Nat
  <2>1. Waiting(x) \subseteq Requests
    BY DEF Waiting
  <2>2. IsFiniteSet(Waiting(x))
    BY <2>1, FS_Subset
  <2> QED
    BY <2>2, FS_CardinalityType
<1>8. Cardinality(Waiting(x) \ {r}) = IF x = p THEN Cardinality(Waiting(x)) - 1 ELSE Cardinality(Waiting(x))
  BY <1>6, <1>7, FS_RemoveElement
<1>9. msg[x].replies \in Nat /\ lost[x] \in Nat /\ Cardinality(Waiting(x))' = Cardinality(Waiting(x) \ {r})
      /\ Cardinality(Replies(x))' = Cardinality(Replies(x))
  BY <1>2, <1>5, <1>6
<1>10. CASE x = p
  BY <1>3, <1>4, <1>7, <1>8, <1>9, <1>10
<1>11. CASE x # p
  BY <1>3, <1>4, <1>7, <1>8, <1>9, <1>11
<1> QED
  BY <1>10, <1>11
\* What all requests that arrive have in common.
Call(r, q) ==
    /\ Begin(r, q) /\ stored \subseteq stored'
    /\ q.pc \notin {"drop", "count", "seek", "join", "cast", "look", "last", "unattach"}
    /\ q.pc = "url" => q.f \in stored'
\* What arrives writes nothing before its first statement.
LEMMA Arrives == ASSUME NEW r \in Requests, Arrive(r) PROVE \E q : Call(r, q)
<1>1. ASSUME NEW u \in Users, ArriveCreate(r, u) PROVE \E q : Call(r, q)
  <2>1. PICK p \in {m \in Messages : There(m)} \cup {None}, n \in {<<>>, Fresh("ready"), Fresh("pending")} :
          Begin(r, [Idle EXCEPT !.pc = "insert", !.op = "create", !.user = u, !.parent = p, !.new = n])
    BY <1>1 DEF ArriveCreate
  <2>2. PICK q : q = [Idle EXCEPT !.pc = "insert", !.op = "create", !.user = u, !.parent = p, !.new = n]
    OBVIOUS
  <2>3. Begin(r, q) /\ q.pc = "insert"
    BY <2>1, <2>2 DEF Idle
  <2> QED
    BY <1>1, <2>3 DEF ArriveCreate, Call
<1>2. ASSUME NEW u \in Users, ArriveForward(r, u) PROVE \E q : Call(r, q)
  <2>1. PICK s, t, n :
          Begin(r, [Idle EXCEPT !.pc = "insert", !.op = "create", !.user = u, !.text = t, !.source = s, !.new = n])
    BY <1>2 DEF ArriveForward
  <2>2. PICK q : q = [Idle EXCEPT !.pc = "insert", !.op = "create", !.user = u, !.text = t, !.source = s, !.new = n]
    OBVIOUS
  <2>3. Begin(r, q) /\ q.pc = "insert"
    BY <2>1, <2>2 DEF Idle
  <2> QED
    BY <1>2, <2>3 DEF ArriveForward, Call
<1>3. CASE ArriveFinalize(r)
  <2>1. PICK f \in Files, m \in {file[x].msg : x \in Files} :
          /\ Begin(r, [Idle EXCEPT !.pc = "url", !.op = "finalize", !.m = m, !.f = f])
          /\ stored' = stored \cup {f}
    BY <1>3 DEF ArriveFinalize
  <2>2. PICK q : q = [Idle EXCEPT !.pc = "url", !.op = "finalize", !.m = m, !.f = f]
    OBVIOUS
  <2>3. Begin(r, q) /\ q.pc = "url" /\ q.f = f
    BY <2>1, <2>2 DEF Idle
  <2> QED
    BY <2>1, <2>3 DEF Call
<1>4. CASE ArriveEdit(r)
  <2>1. PICK m, n, d, e :
          Begin(r, [Idle EXCEPT !.pc = IF d = {} THEN "edit" ELSE "objects", !.op = "edit",
                                !.m = m, !.dels = d, !.new = n, !.flag = e])
    BY <1>4 DEF ArriveEdit
  <2>2. PICK q : q = [Idle EXCEPT !.pc = IF d = {} THEN "edit" ELSE "objects", !.op = "edit",
                                  !.m = m, !.dels = d, !.new = n, !.flag = e]
    OBVIOUS
  <2>3. Begin(r, q) /\ q.pc \in {"edit", "objects"}
    BY <2>1, <2>2 DEF Idle
  <2> QED
    BY <1>4, <2>3 DEF ArriveEdit, Call
<1>5. CASE ArriveUnattach(r)
  <2>1. PICK f, m : Begin(r, [Idle EXCEPT !.pc = "objects", !.op = "unattach", !.m = m, !.f = f, !.dels = {f}])
    BY <1>5 DEF ArriveUnattach
  <2>2. PICK q : q = [Idle EXCEPT !.pc = "objects", !.op = "unattach", !.m = m, !.f = f, !.dels = {f}]
    OBVIOUS
  <2>3. Begin(r, q) /\ q.pc = "objects"
    BY <2>1, <2>2 DEF Idle
  <2> QED
    BY <1>5, <2>3 DEF ArriveUnattach, Call
<1>6. ASSUME NEW m \in Messages, NEW u,
             ArriveDelete(r, m) \/ ArriveAbort(r, m) \/ ArrivePin(r, m) \/ ArriveLike(r, m, u)
      PROVE  \E q : Call(r, q)
  <2>1. PICK q : /\ Begin(r, q)
                 /\ \/ q = [Idle EXCEPT !.pc = "mark", !.op = "delete", !.m = m]
                    \/ q = [Idle EXCEPT !.pc = "remove", !.op = "abort", !.m = m]
                    \/ q = [Idle EXCEPT !.pc = "pin", !.op = "pin", !.m = m, !.flag = ~msg[m].pinned]
                    \/ q = [Idle EXCEPT !.pc = "like", !.op = "like", !.m = m, !.user = u, !.flag = <<m, u>> \in liked]
    BY <1>6 DEF ArriveDelete, ArriveAbort, ArrivePin, ArriveLike
  <2>2. q.pc \in {"mark", "remove", "pin", "like"}
    BY <2>1 DEF Idle
  <2> QED
    BY <1>6, <2>1, <2>2 DEF ArriveDelete, ArriveAbort, ArrivePin, ArriveLike, Call
<1>7. CASE ArriveGet(r)
  <2>1. PICK q : q = [Idle EXCEPT !.pc = "store", !.op = "get", !.page = View]
    OBVIOUS
  <2>2. Begin(r, q) /\ q.pc = "store"
    BY <1>7, <2>1 DEF ArriveGet, Idle
  <2> QED
    BY <1>7, <2>2 DEF ArriveGet, Call
<1>8. CASE ArriveClean(r)
  <2>1. PICK s : Begin(r, [Idle EXCEPT !.pc = "sweep", !.op = "clean", !.todo = s])
    BY <1>8 DEF ArriveClean
  <2>2. PICK q : q = [Idle EXCEPT !.pc = "sweep", !.op = "clean", !.todo = s]
    OBVIOUS
  <2>3. Begin(r, q) /\ q.pc = "sweep"
    BY <2>1, <2>2 DEF Idle
  <2> QED
    BY <1>8, <2>3 DEF ArriveClean, Call
<1> QED
  BY <1>1, <1>2, <1>3, <1>4, <1>5, <1>6, <1>7, <1>8 DEF Arrive

\* Finishing, and going on: the request in its next state.
LEMMA Nexts ==
    ASSUME Base, NEW r \in Requests
    PROVE  /\ Finish(r) => req' = [req EXCEPT ![r] = Idle]
           /\ \A pc : Go(r, pc) => \E q : /\ req' = [req EXCEPT ![r] = q]
                                          /\ q = [req[r] EXCEPT !.pc = pc] /\ q.pc = pc
BY DEF Finish, Go, Base, Request
\* Every step keeps the counters right: an insertion adds one that waits, a
\* count takes it off.
LEMMA CountedNext ==
    ASSUME IsFiniteSet(Requests), Base, Counted, [Next]_vars
    PROVE  Counted'
<1>0. Counts(Idle) = None
  BY DEF Counts, Idle
<1>1. ASSUME NEW r \in Requests, Arrive(r) PROVE Counted'
  <2>1. PICK q : Call(r, q)
    BY <1>1, Arrives
  <2>2. req' = [req EXCEPT ![r] = q] /\ UNCHANGED <<msg, lost>> /\ Counts(q) = None /\ Counts(req[r]) = None
    BY <1>0, <2>1 DEF Call, Begin, Free, tables, past, Counts
  <2> QED
    BY <2>2, CountedFrame
<1>2. ASSUME NEW r \in Requests, Step(r) PROVE Counted'
  <2> DEFINE p == req[r]
  <2>1. p \in Request /\ ReqOK(p)
    BY DEF Base
  <2>2. CASE Insert(r)
    BY <2>2, CountedInsert
  <2>3. CASE Count(r)
    <3>1. PICK q : req' = [req EXCEPT ![r] = q] /\ q.pc = "seek"
      BY <2>3, Nexts DEF Count
    <3>2. Counts(p) # None /\ Counts(q) = None
      BY <2>1, <2>3, <3>1 DEF Counts, ReqOK, Count
    <3> QED
      BY <2>3, <3>1, <3>2, CountedEnd DEF Count
  <2>4. CASE Seek(r) \/ Join(r)
    <3>1. Counts(p) = None /\ UNCHANGED <<msg, lost>>
      BY <2>4 DEF Seek, Join, Counts, tables, past
    <3>2. PICK q : req' = [req EXCEPT ![r] = q] /\ Counts(q) = None
      <4>1. Counts(Onward(p)) = None /\ Counts([p EXCEPT !.pc = "join"]) = None
        BY <2>1 DEF Onward, Counts, Request
      <4> QED
        BY <1>0, <2>4, <4>1 DEF Seek, Join, Finish
    <3> QED
      BY <3>1, <3>2, CountedFrame
  <2>5. CASE Cast(r) \/ Announce(r) \/ Like(r) \/ Store(r) \/ Unattach(r)
    <3>1. /\ Counts(p) = None /\ UNCHANGED <<msg, lost>>
          /\ req' = [req EXCEPT ![r] = Idle]
      BY <2>5 DEF Cast, Announce, Like, Store, Unattach, Finish, Counts, tables, past
    <3> QED
      BY <1>0, <3>1, CountedFrame
  <2>6. CASE Url(r) \/ Look(r) \/ Objects(r)
    <3>1. Counts(p) = None /\ p.op # "create" /\ UNCHANGED <<msg, lost>>
      BY <2>1, <2>6 DEF Url, Look, Objects, ReqOK, Counts, tables, past
    <3>2. PICK q : req' = [req EXCEPT ![r] = q] /\ (q = Idle \/ q.op # "create")
      <4>1. \A pc, b : [p EXCEPT !.pc = pc].op = p.op /\ [p EXCEPT !.pc = pc, !.flag = b].op = p.op
        BY <2>1 DEF Request
      <4>2. CASE Finish(r)
        BY <4>2 DEF Finish
      <4>3. ASSUME NEW pc, Go(r, pc) PROVE req' = [req EXCEPT ![r] = [p EXCEPT !.pc = pc]]
        BY <4>3 DEF Go, Base
      <4>4. CASE Look(r) /\ ~Finish(r)
        <5>1. req' = [req EXCEPT ![r] = [p EXCEPT !.pc = "last", !.flag = StillPending(p.m)]]
          BY <4>4 DEF Look, Base
        <5> QED
          BY <3>1, <4>1, <5>1
      <4> QED
        BY <2>6, <3>1, <4>1, <4>2, <4>3, <4>4 DEF Url, Objects
    <3>3. Counts(q) = None
      BY <1>0, <3>2 DEF Counts
    <3> QED
      BY <3>1, <3>2, <3>3, CountedFrame
  <2>7. CASE Edit(r) \/ Mark(r) \/ Pin(r) \/ Abort(r)
    <3>1. Counts(p) = None /\ p.op # "create" /\ lost' = lost
      BY <2>1, <2>7 DEF Edit, Mark, Pin, Abort, ReqOK, Counts, past
    <3>2. PICK q : req' = [req EXCEPT ![r] = q] /\ Counts(q) = None
      <4>1. [p EXCEPT !.pc = "drop"].op = p.op
        BY <2>1 DEF Request
      <4>2. CASE Go(r, "drop")
        <5>1. req' = [req EXCEPT ![r] = [p EXCEPT !.pc = "drop"]]
          BY <4>2 DEF Go, Base
        <5> QED
          BY <3>1, <4>1, <5>1 DEF Counts
      <4> QED
        BY <1>0, <2>7, <4>2 DEF Edit, Mark, Pin, Abort, Finish
    <3>3. \A m \in Messages : /\ msg'[m].parent = msg[m].parent
                              /\ msg'[m].st = "none" <=> msg[m].st = "none"
                              /\ msg'[m].st = "there" => msg[m].st = "there" /\ msg'[m].replies = msg[m].replies
      <4>1. CASE Abort(r)
        <5>1. p.m \in Messages
          BY <2>1, <4>1 DEF Abort, ReqOK
        <5> QED
          BY <3>1, <4>1, <5>1, RemovedRows DEF Abort, There
      <4>2. CASE Edit(r) \/ Mark(r) \/ Pin(r)
        <5>1. msg \in [Messages -> Row]
          BY DEF Base, Tables, RowTypes
        <5>2. ASSUME NEW m \in Messages
              PROVE  LET row == [msg[m] EXCEPT !.pinned = p.flag]
                     IN  row.st = msg[m].st /\ row.parent = msg[m].parent /\ row.replies = msg[m].replies
          BY <5>1 DEF Row
        <5>3. CASE Edit(r)
          <6>1. PICK c : msg' = msg \/ msg' = [msg EXCEPT ![p.m] = [msg[p.m] EXCEPT !.content = c]]
            BY <5>1, <5>3 DEF Edit
          <6>2. ASSUME NEW m \in Messages
                PROVE  msg'[m] = msg[m] \/ msg'[m] = [msg[m] EXCEPT !.content = c]
            BY <5>1, <6>1
          <6>3. ASSUME NEW m \in Messages
                PROVE  LET row == [msg[m] EXCEPT !.content = c]
                       IN  row.st = msg[m].st /\ row.parent = msg[m].parent /\ row.replies = msg[m].replies
            BY <5>1 DEF Row
          <6> QED
            BY <6>2, <6>3
        <5>4. CASE Pin(r)
          BY <5>1, <5>2, <5>4 DEF Pin
        <5>5. CASE Mark(r)
          <6>1. msg' = msg \/ msg' = [msg EXCEPT ![p.m] = [msg[p.m] EXCEPT !.deleted = TRUE, !.content = 0]]
            BY <5>1, <5>5 DEF Mark
          <6>2. ASSUME NEW m \in Messages
                PROVE  msg'[m] = msg[m] \/ msg'[m] = [msg[m] EXCEPT !.deleted = TRUE, !.content = 0]
            BY <5>1, <6>1
          <6>3. ASSUME NEW m \in Messages
                PROVE  LET row == [msg[m] EXCEPT !.deleted = TRUE, !.content = 0]
                       IN  row.st = msg[m].st /\ row.parent = msg[m].parent /\ row.replies = msg[m].replies
            BY <5>1 DEF Row
          <6> QED
            BY <6>2, <6>3
        <5> QED
          BY <4>2, <5>3, <5>4, <5>5
      <4> QED
        BY <2>7, <4>1, <4>2
    <3> QED
      BY <3>1, <3>2, <3>3, CountedFrame
  <2>8. CASE Sweep(r)
    <3>1. PICK m \in p.todo : /\ Removed(m)
                              /\ \E q \in {Idle, [p EXCEPT !.todo = @ \ {m}]} : req' = [req EXCEPT ![r] = q]
      BY <2>8 DEF Sweep
    <3>2. PICK q \in {Idle, [p EXCEPT !.todo = @ \ {m}]} : req' = [req EXCEPT ![r] = q]
      BY <3>1
    <3>3. m \in Messages /\ Counts(p) = None /\ Counts(q) = None /\ lost' = lost
      BY <1>0, <2>1, <2>8, <3>2 DEF Sweep, Counts, Request
    <3> QED
      BY <3>1, <3>2, <3>3, RemovedRows, CountedFrame DEF There
  <2>9. CASE Drop(r)
    <3>1. UNCHANGED <<msg, lost>> /\ p.pc = "drop"
      BY <2>9 DEF Drop, tables
    <3>2. PICK q : req' = [req EXCEPT ![r] = q] /\ Counts(q) = Counts(p)
      <4>1. \A pc : /\ [p EXCEPT !.pc = pc].op = p.op /\ [p EXCEPT !.pc = pc].parent = p.parent
                    /\ [p EXCEPT !.pc = pc].pc = pc
        BY <2>1 DEF Request
      <4>2. ASSUME NEW pc, Go(r, pc) PROVE req' = [req EXCEPT ![r] = [p EXCEPT !.pc = pc]]
        BY <4>2 DEF Go, Base
      <4>3. CASE p.op = "create"
        <5>1. PICK pc : pc = (IF p.parent = None THEN "cast" ELSE "count") /\ Go(r, pc)
          BY <2>9, <4>3 DEF Drop
        <5>2. PICK q : q = [p EXCEPT !.pc = pc] /\ req' = [req EXCEPT ![r] = q]
          BY <4>2, <5>1
        <5>3. q.op = "create" /\ q.parent = p.parent /\ q.pc = pc
          BY <4>1, <4>3, <5>2
        <5> QED
          BY <3>1, <4>3, <5>1, <5>2, <5>3 DEF Counts
      <4>4. CASE p.op = "finalize"
        <5>1. PICK q : q = [p EXCEPT !.pc = "look"] /\ req' = [req EXCEPT ![r] = q]
          BY <2>9, <4>2, <4>4 DEF Drop
        <5>2. q.op = "finalize"
          BY <4>1, <4>4, <5>1
        <5> QED
          BY <4>4, <5>1, <5>2 DEF Counts
      <4>5. CASE p.op \notin {"create", "finalize"}
        BY <1>0, <2>9, <4>5 DEF Drop, Counts, Finish
      <4> QED
        BY <4>3, <4>4, <4>5
    <3> QED
      BY <3>1, <3>2, CountedFrame
  <2> QED
    BY <1>2, <2>2, <2>3, <2>4, <2>5, <2>6, <2>7, <2>8, <2>9 DEF Step
<1>3. ASSUME NEW r \in Requests, Stop(r) PROVE Counted'
  <2>1. req' = [req EXCEPT ![r] = Idle] /\ msg' = msg
    BY <1>3 DEF Stop, Finish, tables
  <2>2. CASE Uncounted(r)
    <3>1. Counts(req[r]) # None /\ lost' = [lost EXCEPT ![req[r].parent] = @ + 1]
      BY <1>3, <2>2 DEF Uncounted, Counts, Stop
    <3> QED
      BY <1>0, <2>1, <3>1, CountedEnd
  <2>3. CASE ~Uncounted(r)
    <3>1. Counts(req[r]) = None /\ lost' = lost
      BY <1>3, <2>3 DEF Uncounted, Counts, Stop
    <3> QED
      BY <1>0, <2>1, <3>1, CountedFrame
  <2> QED
    BY <2>2, <2>3
<1>4. CASE Expire \/ UNCHANGED vars
  BY <1>4, CountedSame DEF Expire, vars, tables, past
<1> QED
  BY <1>1, <1>2, <1>3, <1>4 DEF Next

\* The first message has no replies.
LEMMA CountedInit == ASSUME Init PROVE Counted
<1>1. PICK u \in Users :
        msg = [m \in Messages |-> IF m = 1 THEN NewMessage(u) ELSE [NewMessage(u) EXCEPT !.st = "none"]]
  BY DEF Init
<1>2. ASSUME NEW p \in Messages
      PROVE  /\ Waiting(p) = {} /\ Replies(p) = {} /\ msg[p].replies = 0 /\ lost[p] = 0
  BY <1>1, Ids DEF Init, Waiting, Counts, Idle, Replies, NewMessage
<1> QED
  BY <1>2, FS_EmptySet DEF Counted
(***************************************************************************)
(* The page in the cache                                                   *)
(***************************************************************************)
LEMMA PageFrame ==
    ASSUME Base, PageInv, NEW r \in Requests, ~Sweeps(req[r]), \A x \in Requests : x # r => req'[x] = req[x],
           UNCHANGED <<msg, file, liked, cache, excused>>
    PROVE  PageInv'
<1>1. View' = View
  BY DEF View, Shown, Likes, FilesOf, There
<1>2. \A x \in Requests : Sweeps(req[x]) => Sweeps(req[x])'
  BY DEF Sweeps, There
<1> QED
  BY <1>1, <1>2 DEF PageInv

\* A page that was right stays right while nothing it shows changes.
LEMMA PageUnswept == ASSUME Unswept, cache' = cache PROVE PageInv'
BY DEF Unswept, PageInv

\* A page is excused while somebody is on the way to the invalidation.
LEMMA PageSwept == ASSUME NEW r \in Requests, Sweeps(req[r])' PROVE PageInv'
BY DEF PageInv

\* Every step keeps pages honest.
LEMMA PageNext == ASSUME Base, PageInv, [Next]_vars PROVE PageInv'
<1>0. /\ req \in [Requests -> Request] /\ Tables
      /\ \A x \in Requests : req[x] \in Request /\ ReqOK(req[x])
  BY DEF Base
<1>1. ASSUME NEW r \in Requests, Arrive(r) PROVE PageInv'
  <2>1. PICK q : Begin(r, q)
    BY <1>1, Arrives DEF Call
  <2>2. ~Sweeps(req[r])
    BY <2>1 DEF Begin, Free, Idle, Sweeps
  <2> QED
    BY <1>0, <2>1, <2>2, PageFrame DEF Begin, tables, past
<1>2. ASSUME NEW r \in Requests, Step(r) PROVE PageInv'
  <2> DEFINE p == req[r]
  <2>1. \A x \in Requests : x # r => req'[x] = req[x]
    BY <1>0, <1>2 DEF Step, Insert, Count, Seek, Join, Cast, Url, Look, Announce, Objects, Edit,
                  Unattach, Mark, Abort, Pin, Like, Sweep, Drop, Store, Go, Finish
  <2>2. CASE Seek(r) \/ Join(r) \/ Cast(r) \/ Look(r) \/ Announce(r) \/ Objects(r)
    <3>1. ~Sweeps(p) /\ UNCHANGED <<msg, file, liked, cache, excused>>
      BY <2>2 DEF Seek, Join, Cast, Look, Announce, Objects, Sweeps, tables, past
    <3> QED
      BY <2>1, <3>1, PageFrame
  <2>3. CASE Count(r)
    <3>1. CASE There(p.parent)
      BY <2>3, <3>1, PageUnswept DEF Count
    <3>2. CASE ~There(p.parent)
      <4>1. ~Sweeps(p) /\ UNCHANGED <<msg, file, liked, cache, excused>>
        BY <2>3, <3>2 DEF Count, Sweeps
      <4> QED
        BY <2>1, <4>1, PageFrame
    <3> QED
      BY <3>1, <3>2
  <2>4. CASE Unattach(r) \/ Like(r) \/ Sweep(r)
    BY <2>4, PageUnswept DEF Unattach, Like, Sweep
  <2>5. ASSUME Go(r, "drop"), p.op # "finalize" PROVE Sweeps(req[r])'
    <3>1. req' = [req EXCEPT ![r] = [p EXCEPT !.pc = "drop"]]
      BY <1>0, <2>5 DEF Go
    <3>2. req'[r].pc = "drop" /\ req'[r].op = p.op
      BY <1>0, <3>1 DEF Request
    <3> QED
      BY <2>5, <3>2 DEF Sweeps
  <2>6. CASE Mark(r) \/ Pin(r) \/ Abort(r)
    <3>1. Go(r, "drop") /\ p.op # "finalize"
      BY <1>0, <2>6 DEF Mark, Pin, Abort, ReqOK
    <3> QED
      BY <2>5, <3>1, PageSwept
  <2>7. CASE Edit(r)
    <3>1. CASE Go(r, "drop")
      BY <1>0, <2>5, <2>7, <3>1, PageSwept DEF Edit, ReqOK
    <3>2. CASE UNCHANGED <<msg, file>>
      <4>1. ~Sweeps(p) /\ UNCHANGED <<msg, file, liked, cache, excused>>
        BY <2>7, <3>2 DEF Edit, Sweeps
      <4> QED
        BY <2>1, <4>1, PageFrame
    <3> QED
      BY <2>7, <3>1, <3>2, EditDoes
  <2>8. CASE Insert(r)
    <3>1. req'[r].pc = "drop" /\ req'[r].op = "create"
      BY <1>0, <2>8 DEF Insert, ReqOK, Request
    <3> QED
      BY <3>1, PageSwept DEF Sweeps
  <2>9. CASE Url(r)
    <3>1. CASE file[p.f].st = "gone"
      <4>1. ~Sweeps(p) /\ UNCHANGED <<msg, file, liked, cache, excused>>
        BY <2>9, <3>1 DEF Url, Sweeps, past
      <4> QED
        BY <2>1, <4>1, PageFrame
    <3>2. CASE file[p.f].st # "gone"
      <4>1. p.f \in Files /\ file[p.f].st # "none" /\ file[p.f].msg = p.m
        BY <1>0, <2>9 DEF Url, ReqOK
      <4>2. There(p.m)
        BY <1>0, <3>2, <4>1 DEF Tables, FileOK
      <4>3. req'[r] = [p EXCEPT !.pc = "drop"] /\ msg' = msg
        BY <1>0, <2>9, <3>2 DEF Url, Go
      <4>4. req'[r].pc = "drop" /\ req'[r].m = p.m
        BY <1>0, <4>3 DEF Request
      <4> QED
        BY <4>2, <4>3, <4>4, PageSwept DEF Sweeps, There
    <3> QED
      BY <3>1, <3>2
  <2>10. CASE Drop(r)
    <3>1. CASE p.op = "finalize" /\ ~There(p.m)
      <4>1. ~Sweeps(p) /\ UNCHANGED <<msg, file, liked, cache, excused>>
        BY <2>10, <3>1 DEF Drop, Sweeps, tables, OtherTypes, Base
      <4> QED
        BY <2>1, <4>1, PageFrame
    <3>2. CASE ~(p.op = "finalize" /\ ~There(p.m))
      BY <2>10, <3>2 DEF Drop, PageInv
    <3> QED
      BY <3>1, <3>2
  <2>11. CASE Store(r)
    <3>1. View' = View
      BY <2>11 DEF Store, tables, View, Shown, Likes, FilesOf, There
    <3> QED
      BY <2>11, <3>1 DEF Store, PageInv
  <2> QED
    BY <1>2, <2>2, <2>3, <2>4, <2>6, <2>7, <2>8, <2>9, <2>10, <2>11 DEF Step
<1>3. ASSUME NEW r \in Requests, Stop(r) PROVE PageInv'
  <2>1. \A x \in Requests : x # r => req'[x] = req[x]
    BY <1>0, <1>3 DEF Stop, Finish
  <2>2. CASE req[r].pc = "drop"
    BY <1>3, <2>2 DEF Stop, PageInv
  <2>3. CASE req[r].pc # "drop"
    <3>1. ~Sweeps(req[r]) /\ UNCHANGED <<msg, file, liked, cache, excused>>
      BY <1>3, <2>3 DEF Stop, Sweeps, tables, OtherTypes, Base
    <3> QED
      BY <2>1, <3>1, PageFrame
  <2> QED
    BY <2>2, <2>3
<1>4. CASE Expire
  BY <1>4 DEF Expire, PageInv
<1>5. CASE UNCHANGED vars
  <2>1. View' = View /\ req' = req /\ msg' = msg /\ excused' = excused /\ cache' = cache
    BY <1>5 DEF vars, tables, past, View, Shown, Likes, FilesOf, There
  <2> QED
    BY <2>1 DEF PageInv, Sweeps, There
<1> QED
  BY <1>1, <1>2, <1>3, <1>4, <1>5 DEF Next
(***************************************************************************)
(* Who is still to announce a message                                      *)
(***************************************************************************)
Told(m)     == {"job", "cast"} \subseteq told[m]
Cares(q, m) == Sends(q, m) \/ Finishes(q, m)

\* Whoever was bound to announce a message still is after a step that hands the
\* duty on.
LEMMA OwedFrame ==
    ASSUME Base, OwedInv, NEW r \in Requests, \A x \in Requests : x # r => req'[x] = req[x],
           cut \subseteq cut', \A m \in Messages : told[m] \subseteq told'[m],
           NEW S \in SUBSET Messages, \A m \in S : There(m)' => There(m),
           \A m \in S : There(m)' /\ m \notin cut' /\ StillPending(m) => StillPending(m)' \/ Cares(req[r], m)',
           \A m \in S : There(m)' /\ m \notin cut' /\ Cares(req[r], m)
                          => Told(m)' \/ StillPending(m)' \/ Cares(req[r], m)'
    PROVE  \A m \in S : Owed(m)'
<1> SUFFICES ASSUME NEW m \in S, There(m)', m \notin cut'
             PROVE  Told(m)' \/ StillPending(m)' \/ \E x \in Requests : Cares(req[x], m)'
  BY DEF Owed, Told, Cares
<1>1. Told(m) \/ StillPending(m) \/ \E x \in Requests : Cares(req[x], m)
  BY DEF OwedInv, Owed, Told, Cares
<1>2. Told(m) => Told(m)'
  BY DEF Told
<1>3. ASSUME NEW x \in Requests, x # r, Cares(req[x], m) PROVE Cares(req[x], m)'
  BY <1>3 DEF Cares, Sends, Finishes
<1> QED
  BY <1>1, <1>2, <1>3

\* The same, when only what r is about and what was said change.
LEMMA OwedQuiet ==
    ASSUME Base, OwedInv, NEW r \in Requests, \A x \in Requests : x # r => req'[x] = req[x],
           UNCHANGED <<msg, file>>, cut \subseteq cut', \A m \in Messages : told[m] \subseteq told'[m],
           \A m \in Messages : There(m) /\ m \notin cut' /\ Cares(req[r], m)
                                 => Told(m)' \/ StillPending(m) \/ Cares(req[r], m)'
    PROVE  OwedInv'
<1>1. \A m \in Messages : (There(m)' <=> There(m)) /\ (StillPending(m)' <=> StillPending(m))
  BY DEF There, StillPending, FilesOf
<1>2. \A m \in Messages : Owed(m)'
  BY <1>1, OwedFrame
<1> QED
  BY <1>2 DEF OwedInv

\* The same, when r is not about to announce anything.
LEMMA OwedAway ==
    ASSUME Base, OwedInv, NEW r \in Requests, \A x \in Requests : x # r => req'[x] = req[x],
           UNCHANGED <<cut, told>>, \A m \in Messages : ~Cares(req[r], m),
           \A m \in Messages : There(m)' => There(m),
           \A m \in Messages, f \in Files : There(m)' /\ file[f].st = "pending" /\ file[f].msg = m
                                              => file'[f].st = "pending" /\ file'[f].msg = m
    PROVE  OwedInv'
<1>1. \A m \in Messages : There(m)' /\ StillPending(m) => StillPending(m)'
  BY DEF StillPending, FilesOf
<1>2. \A m \in Messages : Owed(m)'
  BY <1>1, OwedFrame
<1> QED
  BY <1>2 DEF OwedInv

\* The creator of a message is bound to announce it.
LEMMA OwedInsert == ASSUME Base, OwedInv, NEW r \in Requests, Insert(r) PROVE OwedInv'
<1> DEFINE q == req[r]
<1>1. q \in Request /\ q.op = "create" /\ q.pc = "insert" /\ q.new \in Seq(NewFile)
  BY DEF Base, Insert, ReqOK, Request
<1>2. PICK m \in Messages :
        /\ InsertEffect(q, m) /\ m = NewRow
        /\ UNCHANGED <<told, cut>>
        /\ req' = [req EXCEPT ![r].pc = "drop", ![r].m = m,
                              ![r].flag = \E i \in DOMAIN q.new : q.new[i].st = "pending"]
  <2>1. InsertEffect(q, NewRow)
    BY InsertDoes
  <2>2. NewRow \in Messages
    BY <2>1 DEF InsertEffect
  <2> QED
    BY <2>1, <2>2 DEF Insert, past
<1>3. \A x \in Messages : x # m => msg'[x] = msg[x]
  BY <1>2 DEF InsertEffect, Base, Tables, RowTypes
<1>4. \A f \in Files : file[f].st # "none" => file'[f] = file[f]
  BY <1>2, MessageAssumption DEF InsertEffect, Files
<1>5. \A x \in Messages \ {m} : Owed(x)'
  <2>1. \A x \in Requests : x # r => req'[x] = req[x]
    BY <1>2 DEF Base
  <2>2. \A x \in Messages : ~Cares(q, x)
    BY <1>1 DEF Cares, Sends, Finishes
  <2>3. \A x \in Messages \ {m} : There(x)' => There(x)
    BY <1>3 DEF There
  <2>4. \A x \in Messages : StillPending(x) => StillPending(x)'
    BY <1>4 DEF StillPending, FilesOf
  <2> QED
    BY <1>2, <2>1, <2>2, <2>3, <2>4, OwedFrame
<1>6. Owed(m)'
  <2>1. CASE \E i \in DOMAIN q.new : q.new[i].st = "pending"
    <3>1. PICK i \in DOMAIN q.new : q.new[i].st = "pending"
      BY <2>1
    <3>2. /\ Used + i \in Files /\ file'[Used + i].st = "pending" /\ Used \in Nat
          /\ i \in 1 .. Len(q.new) /\ Len(q.new) \in Nat
      BY <1>1, <1>2, <3>1 DEF InsertEffect
    <3>3. file'[Used + i].msg = m
      <4>1. Used + i > Used /\ Used + i <= Used + Len(q.new)
        BY <3>2
      <4> QED
        BY <1>2, <3>2, <4>1 DEF InsertEffect
    <3>4. StillPending(m)'
      BY <3>2, <3>3 DEF StillPending, FilesOf
    <3> QED
      BY <3>4 DEF Owed
  <2>2. CASE ~\E i \in DOMAIN q.new : q.new[i].st = "pending"
    <3>1. /\ req'[r].pc = "drop" /\ req'[r].m = m /\ req'[r].op = "create"
          /\ ~req'[r].flag
      BY <1>1, <1>2, <2>2 DEF Base, Request
    <3>2. Sends(req[r], m)'
      BY <3>1 DEF Sends
    <3> QED
      BY <3>2 DEF Owed
  <2> QED
    BY <2>1, <2>2
<1> QED
  BY <1>5, <1>6 DEF OwedInv

\* Every step keeps somebody bound to announce what has not been announced.
LEMMA OwedNext == ASSUME Base, OwedInv, [Next]_vars PROVE OwedInv'
<1>0. /\ req \in [Requests -> Request] /\ Tables /\ told \in [Messages -> SUBSET {"job", "cast"}]
      /\ msg \in [Messages -> Row] /\ file \in [Files -> File]
      /\ \A x \in Requests : req[x] \in Request /\ ReqOK(req[x])
  BY DEF Base, OtherTypes, Tables, RowTypes
<1>1. ASSUME NEW r \in Requests, Arrive(r) PROVE OwedInv'
  <2>1. PICK q : Begin(r, q)
    BY <1>1, Arrives DEF Call
  <2>2. \A m \in Messages : ~Cares(req[r], m)
    BY <2>1 DEF Begin, Free, Idle, Cares, Sends, Finishes
  <2> QED
    BY <1>0, <2>1, <2>2, OwedQuiet DEF Begin, tables, past
<1>2. ASSUME NEW r \in Requests, Step(r) PROVE OwedInv'
  <2> DEFINE p == req[r]
  <2>1. \A x \in Requests : x # r => req'[x] = req[x]
    BY <1>0, <1>2 DEF Step, Insert, Count, Seek, Join, Cast, Url, Look, Announce, Objects, Edit,
                  Unattach, Mark, Abort, Pin, Like, Sweep, Drop, Store, Go, Finish
  <2>2. p \in Request /\ ReqOK(p)
    BY <1>0
  <2>3. CASE Insert(r)
    BY <2>3, OwedInsert
  <2>4. CASE Count(r)
    <3>1. req'[r].op = p.op /\ req'[r].pc = "seek" /\ req'[r].m = p.m /\ req'[r].flag = p.flag
      <4>1. req'[r] = [p EXCEPT !.pc = "seek"]
        BY <1>0, <2>4 DEF Count, Go
      <4> QED
        BY <2>2, <4>1 DEF Request
    <3>2. p.op = "create" /\ p.pc = "count" /\ UNCHANGED <<file, told, cut>>
      BY <2>2, <2>4 DEF Count, ReqOK
    <3>3. \A m \in Messages : There(m)' => There(m)
      <4>1. \A m \in Messages : [msg[m] EXCEPT !.replies = @ + 1].st = msg[m].st
        BY <1>0 DEF Row
      <4>2. msg' = msg \/ msg' = [msg EXCEPT ![p.parent] = [msg[p.parent] EXCEPT !.replies = @ + 1]]
        BY <1>0, <2>4 DEF Count
      <4>3. \A m \in Messages : msg'[m] = msg[m] \/ msg'[m] = [msg[m] EXCEPT !.replies = @ + 1]
        BY <1>0, <4>2
      <4> QED
        BY <4>1, <4>3 DEF There
    <3>4. \A m \in Messages : StillPending(m) => StillPending(m)'
      BY <3>2 DEF StillPending, FilesOf
    <3>5. \A m \in Messages : Cares(p, m) => Cares(req[r], m)'
      BY <3>1, <3>2 DEF Cares, Sends, Finishes
    <3>6. \A m \in Messages : Owed(m)'
      BY <2>1, <3>2, <3>3, <3>4, <3>5, OwedFrame
    <3> QED
      BY <3>6 DEF OwedInv
  <2>5. CASE Seek(r) \/ Join(r)
    <3>1. p.op = "create" /\ p.pc \in {"seek", "join"} /\ UNCHANGED <<msg, file, told>> /\ cut \subseteq cut'
      BY <2>2, <2>5 DEF Seek, Join, ReqOK, tables, past
    <3>2. \/ req'[r] = Idle /\ p.m \in cut'
          \/ req'[r] = Onward(p) /\ cut' = cut
          \/ req'[r] = [p EXCEPT !.pc = "join"] /\ cut' = cut
      BY <1>0, <2>5 DEF Seek, Join, Finish, past
    <3>3. \A n \in {Onward(p), [p EXCEPT !.pc = "join"]} :
            n.op = p.op /\ n.m = p.m /\ n.flag = p.flag /\ n.pc \in {"seek", "join", "cast"}
      BY <2>2 DEF Onward, Request
    <3>4. \A m \in Messages : Cares(p, m) /\ m \notin cut' => Cares(req[r], m)'
      BY <3>1, <3>2, <3>3 DEF Cares, Sends, Finishes
    <3> QED
      BY <2>1, <3>1, <3>4, OwedQuiet
  <2>6. CASE Cast(r)
    <3>1. UNCHANGED <<msg, file, cut>> /\ \A m \in Messages : told[m] \subseteq told'[m]
      BY <1>0, <2>6 DEF Cast, tables, past
    <3>2. \A m \in Messages : Cares(p, m) => Told(m)'
      BY <1>0, <2>2, <2>6 DEF Cast, Cares, Sends, Finishes, ReqOK, Told
    <3> QED
      BY <2>1, <3>1, <3>2, OwedQuiet
  <2>7. CASE Url(r)
    <3>1. p.op = "finalize" /\ p.f \in Files /\ file[p.f].msg = p.m /\ p.pc = "url" /\ UNCHANGED <<msg, told, cut>>
      BY <2>2, <2>7 DEF Url, ReqOK, past
    <3>2. \A m \in Messages : ~Cares(p, m)
      BY <3>1 DEF Cares, Sends, Finishes
    <3>3. CASE file[p.f].st = "gone"
      BY <2>1, <2>7, <3>1, <3>2, <3>3, OwedQuiet DEF Url
    <3>4. CASE file[p.f].st # "gone"
      <4>1. req'[r] = [p EXCEPT !.pc = "drop"]
        BY <1>0, <2>7, <3>4 DEF Url, Go
      <4>2. req'[r].op = "finalize" /\ req'[r].pc = "drop" /\ req'[r].m = p.m
        BY <2>2, <3>1, <4>1 DEF Request
      <4>3. \A f \in Files : f # p.f => file'[f] = file[f]
        BY <1>0, <2>7, <3>4 DEF Url
      <4>4. ASSUME NEW m \in Messages, StillPending(m) PROVE StillPending(m)' \/ Cares(req[r], m)'
        <5>1. CASE m = p.m
          BY <4>2, <5>1 DEF Cares, Finishes
        <5>2. CASE m # p.m
          BY <3>1, <4>3, <4>4, <5>2 DEF StillPending, FilesOf
        <5> QED
          BY <5>1, <5>2
      <4>5. \A m \in Messages : There(m)' => There(m)
        BY <3>1 DEF There
      <4>6. \A m \in Messages : Owed(m)'
        BY <2>1, <3>1, <3>2, <4>4, <4>5, OwedFrame
      <4> QED
        BY <4>6 DEF OwedInv
    <3> QED
      BY <3>3, <3>4
  <2>8. CASE Look(r)
    <3>1. p.op = "finalize" /\ p.pc = "look" /\ UNCHANGED <<msg, file, told, cut>>
      BY <2>2, <2>8 DEF Look, ReqOK, tables, past
    <3>2. CASE There(p.m)
      <4>1. req'[r] = [p EXCEPT !.pc = "last", !.flag = StillPending(p.m)]
        BY <1>0, <2>8, <3>2 DEF Look
      <4>2. /\ req'[r].op = "finalize" /\ req'[r].pc = "last" /\ req'[r].m = p.m
            /\ req'[r].flag = StillPending(p.m)
        BY <2>2, <3>1, <4>1 DEF Request
      <4>3. \A m \in Messages : Cares(p, m) => StillPending(m) \/ Cares(req[r], m)'
        BY <3>1, <4>2 DEF Cares, Sends, Finishes
      <4> QED
        BY <2>1, <3>1, <4>3, OwedQuiet
    <3>3. CASE ~There(p.m)
      <4>1. \A m \in Messages : Cares(p, m) => ~There(m)
        BY <3>1, <3>3 DEF Cares, Sends, Finishes
      <4> QED
        BY <2>1, <3>1, <4>1, OwedQuiet
    <3> QED
      BY <3>2, <3>3
  <2>9. CASE Announce(r)
    <3>1. UNCHANGED <<msg, file, cut>> /\ \A m \in Messages : told[m] \subseteq told'[m]
      BY <1>0, <2>9 DEF Announce, tables, past
    <3>2. \A m \in Messages : There(m) /\ Cares(p, m) => Told(m)'
      BY <1>0, <2>2, <2>9 DEF Announce, Cares, Sends, Finishes, ReqOK, Told
    <3> QED
      BY <2>1, <3>1, <3>2, OwedQuiet
  <2>10. CASE Objects(r) \/ Like(r) \/ Store(r)
    <3>1. UNCHANGED <<msg, file, cut, told>> /\ p.pc \in {"objects", "like", "store"}
      BY <2>10 DEF Objects, Like, Store, tables, past
    <3>2. \A m \in Messages : ~Cares(p, m)
      BY <3>1 DEF Cares, Sends, Finishes
    <3> QED
      BY <2>1, <3>1, <3>2, OwedQuiet
  <2>11. CASE Drop(r)
    <3>1. p.pc = "drop" /\ UNCHANGED <<msg, file, cut>> /\ \A m \in Messages : told[m] \subseteq told'[m]
      BY <1>0, <2>11 DEF Drop, tables
    <3>2. ASSUME NEW pc, Go(r, pc)
          PROVE  /\ req'[r].op = p.op /\ req'[r].pc = pc /\ req'[r].m = p.m /\ req'[r].flag = p.flag
      <4>1. req'[r] = [p EXCEPT !.pc = pc]
        BY <1>0, <3>2 DEF Go
      <4> QED
        BY <2>2, <4>1 DEF Request
    <3>3. CASE p.op = "create"
      <4>1. PICK pc \in {"cast", "count"} : Go(r, pc)
        BY <2>11, <3>3 DEF Drop
      <4>2. ~p.flag => told' = [told EXCEPT ![p.m] = @ \cup {"job"}]
        BY <2>11, <3>3 DEF Drop
      <4>3. \A m \in Messages : Cares(p, m) => Cares(req[r], m)'
        BY <1>0, <3>2, <3>3, <4>1, <4>2 DEF Cares, Sends, Finishes
      <4> QED
        BY <2>1, <3>1, <4>3, OwedQuiet
    <3>4. CASE p.op = "finalize"
      <4>1. Go(r, "look")
        BY <2>11, <3>4 DEF Drop
      <4>2. \A m \in Messages : Cares(p, m) => Cares(req[r], m)'
        BY <3>2, <3>4, <4>1 DEF Cares, Sends, Finishes
      <4> QED
        BY <2>1, <3>1, <4>2, OwedQuiet
    <3>5. CASE p.op \notin {"create", "finalize"}
      <4>1. \A m \in Messages : ~Cares(p, m)
        BY <3>5 DEF Cares, Sends, Finishes
      <4> QED
        BY <2>1, <3>1, <4>1, OwedQuiet
    <3> QED
      BY <3>3, <3>4, <3>5
  <2>12. CASE Edit(r)
    <3>1. p.op = "edit" /\ UNCHANGED <<cut, told>> /\ \A f \in p.dels : file[f].obj # None
      BY <2>2, <2>12 DEF Edit, ReqOK
    <3>2. \A m \in Messages : ~Cares(p, m)
      BY <3>1 DEF Cares, Sends, Finishes
    <3>3. CASE UNCHANGED <<msg, file>>
      BY <2>1, <3>1, <3>2, <3>3, OwedQuiet
    <3>4. CASE EditEffect(p)
      <4>1. \A f \in Files : file[f].st = "pending" => file'[f] = file[f]
        BY <1>0, <3>1, <3>4 DEF EditEffect, Tables, FileOK
      <4>2. \A m \in Messages : There(m)' => There(m)
        BY <1>0, <3>4 DEF EditEffect, There
      <4> QED
        BY <2>1, <3>1, <3>2, <4>1, <4>2, OwedAway
    <3> QED
      BY <2>12, <3>3, <3>4, EditDoes
  <2>13. CASE Unattach(r)
    <3>1. p.op = "unattach" /\ UNCHANGED <<cut, told, msg>> /\ file[p.f].st # "pending"
      BY <2>2, <2>13 DEF Unattach, ReqOK
    <3>2. \A m \in Messages : ~Cares(p, m)
      BY <3>1 DEF Cares, Sends, Finishes
    <3>3. \A f \in Files : file[f].st = "pending" => file'[f] = file[f]
      BY <1>0, <2>13, <3>1 DEF Unattach
    <3> QED
      BY <2>1, <3>1, <3>2, <3>3, OwedAway DEF There
  <2>14. CASE Mark(r) \/ Pin(r)
    <3>1. p.op \in {"delete", "pin"} /\ UNCHANGED <<cut, told, file>>
      BY <2>2, <2>14 DEF Mark, Pin, ReqOK, past
    <3>2. \A m \in Messages : ~Cares(p, m)
      BY <3>1 DEF Cares, Sends, Finishes
    <3>3. \A m \in Messages : There(m)' => There(m)
      BY <1>0, <2>14 DEF Mark, Pin, There
    <3> QED
      BY <2>1, <3>1, <3>2, <3>3, OwedAway
  <2>15. ASSUME NEW d \in Messages, Removed(d), UNCHANGED <<cut, told, lost>>, p.op \notin {"create", "finalize"}
         PROVE  OwedInv'
    <3>1. \A m \in Messages : ~Cares(p, m)
      BY <2>15 DEF Cares, Sends, Finishes
    <3>2. /\ \A m \in Messages : m # d => msg'[m] = msg[m]
          /\ msg'[d].st = (IF There(d) THEN "gone" ELSE msg[d].st)
          /\ \A f \in Files : file'[f] = IF f \in FilesOf(d) THEN [file[f] EXCEPT !.st = "gone"] ELSE file[f]
      BY <2>15, RemovedRows
    <3>3. \A m \in Messages : There(m)' => There(m) /\ m # d
      BY <3>2 DEF There
    <3> QED
      BY <2>1, <2>15, <3>1, <3>2, <3>3, OwedAway DEF FilesOf
  <2>16. CASE Abort(r)
    BY <2>2, <2>15, <2>16 DEF Abort, ReqOK, past
  <2>17. CASE Sweep(r)
    <3>1. PICK m \in Messages : Removed(m)
      BY <2>2, <2>17 DEF Sweep, Request
    <3> QED
      BY <2>2, <2>15, <2>17, <3>1 DEF Sweep, ReqOK
  <2> QED
    BY <1>2, <2>3, <2>4, <2>5, <2>6, <2>7, <2>8, <2>9, <2>10, <2>11, <2>12, <2>13, <2>14, <2>16, <2>17 DEF Step
<1>3. ASSUME NEW r \in Requests, Stop(r) PROVE OwedInv'
  <2>1. \A x \in Requests : x # r => req'[x] = req[x]
    BY <1>0, <1>3 DEF Stop, Finish
  <2>2. \A m \in Messages : Cares(req[r], m) => m \in cut'
    BY <1>3 DEF Stop, Cares, Sends, Finishes
  <2>3. UNCHANGED <<msg, file, told>> /\ cut \subseteq cut'
    BY <1>3 DEF Stop, tables
  <2> QED
    BY <2>1, <2>2, <2>3, OwedQuiet
<1>4. CASE Expire \/ UNCHANGED vars
  <2>1. UNCHANGED <<msg, file, told, cut, req>>
    BY <1>4 DEF Expire, vars, tables, past
  <2> QED
    BY <2>1 DEF OwedInv, Owed, Sends, Finishes, There, StillPending, FilesOf
<1> QED
  BY <1>1, <1>2, <1>3, <1>4 DEF Next
(***************************************************************************)
(* The objects that urls name                                              *)
(***************************************************************************)
Onwards(r) ==
    /\ \A x \in Requests : x # r => req'[x] = req[x]
    /\ Grows /\ torn \subseteq torn'
    /\ \A f \in Files : file[f].st = "gone" => file'[f].st = "gone"
    /\ \A f \in Files : \A o \in stored \ stored' : Kept(f, o)'
    /\ \A f \in Files : Removing(req[r], f) =>
         Removing(req[r], f)' \/ f \in torn' \/ file'[f].st = "gone"

\* An object that was accounted for stays so while nothing is removed.
LEMMA KeptOn ==
    ASSUME Base, NEW r \in Requests, Onwards(r), NEW f \in Files, NEW o, o # None,
           Kept(f, o), file'[f].st # "gone"
    PROVE  Kept(f, o)'
<1>1. CASE o \in stored
  BY <1>1 DEF Kept, Onwards
<1>2. CASE f \in torn
  BY <1>2 DEF Kept, Onwards
<1>3. CASE \E g \in Files \ {f} : file[g].st # "none" /\ file[g].obj = o
  BY <1>3 DEF Kept, Onwards, Grows
<1>4. CASE \E x \in Requests : Removing(req[x], f)
  <2>1. PICK x \in Requests : Removing(req[x], f)
    BY <1>4
  <2>2. CASE x = r
    BY <2>1, <2>2 DEF Kept, Onwards
  <2>3. CASE x # r
    <3>1. Removing(req[x], f)'
      BY <2>1, <2>3 DEF Onwards, Removing
    <3> QED
      BY <3>1 DEF Kept
  <2> QED
    BY <2>2, <2>3
<1> QED
  BY <1>1, <1>2, <1>3, <1>4 DEF Kept

\* A step that removes no object keeps all urls good.
LEMMA StoredFrame ==
    ASSUME Base, StoredInv, NEW r \in Requests, Onwards(r),
           \A f \in Files : file'[f].st = "ready" /\ file[f].st # "ready" => Kept(f, file[f].obj)',
           req'[r].pc = "url" => req'[r].f \in stored'
    PROVE  StoredInv'
<1>1. ASSUME NEW f \in Files, file'[f].st = "ready" PROVE Kept(f, file[f].obj)'
  <2>1. CASE file[f].st = "ready"
    <3>1. file[f].obj # None /\ Kept(f, file[f].obj)
      BY <2>1 DEF Base, Tables, FileOK, StoredInv
    <3>2. file'[f].obj = file[f].obj
      BY <3>1 DEF Onwards, Grows
    <3>3. PICK o : o = file[f].obj
      OBVIOUS
    <3>4. Kept(f, o)'
      BY <1>1, <3>1, <3>3, KeptOn
    <3> QED
      BY <3>2, <3>3, <3>4
  <2>2. CASE file[f].st # "ready"
    BY <1>1, <2>2
  <2> QED
    BY <2>1, <2>2
<1>2. ASSUME NEW x \in Requests, req'[x].pc = "url", file'[req'[x].f].st # "gone"
      PROVE  Kept(req[x].f, req[x].f)'
  <2>1. CASE x = r
    BY <1>2, <2>1 DEF Kept
  <2>2. CASE x # r
    <3>1. req'[x] = req[x]
      BY <2>2 DEF Onwards
    <3>2. PICK f \in Files : f = req[x].f
      BY <1>2, <3>1 DEF Base, ReqOK
    <3>3. f # None /\ file[f].st # "gone" /\ Kept(f, f)
      BY <1>2, <3>1, <3>2, Ids DEF Onwards, StoredInv
    <3>4. Kept(f, f)'
      BY <1>2, <3>1, <3>2, <3>3, KeptOn
    <3> QED
      BY <3>1, <3>2, <3>4
  <2> QED
    BY <2>1, <2>2
<1> QED
  BY <1>1, <1>2 DEF StoredInv
\* a step that removes no object and ends no request that removes one
LEMMA StoredQuiet ==
    ASSUME Base, StoredInv, NEW r \in Requests, \A x \in Requests : x # r => req'[x] = req[x], Grows,
           stored \subseteq stored', torn \subseteq torn',
           \A f \in Files : file[f].st = "gone" => file'[f].st = "gone",
           \A f \in Files : Removing(req[r], f) => f \in torn' \/ file'[f].st = "gone",
           \A f \in Files : file'[f].st = "ready" /\ file[f].st # "ready" => Kept(f, file[f].obj)',
           req'[r].pc = "url" => req'[r].f \in stored'
    PROVE  StoredInv'
<1>1. Onwards(r)
  BY DEF Onwards
<1> QED
  BY <1>1, StoredFrame

\* Files and messages that stay as they are grow.
LEMMA SameFiles == UNCHANGED <<msg, file>> => Grows
BY DEF Grows

\* Objects that are removed belong to rows the request is about to remove.
LEMMA StoredObjects == ASSUME Base, StoredInv, NEW r \in Requests, Objects(r) PROVE StoredInv'
<1> DEFINE p == req[r]
<1>1. /\ req \in [Requests -> Request] /\ Tables /\ p \in Request /\ ReqOK(p) /\ p.pc = "objects"
      /\ UNCHANGED <<msg, file>> /\ p.op \in {"edit", "unattach"} /\ p.dels \subseteq Files
  BY DEF Base, Objects, tables, ReqOK, Request
<1>2. \A f \in p.dels : file[f].st # "none"
  BY <1>1 DEF ReqOK
<1>3. /\ \A x \in Requests : x # r => req'[x] = req[x]
      /\ Grows /\ torn \subseteq torn' /\ req'[r].pc # "url"
  <2>1. req'[r] = Idle \/ \E pc \in {"edit", "unattach"} : req'[r] = [p EXCEPT !.pc = pc]
    BY <1>1 DEF Objects, Go, Finish
  <2>2. \A pc : [p EXCEPT !.pc = pc].pc = pc
    BY <1>1 DEF Request
  <2>3. req'[r].pc # "url"
    <3>1. CASE req'[r] = Idle
      BY <3>1 DEF Idle
    <3>2. CASE \E pc \in {"edit", "unattach"} : req'[r] = [p EXCEPT !.pc = pc]
      <4>1. PICK pc \in {"edit", "unattach"} : req'[r] = [p EXCEPT !.pc = pc]
        BY <3>2
      <4> QED
        BY <2>2, <4>1
    <3> QED
      BY <2>1, <3>1, <3>2
  <2>4. torn \subseteq torn'
    BY DEF Objects
  <2>5. \A x \in Requests : x # r => req'[x] = req[x]
    BY <1>1 DEF Objects, Go, Finish
  <2> QED
    BY <1>1, <2>3, <2>4, <2>5, SameFiles
\* Of the object that is removed the file itself is to go, or another has it.
<1>4. ASSUME NEW o \in stored \ stored'
      PROVE  \E g \in p.dels : file[g].obj = o /\ (Removing(req[r], g)' \/ g \in torn')
  <2>1. CASE /\ stored' = stored \ {file[f].obj : f \in p.dels}
             /\ Go(r, IF p.op = "edit" THEN "edit" ELSE "unattach")
    <3>1. PICK g \in p.dels : file[g].obj = o
      BY <2>1
    <3>2. req'[r].pc \in {"edit", "unattach"} /\ req'[r].dels = p.dels
      <4>1. req'[r] = [p EXCEPT !.pc = IF p.op = "edit" THEN "edit" ELSE "unattach"]
        BY <1>1, <2>1 DEF Go
      <4> QED
        BY <1>1, <4>1 DEF Request
    <3> QED
      BY <3>1, <3>2 DEF Removing
  <2>2. CASE \E d \in SUBSET p.dels : stored' = stored \ {file[f].obj : f \in d} /\ torn' = torn \cup d
    BY <2>2
  <2>3. \/ /\ {f \in p.dels : file[f].obj # None} = p.dels
           /\ stored' = stored \ {file[f].obj : f \in {g \in p.dels : file[g].obj # None}}
           /\ Go(r, IF p.op = "edit" THEN "edit" ELSE "unattach")
        \/ \E d \in SUBSET {f \in p.dels : file[f].obj # None} :
             stored' = stored \ {file[f].obj : f \in d} /\ torn' = torn \cup d
    BY DEF Objects
  <2> QED
    BY <2>1, <2>2, <2>3
<1>5. ASSUME NEW f \in Files, NEW o \in stored \ stored' PROVE Kept(f, o)'
  <2>1. PICK g \in p.dels : file[g].obj = o /\ (Removing(req[r], g)' \/ g \in torn')
    BY <1>4
  <2>2. CASE g = f
    BY <2>1, <2>2 DEF Kept
  <2>3. CASE g # f
    BY <1>1, <1>2, <2>1, <2>3 DEF Kept
  <2> QED
    BY <2>2, <2>3
<1>6. \A f \in Files : ~Removing(p, f)
  BY <1>1 DEF Removing
<1>7. Onwards(r)
  BY <1>1, <1>3, <1>5, <1>6 DEF Onwards
<1> QED
  BY <1>1, <1>3, <1>7, StoredFrame

\* Files of a new message are pending, or copies of files that are accounted
\* for.
LEMMA StoredInsert == ASSUME Base, StoredInv, NEW r \in Requests, Insert(r) PROVE StoredInv'
<1> DEFINE q == req[r]
<1>1. q \in Request /\ q.pc = "insert" /\ q.op = "create" /\ NewOK(q.new)
  BY DEF Base, Insert, ReqOK
<1>2. InsertEffect(q, NewRow)
  BY InsertDoes
<1>3. /\ \A f \in Files : file[f].st # "none" => file'[f] = file[f]
      /\ \A f \in Files : f > Used + Len(q.new) => file'[f] = file[f]
      /\ \A n \in Messages : msg[n].st # "none" => msg'[n] = msg[n]
  BY <1>2, MessageAssumption DEF InsertEffect, Files, Base, Tables, RowTypes
<1>4. \A f \in Files : file[f].obj # None => file[f].st # "none"
  BY DEF Base, Tables, FileOK
<1>5. Grows
  BY <1>3, <1>4 DEF Grows
<1>6. stored' = stored \cup Uploaded(file') /\ torn' = torn
      /\ \A x \in Requests : x # r => req'[x] = req[x]
  BY DEF Insert, past, Base
<1>7. req'[r].pc = "drop"
  BY <1>1 DEF Insert, Base, Request
<1>8. ASSUME NEW f \in Files, file'[f].st = "ready", file[f].st # "ready" PROVE Kept(f, file[f].obj)'
  <2>1. file[f].st = "none" /\ f > Used /\ f <= Used + Len(q.new)
    <3>1. file[f].st = "none"
      BY <1>3, <1>8
    <3>2. f > Used
      BY <1>2, <3>1 DEF InsertEffect
    <3>3. file'[f] # file[f]
      BY <1>8
    <3>4. Len(q.new) \in Nat /\ Used \in Nat
      BY <1>1, <1>2 DEF InsertEffect, Request
    <3> QED
      BY <1>3, <3>1, <3>2, <3>3, <3>4 DEF Files
  <2>2. /\ f - Used \in DOMAIN q.new /\ file'[f].st = q.new[f - Used].st
        /\ file'[f].obj = IF q.new[f - Used].st = "ready" /\ q.new[f - Used].obj = None
                          THEN f ELSE q.new[f - Used].obj
    BY <1>2, <2>1 DEF InsertEffect
  <2>3. CASE q.new[f - Used].obj = None
    <3>1. file'[f].obj = f
      BY <1>8, <2>2, <2>3
    <3>2. f \in Uploaded(file')
      BY <1>8, <2>1, <3>1 DEF Uploaded
    <3> QED
      BY <1>6, <3>1, <3>2 DEF Kept
  <2>4. CASE q.new[f - Used].obj # None
    <3>1. PICK g \in Files : file[g].st # "none" /\ file[g].obj = q.new[f - Used].obj
      BY <1>1, <1>8, <2>2, <2>4 DEF NewOK
    <3>2. g # f /\ file'[g] = file[g]
      BY <1>3, <2>1, <3>1
    <3> QED
      BY <2>2, <2>4, <3>1, <3>2 DEF Kept
  <2> QED
    BY <2>3, <2>4
<1>9. \A f \in Files : ~Removing(q, f)
  BY <1>1 DEF Removing
<1> QED
  BY <1>3, <1>5, <1>6, <1>7, <1>8, <1>9, StoredQuiet
\* Every step keeps the urls good.
LEMMA StoredNext == ASSUME Base, StoredInv, [Next]_vars PROVE StoredInv'
<1>0. /\ req \in [Requests -> Request] /\ Tables /\ file \in [Files -> File] /\ msg \in [Messages -> Row]
      /\ \A x \in Requests : req[x] \in Request /\ ReqOK(req[x])
  BY DEF Base, Tables, RowTypes
<1>1. ASSUME NEW r \in Requests, Arrive(r) PROVE StoredInv'
  <2>1. PICK q : Call(r, q)
    BY <1>1, Arrives
  <2>2. /\ \A f \in Files : ~Removing(req[r], f)
        /\ \A x \in Requests : x # r => req'[x] = req[x]
        /\ UNCHANGED <<msg, file, torn>> /\ req'[r] = q
    BY <1>0, <2>1 DEF Call, Begin, Free, Idle, Removing, tables, past
  <2> QED
    BY <2>1, <2>2, SameFiles, StoredQuiet DEF Call
<1>2. ASSUME NEW r \in Requests, Step(r) PROVE StoredInv'
  <2> DEFINE p == req[r]
  <2>1. \A x \in Requests : x # r => req'[x] = req[x]
    BY <1>0, <1>2 DEF Step, Insert, Count, Seek, Join, Cast, Url, Look, Announce, Objects, Edit,
                  Unattach, Mark, Abort, Pin, Like, Sweep, Drop, Store, Go, Finish
  <2>2. p \in Request /\ ReqOK(p)
    BY <1>0
  <2>3. CASE Insert(r)
    BY <2>3, StoredInsert
  <2>4. CASE Objects(r)
    BY <2>4, StoredObjects
  <2>5. ASSUME NEW pc, Go(r, pc) PROVE req'[r].pc = pc
    <3>1. req'[r] = [p EXCEPT !.pc = pc]
      BY <1>0, <2>5 DEF Go
    <3> QED
      BY <2>2, <3>1 DEF Request
  <2>6. ASSUME Finish(r) PROVE req'[r].pc = "idle"
    BY <1>0, <2>6 DEF Finish, Idle
  <2>7. p.pc \notin {"edit", "unattach"} => \A f \in Files : ~Removing(p, f)
    BY DEF Removing
  <2>8. CASE \/ Count(r) \/ Seek(r) \/ Join(r) \/ Cast(r) \/ Look(r) \/ Announce(r)
             \/ Mark(r) \/ Pin(r) \/ Like(r) \/ Drop(r) \/ Store(r)
    <3>1. p.pc \notin {"edit", "unattach"} /\ UNCHANGED <<file, stored, torn>>
      BY <2>8 DEF Count, Seek, Join, Cast, Look, Announce, Mark, Pin, Like, Drop, Store, tables, past
    <3>2. req'[r].pc # "url"
      <4>1. CASE Seek(r) \/ Join(r)
        <5>1. req'[r] \in {Idle, Onward(p), [p EXCEPT !.pc = "join"]}
          BY <1>0, <4>1 DEF Seek, Join, Finish
        <5>2. Idle.pc # "url" /\ Onward(p).pc # "url" /\ [p EXCEPT !.pc = "join"].pc # "url"
          BY <2>2 DEF Idle, Onward, Request
        <5> QED
          BY <5>1, <5>2
      <4>2. CASE Look(r)
        <5>1. Finish(r) \/ req'[r] = [p EXCEPT !.pc = "last", !.flag = StillPending(p.m)]
          BY <1>0, <4>2 DEF Look
        <5>2. [p EXCEPT !.pc = "last", !.flag = StillPending(p.m)].pc = "last"
          BY <2>2 DEF Request
        <5> QED
          BY <2>6, <5>1, <5>2
      <4>3. CASE Drop(r)
        <5>1. Finish(r) \/ Go(r, "cast") \/ Go(r, "count") \/ Go(r, "look")
          BY <4>3 DEF Drop
        <5> QED
          BY <2>5, <2>6, <5>1
      <4>4. CASE Count(r) \/ Mark(r) \/ Pin(r) \/ Cast(r) \/ Announce(r) \/ Like(r) \/ Store(r)
        <5>1. Finish(r) \/ Go(r, "seek") \/ Go(r, "drop")
          BY <4>4 DEF Count, Mark, Pin, Cast, Announce, Like, Store
        <5> QED
          BY <2>5, <2>6, <5>1
      <4> QED
        BY <2>8, <4>1, <4>2, <4>3, <4>4
    <3>3. \A m \in Messages : msg[m].st # "none" => msg'[m].st # "none"
      <4>1. CASE Count(r)
        <5>1. \A m \in Messages : [msg[m] EXCEPT !.replies = @ + 1].st = msg[m].st
          BY <1>0 DEF Row
        <5>2. msg' = msg \/ msg' = [msg EXCEPT ![p.parent] = [msg[p.parent] EXCEPT !.replies = @ + 1]]
          BY <1>0, <4>1 DEF Count
        <5>3. \A m \in Messages : msg'[m] = msg[m] \/ msg'[m] = [msg[m] EXCEPT !.replies = @ + 1]
          BY <1>0, <5>2
        <5> QED
          BY <5>1, <5>3
      <4>2. CASE Mark(r) \/ Pin(r)
        <5>1. CASE Mark(r)
          BY <1>0, <5>1 DEF Mark
        <5>2. CASE Pin(r)
          BY <1>0, <5>2 DEF Pin
        <5> QED
          BY <4>2, <5>1, <5>2
      <4>3. CASE UNCHANGED msg
        BY <4>3
      <4> QED
        BY <2>8, <4>1, <4>2, <4>3 DEF Seek, Join, Cast, Look, Announce, Like, Drop, Store, tables
    <3>4. Grows
      BY <3>1, <3>3 DEF Grows
    <3> QED
      BY <2>1, <2>7, <3>1, <3>2, <3>4, StoredQuiet
  <2>9. CASE Url(r)
    <3>1. /\ p.pc = "url" /\ p.f \in Files /\ file[p.f].st # "none" /\ UNCHANGED <<msg, stored, torn>>
          /\ file[p.f].obj \in {None, p.f} /\ p.f # None
      BY <2>2, <2>9, Ids DEF Url, ReqOK, past
    <3>2. CASE file[p.f].st = "gone"
      <4>1. UNCHANGED <<msg, file>> /\ req'[r].pc = "idle"
        BY <2>6, <2>9, <3>1, <3>2 DEF Url
      <4> QED
        BY <2>1, <2>7, <3>1, <4>1, SameFiles, StoredQuiet
    <3>3. CASE file[p.f].st # "gone"
      <4> DEFINE row == [file[p.f] EXCEPT !.st = "ready", !.obj = p.f]
      <4>1. row.st = "ready" /\ row.obj = p.f /\ row.msg = file[p.f].msg
        BY <1>0, <3>1 DEF File
      <4>2. file' = [file EXCEPT ![p.f] = row] /\ req'[r].pc = "drop"
        BY <1>0, <2>5, <2>9, <3>1, <3>3 DEF Url
      <4> HIDE DEF row
      <4>3. file'[p.f] = row /\ \A f \in Files : f # p.f => file'[f] = file[f]
        BY <1>0, <3>1, <4>2
      <4>4. Grows
        BY <3>1, <4>1, <4>3 DEF Grows
      <4>5. \A f \in Files : file[f].st = "gone" => file'[f].st = "gone"
        BY <3>3, <4>3
      <4>6. Onwards(r)
        BY <2>1, <2>7, <3>1, <4>4, <4>5 DEF Onwards
      <4>7. ASSUME NEW f \in Files, f = p.f PROVE Kept(f, file[f].obj)'
        <5>1. Kept(f, f)
          BY <3>1, <3>3, <4>7 DEF StoredInv
        <5>2. Kept(f, f)'
          BY <3>1, <4>1, <4>3, <4>6, <4>7, <5>1, KeptOn
        <5>3. file'[f].obj = f
          BY <4>1, <4>3, <4>7
        <5> QED
          BY <5>2, <5>3
      <4>8. \A f \in Files : file'[f].st = "ready" /\ file[f].st # "ready" => Kept(f, file[f].obj)'
        BY <4>3, <4>7
      <4> QED
        BY <4>2, <4>6, <4>8, StoredFrame
    <3> QED
      BY <3>2, <3>3
  <2>10. CASE Edit(r)
    <3>1. p.op = "edit" /\ p.pc = "edit" /\ stored' = stored /\ p.dels \subseteq Files
      BY <2>2, <2>10 DEF Edit, ReqOK, Request
    <3>2. CASE UNCHANGED <<msg, file>> /\ Finish(r) /\ torn' = torn \cup p.dels
      <4>1. \A f \in Files : Removing(p, f) => f \in torn'
        BY <3>2 DEF Removing
      <4> QED
        BY <2>1, <2>6, <3>1, <3>2, <4>1, SameFiles, StoredQuiet
    <3>3. CASE EditEffect(p) /\ Go(r, "drop") /\ torn' = torn
      <4>1. /\ \A f \in Files : file[f].st # "none" =>
                 /\ file'[f].msg = file[f].msg /\ file'[f].obj = file[f].obj
                 /\ file'[f].st = IF f \in p.dels THEN "gone" ELSE file[f].st
            /\ \A f \in Files : file[f].st = "none" =>
                 file'[f] = file[f] \/ file'[f].st = "pending"
        <5>1. \A f \in Files : LET row == [file[f] EXCEPT !.st = "gone"]
                               IN  row.msg = file[f].msg /\ row.obj = file[f].obj /\ row.st = "gone"
          BY <1>0 DEF File
        <5>2. \A f \in Files : file[f].st # "none" =>
                file'[f] = IF f \in p.dels THEN [file[f] EXCEPT !.st = "gone"] ELSE file[f]
          BY <3>3 DEF EditEffect
        <5>3. \A f \in Files : file[f].st = "none" =>
                file'[f] = file[f] \/ file'[f].st = "pending"
          BY <2>2, <3>3 DEF EditEffect, Files, Request
        <5> QED
          BY <5>1, <5>2, <5>3
      <4>2. \A m \in Messages : msg'[m].st = msg[m].st
        BY <1>0, <3>3 DEF EditEffect
      <4>3. Grows
        BY <1>0, <4>1, <4>2 DEF Grows, Tables, FileOK
      <4>4. \A f \in Files : Removing(p, f) => file'[f].st = "gone"
        BY <2>2, <3>1, <4>1 DEF Removing, ReqOK
      <4>5. \A f \in Files : file'[f].st = "ready" => file[f].st = "ready"
        BY <4>1
      <4>6. \A f \in Files : file[f].st = "gone" => file'[f].st = "gone"
        BY <4>1
      <4> QED
        BY <2>1, <2>5, <3>1, <3>3, <4>3, <4>4, <4>5, <4>6, StoredQuiet
    <3> QED
      BY <2>10, <3>2, <3>3, EditDoes
  <2>11. CASE Unattach(r)
    <3>1. /\ p.op = "unattach" /\ p.dels = {p.f} /\ p.f \in Files /\ file[p.f].st \in {"ready", "gone"}
          /\ file[p.f].obj # None /\ UNCHANGED <<msg, stored, torn>> /\ req'[r].pc = "idle"
      BY <2>2, <2>6, <2>11 DEF Unattach, ReqOK
    <3>2. /\ \A f \in Files : file'[f].msg = file[f].msg /\ file'[f].obj = file[f].obj
                              /\ file'[f].st = IF f = p.f THEN "gone" ELSE file[f].st
      <4>1. LET row == [file[p.f] EXCEPT !.st = "gone"]
            IN  row.msg = file[p.f].msg /\ row.obj = file[p.f].obj /\ row.st = "gone"
        BY <1>0, <3>1 DEF File
      <4>2. file' = [file EXCEPT ![p.f] = [file[p.f] EXCEPT !.st = "gone"]]
        BY <1>0, <2>11, <3>1 DEF Unattach
      <4> QED
        BY <1>0, <4>1, <4>2
    <3>3. Grows
      BY <3>1, <3>2 DEF Grows
    <3>4. \A f \in Files : Removing(p, f) => file'[f].st = "gone"
      BY <3>1, <3>2 DEF Removing
    <3> QED
      BY <2>1, <3>1, <3>2, <3>3, <3>4, StoredQuiet
  <2>12. ASSUME NEW d \in Messages, Removed(d), UNCHANGED <<stored, torn, lost>>,
                p.pc \notin {"edit", "unattach"}, req'[r].pc # "url"
         PROVE  StoredInv'
    <3>1. Grows /\ \A f \in Files : file'[f] = IF f \in FilesOf(d) THEN [file[f] EXCEPT !.st = "gone"] ELSE file[f]
      BY <2>12, RemovedRows
    <3>2. \A f \in Files : [file[f] EXCEPT !.st = "gone"].st = "gone"
      BY <1>0 DEF File
    <3>3. /\ \A f \in Files : file[f].st = "gone" => file'[f].st = "gone"
          /\ \A f \in Files : file'[f].st = "ready" => file[f].st = "ready"
      BY <3>1, <3>2
    <3> QED
      BY <2>1, <2>7, <2>12, <3>1, <3>3, StoredQuiet
  <2>13. CASE Abort(r)
    BY <2>2, <2>5, <2>12, <2>13 DEF Abort, ReqOK, past
  <2>14. CASE Sweep(r)
    <3>1. PICK m \in Messages : /\ Removed(m)
                                /\ req'[r] = Idle \/ req'[r] = [p EXCEPT !.todo = @ \ {m}]
      BY <1>0, <2>2, <2>14 DEF Sweep, Request
    <3>2. p.pc = "sweep" /\ UNCHANGED <<stored, torn, lost>>
      BY <2>14 DEF Sweep
    <3>3. req'[r].pc # "url"
      BY <2>2, <3>1, <3>2 DEF Idle, Request
    <3> QED
      BY <2>12, <3>1, <3>2, <3>3
  <2> QED
    BY <1>2, <2>3, <2>4, <2>8, <2>9, <2>10, <2>11, <2>13, <2>14 DEF Step
<1>3. ASSUME NEW r \in Requests, Stop(r) PROVE StoredInv'
  <2>1. /\ \A x \in Requests : x # r => req'[x] = req[x]
        /\ UNCHANGED <<msg, file, stored>> /\ torn \subseteq torn' /\ req'[r].pc = "idle"
    BY <1>0, <1>3 DEF Stop, Finish, tables, Idle
  <2>2. \A f \in Files : Removing(req[r], f) => f \in torn'
    BY <1>3 DEF Stop, Removing
  <2> QED
    BY <2>1, <2>2, SameFiles, StoredQuiet
<1>4. CASE Expire \/ UNCHANGED vars
  <2>1. UNCHANGED <<file, stored, torn, req>>
    BY <1>4 DEF Expire, vars, tables, past
  <2> QED
    BY <2>1 DEF StoredInv, Kept, Removing
<1> QED
  BY <1>1, <1>2, <1>3, <1>4 DEF Next
(***************************************************************************)
(* The theorems                                                            *)
(***************************************************************************)
LEMMA MessageInit == ASSUME Init PROVE Inv
<1>1. PageInv
  BY DEF Init, PageInv
<1>2. PICK u \in Users, n \in 0 .. 2 :
        /\ n <= MaxFiles
        /\ file = [f \in Files |-> IF f <= n THEN [NoFile EXCEPT !.st = "pending", !.msg = 1] ELSE NoFile]
        /\ told = [m \in Messages |-> IF m = 1 /\ n = 0 THEN {"job", "cast"} ELSE {}]
        /\ msg = [m \in Messages |-> IF m = 1 THEN NewMessage(u) ELSE [NewMessage(u) EXCEPT !.st = "none"]]
  BY DEF Init
<1>3. OwedInv
  <2> SUFFICES ASSUME NEW m \in Messages, There(m) PROVE Told(m) \/ StillPending(m)
    BY DEF OwedInv, Owed, Told
  <2>1. m = 1
    BY <1>2 DEF There, NewMessage
  <2>2. CASE n = 0
    BY <1>2, <2>1, <2>2 DEF Told
  <2>3. CASE n # 0
    <3>1. 1 \in Files /\ 1 <= n
      BY <1>2, <2>3, MessageAssumption DEF Files
    <3>2. file[1].st = "pending" /\ file[1].msg = 1
      BY <1>2, <3>1 DEF NoFile
    <3> QED
      BY <2>1, <3>1, <3>2 DEF StillPending, FilesOf
  <2> QED
    BY <2>2, <2>3
<1>4. StoredInv
  <2>1. \A f \in Files : file[f].st # "ready"
    BY <1>2 DEF NoFile
  <2>2. \A x \in Requests : req[x].pc = "idle"
    BY DEF Init, Idle
  <2> QED
    BY <2>1, <2>2 DEF StoredInv
<1> QED
  BY <1>1, <1>3, <1>4, BaseInit, CountedInit DEF Inv

\* Every step keeps the invariant.
LEMMA MessageStep == ASSUME Inv, [Next]_vars PROVE Inv'
BY BaseNext, CountedNext, PageNext, OwedNext, StoredNext, MessageAssumption DEF Inv

\* The invariant holds of every reachable state.
LEMMA MessageAlways == Spec => []Inv
BY MessageInit, MessageStep, PTL DEF Spec

\* Replies that run together never lose a count: the counter of a message is
\* the number of its replies less those that are yet to be counted or whose
\* request stopped (createMessage).
THEOREM NoCountIsLost == Spec => []RepliesCounted
<1>1. Inv => RepliesCounted
  BY CountedMeans DEF Inv
<1> QED
  BY <1>1, MessageAlways, PTL

\* A page in the cache that differs from the tables is excused or about to
\* be invalidated: whoever writes a row that a page shows invalidates after
\* the write, or is one of the known writers that do not (messageCacheKey).
THEOREM PagesAreHonest == Spec => []PageHonest
<1>1. Inv => PageHonest
  BY DEF Inv, PageInv, PageHonest, Sweeps
<1> QED
  BY <1>1, MessageAlways, PTL

\* Whichever finalize comes last, it finds no pending file and announces the
\* message: none is left unannounced unless a request for it stopped
\* (createMessage, finalizeAttachment).
THEOREM LastFileAnnounces == Spec => []Delivered
<1>1. ASSUME Inv PROVE Delivered
  <2> SUFFICES ASSUME NEW m \in Messages, There(m), ~StillPending(m), m \notin cut,
                      \A x \in Requests : req[x].m # m
               PROVE  {"job", "cast"} \subseteq told[m]
    BY DEF Delivered
  <2> QED
    BY <1>1 DEF Inv, OwedInv, Owed, Sends, Finishes
<1> QED
  BY <1>1, MessageAlways, PTL

\* A url names a stored object, but for the files whose removal is under way
\* or was left half-done, and for copies that share it (updateMessage,
\* deleteAttachment, forwardMessages).
THEOREM NoObjectIsLost == Spec => []ObjectsKept
<1>1. Inv => ObjectsKept
  BY DEF Inv, StoredInv, Kept, Removing, ObjectsKept
<1> QED
  BY <1>1, MessageAlways, PTL

\* The tables, the cache and the requests keep their types.
THEOREM MessageTypes == Spec => []TypeOK
<1> DEFINE Few == arrived \in 0 .. MaxArrivals
<1>1. Inv /\ Few => TypeOK
  BY DEF Inv, Base, Tables, RowTypes, OtherTypes, TypeOK
<1>2. Init => Few
  BY MessageAssumption DEF Init
<1>3. Few /\ [Next]_vars => Few'
  <2> SUFFICES ASSUME arrived \in 0 .. MaxArrivals, [Next]_vars PROVE arrived' \in 0 .. MaxArrivals
    OBVIOUS
  <2>1. ASSUME NEW r \in Requests, Arrive(r) PROVE arrived' \in 0 .. MaxArrivals
    <3>1. PICK q : Begin(r, q)
      BY <2>1, Arrives DEF Call
    <3> QED
      BY <3>1, MessageAssumption DEF Begin
  <2>2. ASSUME NEW r \in Requests, Step(r) \/ Stop(r) PROVE arrived' = arrived
    BY <2>2 DEF Step, Stop, Insert, Count, Seek, Join, Cast, Url, Look, Announce, Objects, Edit,
                Unattach, Mark, Abort, Pin, Like, Sweep, Drop, Store
  <2> QED
    BY <2>1, <2>2 DEF Next, Expire, vars
<1> HIDE DEF Few
<1> QED
  BY <1>1, <1>2, <1>3, MessageAlways, PTL DEF Spec
=============================================================================
