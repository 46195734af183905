------------------------------- MODULE Message ------------------------------
(***************************************************************************)
(* The messages of one channel: rows of messages, attachments, reactions   *)
(* and thread_subscriptions, the stored files, the first page of the       *)
(* channel in the Redis cache, and what the rest of the system has been    *)
(* told about a message (src/src/message, src/src/attachment).             *)
(*                                                                         *)
(* A request is a record with a program counter and an action is one SQL   *)
(* statement, one transaction or one call to Redis, the storage or the     *)
(* queue; reads with no write between them are one step.  Arrive is the    *)
(* part of a handler before its first write, its checks included: a        *)
(* request that is refused there changes nothing and is left out.  Access  *)
(* and posting permissions are among these checks, so are the refusal of a *)
(* reply to a timeline message and the unique index that stops a reply to  *)
(* the feed message of a huddle.                                           *)
(***************************************************************************)
EXTENDS Integers, FiniteSets, SequencesExt

CONSTANTS
    Users,        \* members of the channel
    NoPage,       \* no first page in the cache
    Requests,     \* the slots in which requests are in flight together
    MaxMessages,  \* bound: rows ever inserted in messages
    MaxFiles,     \* bound: rows ever inserted in attachments
    MaxArrivals   \* bound: requests that ever arrive

ASSUME MessageAssumption ==
    /\ MaxMessages \in Nat \ {0} /\ MaxFiles \in Nat /\ MaxArrivals \in Nat
    /\ IsFiniteSet(Requests)

VARIABLES
    msg,      \* msg[m]: the row of messages with id m
    file,     \* file[f]: the row of attachments with id f
    stored,   \* the objects in S3 or Cloudinary
    liked,    \* reactions: pairs of a message and a user, for one emoji
    subs,     \* thread_subscriptions: pairs of a parent message and a user
    cache,    \* messages:v2:<channel>:page1, a View or NoPage
    told,     \* told[m]: what has gone out about m
    req,      \* the requests in flight
    arrived,  \* how many have arrived
    excused,  \* history: the page in the cache may differ from the table
    cut,      \* history: messages with a request that stopped half-way
    torn,     \* history: files whose object an unfinished request removed
    lost      \* history: replies whose request stopped before counting them

tables == <<msg, file, liked, subs>>
past   == <<excused, cut, torn, lost>>
vars   == <<tables, stored, cache, told, req, arrived, past>>

Messages == 1 .. MaxMessages
Files    == 1 .. MaxFiles
None     == 0

(***************************************************************************)
(* Rows.  A row that was inserted keeps its parent and its author when it  *)
(* is removed (st "gone"), for the properties.  source is the message its  *)
(* forwardSnapshot is of; content 0 has no text, 2 was edited.  A file is  *)
(* "pending" while it has a pendingUploadId, "hollow" when it has neither  *)
(* that nor a url; obj is the object its url names; quote is originScope   *)
(* 'forward_quote'.                                                        *)
(***************************************************************************)
Row  == [st : {"none", "there", "gone"}, author : Users, parent : 0 .. MaxMessages,
         source : 0 .. MaxMessages, deleted : BOOLEAN, content : 0 .. 2,
         pinned : BOOLEAN, replies : Nat]
File == [st : {"none", "pending", "ready", "hollow", "gone"},
         msg : 0 .. MaxMessages, obj : 0 .. MaxFiles, quote : BOOLEAN]

NewMessage(u) == [st |-> "there", author |-> u, parent |-> None, source |-> None,
                  deleted |-> FALSE, content |-> 1, pinned |-> FALSE, replies |-> 0]
NoFile == [st |-> "none", msg |-> None, obj |-> None, quote |-> FALSE]

There(m)   == msg[m].st = "there"
FilesOf(m) == {f \in Files : file[f].msg = m /\ file[f].st \notin {"none", "gone"}}
StillPending(m) == \E f \in FilesOf(m) : file[f].st = "pending"
\* rows are given their ids in order
Used    == CHOOSE n \in 0 .. MaxFiles : \A f \in Files : file[f].st = "none" <=> f > n
NewRow  == CHOOSE m \in Messages :
             msg[m].st = "none" /\ \A n \in Messages : msg[n].st = "none" => m <= n

\* a message as a reader is given it, and page one: the root messages
Likes(m) == {u \in Users : <<m, u>> \in liked}
Shown(m) == [deleted |-> msg[m].deleted, content |-> msg[m].content,
             pinned |-> msg[m].pinned, replies |-> msg[m].replies,
             files |-> {<<f, file[f].st>> : f \in FilesOf(m)}, likes |-> Likes(m)]
View == [m \in {n \in Messages : There(n) /\ msg[n].parent = None} |-> Shown(m)]

Idle == [pc |-> "idle", op |-> "none", m |-> None, f |-> None, user |-> None,
         parent |-> None, source |-> None, text |-> 1, new |-> <<>>, dels |-> {}, flag |-> FALSE,
         page |-> NoPage, todo |-> {}]
Free(r)   == req[r] = Idle
Go(r, pc) == req' = [req EXCEPT ![r].pc = pc]
Finish(r) == req' = [req EXCEPT ![r] = Idle]

(***************************************************************************)
(* The three ways in which a page in the cache comes to differ from the    *)
(* table without an invalidation to follow: Unswept is a write that no     *)
(* invalidation follows, Store may put back what was read before a write,  *)
(* and a request may stop before its invalidation (Stop).                  *)
(***************************************************************************)
Unswept == excused' = (excused \/ cache # NoPage)

(***************************************************************************)
(* The beginning of a request                                              *)
(***************************************************************************)
Begin(r, call) ==
    /\ Free(r) /\ arrived < MaxArrivals
    /\ arrived' = arrived + 1
    /\ req' = [req EXCEPT ![r] = call]
    /\ UNCHANGED <<tables, cache, told, past>>

Fresh(st) == <<[st |-> st, obj |-> None, quote |-> FALSE]>>

\* createMessage up to its transaction: a root message or a reply, with no
\* file, an uploaded one or one whose upload is still to come
ArriveCreate(r, u) ==
    \E p \in {m \in Messages : There(m)} \cup {None}, n \in {<<>>, Fresh("ready"), Fresh("pending")} :
        /\ Begin(r, [Idle EXCEPT !.pc = "insert", !.op = "create", !.user = u, !.parent = p, !.new = n])
        /\ UNCHANGED stored

\* forwardMessages to this channel: the files of the source are copied by
\* url, those still pending as rows with neither url nor pendingUploadId.  Of
\* a forward that has text or files of its own these files alone are copied
\* and become files of the new message, which quotes nothing; else the new
\* message quotes the first message of the chain, which has to be there
Origin(m) == IF msg[m].source = None THEN m ELSE msg[m].source
Mixed(m)  == msg[m].source # None /\ (msg[m].content # 0 \/ \E f \in FilesOf(m) : ~file[f].quote)
Quoted(f, quote) == [st |-> IF file[f].st = "ready" THEN "ready" ELSE "hollow",
                     obj |-> file[f].obj, quote |-> quote]
ArriveForward(r, u) ==
    \E m \in Messages, text \in 0 .. 1 :
        LET own == {f \in FilesOf(m) : ~file[f].quote}
            s   == SetToSeq(IF Mixed(m) THEN own ELSE FilesOf(m))
        IN  /\ There(m) /\ ~msg[m].deleted
            /\ Mixed(m) \/ There(Origin(m))
            /\ Begin(r, [Idle EXCEPT !.pc = "insert", !.op = "create", !.user = u, !.text = text,
                         !.source = IF Mixed(m) THEN None ELSE Origin(m),
                         !.new = [i \in DOMAIN s |-> Quoted(s[i], ~Mixed(m))]])
            /\ UNCHANGED stored

\* finalizeAttachment up to its update; the client has uploaded the object
ArriveFinalize(r) ==
    \E f \in Files :
        LET m == file[f].msg IN
        /\ file[f].st = "pending" /\ There(m) /\ ~msg[m].deleted
        /\ Begin(r, [Idle EXCEPT !.pc = "url", !.op = "finalize", !.m = m, !.f = f])
        /\ stored' = stored \cup {f}

\* updateMessage up to the removal of the files it is to delete
ArriveEdit(r) ==
    \E m \in Messages, n \in {<<>>, Fresh("pending")} :
        /\ There(m) /\ ~msg[m].deleted
        /\ \E d \in SUBSET {f \in FilesOf(m) : ~file[f].quote}, empty \in BOOLEAN :
             Begin(r, [Idle EXCEPT !.pc = IF d = {} THEN "edit" ELSE "objects", !.op = "edit",
                       !.m = m, !.dels = d, !.new = n, !.flag = empty])
        /\ UNCHANGED stored

\* deleteAttachment up to the removal of the object
ArriveUnattach(r) ==
    \E f \in Files :
        /\ file[f].st = "ready"
        /\ Begin(r, [Idle EXCEPT !.pc = "objects", !.op = "unattach", !.m = file[f].msg, !.f = f, !.dels = {f}])
        /\ UNCHANGED stored

\* deleteMessage
ArriveDelete(r, m) ==
    /\ There(m)
    /\ Begin(r, [Idle EXCEPT !.pc = "mark", !.op = "delete", !.m = m])
    /\ UNCHANGED stored

\* abortMessage: none of its files may have come
ArriveAbort(r, m) ==
    /\ There(m) /\ ~msg[m].deleted /\ \A f \in FilesOf(m) : file[f].st = "pending"
    /\ Begin(r, [Idle EXCEPT !.pc = "remove", !.op = "abort", !.m = m])
    /\ UNCHANGED stored

\* togglePin and toggleReaction, with what they read
ArrivePin(r, m) ==
    /\ There(m)
    /\ Begin(r, [Idle EXCEPT !.pc = "pin", !.op = "pin", !.m = m, !.flag = ~msg[m].pinned])
    /\ UNCHANGED stored

ArriveLike(r, m, u) ==
    /\ There(m)
    /\ Begin(r, [Idle EXCEPT !.pc = "like", !.op = "like", !.m = m, !.user = u, !.flag = <<m, u>> \in liked])
    /\ UNCHANGED stored

\* getMessages without a cursor, when the cache does not answer it; it also
\* starts cleanupStalePendingAttachments, which runs on its own
ArriveGet(r) ==
    /\ cache = NoPage
    /\ Begin(r, [Idle EXCEPT !.pc = "store", !.op = "get", !.page = View])
    /\ UNCHANGED stored

\* messages all of whose files are pending, some of them for too long
Orphans == {m \in Messages : There(m) /\ FilesOf(m) # {}
                             /\ \A f \in FilesOf(m) : file[f].st = "pending"}
ArriveClean(r) ==
    /\ \E s \in SUBSET Orphans \ {{}} :
         Begin(r, [Idle EXCEPT !.pc = "sweep", !.op = "clean", !.todo = s])
    /\ UNCHANGED stored

Arrive(r) ==
    \/ \E u \in Users : ArriveCreate(r, u) \/ ArriveForward(r, u)
    \/ ArriveFinalize(r) \/ ArriveEdit(r) \/ ArriveUnattach(r)
    \/ \E m \in Messages : \/ ArriveDelete(r, m) \/ ArriveAbort(r, m) \/ ArrivePin(r, m)
                           \/ \E u \in Users : ArriveLike(r, m, u)
    \/ ArriveGet(r) \/ ArriveClean(r)

(***************************************************************************)
(* createMessage                                                           *)
(***************************************************************************)
\* the rows of s, which become rows of message m beside these rows
Inserted(rows, m, s) ==
    [f \in Files |->
       IF f - Used \notin DOMAIN s THEN rows[f]
       ELSE LET n == s[f - Used]
            IN  [st |-> n.st, msg |-> m, quote |-> n.quote,
                 obj |-> IF n.st = "ready" /\ n.obj = None THEN f ELSE n.obj]]
Uploaded(after) == {f \in Files : file[f].st = "none" /\ after[f].st = "ready" /\ after[f].obj = f}

\* the transaction that inserts the message and its files
Insert(r) ==
    LET q == req[r]
        m == NewRow
    IN  /\ q.pc = "insert"
        /\ \E n \in Messages : msg[n].st = "none"
        /\ Used + Len(q.new) <= MaxFiles
        /\ msg' = [msg EXCEPT ![m] = [NewMessage(q.user) EXCEPT
                                     !.parent = q.parent, !.source = q.source, !.content = q.text]]
        /\ file' = Inserted(file, m, q.new)
        /\ stored' = stored \cup Uploaded(file')
        /\ req' = [req EXCEPT ![r].pc = "drop", ![r].m = m,
                              ![r].flag = \E i \in DOMAIN q.new : q.new[i].st = "pending"]
        /\ UNCHANGED <<liked, subs, cache, told, arrived, past>>

\* mutation: a reply whose files are to come is left out of the counter
CountDeferred(r) ==
    LET q == req[r] IN
    /\ q.pc = "count"
    /\ IF There(q.parent) /\ ~q.flag
       THEN msg' = [msg EXCEPT ![q.parent].replies = @ + 1] /\ Unswept
       ELSE UNCHANGED <<msg, excused>>
    /\ Go(r, "seek")
    /\ UNCHANGED <<file, liked, subs, stored, cache, told, arrived, cut, torn, lost>>

\* UPDATE messages SET reply_count = reply_count + 1, after the invalidation
Count(r) ==
    LET q == req[r] IN
    /\ q.pc = "count"
    /\ IF There(q.parent)
       THEN msg' = [msg EXCEPT ![q.parent].replies = @ + 1] /\ Unswept
       ELSE UNCHANGED <<msg, excused>>
    /\ Go(r, "seek")
    /\ UNCHANGED <<file, liked, subs, stored, cache, told, arrived, cut, torn, lost>>

\* ensureThreadSubscription, first for the replier, then for the author of
\* the parent: a read, and an insert which the unique index or the foreign
\* key may refuse; the request then fails
Onward(q) ==
    LET a == msg[q.parent].author
    IN  IF q.user = msg[q.m].author /\ There(q.parent) /\ a # q.user
        THEN [q EXCEPT !.pc = "seek", !.user = a]
        ELSE [q EXCEPT !.pc = "cast"]

Seek(r) ==
    LET q == req[r] IN
    /\ q.pc = "seek"
    /\ req' = [req EXCEPT ![r] = IF <<q.parent, q.user>> \in subs THEN Onward(q)
                                 ELSE [q EXCEPT !.pc = "join"]]
    /\ UNCHANGED <<tables, stored, cache, told, arrived, past>>

Join(r) ==
    LET q == req[r] IN
    /\ q.pc = "join"
    /\ IF There(q.parent) /\ <<q.parent, q.user>> \notin subs
       THEN /\ subs' = subs \cup {<<q.parent, q.user>>}
            /\ req' = [req EXCEPT ![r] = Onward(q)]
            /\ UNCHANGED cut
       ELSE Finish(r) /\ cut' = cut \cup {q.m} /\ UNCHANGED subs
    /\ UNCHANGED <<msg, file, liked, stored, cache, told, arrived, excused, torn, lost>>

\* the notices to the subscribers of a thread (Notification), then the
\* broadcast of the controller: both are left to finalize while a file is
\* pending
Cast(r) ==
    LET q == req[r] IN
    /\ q.pc = "cast"
    /\ told' = IF q.flag THEN told ELSE [told EXCEPT ![q.m] = @ \cup {"cast"}]
    /\ Finish(r)
    /\ UNCHANGED <<tables, stored, cache, arrived, past>>

(***************************************************************************)
(* finalizeAttachment and the end of its controller                        *)
(***************************************************************************)
\* the update is by id: it does nothing, and the handler fails, when the row
\* is gone; it does not look at pendingUploadId again
Url(r) ==
    LET q == req[r] IN
    /\ q.pc = "url"
    /\ IF file[q.f].st = "gone"
       THEN Finish(r) /\ UNCHANGED file
       ELSE file' = [file EXCEPT ![q.f].st = "ready", ![q.f].obj = q.f] /\ Go(r, "drop")
    /\ UNCHANGED <<msg, liked, subs, stored, cache, told, arrived, past>>

\* mutation: any other file of the message counts as still to come
LookAtOthers(r) ==
    LET q == req[r] IN
    /\ q.pc = "look"
    /\ IF There(q.m)
       THEN req' = [req EXCEPT ![r].pc = "last", ![r].flag = FilesOf(q.m) # {q.f}]
       ELSE Finish(r)
    /\ UNCHANGED <<tables, stored, cache, told, arrived, past>>

\* the message is read again; only when it has no pending file left is it
\* broadcast and its job enqueued
Look(r) ==
    LET q == req[r] IN
    /\ q.pc = "look"
    /\ IF There(q.m)
       THEN req' = [req EXCEPT ![r].pc = "last", ![r].flag = StillPending(q.m)]
       ELSE Finish(r)
    /\ UNCHANGED <<tables, stored, cache, told, arrived, past>>

Announce(r) ==
    LET q == req[r] IN
    /\ q.pc = "last"
    /\ told' = IF q.flag THEN told
               ELSE [told EXCEPT ![q.m] = @ \cup {"cast"} \cup IF There(q.m) THEN {"job"} ELSE {}]
    /\ Finish(r)
    /\ UNCHANGED <<tables, stored, cache, arrived, past>>

(***************************************************************************)
(* updateMessage, deleteAttachment                                         *)
(***************************************************************************)
\* deleteAttachmentStorageBatch goes through the files in the order it was
\* given and fails at one that has no url
Objects(r) ==
    LET q     == req[r]
        ready == {f \in q.dels : file[f].obj # None}
    IN  /\ q.pc = "objects"
        /\ \/ /\ ready = q.dels
              /\ stored' = stored \ {file[f].obj : f \in ready}
              /\ Go(r, IF q.op = "edit" THEN "edit" ELSE "unattach")
              /\ UNCHANGED torn
           \/ \E d \in SUBSET ready :
                /\ ready # q.dels
                /\ stored' = stored \ {file[f].obj : f \in d}
                /\ torn' = torn \cup d
                /\ Finish(r)
        /\ UNCHANGED <<tables, cache, told, arrived, excused, cut, lost>>

\* mutation: the rows of the files stay
EditKeepsRows(r) ==
    LET q == req[r] IN
    /\ q.pc = "edit"
    /\ IF There(q.m)
       THEN msg' = [msg EXCEPT ![q.m].content = 2] /\ Go(r, "drop")
       ELSE Finish(r) /\ UNCHANGED msg
    /\ UNCHANGED <<file, liked, subs, stored, cache, told, arrived, past>>

\* one transaction, rolled back when it leaves the message with neither
\* content nor file, or when the message is gone
Edit(r) ==
    LET q     == req[r]
        less  == [f \in Files |-> IF f \in q.dels THEN [file[f] EXCEPT !.st = "gone"] ELSE file[f]]
        after == Inserted(less, q.m, q.new)
        bare  == \A f \in Files : after[f].msg = q.m => after[f].st \in {"none", "gone"}
    IN  /\ q.pc = "edit"
        /\ Used + Len(q.new) <= MaxFiles
        /\ IF There(q.m) /\ ~(q.flag /\ bare)
           THEN /\ msg' = [msg EXCEPT ![q.m].content = IF q.flag THEN 0 ELSE 2]
                /\ file' = after
                /\ Go(r, "drop")
                /\ UNCHANGED torn
           ELSE /\ torn' = torn \cup q.dels
                /\ Finish(r)
                /\ UNCHANGED <<msg, file>>
        /\ UNCHANGED <<liked, subs, stored, cache, told, arrived, excused, cut, lost>>

\* the row follows its object; the page in the cache is left as it is
Unattach(r) ==
    LET q == req[r] IN
    /\ q.pc = "unattach"
    /\ file' = [file EXCEPT ![q.f].st = "gone"]
    /\ Unswept
    /\ Finish(r)
    /\ UNCHANGED <<msg, liked, subs, stored, cache, told, arrived, cut, torn, lost>>

(***************************************************************************)
(* deleteMessage, abortMessage, togglePin, toggleReaction                  *)
(***************************************************************************)
\* DELETE FROM messages, by id alone; the foreign keys take the rest along
Removed(m) ==
    /\ msg' = [msg EXCEPT ![m].st = IF @ = "there" THEN "gone" ELSE @]
    /\ file' = [f \in Files |-> IF f \in FilesOf(m) THEN [file[f] EXCEPT !.st = "gone"] ELSE file[f]]
    /\ liked' = {p \in liked : p[1] # m}
    /\ subs' = {p \in subs : p[1] # m}

Mark(r) ==
    LET q == req[r] IN
    /\ q.pc = "mark"
    /\ msg' = IF There(q.m) THEN [msg EXCEPT ![q.m].deleted = TRUE, ![q.m].content = 0] ELSE msg
    /\ Go(r, "drop")
    /\ UNCHANGED <<file, liked, subs, stored, cache, told, arrived, past>>

Abort(r) ==
    /\ req[r].pc = "remove"
    /\ Removed(req[r].m)
    /\ Go(r, "drop")
    /\ UNCHANGED <<stored, cache, told, arrived, past>>

Pin(r) ==
    LET q == req[r] IN
    /\ q.pc = "pin"
    /\ msg' = IF There(q.m) THEN [msg EXCEPT ![q.m].pinned = q.flag] ELSE msg
    /\ Go(r, "drop")
    /\ UNCHANGED <<file, liked, subs, stored, cache, told, arrived, past>>

\* an insert is refused when the pair is there, a delete then finds nothing
Like(r) ==
    LET q == req[r] IN
    /\ q.pc = "like"
    /\ liked' = IF q.flag THEN liked \ {<<q.m, q.user>>}
                ELSE IF There(q.m) THEN liked \cup {<<q.m, q.user>>} ELSE liked
    /\ Unswept
    /\ Finish(r)
    /\ UNCHANGED <<msg, file, subs, stored, cache, told, arrived, cut, torn, lost>>

(***************************************************************************)
(* cleanupStalePendingAttachments: the rows are removed one by one.  The   *)
(* targets whose pages to invalidate are looked up after that, by the ids  *)
(* of rows that are no longer there: no page is.                           *)
(***************************************************************************)
Sweep(r) ==
    LET q == req[r] IN
    /\ q.pc = "sweep"
    /\ \E m \in q.todo :
         /\ Removed(m)
         /\ req' = [req EXCEPT ![r] = IF q.todo = {m} THEN Idle ELSE [q EXCEPT !.todo = @ \ {m}]]
    /\ Unswept
    /\ UNCHANGED <<stored, cache, told, arrived, cut, torn, lost>>

(***************************************************************************)
(* The cache                                                               *)
(***************************************************************************)
\* mutation: a deletion leaves the page where it is
DropButDeleted(r) ==
    LET q == req[r]
        kept == q.op = "delete" \/ (q.op = "finalize" /\ ~There(q.m))
    IN  /\ q.pc = "drop"
        /\ cache' = IF kept THEN cache ELSE NoPage
        /\ excused' = (kept /\ excused)
        /\ told' = IF q.op = "create" /\ ~q.flag THEN [told EXCEPT ![q.m] = @ \cup {"job"}] ELSE told
        /\ CASE q.op = "create"   -> Go(r, IF q.parent = None THEN "cast" ELSE "count")
             [] q.op = "finalize" -> Go(r, "look")
             [] OTHER             -> Finish(r)
        /\ UNCHANGED <<tables, stored, arrived, cut, torn, lost>>

\* redis.del; a finalize reads the row for its target first.  createMessage
\* goes on with the job of the notification queue, which it leaves to the
\* last finalize when a file is pending
Drop(r) ==
    LET q == req[r]
        kept == q.op = "finalize" /\ ~There(q.m)
    IN  /\ q.pc = "drop"
        /\ cache' = IF kept THEN cache ELSE NoPage
        /\ excused' = (kept /\ excused)
        /\ told' = IF q.op = "create" /\ ~q.flag THEN [told EXCEPT ![q.m] = @ \cup {"job"}] ELSE told
        /\ CASE q.op = "create"   -> Go(r, IF q.parent = None THEN "cast" ELSE "count")
             [] q.op = "finalize" -> Go(r, "look")
             [] OTHER             -> Finish(r)
        /\ UNCHANGED <<tables, stored, arrived, cut, torn, lost>>

\* getMessages stores the page it has built
Store(r) ==
    LET q == req[r] IN
    /\ q.pc = "store"
    /\ cache' = q.page
    /\ excused' = (q.page # View)
    /\ Finish(r)
    /\ UNCHANGED <<tables, stored, told, arrived, cut, torn, lost>>

\* mutation: a page is stored without a time to live
ExpireNever ==
    /\ FALSE
    /\ cache' = NoPage /\ excused' = FALSE
    /\ UNCHANGED <<tables, stored, told, req, arrived, cut, torn, lost>>

\* the time to live of a page
Expire ==
    /\ cache # NoPage
    /\ cache' = NoPage /\ excused' = FALSE
    /\ UNCHANGED <<tables, stored, told, req, arrived, cut, torn, lost>>

(***************************************************************************)
(* A request that ends half-way: its worker dies, or a call to the         *)
(* database, Redis or the storage fails.  One that ends before its first   *)
(* write is one that never arrived.                                        *)
(***************************************************************************)
Uncounted(r) == req[r].op = "create" /\ req[r].parent # None /\ req[r].pc \in {"drop", "count"}
Stop(r) ==
    LET q == req[r] IN
    /\ \/ q.pc \in {"drop", "count", "seek", "join", "cast", "look", "last", "unattach"}
       \/ q.pc = "edit" /\ q.dels # {}
    /\ excused' = (excused \/ q.pc = "drop")
    /\ cut' = IF q.op \in {"create", "finalize"} THEN cut \cup {q.m} ELSE cut
    /\ torn' = IF q.pc \in {"edit", "unattach"} THEN torn \cup q.dels ELSE torn
    /\ lost' = IF Uncounted(r) THEN [lost EXCEPT ![q.parent] = @ + 1] ELSE lost
    /\ Finish(r)
    /\ UNCHANGED <<tables, stored, cache, told, arrived>>

Step(r) ==
    \/ Insert(r) \/ Count(r) \/ Seek(r) \/ Join(r) \/ Cast(r)
    \/ Url(r) \/ Look(r) \/ Announce(r)
    \/ Objects(r) \/ Edit(r) \/ Unattach(r)
    \/ Mark(r) \/ Abort(r) \/ Pin(r) \/ Like(r) \/ Sweep(r)
    \/ Drop(r) \/ Store(r)

\* one message, broadcast and notified if it has no pending file, with up to
\* two files whose upload is to come, and the page in the cache or not
Init ==
    /\ \E u \in Users, n \in 0 .. 2 :
         /\ n <= MaxFiles
         /\ msg = [m \in Messages |-> IF m = 1 THEN NewMessage(u) ELSE [NewMessage(u) EXCEPT !.st = "none"]]
         /\ file = [f \in Files |-> IF f <= n THEN [NoFile EXCEPT !.st = "pending", !.msg = 1] ELSE NoFile]
         /\ told = [m \in Messages |-> IF m = 1 /\ n = 0 THEN {"job", "cast"} ELSE {}]
    /\ stored = {} /\ liked = {} /\ subs = {} /\ cache \in {NoPage, View}
    /\ req = [r \in Requests |-> Idle]
    /\ arrived = 0 /\ excused = FALSE /\ cut = {} /\ torn = {}
    /\ lost = [m \in Messages |-> 0]

Next ==
    \/ \E r \in Requests : Arrive(r) \/ Step(r) \/ Stop(r)
    \/ Expire

Spec     == Init /\ [][Next]_vars
FairSpec == Spec /\ WF_vars(Expire) /\ \A r \in Requests : WF_vars(Step(r))

(***************************************************************************)
(* Properties                                                              *)
(***************************************************************************)
TypeOK ==
    /\ msg \in [Messages -> Row] /\ file \in [Files -> File]
    /\ stored \subseteq Files /\ subs \subseteq Messages \X Users
    /\ liked \subseteq Messages \X Users
    /\ told \in [Messages -> SUBSET {"job", "cast"}]
    /\ arrived \in 0 .. MaxArrivals /\ cut \subseteq Messages /\ torn \subseteq Files

\* The reply counter of a message that is there is the number of replies
\* ever inserted, less those whose request has not counted yet or stopped
\* before it did: concurrent replies never lose a count (createMessage).
RepliesCounted ==
    \A p \in Messages : There(p) =>
        msg[p].replies + lost[p] + Cardinality({r \in Requests : Uncounted(r) /\ req[r].parent = p})
          = Cardinality({m \in Messages : msg[m].st # "none" /\ msg[m].parent = p})

\* A page in the cache that differs from the tables was stored by a reader
\* that was overtaken, or hit by one of the writes that invalidate nothing,
\* or its invalidation is about to come: every other writer invalidates
\* after it has written (messageCacheKey).
PageHonest ==
    cache \notin {NoPage, View} => excused \/ \E r \in Requests : req[r].pc = "drop"

\* Once its last file has come, a message has been broadcast and its job
\* enqueued, whichever of the requests that finalize its files came last,
\* unless a request for it stopped half-way or is still under way
\* (createMessage, finalizeAttachment, enqueueDeferredNotification).
Delivered ==
    \A m \in Messages :
        There(m) /\ ~StillPending(m) /\ m \notin cut /\ (\A r \in Requests : req[r].m # m)
          => {"job", "cast"} \subseteq told[m]

\* The url of a file that is there names a stored object, but for the
\* copies made by a forward (which share it), for files whose removal is
\* under way, and for those an edit that was rolled back or a request that
\* stopped had already removed from the storage (updateMessage).
ObjectsKept ==
    \A f \in Files :
        file[f].st = "ready" /\ file[f].obj \notin stored
          => \/ f \in torn
             \/ \E g \in Files \ {f} : file[g].obj = file[f].obj
             \/ \E r \in Requests : req[r].pc \in {"edit", "unattach"} /\ f \in req[r].dels

\* When requests stop coming, the cache ends up empty or agreeing with the
\* tables, whatever overtook what: every page has a time to live.
PageSettles == <>[](cache \in {NoPage, View})

=============================================================================
