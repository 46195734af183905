------------------------------ MODULE Timeline ------------------------------
(***************************************************************************)
(* Rows in the order of their creation time: what one reader scrolls       *)
(* through page by page, and what counts as unread for it.  The database   *)
(* keeps times finer than the milliseconds a JavaScript date and a cursor  *)
(* hold; a row is dated when its transaction begins and seen when it       *)
(* commits.  The reader's own marks of reading are dates of the program.   *)
(* Which rows a target has, and what is in them, is left out.              *)
(***************************************************************************)
EXTENDS Naturals, FiniteSets

CONSTANTS
    MaxRows,       \* bound: rows ever inserted; a row is named by its id
    MaxTime,       \* bound: ticks of the database's clock
    PerMs,         \* ticks in a millisecond
    PageSize       \* rows in a page

VARIABLES
    now,        \* the clock
    row,        \* row[m]: a message, an attachment, a notification
    lastRead,   \* last_read_at of the reader's membership
    mark,       \* the date a request to mark as unread has read, 0 for none
    seen,       \* history: rows there were when the reader last marked them
    begun,      \* history: rows whose transaction was under way then
    scroll,     \* the reader's scrolling
    reader      \* what the reader does of the two, which share nothing

vars == <<now, row, lastRead, mark, seen, begun, scroll, reader>>

Rows   == 1 .. MaxRows
NoRow  == [st |-> "none", at |-> 0, own |-> FALSE]
Start  == [at |-> 0, id |-> 0]
Dated  == {"notifications", "mentions", "threads"}   \* lists whose cursor is a date alone
Rest   == [pc |-> "rest", list |-> "none", forward |-> FALSE, cursor |-> Start,
           from |-> {}, got |-> {}, cuts |-> {}, moved |-> {}]

Visible  == {m \in Rows : row[m].st \in {"there", "deleted"}}

\* toISOString, new Date: whole milliseconds
Ms(t) == (t \div PerMs) * PerMs

(***************************************************************************)
(* Writers                                                                 *)
(***************************************************************************)
Tick ==
    /\ now < MaxTime /\ now' = now + 1
    /\ UNCHANGED <<row, lastRead, mark, seen, begun, scroll, reader>>

\* created_at is the time the transaction began
Write(m) ==
    /\ row[m].st = "none"
    /\ \E own \in {FALSE, reader = "marks"} : row' = [row EXCEPT ![m] = [st |-> "open", at |-> now, own |-> own]]
    /\ UNCHANGED <<now, lastRead, mark, seen, begun, scroll, reader>>

Commit(m) ==
    /\ row[m].st = "open"
    /\ row' = [row EXCEPT ![m].st = "there"]
    /\ UNCHANGED <<now, lastRead, mark, seen, begun, scroll, reader>>

\* a deleted message is not unread; what it does to pages is left out
Delete(m) ==
    /\ row[m].st = "there" /\ reader = "marks"
    /\ row' = [row EXCEPT ![m].st = "deleted"]
    /\ UNCHANGED <<now, lastRead, mark, seen, begun, scroll, reader>>

(***************************************************************************)
(* Reading and unread: markChannelAsRead, markChannelAsUnread and those of *)
(* conversations and threads, getWorkspaceUnreadCounts                     *)
(***************************************************************************)
Unread == {m \in Rows : row[m].st = "there" /\ ~row[m].own /\ row[m].at > lastRead}

\* mutation: the date is rounded to the nearest millisecond
MarkReadRounded ==
    /\ reader = "marks"
    /\ lastRead' = Ms(now + PerMs - 1)
    /\ seen' = Visible /\ begun' = {m \in Rows : row[m].st = "open"}
    /\ UNCHANGED <<now, row, mark, scroll, reader>>

MarkRead ==
    /\ reader = "marks"
    /\ lastRead' = Ms(now)
    /\ seen' = Visible /\ begun' = {m \in Rows : row[m].st = "open"}
    /\ UNCHANGED <<now, row, mark, scroll, reader>>

\* the message's time is read, then becomes the date, which passes over the
\* messages before it
FindMark(m) ==
    /\ m \in Visible /\ mark = 0 /\ reader = "marks"
    /\ mark' = m
    /\ UNCHANGED <<now, row, lastRead, seen, begun, scroll, reader>>

MarkUnread ==
    /\ mark # 0
    /\ lastRead' = Ms(row[mark].at)
    /\ seen' = {m \in Visible : row[m].at < row[mark].at}
    /\ begun' = {m \in Rows : row[m].st = "open" /\ row[m].at <= row[mark].at}
    /\ mark' = 0
    /\ UNCHANGED <<now, row, scroll, reader>>

(***************************************************************************)
(* Pages.  The reader asks for the newest page and on to the oldest, or    *)
(* from a message to the newest; the answer holds the cursor for the next. *)
(* The threads are in the order of their last reply, a date of the         *)
(* program, and a reply moves a thread to the top.                         *)
(***************************************************************************)
Key(s, m) == IF s.list = "threads" THEN Ms(row[m].at) ELSE row[m].at

\* mutation: a page forward begins behind the millisecond of the cursor
PastLate(s, m) ==
    LET c == s.cursor k == Key(s, m) tie == s.list \notin Dated /\ k = c.at IN
    \/ c = Start
    \/ ~s.forward /\ (k < c.at \/ (tie /\ m < c.id))
    \/ s.forward /\ k >= c.at + PerMs

\* the rows the condition on the cursor leaves
Past(s, m) ==
    LET c == s.cursor k == Key(s, m) tie == s.list \notin Dated /\ k = c.at IN
    \/ c = Start
    \/ ~s.forward /\ (k < c.at \/ (tie /\ m < c.id))
    \/ s.forward /\ (k > c.at \/ (tie /\ m > c.id))

\* the order of the query, which leaves rows of one date alone where it names
\* no id, and the pages it may give
Before(s, m, n) ==
    LET older == Key(s, m) < Key(s, n) \/ (Key(s, m) = Key(s, n) /\ m < n /\ s.list \notin Dated)
        newer == Key(s, n) < Key(s, m) \/ (Key(s, m) = Key(s, n) /\ n < m /\ s.list \notin Dated)
    IN  IF s.forward THEN older ELSE newer
Left(s)  == {m \in Visible : Past(s, m)}
Pages(s) ==
    {p \in SUBSET Left(s) :
        /\ Cardinality(p) = IF Cardinality(Left(s)) > PageSize THEN PageSize ELSE Cardinality(Left(s))
        /\ \A m \in p, n \in Left(s) \ p : ~Before(s, n, m)}
CursorOf(m, s) == [at |-> Ms(Key(s, m)), id |-> m]

\* one more row than a page is read: there is a next page if it was found
Answer(s, p) ==
    IF p = Left(s) THEN scroll' = [s EXCEPT !.got = @ \cup p, !.pc = "end"]
    ELSE \E last \in p :
           /\ \A n \in p : ~Before(s, last, n)
           /\ scroll' = [s EXCEPT !.got = @ \cup p, !.cursor = CursorOf(last, s),
                                  !.cuts = @ \cup {Ms(Key(s, last))}]

\* one call: the first page, or the next of the same scrolling
Ask(s) ==
    /\ reader = "scrolls"
    /\ \E p \in Pages(s) : Answer(s, p)
    /\ UNCHANGED <<now, row, lastRead, mark, seen, begun, reader>>
Down(list) ==
    \/ scroll.pc = "rest" /\ Ask([Rest EXCEPT !.pc = "scroll", !.list = list, !.from = Visible])
    \/ scroll.pc = "scroll" /\ scroll.list = list /\ ~scroll.forward /\ Ask(scroll)
Up(list) ==
    \/ scroll.pc = "rest" /\ \E m \in Visible :
           LET s == [Rest EXCEPT !.pc = "scroll", !.list = list, !.forward = TRUE]
           IN  Ask([s EXCEPT !.cursor = CursorOf(m, s), !.from = {n \in Visible : Before(s, m, n)}])
    \/ scroll.pc = "scroll" /\ scroll.list = list /\ scroll.forward /\ Ask(scroll)

GetMessages           == Down("messages") \/ Up("messages")
GetThreadMessages     == Down("replies") \/ Up("replies")
ListAttachments       == Down("files")
ListFolderAttachments == Down("folder")
GetNotifications      == Down("notifications")
GetMentions           == Down("mentions")
GetThreads            == Down("threads")

\* a reply to the thread; before the first page it is no more than a later row
Bump(m) ==
    /\ row[m].st = "there" /\ scroll.pc = "scroll" /\ scroll.list = "threads"
    /\ row' = [row EXCEPT ![m].at = Ms(now)]
    /\ scroll' = [scroll EXCEPT !.moved = @ \cup {m}]
    /\ UNCHANGED <<now, lastRead, mark, seen, begun, reader>>

Close ==
    /\ scroll.pc # "rest" /\ scroll' = Rest
    /\ UNCHANGED <<now, row, lastRead, mark, seen, begun, reader>>

Init ==
    /\ now = PerMs /\ row = [m \in Rows |-> NoRow] /\ lastRead = 0 /\ mark = 0
    /\ seen = {} /\ begun = {} /\ scroll = Rest /\ reader \in {"marks", "scrolls"}

Next ==
    \/ Tick \/ MarkRead \/ MarkUnread \/ Close
    \/ GetMessages \/ GetThreadMessages \/ GetThreads \/ GetNotifications \/ GetMentions
    \/ ListAttachments \/ ListFolderAttachments
    \/ \E m \in Rows : Write(m) \/ Commit(m) \/ Delete(m) \/ FindMark(m) \/ Bump(m)

Spec == Init /\ [][Next]_vars

(***************************************************************************)
(* Properties                                                              *)
(***************************************************************************)
\* A message of somebody else that came to be seen after the reader's last
\* mark is unread, unless its transaction had begun before the mark, and so
\* is a message marked as unread (createMessage against markChannelAsRead,
\* markChannelAsUnread).  A date that falls on a millisecond is not after it.
UnreadKept ==
    \A m \in Rows :
        row[m].st = "there" /\ ~row[m].own /\ m \notin seen \cup begun
          => m \in Unread \/ row[m].at = lastRead

\* Scrolling to the end gives every row there was at the beginning, but for a
\* thread a reply moved meanwhile; towards older rows also but for rows of a
\* millisecond in which a page ended.
PagesComplete ==
    scroll.pc = "end" =>
        \A m \in scroll.from \ (scroll.got \cup scroll.moved) :
            ~scroll.forward /\ Ms(row[m].at) \in scroll.cuts

=============================================================================
