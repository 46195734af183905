---------------------------- MODULE ServicesProofs --------------------------
(***************************************************************************)
(* The services whose state is small: what each of them keeps, for every   *)
(* value of the constants.                                                 *)
(***************************************************************************)
EXTENDS MCServices, FiniteSetTheorems, TLAPS

\* Milliseconds round down, never up, and keep the order of times.
LEMMA MsDown ==
    ASSUME PerMs \in Nat \ {0}, NEW t \in Nat
    PROVE  /\ Pages!Ms(t) \in Nat /\ Pages!Ms(t) <= t
           /\ \A u \in Nat : Pages!Ms(t) <= u /\ u <= t => Pages!Ms(u) = Pages!Ms(t)
<1> DEFINE q == t \div PerMs
<1>1. q \in Nat /\ q * PerMs <= t /\ t < (q + 1) * PerMs
  OBVIOUS
<1>2. ASSUME NEW u \in Nat, q * PerMs <= u, u <= t PROVE u \div PerMs = q
  <2>1. u < (q + 1) * PerMs
    BY <1>1, <1>2
  <2> QED
    BY <1>1, <1>2, <2>1
<1>3. Pages!Ms(t) = q * PerMs
  BY DEF Pages!Ms
<1> HIDE DEF q
<1>4. q * PerMs \in Nat
  BY <1>1
<1>5. \A u \in Nat : Pages!Ms(t) <= u /\ u <= t => Pages!Ms(u) = Pages!Ms(t)
  BY <1>2, <1>3 DEF Pages!Ms
<1> QED
  BY <1>1, <1>3, <1>4, <1>5


(***************************************************************************)
(* Pages: the inductive invariant                                          *)
(***************************************************************************)
DatedRow == [st : {"none", "open", "there", "deleted"}, at : Nat, own : BOOLEAN]
Lists  == Pages!Dated \cup {"none", "messages", "replies", "files", "folder"}
Scrolls == [pc : {"rest", "scroll", "end"}, list : Lists, forward : BOOLEAN,
            cursor : [at : Nat, id : Nat], from : SUBSET Pages!Rows, got : SUBSET Pages!Rows,
            cuts : SUBSET Nat, moved : SUBSET Pages!Rows]

PageTypes ==
    /\ now \in Nat /\ row \in [Pages!Rows -> DatedRow]
    /\ lastRead \in Nat /\ mark \in Pages!Rows \cup {0}
    /\ scroll \in Scrolls

\* every row the reader has not marked is dated after the mark
UnreadInv ==
    /\ lastRead <= now
    /\ \A m \in Pages!Rows : row[m].st # "none" => row[m].at <= now
    /\ mark # 0 => mark \in Pages!Visible
    /\ \A m \in Pages!Rows \ (seen \cup begun) : row[m].st # "none" => lastRead <= row[m].at
    /\ reader = "scrolls" => lastRead = 0 /\ mark = 0
    /\ scroll.pc # "rest" => reader = "scrolls"

\* every row of the scrolling is given, excused or still to come
Excused(s, m) == ~s.forward /\ Pages!Ms(row[m].at) \in s.cuts
PageOK(s) ==
    /\ s.from \subseteq Pages!Visible
    /\ s.forward => s.list \notin Pages!Dated
    /\ \A m \in s.from \ (s.got \cup s.moved) :
         Excused(s, m) \/ (s.pc = "scroll" /\ Pages!Past(s, m))

PagesInv == PageTypes /\ UnreadInv /\ PageOK(scroll)

(***************************************************************************)
(* Pages: one page                                                         *)
(***************************************************************************)
LEMMA KeyFacts ==
    ASSUME PageTypes, NEW s \in Scrolls, NEW m \in Pages!Rows
    PROVE  Pages!Key(s, m) \in Nat /\ Pages!Ms(Pages!Key(s, m)) = Pages!Ms(row[m].at)
<1>1. row[m].at \in Nat
  BY DEF PageTypes, DatedRow
<1>2. /\ Pages!Ms(row[m].at) \in Nat /\ Pages!Ms(row[m].at) <= row[m].at
      /\ \A u \in Nat : Pages!Ms(row[m].at) <= u /\ u <= row[m].at => Pages!Ms(u) = Pages!Ms(row[m].at)
  BY <1>1, MsDown, ServicesAssumption
<1>3. Pages!Ms(Pages!Ms(row[m].at)) = Pages!Ms(row[m].at)
  BY <1>2
<1> QED
  BY <1>1, <1>2, <1>3 DEF Pages!Key

\* A row that a page leaves behind is on a later page or shares the
\* millisecond in which the page ended.
LEMMA LeftBehind ==
    ASSUME PageTypes, NEW s \in Scrolls, s.forward => s.list \notin Pages!Dated,
           NEW p \in Pages!Pages(s), NEW last \in p, NEW n \in Pages!Left(s) \ p,
           NEW t \in Scrolls, t.forward = s.forward, t.list = s.list, t.cursor = Pages!CursorOf(last, s)
    PROVE  Pages!Past(t, n) \/ (~s.forward /\ Pages!Ms(row[n].at) = Pages!Ms(Pages!Key(s, last)))
<1>1. p \subseteq Pages!Left(s) /\ ~Pages!Before(s, n, last)
  BY DEF Pages!Pages
<1>2. Pages!Left(s) \subseteq Pages!Rows
  BY DEF Pages!Left, Pages!Visible
<1>3. n \in Pages!Rows /\ last \in Pages!Rows /\ n # last
  BY <1>1, <1>2
<1> DEFINE k == Pages!Key(s, n)  l == Pages!Key(s, last)
<1>4. k \in Nat /\ l \in Nat /\ Pages!Ms(k) = Pages!Ms(row[n].at)
  BY <1>3, KeyFacts
<1>5. /\ Pages!Ms(l) \in Nat /\ Pages!Ms(l) <= l
      /\ \A u \in Nat : Pages!Ms(l) <= u /\ u <= l => Pages!Ms(u) = Pages!Ms(l)
  BY <1>4, MsDown, ServicesAssumption
<1>6. Pages!Key(t, n) = k
  BY DEF Pages!Key
<1>7. t.cursor.at = Pages!Ms(l) /\ t.cursor.id = last
  BY DEF Pages!CursorOf
<1>8. n \in Nat /\ last \in Nat
  BY <1>3, ServicesAssumption DEF Pages!Rows
<1>9. CASE s.forward
  <2>1. ~(k < l \/ (k = l /\ n < last))
    BY <1>1, <1>9 DEF Pages!Before
  <2>2. k > Pages!Ms(l) \/ (k = Pages!Ms(l) /\ n > last)
    BY <2>1, <1>3, <1>4, <1>5, <1>8
  <2> QED
    BY <2>2, <1>6, <1>7, <1>9 DEF Pages!Past
<1>10. CASE ~s.forward
  <2>1. ~(l < k)
    BY <1>1, <1>10 DEF Pages!Before
  <2>2. CASE k < Pages!Ms(l)
    BY <2>2, <1>6, <1>7, <1>10 DEF Pages!Past
  <2>3. CASE ~(k < Pages!Ms(l))
    <3>1. Pages!Ms(k) = Pages!Ms(l)
      BY <2>1, <2>3, <1>4, <1>5
    <3> QED
      BY <3>1, <1>4, <1>10
  <2> QED
    BY <2>2, <2>3
<1> QED
  BY <1>9, <1>10

\* A page that is given takes its rows behind the cursor.
LEMMA AskKeeps ==
    ASSUME PageTypes, NEW s \in Scrolls, s.pc = "scroll", PageOK(s), Pages!Ask(s)
    PROVE  scroll' \in Scrolls /\ PageOK(scroll')
<1>1. PICK p \in Pages!Pages(s) : Pages!Answer(s, p)
  BY DEF Pages!Ask
<1>2. p \subseteq Pages!Left(s) /\ p \subseteq Pages!Rows
  BY DEF Pages!Pages, Pages!Left, Pages!Visible
<1>3. \A m \in s.from \ (s.got \cup s.moved) : Excused(s, m) \/ m \in Pages!Left(s)
  BY DEF PageOK, Pages!Left
<1>4. CASE p = Pages!Left(s)
  <2>1. scroll' = [s EXCEPT !.got = @ \cup p, !.pc = "end"]
    BY <1>1, <1>4 DEF Pages!Answer
  <2>2. scroll' \in Scrolls
    BY <2>1, <1>2 DEF Scrolls
  <2>3. /\ scroll'.from = s.from /\ scroll'.got = s.got \cup p /\ scroll'.moved = s.moved
        /\ scroll'.forward = s.forward /\ scroll'.list = s.list /\ scroll'.cuts = s.cuts
    BY <2>1 DEF Scrolls
  <2> QED
    BY <2>2, <2>3, <1>3, <1>4 DEF PageOK, Excused
<1>5. CASE p # Pages!Left(s)
  <2>1. PICK last \in p :
          scroll' = [s EXCEPT !.got = @ \cup p, !.cursor = Pages!CursorOf(last, s),
                             !.cuts = @ \cup {Pages!Ms(Pages!Key(s, last))}]
    BY <1>1, <1>5 DEF Pages!Answer
  <2>2. Pages!Key(s, last) \in Nat /\ Pages!Ms(Pages!Key(s, last)) \in Nat
    BY <1>2, KeyFacts, MsDown, ServicesAssumption
  <2>3. Pages!CursorOf(last, s) \in [at : Nat, id : Nat]
    BY <2>2, <1>2, ServicesAssumption DEF Pages!CursorOf, Pages!Rows
  <2>4. scroll' \in Scrolls
    BY <2>1, <2>2, <2>3, <1>2 DEF Scrolls
  <2>5. /\ scroll'.from = s.from /\ scroll'.got = s.got \cup p /\ scroll'.moved = s.moved
        /\ scroll'.forward = s.forward /\ scroll'.list = s.list /\ scroll'.pc = "scroll"
        /\ scroll'.cursor = Pages!CursorOf(last, s) /\ scroll'.cuts = s.cuts \cup {Pages!Ms(Pages!Key(s, last))}
    BY <2>1 DEF Scrolls
  <2>6. \A n \in Pages!Left(s) \ p : Pages!Past(scroll', n) \/ (~s.forward /\ Pages!Ms(row[n].at) = Pages!Ms(Pages!Key(s, last)))
    BY <2>4, <2>5, LeftBehind DEF PageOK
  <2>7. ASSUME NEW m \in s.from \ (s.got \cup p \cup s.moved)
        PROVE  Excused(scroll', m) \/ Pages!Past(scroll', m)
    <3>1. Excused(s, m) \/ m \in Pages!Left(s) \ p
      BY <1>3
    <3> QED
      BY <3>1, <2>5, <2>6 DEF Excused
  <2> QED
    BY <2>4, <2>5, <2>7 DEF PageOK
<1> QED
  BY <1>4, <1>5

(***************************************************************************)
(* The first page                                                          *)
(***************************************************************************)
LEMMA DownKeeps ==
    ASSUME PagesInv, NEW list \in Lists, Pages!Down(list)
    PROVE  scroll' \in Scrolls /\ PageOK(scroll')
<1> DEFINE s == [Pages!Rest EXCEPT !.pc = "scroll", !.list = list, !.from = Pages!Visible]
<1>1. CASE Pages!Ask(s)
  <2>1. /\ s \in Scrolls /\ s.pc = "scroll" /\ s.from = Pages!Visible /\ ~s.forward
        /\ s.cursor = Pages!Start
    BY DEF Pages!Rest, Pages!Start, Scrolls, Pages!Visible
  <2>2. PageOK(s)
    BY <2>1 DEF PageOK, Pages!Past
  <2> HIDE DEF s
  <2> QED
    BY <1>1, <2>1, <2>2, AskKeeps DEF PagesInv
<1>2. CASE scroll.pc = "scroll" /\ Pages!Ask(scroll)
  BY <1>2, AskKeeps DEF PagesInv, PageTypes
<1> QED
  BY <1>1, <1>2 DEF Pages!Down

\* Scrolling the other way starts anew from a row that is visible, with the rows
\* past it still to be given.
LEMMA UpKeeps ==
    ASSUME PagesInv, NEW list \in Lists \ Pages!Dated, Pages!Up(list)
    PROVE  scroll' \in Scrolls /\ PageOK(scroll')
<1>1. ASSUME NEW m \in Pages!Visible, NEW s,
             s = [Pages!Rest EXCEPT !.pc = "scroll", !.list = list, !.forward = TRUE],
             Pages!Ask([s EXCEPT !.cursor = Pages!CursorOf(m, s), !.from = {n \in Pages!Visible : Pages!Before(s, m, n)}])
      PROVE  scroll' \in Scrolls /\ PageOK(scroll')
  <2> DEFINE t == [s EXCEPT !.cursor = Pages!CursorOf(m, s), !.from = {n \in Pages!Visible : Pages!Before(s, m, n)}]
  <2>1. PageTypes /\ m \in Pages!Rows
    BY DEF PagesInv, Pages!Visible
  <2>2. s \in Scrolls
    BY <1>1 DEF Pages!Rest, Pages!Start, Scrolls, Lists
  <2>3. Pages!Key(s, m) \in Nat
    BY <2>1, <2>2, KeyFacts
  <2>4. Pages!Ms(Pages!Key(s, m)) \in Nat /\ Pages!Ms(Pages!Key(s, m)) <= Pages!Key(s, m)
    BY <2>3, MsDown, ServicesAssumption
  <2>5. t \in Scrolls
    <3>1. Pages!CursorOf(m, s) \in [at : Nat, id : Nat]
      BY <2>1, <2>4, ServicesAssumption DEF Pages!CursorOf, Pages!Rows
    <3>2. {n \in Pages!Visible : Pages!Before(s, m, n)} \in SUBSET Pages!Rows
      BY DEF Pages!Visible
    <3> QED
      BY <2>2, <3>1, <3>2 DEF Scrolls
  <2>6. /\ t.pc = "scroll" /\ t.forward /\ t.list = list /\ t.cursor.at = Pages!Ms(Pages!Key(s, m))
        /\ t.cursor.id = m /\ t.from = {n \in Pages!Visible : Pages!Before(s, m, n)} /\ s.list = list /\ s.forward
    BY <1>1 DEF Pages!Rest, Pages!CursorOf
  <2>7. ASSUME NEW n \in t.from PROVE Pages!Past(t, n)
    <3>1. n \in Pages!Rows /\ Pages!Before(s, m, n)
      BY <2>6 DEF Pages!Visible
    <3>2. Pages!Key(t, n) = Pages!Key(s, n) /\ Pages!Key(s, n) \in Nat
      BY <3>1, <2>1, <2>2, <2>6, KeyFacts DEF Pages!Key
    <3>3. Pages!Key(s, m) < Pages!Key(s, n) \/ (Pages!Key(s, m) = Pages!Key(s, n) /\ m < n)
      BY <3>1, <2>6 DEF Pages!Before
    <3>4. Pages!Key(s, n) > Pages!Ms(Pages!Key(s, m)) \/ (Pages!Key(s, n) = Pages!Ms(Pages!Key(s, m)) /\ n > m)
      BY <3>2, <3>3, <2>3, <2>4, <3>1, <2>1, ServicesAssumption DEF Pages!Rows
    <3> QED
      BY <3>2, <3>4, <2>6 DEF Pages!Past
  <2>8. PageOK(t)
    BY <2>6, <2>7 DEF PageOK
  <2> HIDE DEF t
  <2> QED
    BY <1>1, <2>1, <2>5, <2>6, <2>8, AskKeeps DEF t
<1>2. CASE scroll.pc = "scroll" /\ Pages!Ask(scroll)
  BY <1>2, AskKeeps DEF PagesInv, PageTypes
<1> QED
  BY <1>1, <1>2 DEF Pages!Up

(***************************************************************************)
(* The other steps                                                         *)
(***************************************************************************)
\* Rows that stay visible at their date leave the scrolling as good as it was.
LEMMA PageStays ==
    ASSUME PageOK(scroll), scroll' = scroll,
           \A m \in Pages!Visible : m \in Pages!Visible' /\ row'[m].at = row[m].at
    PROVE  PageOK(scroll)'
<1>1. \A m \in scroll.from : row'[m].at = row[m].at
  BY DEF PageOK
<1>2. \A m \in scroll.from : Pages!Past(scroll, m) => Pages!Past(scroll, m)'
  BY <1>1 DEF Pages!Past, Pages!Key, Pages!Ms, Pages!Start
<1>3. \A m \in scroll.from : Excused(scroll, m) => Excused(scroll, m)'
  BY <1>1 DEF Excused, Pages!Ms
<1> QED
  BY <1>2, <1>3 DEF PageOK

\* Before anything is read or listed.
LEMMA PagesInit == ASSUME Pages!Init PROVE PagesInv
<1>1. PageTypes
  BY ServicesAssumption DEF Pages!Init, PageTypes, DatedRow, Pages!NoRow, Pages!Rest, Scrolls, Lists, Pages!Start
<1>2. UnreadInv
  BY ServicesAssumption DEF Pages!Init, UnreadInv, Pages!NoRow, Pages!Rest
<1>3. PageOK(scroll)
  BY DEF Pages!Init, PageOK, Pages!Rest
<1> QED
  BY <1>1, <1>2, <1>3 DEF PagesInv

\* Every step keeps the invariant.
LEMMA PagesStep ==
    ASSUME PagesInv, [Pages!Next]_(Pages!vars)
    PROVE  PagesInv'
<1> USE DEF PagesInv
<1>1. CASE Pages!Tick
  <2>1. PageTypes' /\ UnreadInv'
    BY <1>1 DEF Pages!Tick, PageTypes, UnreadInv, Pages!Visible, DatedRow
  <2>2. PageOK(scroll)'
    BY <1>1, PageStays DEF Pages!Tick, Pages!Visible
  <2> QED
    BY <2>1, <2>2
<1>2. CASE Pages!MarkRead
  <2>1. Pages!Ms(now) \in Nat /\ Pages!Ms(now) <= now
    BY MsDown, ServicesAssumption DEF PageTypes
  <2>2. PageTypes'
    BY <1>2, <2>1 DEF Pages!MarkRead, PageTypes
  <2>3. UnreadInv'
    BY <1>2, <2>1 DEF Pages!MarkRead, PageTypes, UnreadInv, Pages!Visible, DatedRow
  <2>4. PageOK(scroll)'
    BY <1>2, PageStays DEF Pages!MarkRead, Pages!Visible
  <2> QED
    BY <2>2, <2>3, <2>4
<1>3. CASE Pages!MarkUnread
  <2>1. mark \in Pages!Rows /\ row[mark].at \in Nat /\ row[mark].at <= now
    BY <1>3 DEF Pages!MarkUnread, PageTypes, UnreadInv, Pages!Visible, DatedRow
  <2>2. Pages!Ms(row[mark].at) \in Nat /\ Pages!Ms(row[mark].at) <= row[mark].at
    BY <2>1, MsDown, ServicesAssumption
  <2>3. PageTypes'
    BY <1>3, <2>2 DEF Pages!MarkUnread, PageTypes
  <2>4. reader # "scrolls"
    BY <1>3 DEF Pages!MarkUnread, UnreadInv
  <2>5. \A m \in Pages!Rows \ (seen' \cup begun') : row[m].st # "none" => row[mark].at <= row[m].at
    BY <1>3, <2>1 DEF Pages!MarkUnread, PageTypes, DatedRow, Pages!Visible
  <2>6. UnreadInv'
    BY <1>3, <2>1, <2>2, <2>4, <2>5 DEF Pages!MarkUnread, PageTypes, UnreadInv, Pages!Visible, DatedRow
  <2>7. PageOK(scroll)'
    BY <1>3, PageStays DEF Pages!MarkUnread, Pages!Visible
  <2> QED
    BY <2>3, <2>6, <2>7
<1>4. CASE Pages!Close
  <2>1. PageTypes' /\ UnreadInv'
    BY <1>4 DEF Pages!Close, PageTypes, UnreadInv, Pages!Visible, Pages!Rest, Scrolls, Lists, Pages!Start
  <2>2. PageOK(scroll)'
    BY <1>4 DEF Pages!Close, PageOK, Pages!Rest
  <2> QED
    BY <2>1, <2>2
<1>5. ASSUME UNCHANGED <<now, row, lastRead, mark, seen, begun, reader>>, reader = "scrolls",
             scroll' \in Scrolls, PageOK(scroll')
      PROVE  PagesInv'
  <2>1. PageTypes' /\ UnreadInv'
    BY <1>5 DEF PageTypes, UnreadInv, Pages!Visible
  <2>2. PageOK(scroll)'
    BY <1>5 DEF PageOK, Pages!Visible, Excused, Pages!Past, Pages!Key, Pages!Ms, Pages!Start
  <2> QED
    BY <2>1, <2>2
<1>6. ASSUME NEW list \in Lists, Pages!Down(list) PROVE PagesInv'
  <2>1. UNCHANGED <<now, row, lastRead, mark, seen, begun, reader>> /\ reader = "scrolls"
    BY <1>6 DEF Pages!Down, Pages!Ask
  <2> QED
    BY <1>5, <1>6, <2>1, DownKeeps
<1>7. ASSUME NEW list \in Lists \ Pages!Dated, Pages!Up(list) PROVE PagesInv'
  <2>1. UNCHANGED <<now, row, lastRead, mark, seen, begun, reader>> /\ reader = "scrolls"
    BY <1>7 DEF Pages!Up, Pages!Ask
  <2> QED
    BY <1>5, <1>7, <2>1, UpKeeps
<1>8. ASSUME NEW m \in Pages!Rows, Pages!Write(m) PROVE PagesInv'
  <2>0. PICK own \in BOOLEAN : row' = [row EXCEPT ![m] = [st |-> "open", at |-> now, own |-> own]]
    <3>1. {FALSE, reader = "marks"} \subseteq BOOLEAN
      BY Zenon
    <3> QED
      BY <1>8, <3>1 DEF Pages!Write
  <2>1. PageTypes' /\ UnreadInv'
    BY <1>8, <2>0 DEF Pages!Write, PageTypes, UnreadInv, Pages!Visible, DatedRow
  <2>2. \A n \in Pages!Visible : n \in Pages!Visible' /\ row'[n].at = row[n].at
    BY <1>8 DEF Pages!Write, PageTypes, Pages!Visible, DatedRow
  <2> QED
    BY <1>8, <2>1, <2>2, PageStays DEF Pages!Write
<1>9. ASSUME NEW m \in Pages!Rows, Pages!Commit(m) \/ Pages!Delete(m) PROVE PagesInv'
  <2>1. PageTypes' /\ UnreadInv'
    BY <1>9 DEF Pages!Commit, Pages!Delete, PageTypes, UnreadInv, Pages!Visible, DatedRow
  <2>2. \A n \in Pages!Visible : n \in Pages!Visible' /\ row'[n].at = row[n].at
    BY <1>9 DEF Pages!Commit, Pages!Delete, PageTypes, Pages!Visible, DatedRow
  <2> QED
    BY <1>9, <2>1, <2>2, PageStays DEF Pages!Commit, Pages!Delete
<1>10. ASSUME NEW m \in Pages!Rows, Pages!FindMark(m) PROVE PagesInv'
  <2>1. PageTypes' /\ UnreadInv'
    BY <1>10 DEF Pages!FindMark, PageTypes, UnreadInv, Pages!Visible
  <2>2. PageOK(scroll)'
    BY <1>10, PageStays DEF Pages!FindMark, Pages!Visible
  <2> QED
    BY <2>1, <2>2
<1>11. ASSUME NEW m \in Pages!Rows, Pages!Bump(m) PROVE PagesInv'
  <2>1. Pages!Ms(now) \in Nat /\ Pages!Ms(now) <= now
    BY MsDown, ServicesAssumption DEF PageTypes
  <2>2. PageTypes'
    BY <1>11, <2>1 DEF Pages!Bump, PageTypes, DatedRow, Scrolls
  <2>3. lastRead = 0 /\ mark = 0
    BY <1>11 DEF Pages!Bump, UnreadInv
  <2>4. UnreadInv'
    BY <1>11, <2>1, <2>3 DEF Pages!Bump, PageTypes, UnreadInv, Pages!Visible, DatedRow
  <2>5. /\ scroll'.from = scroll.from /\ scroll'.got = scroll.got /\ scroll'.moved = scroll.moved \cup {m}
        /\ scroll'.forward = scroll.forward /\ scroll'.list = scroll.list /\ scroll'.cuts = scroll.cuts
        /\ scroll'.pc = scroll.pc /\ scroll'.cursor = scroll.cursor
    BY <1>11 DEF Pages!Bump, PageTypes, Scrolls
  <2>6. /\ \A n \in Pages!Visible : n \in Pages!Visible'
        /\ \A n \in Pages!Rows \ {m} : row'[n] = row[n]
    BY <1>11 DEF Pages!Bump, PageTypes, Pages!Visible, DatedRow
  <2>7. \A n \in Pages!Rows \ {m} : Pages!Past(scroll, n) => Pages!Past(scroll, n)'
    BY <2>5, <2>6 DEF Pages!Past, Pages!Key, Pages!Ms, Pages!Start
  <2>8. \A n \in Pages!Rows \ {m} : Excused(scroll, n) => Excused(scroll, n)'
    BY <2>5, <2>6 DEF Excused, Pages!Ms
  <2>9. PageOK(scroll)'
    BY <2>5, <2>6, <2>7, <2>8 DEF PageOK, Pages!Visible
  <2> QED
    BY <2>2, <2>4, <2>9
<1>12. CASE UNCHANGED Pages!vars
  BY <1>12, PageStays DEF Pages!vars, PageTypes, UnreadInv, Pages!Visible
<1> QED
  BY <1>1, <1>2, <1>3, <1>4, <1>6, <1>7, <1>8, <1>9, <1>10, <1>11, <1>12
  DEF Pages!Next, Pages!GetMessages, Pages!GetThreadMessages, Pages!GetThreads, Pages!GetNotifications, Pages!GetMentions,
      Pages!ListAttachments, Pages!ListFolderAttachments, Lists, Pages!Dated

(***************************************************************************)
(* Pages: the theorems                                                     *)
(***************************************************************************)
LEMMA PagesAlways == Pages!Spec => []PagesInv
<1>1. Pages!Init => PagesInv
  BY PagesInit
<1>2. PagesInv /\ [Pages!Next]_(Pages!vars) => PagesInv'
  BY PagesStep
<1> QED
  BY <1>1, <1>2, PTL DEF Pages!Spec

\* A message of somebody else that came to be seen after the reader's last
\* mark is unread, unless its transaction had begun before the mark.
THEOREM NothingReadUnseen == Pages!Spec => []UnreadKept
<1>1. PagesInv => UnreadKept
  BY DEF PagesInv, PageTypes, DatedRow, UnreadInv, UnreadKept, Pages!UnreadKept, Pages!Unread
<1> QED
  BY <1>1, PagesAlways, PTL

\* Scrolling to the end gives every row there was when it began, but for a
\* moved thread and, backwards, rows of a millisecond in which a page ended.
THEOREM NothingSkipped == Pages!Spec => []PagesComplete
<1>1. PagesInv => PagesComplete
  BY DEF PagesInv, PageOK, Excused, PagesComplete, Pages!PagesComplete
<1> QED
  BY <1>1, PagesAlways, PTL

(***************************************************************************)
(* Emojis: the inductive invariant                                         *)
(***************************************************************************)
EmojiRow == [st : {"none", "there", "gone"}, name : Names \cup {0}, alias : Reactions!Emojis \cup {0}]
EmojiRequest  == [pc : {"idle", "insert", "quick", "delete"}, name : Names \cup {0},
             source : Reactions!Emojis \cup {0}, rows : SUBSET Reactions!Emojis, slots : SUBSET Names, late : BOOLEAN]

EmojiTypes ==
    /\ emoji \in [Reactions!Emojis -> EmojiRow] /\ slots \subseteq Names /\ raced \in BOOLEAN
    /\ ask \in [Requests -> EmojiRequest]

\* an emoji that is none, as the source of an alias has to be
Original(e) == e \in Reactions!Rows /\ emoji[e].alias = 0

Sources == \A e \in Reactions!Rows : emoji[e].alias # 0 => Original(emoji[e].alias)
Buttons == \A n \in slots : Reactions!Taken(n)

\* what a request has read, as long as nothing has changed since: the source
\* of an alias is there, so are the emojis for the slots, and what is to go
\* leaves no alias and no slot behind
EmojiReads(q) ==
    /\ q.pc = "insert" /\ q.source # 0 => Original(q.source)
    /\ q.pc = "quick" => \A n \in q.slots : Reactions!Taken(n)
    /\ q.pc = "delete" =>
         /\ \A e \in Reactions!Rows : emoji[e].alias # 0 /\ emoji[e].alias \in q.rows => e \in q.rows
         /\ \A n \in q.slots : \E e \in Reactions!Rows \ q.rows : emoji[e].name = n

EmojiInv ==
    /\ EmojiTypes
    /\ ~raced => Sources /\ Buttons /\ \A x \in Requests : ask[x].late \/ EmojiReads(ask[x])

\* A slot with no request in it has read nothing.
LEMMA EmojiIdle == Reactions!Idle \in EmojiRequest /\ EmojiReads(Reactions!Idle)
BY DEF Reactions!Idle, EmojiRequest, EmojiReads

(***************************************************************************)
(* The beginning and the end of a request                                  *)
(***************************************************************************)
LEMMA EmojiBegin ==
    ASSUME EmojiInv, NEW r \in Requests, NEW q \in EmojiRequest, Reactions!Begin(r, q), ~raced => EmojiReads(q),
           UNCHANGED <<emoji, settings, slots, raced>>
    PROVE  EmojiInv'
<1>1. EmojiTypes'
  BY DEF EmojiInv, EmojiTypes, Reactions!Begin
<1>2. /\ Reactions!Rows' = Reactions!Rows /\ \A n : Reactions!Taken(n)' <=> Reactions!Taken(n)
      /\ \A e : Original(e)' <=> Original(e)
  BY DEF Reactions!Rows, Reactions!Taken, Original
<1>3. ASSUME ~raced' PROVE \A x \in Requests : ask'[x].late \/ EmojiReads(ask'[x])
  BY <1>3 DEF EmojiInv, EmojiTypes, Reactions!Begin
<1>4. ASSUME NEW p, EmojiReads(p) PROVE EmojiReads(p)'
  BY <1>2, <1>4 DEF EmojiReads
<1>5. ASSUME ~raced' PROVE \A x \in Requests : ask'[x].late \/ EmojiReads(ask[x])'
  <2>1. TAKE x \in Requests
  <2>2. CASE ask'[x].late
    BY <2>2
  <2>3. CASE EmojiReads(ask'[x])
    BY <2>3, <1>2 DEF EmojiReads
  <2> QED
    BY <2>2, <2>3, <1>3, <1>5
<1>6. ASSUME ~raced' PROVE Sources' /\ Buttons'
  BY <1>2, <1>6 DEF EmojiInv, Sources, Buttons
<1> QED
  BY <1>1, <1>5, <1>6 DEF EmojiInv

\* After a write every other request in flight is late, so that it remains
\* to see that the slots and the sources are sound.
LEMMA EmojiOver ==
    ASSUME EmojiInv, NEW r \in Requests, Reactions!Over(r, TRUE),
           emoji' \in [Reactions!Emojis -> EmojiRow], slots' \subseteq Names, raced' \in BOOLEAN,
           ~raced' => (Sources /\ Buttons)'
    PROVE  EmojiInv'
<1>1. ASSUME NEW x \in Requests
      PROVE  /\ ask'[x] \in EmojiRequest
             /\ ask'[x] = Reactions!Idle \/ ask'[x].late
  <2>1. ask[x] \in EmojiRequest
    BY DEF EmojiInv, EmojiTypes
  <2>2. ask'[x] = Reactions!Idle \/ ask'[x] = [ask[x] EXCEPT !.late = @ \/ TRUE]
    BY DEF Reactions!Over
  <2> QED
    BY <2>1, <2>2, EmojiIdle DEF EmojiRequest
<1>2. EmojiTypes'
  <2>1. ask' \in [Requests -> EmojiRequest]
    BY <1>1 DEF Reactions!Over
  <2> QED
    BY <2>1 DEF EmojiTypes
<1>3. \A x \in Requests : ask'[x].late \/ EmojiReads(ask[x])'
  BY <1>1 DEF EmojiReads, Reactions!Idle
<1> QED
  BY <1>2, <1>3 DEF EmojiInv

(***************************************************************************)
(* Requests, one by one                                                    *)
(***************************************************************************)
LEMMA EmojiCreateArrives == ASSUME EmojiInv, NEW r \in Requests, Reactions!ArriveCreate(r) PROVE EmojiInv'
<1>1. PICK n \in Names : Reactions!Begin(r, [Reactions!Idle EXCEPT !.pc = "insert", !.name = n])
  BY DEF Reactions!ArriveCreate
<1> DEFINE q == [Reactions!Idle EXCEPT !.pc = "insert", !.name = n]
<1>2. q \in EmojiRequest /\ EmojiReads(q)
  BY DEF Reactions!Idle, EmojiRequest, EmojiReads
<1> QED
  BY <1>1, <1>2, EmojiBegin DEF Reactions!ArriveCreate

\* An alias is asked for of an original that is there.
LEMMA EmojiAliasArrives == ASSUME EmojiInv, NEW r \in Requests, Reactions!ArriveAlias(r) PROVE EmojiInv'
<1> DEFINE Source(e) == IF emoji[e].alias = 0 THEN e ELSE emoji[e].alias
           Q(n, e)   == [Reactions!Idle EXCEPT !.pc = "insert", !.name = n, !.source = Source(e)]
<1>1. PICK n \in Names, e \in Reactions!Rows : Reactions!Begin(r, Q(n, e))
  BY DEF Reactions!ArriveAlias
<1>2. Source(e) \in Reactions!Emojis \cup {0}
  BY DEF EmojiInv, EmojiTypes, Reactions!Rows, EmojiRow
<1>3. ~raced => Original(Source(e))
  BY DEF EmojiInv, Sources, Original
<1> HIDE DEF Source
<1>4. Q(n, e) \in EmojiRequest /\ (~raced => EmojiReads(Q(n, e)))
  BY <1>2, <1>3 DEF Reactions!Idle, EmojiRequest, EmojiReads
<1>5. UNCHANGED <<emoji, settings, slots, raced>>
  BY DEF Reactions!ArriveAlias
<1> HIDE DEF Q
<1> QED
  BY <1>1, <1>4, <1>5, EmojiBegin

\* One-click slots are asked for of emojis that are there.
LEMMA SlotsArrive == ASSUME EmojiInv, NEW r \in Requests, Reactions!ArriveQuick(r) PROVE EmojiInv'
<1> DEFINE Q(ns) == [Reactions!Idle EXCEPT !.pc = "quick", !.slots = ns]
<1>1. PICK ns \in SUBSET Names : (\A n \in ns : Reactions!Taken(n)) /\ Reactions!Begin(r, Q(ns))
  BY DEF Reactions!ArriveQuick
<1>2. Q(ns) \in EmojiRequest /\ EmojiReads(Q(ns))
  BY <1>1 DEF Reactions!Idle, EmojiRequest, EmojiReads
<1>3. UNCHANGED <<emoji, settings, slots, raced>>
  BY DEF Reactions!ArriveQuick
<1> HIDE DEF Q
<1> QED
  BY <1>1, <1>2, <1>3, EmojiBegin

\* A deletion names an emoji that is there, and its aliases.
LEMMA EmojiDeleteArrives == ASSUME EmojiInv, NEW r \in Requests, Reactions!ArriveDelete(r) PROVE EmojiInv'
<1> DEFINE Kept(e) == slots \ {emoji[f].name : f \in Reactions!WithAliases(e)}
           Q(e)    == [Reactions!Idle EXCEPT !.pc = "delete", !.rows = Reactions!WithAliases(e), !.slots = Kept(e)]
<1>1. PICK e \in Reactions!Rows : Reactions!Begin(r, Q(e))
  BY DEF Reactions!ArriveDelete
<1>2. Reactions!WithAliases(e) \subseteq Reactions!Emojis /\ Kept(e) \subseteq Names
  BY DEF Reactions!WithAliases, Reactions!Rows, EmojiInv, EmojiTypes
<1>3. ASSUME ~raced, NEW f \in Reactions!Rows, emoji[f].alias # 0, emoji[f].alias \in Reactions!WithAliases(e)
      PROVE  f \in Reactions!WithAliases(e)
  <2>1. e # 0
    BY DEF Reactions!Rows, Reactions!Emojis
  <2>2. emoji[emoji[f].alias].alias = 0
    BY <1>3 DEF EmojiInv, Sources, Original
  <2> QED
    BY <1>3, <2>1, <2>2 DEF Reactions!WithAliases
<1>4. ASSUME ~raced, NEW n \in Kept(e) PROVE \E f \in Reactions!Rows \ Reactions!WithAliases(e) : emoji[f].name = n
  BY <1>4 DEF EmojiInv, Buttons, Reactions!Taken
<1> HIDE DEF Kept
<1>5. Q(e) \in EmojiRequest
  BY <1>2 DEF Reactions!Idle, EmojiRequest
<1>6. Q(e).pc = "delete" /\ Q(e).rows = Reactions!WithAliases(e) /\ Q(e).slots = Kept(e)
  BY DEF Reactions!Idle
<1> HIDE DEF Q
<1>7. ~raced => EmojiReads(Q(e))
  BY <1>3, <1>4, <1>6 DEF EmojiReads
<1>8. UNCHANGED <<emoji, settings, slots, raced>>
  BY DEF Reactions!ArriveDelete
<1> QED
  BY <1>1, <1>5, <1>7, <1>8, EmojiBegin

\* An emoji or alias that is inserted names what is there, or its request was
\* overtaken.
LEMMA EmojiInserted == ASSUME EmojiInv, NEW r \in Requests, Reactions!Insert(r) PROVE EmojiInv'
<1> DEFINE q == ask[r]
           New == [st |-> "there", name |-> q.name, alias |-> q.source]
<1>1. q \in EmojiRequest /\ q.pc = "insert"
  BY DEF EmojiInv, EmojiTypes, Reactions!Insert
<1>2. CASE Reactions!Taken(q.name)
  <2>1. UNCHANGED <<emoji, slots, raced>> /\ Reactions!Over(r, TRUE)
    BY <1>2 DEF Reactions!Insert
  <2>2. (Sources <=> Sources') /\ (Buttons <=> Buttons')
    BY <2>1 DEF Sources, Buttons, Original, Reactions!Rows, Reactions!Taken
  <2> QED
    BY <2>1, <2>2, EmojiOver DEF EmojiInv, EmojiTypes
<1>3. CASE ~Reactions!Taken(q.name)
  <2>1. PICK e \in Reactions!Emojis : emoji[e].st = "none" /\ emoji' = [emoji EXCEPT ![e] = New]
    BY <1>3 DEF Reactions!Insert
  <2>2. raced' = (raced \/ (q.late /\ q.source # 0)) /\ Reactions!Over(r, TRUE) /\ slots' = slots
    BY <1>3 DEF Reactions!Insert
  <2>3. emoji' \in [Reactions!Emojis -> EmojiRow]
    BY <1>1, <2>1 DEF EmojiRequest, EmojiRow, EmojiInv, EmojiTypes
  <2>4. /\ e \notin Reactions!Rows /\ Reactions!Rows' = Reactions!Rows \cup {e}
        /\ \A f \in Reactions!Rows : emoji'[f] = emoji[f]
        /\ emoji'[e] = New
    BY <2>1 DEF Reactions!Rows, EmojiInv, EmojiTypes
  <2>5. \A f \in Reactions!Rows : Original(f) => Original(f)'
    BY <2>4 DEF Original
  <2>6. ASSUME ~raced' PROVE Sources'
    <3>1. q.source # 0 => Original(q.source) /\ q.source \in Reactions!Rows
      <4>1. q.source # 0 => ~q.late
        BY <1>1, <2>2, <2>6 DEF EmojiInv, EmojiTypes, EmojiRequest
      <4> QED
        BY <1>1, <2>2, <2>6, <4>1 DEF EmojiInv, EmojiReads, Original
    <3>2. \A f \in Reactions!Rows : emoji[f].alias # 0 => Original(emoji[f].alias) /\ emoji[f].alias \in Reactions!Rows
      BY <2>2, <2>6 DEF EmojiInv, Sources, Original
    <3> QED
      BY <3>1, <3>2, <2>4, <2>5 DEF Sources
  <2>7. ASSUME ~raced' PROVE Buttons'
    BY <2>2, <2>4, <2>7 DEF EmojiInv, Buttons, Reactions!Taken
  <2> QED
    BY <2>2, <2>3, <2>6, <2>7, EmojiOver DEF EmojiInv, EmojiTypes
<1> QED
  BY <1>2, <1>3

\* So do the slots that are set.
LEMMA SlotsSet == ASSUME EmojiInv, NEW r \in Requests, Reactions!Quick(r) PROVE EmojiInv'
<1>1. emoji' = emoji /\ slots' = ask[r].slots /\ raced' = (raced \/ ask[r].late) /\ Reactions!Over(r, TRUE)
  BY DEF Reactions!Quick
<1>2. ask[r] \in EmojiRequest /\ ask[r].pc = "quick"
  BY DEF EmojiInv, EmojiTypes, Reactions!Quick
<1>3. slots' \subseteq Names /\ raced' \in BOOLEAN
  BY <1>1, <1>2 DEF EmojiRequest, EmojiInv, EmojiTypes
<1>4. ASSUME ~raced' PROVE (Sources /\ Buttons)'
  <2>1. ~raced /\ ~ask[r].late
    BY <1>1, <1>4
  <2>2. Sources /\ \A n \in slots' : Reactions!Taken(n)
    BY <1>1, <1>2, <2>1 DEF EmojiInv, EmojiReads
  <2> QED
    BY <1>1, <2>2 DEF Sources, Buttons, Original, Reactions!Rows, Reactions!Taken
<1> QED
  BY <1>1, <1>3, <1>4, EmojiOver DEF EmojiInv, EmojiTypes

\* What goes with an emoji are its aliases and the slots that name them.
LEMMA EmojiDeleted == ASSUME EmojiInv, NEW r \in Requests, Reactions!Delete(r) PROVE EmojiInv'
<1> DEFINE q == ask[r]
<1>1. /\ emoji' = [e \in Reactions!Emojis |-> IF e \in q.rows THEN [emoji[e] EXCEPT !.st = "gone"] ELSE emoji[e]]
      /\ slots' = q.slots /\ raced' = (raced \/ q.late) /\ Reactions!Over(r, TRUE)
  BY DEF Reactions!Delete
<1>2. q \in EmojiRequest /\ q.pc = "delete"
  BY DEF EmojiInv, EmojiTypes, Reactions!Delete
<1>3. emoji' \in [Reactions!Emojis -> EmojiRow] /\ slots' \subseteq Names /\ raced' \in BOOLEAN
  BY <1>1, <1>2 DEF EmojiRequest, EmojiRow, EmojiInv, EmojiTypes
<1>4. Reactions!Rows' = Reactions!Rows \ q.rows /\ \A e \in Reactions!Rows' : emoji'[e] = emoji[e]
  BY <1>1 DEF Reactions!Rows, EmojiRow, EmojiInv, EmojiTypes
<1>5. ASSUME ~raced' PROVE (Sources /\ Buttons)'
  <2>1. ~raced /\ ~q.late
    BY <1>1, <1>5
  <2>2. Sources /\ EmojiReads(q)
    BY <2>1 DEF EmojiInv
  <2>3. Sources'
    <3>1. ASSUME NEW e \in Reactions!Rows', NEW n, n = emoji'[e].alias, n # 0 PROVE Original(n)'
      <4>1. e \in Reactions!Rows /\ e \notin q.rows /\ n = emoji[e].alias
        BY <1>4, <3>1
      <4>2. Original(n) /\ n \notin q.rows
        BY <3>1, <4>1, <1>2, <2>2 DEF Sources, EmojiReads
      <4> QED
        BY <1>4, <4>2 DEF Original
    <3> QED
      BY <3>1 DEF Sources, Original
  <2>4. Buttons'
    BY <1>1, <1>2, <1>4, <2>2 DEF EmojiReads, Buttons, Reactions!Taken
  <2> QED
    BY <2>3, <2>4
<1> QED
  BY <1>1, <1>3, <1>5, EmojiOver

(***************************************************************************)
(* Emojis: the theorem                                                     *)
(***************************************************************************)
LEMMA EmojiInit == ASSUME Reactions!Init PROVE EmojiInv
<1>1. EmojiTypes
  BY EmojiIdle DEF Reactions!Init, EmojiTypes, Reactions!NoRow, EmojiRow
<1>2. Reactions!Rows = {} /\ slots = {}
  BY DEF Reactions!Init, Reactions!Rows, Reactions!NoRow
<1> QED
  BY <1>1, <1>2, EmojiIdle DEF EmojiInv, Reactions!Init, Sources, Buttons

\* Making sure of the settings row changes no emoji, no slot and no request.
LEMMA SlotsEnsured == ASSUME EmojiInv, Reactions!Ensure \/ UNCHANGED Reactions!vars PROVE EmojiInv'
<1>1. UNCHANGED <<emoji, slots, raced, ask>>
  BY DEF Reactions!Ensure, Reactions!vars
<1> QED
  BY <1>1 DEF EmojiInv, EmojiTypes, Sources, Buttons, EmojiReads, Original, Reactions!Rows, Reactions!Taken

\* A one-click reaction is an emoji there is and an alias has its source,
\* unless a request wrote what it had read before another one changed the
\* emojis or the slots (deleteCustomEmoji, updateOneClickReactions,
\* createCustomEmojiAlias).
THEOREM NothingIsLeftOver == Reactions!Spec => []NothingDangles
<1>1. ASSUME EmojiInv, [Reactions!Next]_(Reactions!vars) PROVE EmojiInv'
  BY <1>1, SlotsEnsured, EmojiCreateArrives, EmojiAliasArrives, SlotsArrive, EmojiDeleteArrives, EmojiInserted,
     SlotsSet, EmojiDeleted DEF Reactions!Next
<1>2. EmojiInv => NothingDangles
  BY DEF EmojiInv, NothingDangles, Reactions!NothingDangles, Sources, Buttons, Original
<1> QED
  BY EmojiInit, <1>1, <1>2, PTL DEF Reactions!Spec
(***************************************************************************)
(* Notices: the inductive invariant                                        *)
(***************************************************************************)
NoticePosts ==
    [pc : {"none", "enqueue", "inline", "replier", "author", "subscribers", "reply", "over"},
     job : {"none", "queued", "insert", "mentions", "done", "failed"}, tries : Int, sender : Users \cup {0},
     reply : BOOLEAN, who : SUBSET Users, group : {"none", "channel", "here"}, to : SUBSET Users,
     jobTo : SUBSET Users, reads : SUBSET {"job", "reply"}]

NoticeTypes ==
    /\ author \in Users \cup {0} /\ sub \in [Users -> {"none", "on", "muted"}]
    /\ post \in [Notifications!Posts -> NoticePosts]
    /\ notice \in [Notifications!Posts -> [Users -> Nat]]
    /\ moved \in [Notifications!Posts -> SUBSET (Users \cup {0})]

\* where the request and the job of a message can be
PostOK(q) ==
    /\ q.pc \in {"none", "enqueue"} => q.reads = {} /\ q.job = "none"
    /\ q.pc \in {"author", "subscribers"} => q.reply
    /\ "reply" \in q.reads => q.reply /\ q.pc \in {"reply", "over"}
    /\ q.pc = "reply" => "reply" \in q.reads
    /\ q.job \in {"insert", "mentions", "done"} => "job" \in q.reads

\* the job's list of people to notify is of use, or has been of use
Listed(q) == q.job \in {"insert", "mentions", "done"}
\* who gave u its notice
GaveReply(q, u) == q.pc = "over" /\ "reply" \in q.reads /\ u \in q.to
GaveJob(q, u)   == q.job \in {"mentions", "done"} /\ u \in q.jobTo

\* u with n notices of a message: at most one of the two lists it, because
\* what the first one read is true until the second one has read
OneOf(q, u, n) ==
    /\ n <= 1 /\ (n = 1 => GaveReply(q, u) \/ GaveJob(q, u))
    /\ ~(u \in q.to /\ "reply" \in q.reads /\ u \in q.jobTo /\ Listed(q))
StillRead(q, u, s) ==
    /\ u \in q.to /\ "reply" \in q.reads /\ q.job \notin {"done", "failed"} => s = "on"
    /\ u \in q.jobTo /\ Listed(q) /\ q.reply /\ q.pc \notin {"reply", "over"} => s # "on"

NoticeInv ==
    /\ NoticeTypes
    /\ \A m \in Notifications!Posts : PostOK(post[m])
    /\ \A m \in Notifications!Posts : \A u \in Users \ moved[m] :
         OneOf(post[m], u, notice[m][u]) /\ StillRead(post[m], u, sub[u])
(***************************************************************************)
(* Notices: steps on one message, steps on the subscriptions               *)
(***************************************************************************)
LEMMA NoticeOne ==
    ASSUME NoticeInv, NEW m \in Notifications!Posts, NEW q \in NoticePosts, Notifications!Set(m, q), PostOK(q),
           sub' = sub, author' \in Users \cup {0},
           moved' \in [Notifications!Posts -> SUBSET (Users \cup {0})], moved[m] \subseteq moved'[m],
           notice' \in [Notifications!Posts -> [Users -> Nat]],
           \A n \in Notifications!Posts : n # m => notice'[n] = notice[n] /\ moved'[n] = moved[n],
           \A u \in Users \ moved'[m] : OneOf(q, u, notice'[m][u]) /\ StillRead(q, u, sub[u])
    PROVE  NoticeInv'
<1>1. /\ post' \in [Notifications!Posts -> NoticePosts] /\ post'[m] = q
      /\ \A n \in Notifications!Posts : n # m => post'[n] = post[n]
  BY DEF NoticeInv, NoticeTypes, Notifications!Set
<1>2. NoticeTypes'
  BY <1>1 DEF NoticeInv, NoticeTypes, Notifications!Posts
<1>3. ASSUME NEW n \in Notifications!Posts
      PROVE  /\ PostOK(post'[n])
             /\ \A u \in Users \ moved'[n] : OneOf(post'[n], u, notice'[n][u]) /\ StillRead(post'[n], u, sub'[u])
  <2>1. CASE n = m
    BY <1>1, <2>1
  <2>2. CASE n # m
    BY <1>1, <2>2 DEF NoticeInv
  <2> QED
    BY <2>1, <2>2
<1> QED
  BY <1>2, <1>3 DEF NoticeInv, PostOK, OneOf, StillRead, GaveReply, GaveJob, Listed, Notifications!Posts

\* A subscription that changes between the two reads of a message puts its
\* user among those moved; one that changes otherwise disturbs nothing.
LEMMA NoticeSubscribed ==
    ASSUME NoticeInv, NEW u \in Users \cup {0}, NEW as \in {"on", "muted"}, Notifications!Subscribe(u, as),
           author' = author, notice' = notice, post' \in [Notifications!Posts -> NoticePosts],
           \A m \in Notifications!Posts :
             \/ post'[m] = post[m]
             \/ /\ post[m].pc \notin {"reply", "over"} /\ post'[m].pc \notin {"reply", "over"}
                /\ post'[m] = [post[m] EXCEPT !.pc = post'[m].pc] /\ PostOK(post'[m])
    PROVE  NoticeInv'
<1>1. /\ sub' \in [Users -> {"none", "on", "muted"}] /\ \A v \in Users : v # u => sub'[v] = sub[v]
      /\ sub[u] = as => sub' = sub
  BY DEF NoticeInv, NoticeTypes, Notifications!Subscribe
<1>2. /\ moved' \in [Notifications!Posts -> SUBSET (Users \cup {0})]
      /\ \A m \in Notifications!Posts : moved[m] \subseteq moved'[m]
      /\ \A m \in Notifications!Posts : Notifications!Between(m) /\ sub[u] # as => u \in moved'[m]
  BY DEF NoticeInv, NoticeTypes, Notifications!Subscribe
<1>3. NoticeTypes'
  BY <1>1, <1>2 DEF NoticeInv, NoticeTypes, Notifications!Posts
<1>4. ASSUME NEW m \in Notifications!Posts
      PROVE  /\ PostOK(post'[m])
             /\ \A v \in Users \ moved'[m] : OneOf(post'[m], v, notice'[m][v]) /\ StillRead(post'[m], v, sub'[v])
  <2> DEFINE p == post[m]  q == post'[m]
  <2>1. PostOK(q)
    BY DEF NoticeInv
  <2>2. p \in NoticePosts /\ q \in NoticePosts /\ PostOK(p)
    BY DEF NoticeInv, NoticeTypes
  <2>3. /\ q.to = p.to /\ q.reads = p.reads /\ q.jobTo = p.jobTo /\ q.job = p.job /\ q.reply = p.reply
        /\ (q.pc = "over") = (p.pc = "over") /\ (q.pc \in {"reply", "over"}) = (p.pc \in {"reply", "over"})
    <3>1. CASE q = p
      BY <3>1
    <3>2. CASE q # p
      BY <3>2, <2>2 DEF NoticePosts
    <3> QED
      BY <3>1, <3>2
  <2>4. ASSUME NEW v \in Users \ moved'[m] PROVE OneOf(q, v, notice'[m][v]) /\ StillRead(q, v, sub'[v])
    <3>1. OneOf(p, v, notice[m][v]) /\ StillRead(p, v, sub[v])
      BY <1>2 DEF NoticeInv
    <3>2. OneOf(q, v, notice'[m][v]) /\ StillRead(q, v, sub[v])
      BY <2>3, <3>1 DEF OneOf, StillRead, GaveReply, GaveJob, Listed
    <3>3. CASE sub'[v] = sub[v]
      BY <3>2, <3>3
    <3>4. CASE sub'[v] # sub[v]
      <4>1. ~Notifications!Between(m)
        BY <1>1, <1>2, <3>4
      <4>2. p.reads = {} \/ (p.job \in {"done", "failed"} /\ p.pc \in {"reply", "over"})
        BY <4>1 DEF Notifications!Between
      <4>3. ~("reply" \in p.reads /\ p.job \notin {"done", "failed"}) /\ ~(Listed(p) /\ p.pc \notin {"reply", "over"})
        BY <4>2, <2>2 DEF PostOK, Listed
      <4> QED
        BY <4>3, <3>2, <2>3 DEF StillRead, Listed
    <3> QED
      BY <3>3, <3>4
  <2> QED
    BY <2>1, <2>4
<1> QED
  BY <1>3, <1>4 DEF NoticeInv, PostOK, OneOf, StillRead, GaveReply, GaveJob, Listed, Notifications!Posts

(***************************************************************************)
(* Notices: the request, step by step                                      *)
(***************************************************************************)
LEMMA NoticeSent == ASSUME NoticeInv, NEW m \in Notifications!Posts, Notifications!Send(m) PROVE NoticeInv'
<1>1. PICK u \in Users, reply \in BOOLEAN, group \in {"none", "channel", "here"} :
        \E who \in SUBSET (Users \ {u}) :
          /\ post[m].pc = "none" /\ \A n \in 1 .. (m - 1) : post[n].pc # "none"
          /\ Notifications!Set(m, Notifications!Sending(u, reply, who, group))
          /\ author' \in IF reply /\ author = 0 THEN Users ELSE {author}
          /\ UNCHANGED <<direct, setting, sub, notice, changes, moved>>
  BY DEF Notifications!Send
<1>2. PICK who \in SUBSET (Users \ {u}) :
        /\ post[m].pc = "none" /\ Notifications!Set(m, Notifications!Sending(u, reply, who, group))
        /\ author' \in (IF reply /\ author = 0 THEN Users ELSE {author})
        /\ UNCHANGED <<sub, notice, moved>>
  BY <1>1
<1> DEFINE q == Notifications!Sending(u, reply, who, group)
<1>3. /\ Notifications!NoPost \in NoticePosts /\ Notifications!NoPost.to = {} /\ Notifications!NoPost.jobTo = {}
      /\ Notifications!NoPost.reads = {} /\ Notifications!NoPost.job = "none"
  BY DEF Notifications!NoPost, NoticePosts
<1>4. q \in NoticePosts /\ q.to = {} /\ q.jobTo = {} /\ q.reads = {} /\ q.job = "none" /\ q.pc = "enqueue"
  BY <1>3 DEF Notifications!Sending, NoticePosts
<1> HIDE DEF q
<1>8. PostOK(q)
  BY <1>4 DEF PostOK
<1>5. post[m].reads = {} /\ post[m].job = "none"
  BY <1>2 DEF NoticeInv, PostOK
<1>6. \A v \in Users \ moved[m] : OneOf(q, v, notice[m][v]) /\ StillRead(q, v, sub[v])
  <2>1. TAKE v \in Users \ moved[m]
  <2>2. OneOf(post[m], v, notice[m][v]) /\ notice[m][v] \in Nat
    BY DEF NoticeInv, NoticeTypes
  <2>3. notice[m][v] = 0
    BY <1>5, <2>2 DEF OneOf, GaveReply, GaveJob
  <2> QED
    BY <1>4, <2>3 DEF OneOf, StillRead
<1>7. author' \in Users \cup {0}
  BY <1>2 DEF NoticeInv, NoticeTypes
<1> QED
  BY <1>2, <1>4, <1>6, <1>7, <1>8, NoticeOne DEF q, NoticeInv, NoticeTypes

\* The job is queued, run by the request itself, or has answered it.
LEMMA NoticeQueued ==
    ASSUME NoticeInv, NEW m \in Notifications!Posts, NEW q \in NoticePosts, Notifications!Set(m, q),
           q.to = post[m].to, q.jobTo = post[m].jobTo, q.reads = post[m].reads, q.reply = post[m].reply,
           \/ post[m].pc = "enqueue" /\ q.job = "queued" /\ q.pc \in {"inline", "replier"}
           \/ post[m].pc = "inline" /\ q.job = post[m].job /\ q.pc \in {"replier", "over"},
           UNCHANGED <<author, sub, notice, moved>>
    PROVE  NoticeInv'
<1> DEFINE p == post[m]
<1>1. p \in NoticePosts /\ PostOK(p) /\ \A v \in Users \ moved[m] : OneOf(p, v, notice[m][v]) /\ StillRead(p, v, sub[v])
  BY DEF NoticeInv, NoticeTypes
<1>2. "reply" \notin p.reads
  BY <1>1 DEF PostOK
<1>3. PostOK(q)
  BY <1>1, <1>2 DEF PostOK
<1>4. \A v \in Users \ moved[m] : OneOf(q, v, notice[m][v]) /\ StillRead(q, v, sub[v])
  BY <1>1, <1>2 DEF PostOK, OneOf, StillRead, GaveReply, GaveJob, Listed
<1> QED
  BY <1>3, <1>4, NoticeOne DEF NoticeInv, NoticeTypes

\* The job that is queued has told nobody yet.
LEMMA NoticeEnqueued ==
    ASSUME NoticeInv, NEW m \in Notifications!Posts, Notifications!Enqueue(m) \/ Notifications!Returned(m)
    PROVE  NoticeInv'
<1> DEFINE p == post[m]
<1>1. p \in NoticePosts /\ UNCHANGED <<author, sub, notice, moved>>
  BY DEF NoticeInv, NoticeTypes, Notifications!Enqueue, Notifications!Returned
<1>2. CASE Notifications!Enqueue(m)
  <2> DEFINE Q(pc, n) == [p EXCEPT !.pc = pc, !.job = "queued", !.tries = n]
  <2>1. ASSUME NEW pc \in {"inline", "replier"}, NEW n \in Int, Notifications!Set(m, Q(pc, n))
        PROVE  NoticeInv'
    <3> DEFINE q == Q(pc, n)
    <3>1. /\ q \in NoticePosts /\ q.pc = pc /\ q.job = "queued"
          /\ q.to = p.to /\ q.jobTo = p.jobTo /\ q.reads = p.reads /\ q.reply = p.reply
      BY <1>1 DEF NoticePosts
    <3> HIDE DEF q
    <3> QED
      BY <3>1, <2>1, <1>1, <1>2, NoticeQueued DEF q, Notifications!Enqueue
  <2>2. Attempts \in Int /\ 1 \in Int
    BY ServicesAssumption
  <2>3. Notifications!Set(m, Q("replier", Attempts)) \/ Notifications!Set(m, Q("inline", 1))
    BY <1>2, Zenon DEF Notifications!Enqueue
  <2> HIDE DEF Q
  <2> QED
    BY <2>1, <2>2, <2>3
<1>3. CASE Notifications!Returned(m)
  <2> DEFINE pc == IF p.job = "done" THEN "replier" ELSE "over"
             q  == [p EXCEPT !.pc = pc]
  <2>1. /\ q \in NoticePosts /\ q.pc = pc /\ q.job = p.job
        /\ q.to = p.to /\ q.jobTo = p.jobTo /\ q.reads = p.reads /\ q.reply = p.reply
    BY <1>1 DEF NoticePosts
  <2>2. p.pc = "inline" /\ Notifications!Set(m, q)
    BY <1>3 DEF Notifications!Returned
  <2>3. pc \in {"replier", "over"}
    OBVIOUS
  <2> HIDE DEF pc, q
  <2> QED
    BY <2>1, <2>2, <2>3, <1>1, NoticeQueued
<1> QED
  BY <1>2, <1>3
\* Who is subscribed for replying, or for having begun the thread, is either one
\* whom nobody has notified yet or recorded as moved.
LEMMA NoticeReplier == ASSUME NoticeInv, NEW m \in Notifications!Posts, Notifications!Replier(m) PROVE NoticeInv'
<1> DEFINE p == post[m]
           q == [p EXCEPT !.pc = IF p.pc = "replier" THEN "author" ELSE "subscribers"]
           u == IF p.pc = "replier" THEN p.sender ELSE author
<1>1. p \in NoticePosts /\ PostOK(p) /\ \A v \in Users \ moved[m] : OneOf(p, v, notice[m][v]) /\ StillRead(p, v, sub[v])
  BY DEF NoticeInv, NoticeTypes
<1>2. p.pc \in {"replier", "author"} /\ UNCHANGED <<author, notice>>
  BY DEF Notifications!Replier
<1>3. "reply" \notin p.reads
  BY <1>1, <1>2 DEF PostOK
<1>4. CASE ~p.reply
  <2> DEFINE o == [p EXCEPT !.pc = "over"]
  <2>1. Notifications!Set(m, o) /\ UNCHANGED <<sub, moved>>
    BY <1>4 DEF Notifications!Replier
  <2>2. /\ o \in NoticePosts /\ o.pc = "over" /\ o.job = p.job /\ o.to = p.to /\ o.jobTo = p.jobTo
        /\ o.reads = p.reads /\ o.reply = p.reply
    BY <1>1 DEF NoticePosts
  <2> HIDE DEF o
  <2>3. PostOK(o) /\ \A v \in Users \ moved[m] : OneOf(o, v, notice[m][v]) /\ StillRead(o, v, sub[v])
    BY <1>1, <1>2, <1>3, <2>2 DEF PostOK, OneOf, StillRead, GaveReply, GaveJob, Listed
  <2> QED
    BY <2>1, <2>2, <2>3, <1>2, NoticeOne DEF NoticeInv, NoticeTypes
<1>5. CASE p.reply
  <2>1. /\ Notifications!Set(m, q)
        /\ IF sub[u] = "none" THEN Notifications!Subscribe(u, "on") ELSE UNCHANGED <<sub, moved>>
    BY <1>5 DEF Notifications!Replier
  <2>2. /\ q \in NoticePosts /\ q.pc \in {"author", "subscribers"} /\ q.job = p.job /\ q.to = p.to /\ q.jobTo = p.jobTo
        /\ q.reads = p.reads /\ q.reply = p.reply /\ q = [p EXCEPT !.pc = q.pc]
    BY <1>1 DEF NoticePosts
  <2>3. u \in Users \cup {0}
    BY <1>1 DEF NoticePosts, NoticeInv, NoticeTypes
  <2> HIDE DEF q, u
  <2>4. PostOK(q) /\ \A v \in Users \ moved[m] : OneOf(q, v, notice[m][v]) /\ StillRead(q, v, sub[v])
    BY <1>1, <1>2, <1>3, <1>5, <2>2 DEF PostOK, OneOf, StillRead, GaveReply, GaveJob, Listed
  <2>5. CASE Notifications!Subscribe(u, "on")
    <3>1. post' \in [Notifications!Posts -> NoticePosts]
      BY <2>1, <2>2 DEF NoticeInv, NoticeTypes, Notifications!Set
    <3>2. \A n \in Notifications!Posts : IF n = m THEN post'[n] = q ELSE post'[n] = post[n]
      BY <2>1 DEF NoticeInv, NoticeTypes, Notifications!Set
    <3> QED
      BY <1>2, <2>2, <2>3, <2>4, <2>5, <3>1, <3>2, NoticeSubscribed
  <2>6. CASE UNCHANGED <<sub, moved>>
    BY <1>2, <2>1, <2>2, <2>4, <2>6, NoticeOne DEF NoticeInv, NoticeTypes
  <2> QED
    BY <2>1, <2>5, <2>6
<1> QED
  BY <1>4, <1>5, <1>1 DEF NoticePosts

\* The notice to the thread is for its subscribers, whom the job that has
\* read left out.
LEMMA NoticeSubscribers ==
    ASSUME NoticeInv, NEW m \in Notifications!Posts, Notifications!Subscribers(m) PROVE NoticeInv'
<1> DEFINE p == post[m]
           to == {u \in Notifications!Subscribed \ {p.sender} : setting[u] # "no_replies"}
           q == [p EXCEPT !.pc = "reply", !.reads = @ \cup {"reply"}, !.to = to]
<1>1. p \in NoticePosts /\ PostOK(p) /\ \A v \in Users \ moved[m] : OneOf(p, v, notice[m][v]) /\ StillRead(p, v, sub[v])
  BY DEF NoticeInv, NoticeTypes
<1>2. p.pc = "subscribers" /\ Notifications!Set(m, q) /\ UNCHANGED <<author, notice, sub, moved>>
  BY Zenon DEF Notifications!Subscribers
<1>3. \A v \in to : v \in Users /\ sub[v] = "on"
  BY DEF Notifications!Subscribed
<1> HIDE DEF to
<1>4. /\ q \in NoticePosts /\ q.pc = "reply" /\ q.job = p.job /\ q.to = to /\ q.jobTo = p.jobTo
      /\ q.reads = p.reads \cup {"reply"} /\ q.reply = p.reply
  BY <1>1, <1>3 DEF NoticePosts
<1> HIDE DEF q
<1>5. p.reply /\ "reply" \notin p.reads /\ PostOK(q)
  BY <1>1, <1>2, <1>4 DEF PostOK
<1>6. \A v \in Users \ moved[m] : OneOf(q, v, notice[m][v]) /\ StillRead(q, v, sub[v])
  BY <1>1, <1>2, <1>3, <1>4, <1>5 DEF OneOf, StillRead, GaveReply, GaveJob, Listed
<1> QED
  BY <1>2, <1>4, <1>5, <1>6, NoticeOne DEF NoticeInv, NoticeTypes

\* Notices given add one for everybody they name.
LEMMA NoticeGiven ==
    ASSUME NoticeTypes, NEW m \in Notifications!Posts, NEW to, Notifications!Give(m, to)
    PROVE  /\ notice' \in [Notifications!Posts -> [Users -> Nat]]
           /\ \A n \in Notifications!Posts : n # m => notice'[n] = notice[n]
           /\ \A u \in Users : notice'[m][u] = IF u \in to THEN notice[m][u] + 1 ELSE notice[m][u]
BY DEF NoticeTypes, Notifications!Give

\* The notice to the thread goes to those it read, which the job leaves out.
LEMMA NoticeReply == ASSUME NoticeInv, NEW m \in Notifications!Posts, Notifications!Reply(m) PROVE NoticeInv'
<1> DEFINE p == post[m]  q == [p EXCEPT !.pc = "over"]
<1>1. p \in NoticePosts /\ PostOK(p) /\ \A v \in Users \ moved[m] : OneOf(p, v, notice[m][v]) /\ StillRead(p, v, sub[v])
  BY DEF NoticeInv, NoticeTypes
<1>2. p.pc = "reply" /\ Notifications!Give(m, p.to) /\ Notifications!Set(m, q) /\ UNCHANGED <<author, sub, moved>>
  BY DEF Notifications!Reply
<1>3. /\ q \in NoticePosts /\ q.pc = "over" /\ q.job = p.job /\ q.to = p.to /\ q.jobTo = p.jobTo
      /\ q.reads = p.reads /\ q.reply = p.reply
  BY <1>1 DEF NoticePosts
<1> HIDE DEF q
<1>4. "reply" \in p.reads /\ PostOK(q)
  BY <1>1, <1>2, <1>3 DEF PostOK
<1>5. /\ notice' \in [Notifications!Posts -> [Users -> Nat]]
      /\ \A n \in Notifications!Posts : n # m => notice'[n] = notice[n]
      /\ \A u \in Users : notice'[m][u] = IF u \in p.to THEN notice[m][u] + 1 ELSE notice[m][u]
  BY <1>2, NoticeGiven DEF NoticeInv
<1>6. ASSUME NEW v \in Users \ moved[m] PROVE OneOf(q, v, notice'[m][v]) /\ StillRead(q, v, sub[v])
  <2>1. OneOf(p, v, notice[m][v]) /\ StillRead(p, v, sub[v]) /\ notice[m][v] \in Nat
    BY <1>1 DEF NoticeInv, NoticeTypes
  <2>2. v \in p.to => notice[m][v] = 0
    BY <1>2, <1>4, <2>1 DEF OneOf, GaveReply, GaveJob, Listed
  <2>3. notice'[m][v] = IF v \in p.to THEN 1 ELSE notice[m][v]
    BY <1>5, <2>2
  <2> QED
    BY <1>2, <1>3, <1>4, <2>1, <2>3 DEF OneOf, StillRead, GaveReply, GaveJob, Listed
<1> QED
  BY <1>2, <1>3, <1>4, <1>5, <1>6, NoticeOne DEF NoticeInv, NoticeTypes

(***************************************************************************)
(* Notices: the job, step by step                                          *)
(***************************************************************************)
\* The job leaves the subscribers of the thread out of its list, who have
\* been on the other list since that was read.
LEMMA NoticeJobReads == ASSUME NoticeInv, NEW m \in Notifications!Posts, Notifications!JobReads(m) PROVE NoticeInv'
<1> DEFINE p == post[m]
           Q(to) == [p EXCEPT !.job = "insert", !.jobTo = to, !.reads = @ \cup {"job"}]
<1>1. p \in NoticePosts /\ PostOK(p) /\ \A v \in Users \ moved[m] : OneOf(p, v, notice[m][v]) /\ StillRead(p, v, sub[v])
  BY DEF NoticeInv, NoticeTypes
<1>2. p.job = "queued" /\ \E here \in {{}, Users} : Notifications!Set(m, Q(Notifications!ForJob(p, here)))
  BY Zenon DEF Notifications!JobReads
<1>3. PICK here \in {{}, Users} : Notifications!Set(m, Q(Notifications!ForJob(p, here)))
  BY <1>2, Zenon
<1>4. UNCHANGED <<author, notice, sub, moved>>
  BY DEF Notifications!JobReads
<1> DEFINE to == Notifications!ForJob(p, here)
<1>5. \A v \in to : v \in Users /\ ~(p.reply /\ sub[v] = "on")
  BY DEF Notifications!ForJob, Notifications!Subscribed
<1> HIDE DEF to
<1> DEFINE q == Q(to)
<1>6. /\ q \in NoticePosts /\ q.pc = p.pc /\ q.job = "insert" /\ q.to = p.to /\ q.jobTo = to
      /\ q.reads = p.reads \cup {"job"} /\ q.reply = p.reply
  BY <1>1, <1>5 DEF NoticePosts
<1>7. Notifications!Set(m, q)
  BY <1>3, Zenon DEF to
<1> HIDE DEF q
<1>8. PostOK(q)
  BY <1>1, <1>2, <1>6 DEF PostOK
<1>9. \A v \in Users \ moved[m] : OneOf(q, v, notice[m][v]) /\ StillRead(q, v, sub[v])
  BY <1>1, <1>2, <1>5, <1>6 DEF PostOK, OneOf, StillRead, GaveReply, GaveJob, Listed
<1> QED
  BY <1>4, <1>6, <1>7, <1>8, <1>9, NoticeOne DEF NoticeInv, NoticeTypes

\* The job notifies those it read, which the notice to the thread leaves out.
LEMMA NoticeJobInserts ==
    ASSUME NoticeInv, NEW m \in Notifications!Posts, Notifications!JobInserts(m) PROVE NoticeInv'
<1> DEFINE p == post[m]  q == [p EXCEPT !.job = "mentions"]
<1>1. p \in NoticePosts /\ PostOK(p) /\ \A v \in Users \ moved[m] : OneOf(p, v, notice[m][v]) /\ StillRead(p, v, sub[v])
  BY DEF NoticeInv, NoticeTypes
<1>2. p.job = "insert" /\ Notifications!Give(m, p.jobTo) /\ Notifications!Set(m, q) /\ UNCHANGED <<author, sub, moved>>
  BY DEF Notifications!JobInserts
<1>3. /\ q \in NoticePosts /\ q.pc = p.pc /\ q.job = "mentions" /\ q.to = p.to /\ q.jobTo = p.jobTo
      /\ q.reads = p.reads /\ q.reply = p.reply
  BY <1>1 DEF NoticePosts
<1> HIDE DEF q
<1>4. PostOK(q)
  BY <1>1, <1>2, <1>3 DEF PostOK
<1>5. /\ notice' \in [Notifications!Posts -> [Users -> Nat]]
      /\ \A n \in Notifications!Posts : n # m => notice'[n] = notice[n]
      /\ \A u \in Users : notice'[m][u] = IF u \in p.jobTo THEN notice[m][u] + 1 ELSE notice[m][u]
  BY <1>2, NoticeGiven DEF NoticeInv
<1>6. ASSUME NEW v \in Users \ moved[m] PROVE OneOf(q, v, notice'[m][v]) /\ StillRead(q, v, sub[v])
  <2>1. OneOf(p, v, notice[m][v]) /\ StillRead(p, v, sub[v]) /\ notice[m][v] \in Nat
    BY <1>1 DEF NoticeInv, NoticeTypes
  <2>2. v \in p.jobTo => notice[m][v] = 0
    BY <1>2, <2>1 DEF OneOf, GaveReply, GaveJob, Listed
  <2>3. notice'[m][v] = IF v \in p.jobTo THEN 1 ELSE notice[m][v]
    BY <1>5, <2>2
  <2> QED
    BY <1>2, <1>3, <2>1, <2>3 DEF OneOf, StillRead, GaveReply, GaveJob, Listed
<1> QED
  BY <1>2, <1>3, <1>4, <1>5, <1>6, NoticeOne DEF NoticeInv, NoticeTypes

\* Those a failed job had notified are among those moved.
LEMMA NoticeJobEnds ==
    ASSUME NoticeInv, NEW m \in Notifications!Posts, Notifications!JobEnds(m) \/ Notifications!JobFails(m)
    PROVE  NoticeInv'
<1> DEFINE p == post[m]
<1>1. p \in NoticePosts /\ PostOK(p) /\ \A v \in Users \ moved[m] : OneOf(p, v, notice[m][v]) /\ StillRead(p, v, sub[v])
  BY DEF NoticeInv, NoticeTypes
<1>2. UNCHANGED <<author, notice, sub>>
  BY DEF Notifications!JobEnds, Notifications!JobFails
<1>3. CASE Notifications!JobEnds(m)
  <2> DEFINE q == [p EXCEPT !.job = "done"]
  <2>1. p.job = "mentions" /\ Notifications!Set(m, q) /\ moved' = moved
    BY <1>3 DEF Notifications!JobEnds
  <2>2. /\ q \in NoticePosts /\ q.pc = p.pc /\ q.job = "done" /\ q.to = p.to /\ q.jobTo = p.jobTo
        /\ q.reads = p.reads /\ q.reply = p.reply
    BY <1>1 DEF NoticePosts
  <2> HIDE DEF q
  <2>3. PostOK(q) /\ \A v \in Users \ moved[m] : OneOf(q, v, notice[m][v]) /\ StillRead(q, v, sub[v])
    BY <1>1, <2>1, <2>2 DEF PostOK, OneOf, StillRead, GaveReply, GaveJob, Listed
  <2> QED
    BY <1>2, <2>1, <2>2, <2>3, NoticeOne DEF NoticeInv, NoticeTypes
<1>4. CASE Notifications!JobFails(m)
  <2> DEFINE job == IF p.tries > 1 THEN "queued" ELSE "failed"
             q == [p EXCEPT !.job = job, !.tries = @ - 1]
  <2>1. /\ p.job \in {"insert", "mentions"} /\ Notifications!Set(m, q)
        /\ moved' = IF p.job = "mentions" THEN [moved EXCEPT ![m] = @ \cup p.jobTo] ELSE moved
    BY <1>4, Zenon DEF Notifications!JobFails
  <2>2. job \in {"queued", "failed"}
    OBVIOUS
  <2> HIDE DEF job
  <2>3. /\ q \in NoticePosts /\ q.pc = p.pc /\ q.job = job /\ q.to = p.to /\ q.jobTo = p.jobTo
        /\ q.reads = p.reads /\ q.reply = p.reply
    <3> DEFINE n == p.tries - 1
    <3>1. n \in Int /\ q = [p EXCEPT !.job = job, !.tries = n]
      BY <1>1 DEF NoticePosts
    <3> HIDE DEF n, q
    <3> QED
      BY <1>1, <2>2, <3>1 DEF NoticePosts
  <2> HIDE DEF q
  <2>4. /\ moved' \in [Notifications!Posts -> SUBSET (Users \cup {0})] /\ moved[m] \subseteq moved'[m]
        /\ \A n \in Notifications!Posts : n # m => moved'[n] = moved[n]
        /\ p.job = "mentions" => p.jobTo \subseteq moved'[m]
    <3>1. p.jobTo \subseteq Users /\ moved \in [Notifications!Posts -> SUBSET (Users \cup {0})]
      BY <1>1 DEF NoticePosts, NoticeInv, NoticeTypes
    <3> QED
      BY <2>1, <3>1
  <2>5. PostOK(q)
    BY <1>1, <2>1, <2>2, <2>3 DEF PostOK
  <2>6. \A v \in Users \ moved'[m] : OneOf(q, v, notice[m][v]) /\ StillRead(q, v, sub[v])
    BY <1>1, <2>1, <2>2, <2>3, <2>4 DEF OneOf, StillRead, GaveReply, GaveJob, Listed
  <2> QED
    BY <1>2, <2>1, <2>3, <2>4, <2>5, <2>6, NoticeOne DEF NoticeInv, NoticeTypes
<1> QED
  BY <1>3, <1>4

(***************************************************************************)
(* Notices: the theorem                                                    *)
(***************************************************************************)
LEMMA NoticeInit == ASSUME Notifications!Init PROVE NoticeInv
<1>1. /\ Notifications!NoPost \in NoticePosts /\ Notifications!NoPost.to = {} /\ Notifications!NoPost.jobTo = {}
      /\ Notifications!NoPost.reads = {} /\ Notifications!NoPost.job = "none" /\ Notifications!NoPost.pc = "none"
  BY DEF Notifications!NoPost, NoticePosts
<1>2. NoticeTypes
  BY <1>1 DEF Notifications!Init, NoticeTypes
<1> QED
  BY <1>1, <1>2 DEF Notifications!Init, NoticeInv, PostOK, OneOf, StillRead

\* Who changes a subscription between the two readings is recorded.
LEMMA NoticeChanged ==
    ASSUME NoticeInv, (\E u \in Users : Notifications!SetOverride(u) \/ Notifications!MuteThread(u))
                      \/ UNCHANGED Notifications!vars
    PROVE  NoticeInv'
<1>1. CASE \E u \in Users : Notifications!MuteThread(u)
  <2>1. PICK u \in Users, as \in {"on", "muted"} : Notifications!Subscribe(u, as)
    BY <1>1 DEF Notifications!MuteThread
  <2> QED
    BY <1>1, <2>1, NoticeSubscribed DEF Notifications!MuteThread, NoticeInv, NoticeTypes
<1>2. CASE UNCHANGED <<author, sub, post, notice, moved>>
  BY <1>2 DEF NoticeInv, NoticeTypes, PostOK, OneOf, StillRead, GaveReply, GaveJob, Listed, Notifications!Posts
<1> QED
  BY <1>1, <1>2 DEF Notifications!SetOverride, Notifications!vars

\* Nobody is notified twice of a message by the notify job and by the notice
\* to the thread, unless its subscription changed between the two reads or the
\* job was attempted again (handleNotifyChannel, createReplyNotifications).
THEOREM NotifiedOnce == Notifications!Spec => []OneNotice
<1>1. ASSUME NoticeInv, [Notifications!Next]_(Notifications!vars) PROVE NoticeInv'
  BY <1>1, NoticeSent, NoticeEnqueued, NoticeReplier, NoticeSubscribers, NoticeReply, NoticeJobReads,
     NoticeJobInserts, NoticeJobEnds, NoticeChanged DEF Notifications!Next
<1>2. NoticeInv => OneNotice
  BY DEF NoticeInv, NoticeTypes, OneOf, OneNotice, Notifications!OneNotice
<1> QED
  BY NoticeInit, <1>1, <1>2, PTL DEF Notifications!Spec
(***************************************************************************)
(* Invitations: the inductive invariant                                    *)
(***************************************************************************)
InviteRows  == [st : {"none", "pending", "accepted"}, guest : Guests \cup {0}, channel : Nat, expired : BOOLEAN]
InviteCalls == [pc : {"idle", "look", "insert", "mail", "code", "count", "lock", "right", "wrong", "full",
                      "user", "enter", "again", "clean"},
                op : {"none", "invite", "send", "verify", "accept"}, guest : Guests \cup {0},
                todo : SUBSET Nat, i : Invitations!Invites \cup {0}, late : BOOLEAN]

InviteTypes ==
    /\ invite \in [Invitations!Invites -> InviteRows] /\ crossed \subseteq Guests \cup {0}
    /\ call \in [Requests -> InviteCalls]

\* the pending invitations of a guest to a channel, and an expired one of them
Links(g, c) == {i \in Invitations!Invites :
                  invite[i].st = "pending" /\ invite[i].guest = g /\ invite[i].channel = c}
Stuck(g, c) == \E k \in Links(g, c) : invite[k].expired

\* what a call has found is still so, if nobody has invited its guest since
InviteReads(q) == q.pc = "insert" /\ ~q.late => LET c == Invitations!Next1(q.todo) IN Links(q.guest, c) = {} \/ Stuck(q.guest, c)
InviteCallOK(q) == (q.pc \in {"look", "insert", "mail"} => q.todo # {}) /\ InviteReads(q)

LinkOK == \A g \in (Guests \cup {0}) \ crossed, c \in Nat :
            Stuck(g, c) \/ \A i, j \in Links(g, c) : i = j

InviteInv == InviteTypes /\ LinkOK /\ \A r \in Requests : InviteCallOK(call[r])
\* A set of numbers has a least one (Next1).
LEMMA Least ==
    ASSUME NEW S \in SUBSET Nat, S # {}
    PROVE  Invitations!Next1(S) \in S
<1>1. PICK c \in S : \A d \in S : ~(<<d, c>> \in OpToRel(<, Nat))
  BY WFMin, NatLessThanWellFounded, Zenon
<1>2. \A d \in S : ~(d < c)
  BY <1>1, Zenon DEF OpToRel
<1>3. \A d \in S : c <= d
  BY <1>2
<1> QED
  BY <1>3 DEF Invitations!Next1

(***************************************************************************)
(* Invitations: calls that write no invitation, and invitations that end   *)
(***************************************************************************)
LEMMA InviteCallMoves ==
    ASSUME InviteInv, UNCHANGED <<invite, crossed>>, NEW r \in Requests, NEW q \in InviteCalls,
           call' = [call EXCEPT ![r] = q], InviteCallOK(q)
    PROVE  InviteInv'
<1>1. InviteTypes'
  BY DEF InviteInv, InviteTypes, Invitations!Invites
<1>2. \A g, c : Links(g, c)' = Links(g, c) /\ (Stuck(g, c)' <=> Stuck(g, c))
  BY DEF Links, Stuck, Invitations!Invites
<1>3. LinkOK'
  BY <1>2 DEF InviteInv, LinkOK
<1>4. \A x \in Requests : InviteCallOK(call'[x])
  BY DEF InviteInv, InviteTypes
<1>5. \A x \in Requests : InviteCallOK(call[x])'
  BY <1>2, <1>4 DEF InviteCallOK, InviteReads, Invitations!Next1
<1> QED
  BY <1>1, <1>3, <1>5 DEF InviteInv

\* What becomes of the invitations of a guest to a channel: all pending ones
\* end together, or they stay and one more of them may have expired.
LEMMA InvitesEnd ==
    ASSUME InviteInv, call' = call \/ (\E r \in Requests, q \in InviteCalls : call' = [call EXCEPT ![r] = q] /\ q.pc \notin {"look", "insert", "mail"}),
           crossed' = crossed, invite' \in [Invitations!Invites -> InviteRows],
           \A g, c : Links(g, c)' = {} \/ (Links(g, c)' = Links(g, c) /\ (Stuck(g, c) => Stuck(g, c)'))
    PROVE  InviteInv'
<1>1. call' \in [Requests -> InviteCalls] /\ \A x \in Requests : call'[x] = call[x] \/ call'[x].pc \notin {"look", "insert", "mail"}
  BY DEF InviteInv, InviteTypes
<1>2. InviteTypes'
  BY <1>1 DEF InviteInv, InviteTypes, Invitations!Invites
<1>3. LinkOK'
  BY DEF InviteInv, LinkOK
<1>4. ASSUME NEW x \in Requests PROVE InviteCallOK(call[x])'
  <2>1. CASE call'[x] = call[x]
    <3>1. InviteCallOK(call[x])
      BY DEF InviteInv
    <3> QED
      BY <2>1, <3>1 DEF InviteCallOK, InviteReads, Invitations!Next1
  <2>2. CASE call'[x].pc \notin {"look", "insert", "mail"}
    BY <2>2 DEF InviteCallOK, InviteReads
  <2> QED
    BY <1>1, <2>1, <2>2
<1> QED
  BY <1>2, <1>3, <1>4 DEF InviteInv

(***************************************************************************)
(* Invitations: calls, step by step                                        *)
(***************************************************************************)
LEMMA InviteIdle == Invitations!Idle \in InviteCalls /\ InviteCallOK(Invitations!Idle)
BY DEF Invitations!Idle, InviteCalls, InviteCallOK, InviteReads

\* The look for a pending invitation is fresh.
LEMMA InviteArrives == ASSUME InviteInv, NEW r \in Requests, Invitations!ArriveInvite(r) PROVE InviteInv'
<1> DEFINE Q(g, cs) == [Invitations!Idle EXCEPT !.pc = "look", !.op = "invite", !.guest = g, !.todo = cs]
<1>1. PICK g \in Guests, cs \in {{0}, {1}, {1, 2}} : Invitations!Begin(r, Q(g, cs))
  BY Zenon DEF Invitations!ArriveInvite
<1>2. cs # {} /\ cs \in SUBSET Nat
  OBVIOUS
<1>3. Q(g, cs) \in InviteCalls /\ Q(g, cs).pc = "look" /\ Q(g, cs).todo = cs
  BY <1>2, InviteIdle DEF InviteCalls
<1>4. InviteCallOK(Q(g, cs))
  BY <1>2, <1>3 DEF InviteCallOK, InviteReads
<1> HIDE DEF Q
<1> QED
  BY <1>1, <1>3, <1>4, InviteCallMoves DEF Invitations!Begin

\* a call of another kind begins, goes on or ends
LEMMA InviteOther ==
    ASSUME InviteInv, UNCHANGED <<invite, crossed>>, NEW r \in Requests, NEW q \in InviteCalls,
           call' = [call EXCEPT ![r] = q], q.pc \notin {"look", "insert", "mail"}
    PROVE  InviteInv'
BY InviteCallMoves DEF InviteCallOK, InviteReads

\* Codes, checks and acceptances look for nothing that they later insert.
LEMMA InviteSends ==
    ASSUME InviteInv, NEW r \in Requests, Invitations!ArriveSend(r) \/ Invitations!ArriveVerify(r) \/ Invitations!ArriveAccept(r)
    PROVE  InviteInv'
<1>1. CASE Invitations!ArriveSend(r)
  <2> DEFINE Q(i) == [Invitations!Idle EXCEPT !.pc = "code", !.op = "send", !.i = i]
  <2>1. PICK i \in Invitations!Invites : Invitations!Becomes(r, Q(i)) /\ UNCHANGED <<invite, crossed>>
    BY <1>1, Zenon DEF Invitations!ArriveSend
  <2>2. Q(i) \in InviteCalls /\ Q(i).pc = "code"
    BY InviteIdle DEF InviteCalls
  <2> HIDE DEF Q
  <2> QED
    BY <2>1, <2>2, InviteOther DEF Invitations!Becomes
<1>2. CASE Invitations!ArriveVerify(r)
  <2> DEFINE Pc(right) == IF right THEN "right" ELSE "wrong"
             Q(i, right) == [Invitations!Idle EXCEPT !.pc = Pc(right), !.op = "verify", !.i = i]
  <2>1. PICK i \in Invitations!Invites, right \in BOOLEAN : Invitations!Begin(r, Q(i, right))
    BY <1>2, Zenon DEF Invitations!ArriveVerify
  <2>2. Pc(right) \in {"right", "wrong"}
    OBVIOUS
  <2> HIDE DEF Pc
  <2>3. Q(i, right) \in InviteCalls /\ Q(i, right).pc = Pc(right)
    BY <2>2, InviteIdle DEF InviteCalls
  <2> HIDE DEF Q
  <2> QED
    BY <2>1, <2>2, <2>3, InviteOther DEF Invitations!Begin
<1>3. CASE Invitations!ArriveAccept(r)
  <2> DEFINE Q(i) == [Invitations!Idle EXCEPT !.pc = "user", !.op = "accept", !.guest = invite[i].guest, !.i = i]
  <2>1. PICK i \in Invitations!Invites : Invitations!Begin(r, Q(i))
    BY <1>3, Zenon DEF Invitations!ArriveAccept
  <2>2. invite[i].guest \in Guests \cup {0}
    BY DEF InviteInv, InviteTypes, InviteRows
  <2>3. Q(i) \in InviteCalls /\ Q(i).pc = "user"
    BY <2>2, InviteIdle DEF InviteCalls
  <2> HIDE DEF Q
  <2> QED
    BY <2>1, <2>3, InviteOther DEF Invitations!Begin
<1> QED
  BY <1>1, <1>2, <1>3

\* The look finds no pending invitation, or an expired one.
LEMMA InviteLooks == ASSUME InviteInv, NEW r \in Requests, Invitations!Look(r) PROVE InviteInv'
<1> DEFINE q == call[r]
           c == Invitations!Next1(q.todo)
           found == {i \in Invitations!Pending(invite, q.guest) : Invitations!SameChannel(invite[i], c)}
<1>1. /\ q \in InviteCalls /\ q.todo # {} /\ UNCHANGED <<invite, crossed>>
  BY DEF InviteInv, InviteTypes, InviteCallOK, Invitations!Look
<1>2. found = Links(q.guest, c)
  BY DEF Links, Invitations!Pending, Invitations!SameChannel
<1>3. CASE Invitations!Becomes(r, [q EXCEPT !.pc = "mail"])
  <2> DEFINE p == [q EXCEPT !.pc = "mail"]
  <2>1. p \in InviteCalls /\ InviteCallOK(p)
    BY <1>1 DEF InviteCalls, InviteCallOK, InviteReads
  <2> HIDE DEF p
  <2> QED
    BY <1>1, <1>3, <2>1, InviteCallMoves DEF p, Invitations!Becomes
<1>4. CASE /\ found = {} \/ \E i \in found : invite[i].expired
           /\ Invitations!Becomes(r, [q EXCEPT !.pc = "insert", !.late = FALSE])
  <2> DEFINE p == [q EXCEPT !.pc = "insert", !.late = FALSE]
  <2>1. p \in InviteCalls /\ p.todo = q.todo /\ p.guest = q.guest
    BY <1>1 DEF InviteCalls
  <2>2. Links(q.guest, c) = {} \/ Stuck(q.guest, c)
    BY <1>2, <1>4 DEF Stuck
  <2> HIDE DEF p
  <2>3. InviteCallOK(p)
    BY <1>1, <2>1, <2>2 DEF InviteCallOK, InviteReads
  <2> QED
    BY <1>1, <1>4, <2>1, <2>3, InviteCallMoves DEF p, Invitations!Becomes
<1> QED
  BY <1>3, <1>4, Zenon DEF Invitations!Look

\* A mail changes no invitation that works.
LEMMA InviteMails == ASSUME InviteInv, NEW r \in Requests, Invitations!Mail(r) PROVE InviteInv'
<1> DEFINE q == call[r]
           rest == q.todo \ {Invitations!Next1(q.todo)}
           p == [q EXCEPT !.pc = "look", !.todo = rest]
<1>1. q \in InviteCalls /\ UNCHANGED <<invite, crossed>>
  BY DEF InviteInv, InviteTypes, Invitations!Mail
<1>2. Invitations!Becomes(r, Invitations!Idle) \/ (rest # {} /\ Invitations!Becomes(r, p))
  BY Zenon DEF Invitations!Mail
<1>3. rest \in SUBSET Nat
  BY <1>1 DEF InviteCalls
<1> HIDE DEF rest
<1>4. p \in InviteCalls /\ (rest # {} => InviteCallOK(p))
  BY <1>1, <1>3 DEF InviteCalls, InviteCallOK, InviteReads
<1> HIDE DEF p
<1> QED
  BY <1>1, <1>2, <1>4, InviteIdle, InviteCallMoves DEF Invitations!Becomes

\* Sending and checking a code, the account, the keys.
LEMMA InviteCodes ==
    ASSUME InviteInv, NEW r \in Requests,
           Invitations!Code(r) \/ Invitations!Verify(r) \/ Invitations!User(r) \/ Invitations!Clean(r)
    PROVE  InviteInv'
<1> DEFINE Q(pc) == [call[r] EXCEPT !.pc = pc]
<1>1. UNCHANGED <<invite, crossed>>
  BY DEF Invitations!Code, Invitations!Verify, Invitations!User, Invitations!Clean
<1>2. ASSUME NEW pc \in {"count", "lock", "full", "again", "enter"}, Invitations!Becomes(r, Q(pc)) PROVE InviteInv'
  <2>1. Q(pc) \in InviteCalls /\ Q(pc).pc = pc
    BY DEF InviteInv, InviteTypes, InviteCalls
  <2> HIDE DEF Q
  <2> QED
    BY <1>1, <1>2, <2>1, InviteOther DEF Invitations!Becomes
<1>3. ASSUME Invitations!Becomes(r, Invitations!Idle) PROVE InviteInv'
  BY <1>1, <1>3, InviteIdle, InviteCallMoves DEF Invitations!Becomes
<1> HIDE DEF Q
<1>4. CASE Invitations!Code(r)
  BY <1>2, <1>3, <1>4 DEF Q, Invitations!Code
<1>5. CASE Invitations!Verify(r)
  BY <1>2, <1>3, <1>5 DEF Q, Invitations!Verify
<1>6. CASE Invitations!User(r)
  BY <1>2, <1>3, <1>6 DEF Q, Invitations!User
<1>7. CASE Invitations!Clean(r)
  BY <1>3, <1>7 DEF Invitations!Clean
<1> QED
  BY <1>4, <1>5, <1>6, <1>7
\* Invitations that end: an expired one stays pending, an acceptance takes
\* all pending ones of a guest, or all of them to channels.
LEMMA InviteExpires ==
    ASSUME InviteInv, NEW i \in Invitations!Invites, Invitations!Expire(i) PROVE InviteInv'
<1>1. invite[i] \in InviteRows /\ invite' = [invite EXCEPT ![i] = [invite[i] EXCEPT !.expired = TRUE]] /\ UNCHANGED <<call, crossed>>
  BY DEF InviteInv, InviteTypes, Invitations!Expire
<1>2. [invite[i] EXCEPT !.expired = TRUE] \in InviteRows
  BY <1>1 DEF InviteRows
<1>3. invite' \in [Invitations!Invites -> InviteRows]
  BY <1>1, <1>2 DEF InviteInv, InviteTypes
<1>4. ASSUME NEW k \in Invitations!Invites
      PROVE  /\ invite'[k].st = invite[k].st /\ invite'[k].guest = invite[k].guest
             /\ invite'[k].channel = invite[k].channel /\ (invite[k].expired => invite'[k].expired)
  BY <1>1 DEF InviteInv, InviteTypes, InviteRows
<1>5. \A g, c : Links(g, c)' = Links(g, c)
  BY <1>4 DEF Links, Invitations!Invites
<1>6. ASSUME NEW g, NEW c, Stuck(g, c) PROVE Stuck(g, c)'
  <2>1. PICK k \in Links(g, c) : invite[k].expired
    BY <1>6 DEF Stuck
  <2> QED
    BY <2>1, <1>4, <1>5 DEF Stuck, Links
<1> QED
  BY <1>1, <1>3, <1>5, <1>6, InvitesEnd

\* An acceptance ends all the pending links of its guest.
LEMMA InviteAccepts ==
    ASSUME InviteInv, NEW r \in Requests, Invitations!Enter(r) \/ Invitations!Again(r) PROVE InviteInv'
<1> DEFINE Q(pc) == [call[r] EXCEPT !.pc = pc]
<1>1. ASSUME NEW q \in InviteCalls, q.pc \notin {"look", "insert", "mail"}, call' = [call EXCEPT ![r] = q],
             crossed' = crossed, NEW g, NEW every \in BOOLEAN, invite' = Invitations!Accepted(g, every)
      PROVE  InviteInv'
  <2>1. ASSUME NEW i \in Invitations!Invites
        PROVE  /\ invite'[i] \in InviteRows
               /\ invite'[i] = IF invite[i].st = "pending" /\ invite[i].guest = g /\ (every \/ invite[i].channel # 0)
                               THEN [invite[i] EXCEPT !.st = "accepted"] ELSE invite[i]
    BY <1>1 DEF InviteInv, InviteTypes, InviteRows, Invitations!Accepted, Invitations!Pending
  <2>2. invite' \in [Invitations!Invites -> InviteRows]
    BY <1>1, <2>1 DEF Invitations!Accepted
  <2>3. ASSUME NEW h, NEW c
        PROVE  Links(h, c)' = {} \/ (Links(h, c)' = Links(h, c) /\ (Stuck(h, c) => Stuck(h, c)'))
    <3>1. CASE h = g /\ (every \/ c # 0)
      <4>1. ASSUME NEW i \in Links(h, c)' PROVE FALSE
        <5>1. i \in Invitations!Invites /\ invite'[i].st = "pending" /\ invite'[i].guest = h /\ invite'[i].channel = c
          BY DEF Links, Invitations!Invites
        <5>2. invite[i] \in InviteRows
          BY <5>1 DEF InviteInv, InviteTypes
        <5>3. invite'[i] = invite[i]
          BY <5>1, <5>2, <2>1 DEF InviteRows
        <5>4. invite'[i] = [invite[i] EXCEPT !.st = "accepted"]
          BY <5>1, <5>3, <3>1, <2>1
        <5> QED
          BY <5>1, <5>2, <5>4 DEF InviteRows
      <4> QED
        BY <4>1
    <3>2. CASE ~(h = g /\ (every \/ c # 0))
      <4>1. ASSUME NEW i \in Invitations!Invites PROVE i \in Links(h, c)' <=> i \in Links(h, c)
        <5>1. invite[i] \in InviteRows
          BY DEF InviteInv, InviteTypes
        <5>2. CASE invite'[i] = invite[i]
          BY <5>2 DEF Links, Invitations!Invites
        <5>3. CASE invite'[i] # invite[i]
          <6>1. /\ invite[i].st = "pending" /\ invite[i].guest = g /\ (every \/ invite[i].channel # 0)
                /\ invite'[i].st = "accepted"
            BY <5>1, <5>3, <2>1 DEF InviteRows
          <6> QED
            BY <6>1, <3>2 DEF Links, Invitations!Invites
        <5> QED
          BY <5>2, <5>3
      <4>2. Links(h, c)' = Links(h, c)
        BY <4>1 DEF Links, Invitations!Invites
      <4>3. \A i \in Links(h, c) : invite'[i] = invite[i]
        BY <3>2, <2>1 DEF Links
      <4> QED
        BY <4>2, <4>3 DEF Stuck
    <3> QED
      BY <3>1, <3>2
  <2> QED
    BY <1>1, <2>2, <2>3, InvitesEnd
<1>2. Q("clean") \in InviteCalls /\ Q("clean").pc = "clean"
  BY DEF InviteInv, InviteTypes, InviteCalls
<1>3. Invitations!Idle \in InviteCalls /\ Invitations!Idle.pc = "idle"
  BY InviteIdle DEF Invitations!Idle
<1> HIDE DEF Q
<1>4. CASE Invitations!Enter(r)
  <2>1. CASE Invitations!Becomes(r, Invitations!Idle) /\ UNCHANGED <<invite, crossed>>
    BY <2>1, <1>3, InviteOther DEF Invitations!Becomes
  <2>2. CASE Invitations!Becomes(r, Q("clean")) /\ invite' = Invitations!Accepted(call[r].guest, TRUE) /\ crossed' = crossed
    BY <2>2, <1>1, <1>2 DEF Invitations!Becomes
  <2> QED
    BY <1>4, <2>1, <2>2 DEF Invitations!Enter, Q
<1>5. CASE Invitations!Again(r)
  BY <1>1, <1>3, <1>5 DEF Invitations!Again, Invitations!Becomes
<1> QED
  BY <1>4, <1>5

(***************************************************************************)
(* Invitations: a new one                                                  *)
(***************************************************************************)
\* Every other call for the guest is late from now on; if this one is, the
\* guest is crossed, and if not, its look still holds.
LEMMA InviteInserted == ASSUME InviteInv, NEW r \in Requests, Invitations!Insert(r) PROVE InviteInv'
<1> DEFINE q == call[r]
           c == Invitations!Next1(q.todo)
           new == [st |-> "pending", guest |-> q.guest, channel |-> c, expired |-> FALSE]
           p == [q EXCEPT !.pc = "mail"]
           n == Invitations!NewInvite
<1>1. /\ q \in InviteCalls /\ q.pc = "insert" /\ q.todo # {} /\ InviteReads(q)
  BY DEF InviteInv, InviteTypes, InviteCallOK, Invitations!Insert
<1>2. c \in Nat
  BY <1>1, Least DEF InviteCalls
<1>3. n \in Invitations!Invites /\ invite[n].st = "none"
  <2>1. {i \in Invitations!Invites : invite[i].st = "none"} \in SUBSET Nat
    BY ServicesAssumption DEF Invitations!Invites
  <2>2. {i \in Invitations!Invites : invite[i].st = "none"} # {}
    BY DEF Invitations!Insert
  <2>3. n \in {i \in Invitations!Invites : invite[i].st = "none"}
    BY <2>1, <2>2, Least DEF Invitations!NewInvite
  <2> QED
    BY <2>3
<1>4. /\ invite' = [invite EXCEPT ![n] = new]
      /\ crossed' = IF q.late THEN crossed \cup {q.guest} ELSE crossed
      /\ call' = [x \in Requests |-> IF x = r THEN p
                                     ELSE IF call[x].guest = q.guest THEN [call[x] EXCEPT !.late = TRUE] ELSE call[x]]
  BY Zenon DEF Invitations!Insert
<1> HIDE DEF n, c
<1>5. new \in InviteRows
  BY <1>1, <1>2 DEF InviteRows, InviteCalls
<1>6. /\ invite' \in [Invitations!Invites -> InviteRows] /\ invite'[n] = new
      /\ \A i \in Invitations!Invites : i # n => invite'[i] = invite[i]
  BY <1>3, <1>4, <1>5 DEF InviteInv, InviteTypes
<1>7. p \in InviteCalls /\ p.pc = "mail" /\ p.todo = q.todo
  BY <1>1 DEF InviteCalls
<1>8. ASSUME NEW x \in Requests
      PROVE  /\ call'[x] \in InviteCalls
             /\ call'[x].pc \in {"look", "insert", "mail"} => call'[x].todo # {}
             /\ call'[x].pc = "insert" /\ ~call'[x].late => call'[x] = call[x] /\ call[x].guest # q.guest
  <2>1. call[x] \in InviteCalls /\ InviteCallOK(call[x])
    BY DEF InviteInv, InviteTypes
  <2>2. CASE x = r
    BY <2>2, <1>1, <1>4, <1>7
  <2>3. CASE x # r /\ call[x].guest = q.guest
    <3>1. call'[x] = [call[x] EXCEPT !.late = TRUE]
      BY <1>4, <2>3
    <3> QED
      BY <3>1, <2>1 DEF InviteCalls, InviteCallOK
  <2>4. CASE x # r /\ call[x].guest # q.guest
    BY <1>4, <2>1, <2>4 DEF InviteCallOK
  <2> QED
    BY <2>2, <2>3, <2>4
<1>9. InviteTypes'
  <2>1. call' \in [Requests -> InviteCalls]
    BY <1>4, <1>8
  <2>2. crossed' \subseteq Guests \cup {0}
    BY <1>1, <1>4 DEF InviteInv, InviteTypes, InviteCalls
  <2> QED
    BY <1>6, <2>1, <2>2 DEF InviteTypes, Invitations!Invites
<1>10. \A g, d : Links(g, d)' = IF g = q.guest /\ d = c THEN Links(g, d) \cup {n} ELSE Links(g, d)
  BY <1>3, <1>6 DEF Links, Invitations!Invites
<1>11. \A g, d : n \notin Links(g, d)
  BY <1>3 DEF Links
<1>12. ASSUME NEW g, NEW d, Stuck(g, d) PROVE Stuck(g, d)'
  <2>1. PICK k \in Links(g, d) : invite[k].expired
    BY <1>12 DEF Stuck
  <2>2. k \in Links(g, d)' /\ invite'[k] = invite[k]
    BY <2>1, <1>6, <1>10, <1>11 DEF Links
  <2> QED
    BY <2>1, <2>2 DEF Stuck
<1>13. LinkOK'
  <2>1. ASSUME NEW g \in (Guests \cup {0}) \ crossed', NEW d \in Nat, ~Stuck(g, d)', NEW i \in Links(g, d)', NEW j \in Links(g, d)'
        PROVE  i = j
    <3>1. g \notin crossed /\ ~Stuck(g, d)
      BY <1>4, <1>12, <2>1
    <3>2. CASE g = q.guest /\ d = c
      <4>1. ~q.late
        BY <1>4, <3>2
      <4>2. Links(g, d) = {}
        BY <1>1, <3>1, <3>2, <4>1 DEF InviteReads, c
      <4> QED
        BY <1>10, <4>2, <3>2
    <3>3. CASE ~(g = q.guest /\ d = c)
      BY <1>10, <3>1, <3>3, <2>1 DEF InviteInv, LinkOK
    <3> QED
      BY <3>2, <3>3
  <2> QED
    BY <2>1 DEF LinkOK
<1>14. ASSUME NEW x \in Requests PROVE InviteCallOK(call[x])'
  <2>1. CASE call'[x].pc = "insert" /\ ~call'[x].late
    <3>1. call'[x] = call[x] /\ call[x].guest # q.guest /\ InviteReads(call[x])
      BY <1>8, <2>1 DEF InviteInv, InviteCallOK
    <3>2. PICK g, d : /\ g = call[x].guest /\ d = Invitations!Next1(call[x].todo)
                      /\ Links(g, d) = {} \/ Stuck(g, d)
      BY <2>1, <3>1 DEF InviteReads
    <3>3. Links(g, d)' = {} \/ Stuck(g, d)'
      BY <3>1, <3>2, <1>10, <1>12
    <3> QED
      BY <1>8, <3>1, <3>2, <3>3 DEF InviteCallOK, InviteReads, Invitations!Next1
  <2>2. CASE ~(call'[x].pc = "insert" /\ ~call'[x].late)
    BY <1>8, <2>2 DEF InviteCallOK, InviteReads
  <2> QED
    BY <2>1, <2>2
<1> QED
  BY <1>9, <1>13, <1>14 DEF InviteInv

(***************************************************************************)
(* Invitations: the theorem                                                *)
(***************************************************************************)
LEMMA InviteInit == ASSUME Invitations!Init PROVE InviteInv
<1>1. InviteTypes
  BY InviteIdle DEF Invitations!Init, InviteTypes, InviteRows, Invitations!NoRow
<1>2. \A g, c : Links(g, c) = {}
  BY DEF Invitations!Init, Links, Invitations!NoRow
<1> QED
  BY <1>1, <1>2, InviteIdle DEF Invitations!Init, InviteInv, LinkOK

\* What lapses, and an account made by a code, leave links as they are.
LEMMA InviteRest ==
    ASSUME InviteInv, (\E i \in Invitations!Invites : Invitations!Lapse(i)) \/ (\E g \in Guests : Invitations!ByCode(g))
                      \/ UNCHANGED Invitations!vars
    PROVE  InviteInv'
<1>1. UNCHANGED <<invite, crossed, call>>
  BY DEF Invitations!Lapse, Invitations!ByCode, Invitations!vars
<1>2. \A g, c : Links(g, c)' = Links(g, c) /\ (Stuck(g, c) => Stuck(g, c)')
  BY <1>1 DEF Links, Stuck, Invitations!Invites
<1>3. invite' \in [Invitations!Invites -> InviteRows]
  BY <1>1 DEF InviteInv, InviteTypes
<1> QED
  BY <1>1, <1>2, <1>3, InvitesEnd

\* A guest has one working link for each channel, unless two calls invited
\* it at once or an expired invitation is found in its place (createInvite).
THEOREM OneWorkingLink == Invitations!Spec => []OneLink
<1>1. ASSUME InviteInv, [Invitations!Next]_(Invitations!vars) PROVE InviteInv'
  BY <1>1, InviteArrives, InviteSends, InviteLooks, InviteInserted, InviteMails, InviteCodes, InviteAccepts,
     InviteExpires, InviteRest DEF Invitations!Next
<1>2. ASSUME InviteInv PROVE OneLink
  <2>1. ASSUME NEW i \in Invitations!Invites, NEW j \in Invitations!Invites, i # j, Invitations!Active(i), Invitations!Active(j),
               invite[i].guest = invite[j].guest, invite[i].channel = invite[j].channel, invite[i].guest \notin crossed
        PROVE  \E k \in Invitations!Pending(invite, invite[i].guest) : invite[k].channel = invite[i].channel /\ invite[k].expired
    <3> DEFINE g == invite[i].guest  c == invite[i].channel
    <3>1. g \in Guests \cup {0} /\ c \in Nat
      BY <1>2 DEF InviteInv, InviteTypes, InviteRows
    <3>2. i \in Links(g, c) /\ j \in Links(g, c)
      BY <2>1 DEF Links, Invitations!Active
    <3>3. Stuck(g, c)
      BY <1>2, <2>1, <3>1, <3>2 DEF InviteInv, LinkOK
    <3> QED
      BY <3>3 DEF Stuck, Links, Invitations!Pending
  <2> QED
    BY <2>1 DEF OneLink, Invitations!OneLink
<1> QED
  BY InviteInit, <1>1, <1>2, PTL DEF Invitations!Spec
(***************************************************************************)
(* Presence                                                                *)
(***************************************************************************)
OnlineTypes ==
    /\ home \in [Sockets -> {0, 1, 2}] /\ joining \in [Sockets -> {0, 1, 2}] /\ inside \in [Sockets -> BOOLEAN]
    /\ count \in [{1, 2} -> Nat] /\ hash \in Int /\ odd \in BOOLEAN /\ wiped \in BOOLEAN

CountsRight ==
    /\ \A w \in {1, 2} : count[w] = Cardinality(Online!Inside(w))
    /\ wiped \/ hash = Cardinality(Online!Inside(1)) + Cardinality(Online!Inside(2))

\* a socket that joins is on the worker that counts it, or has gone
OnlineInv ==
    /\ OnlineTypes
    /\ odd \/ (CountsRight /\ \A s \in Sockets : joining[s] # 0 => home[s] \in {0, joining[s]})

\* the cardinality that Presence speaks of is the one of the library's theorems
LEMMA SameCardinality == \A S : Online!Cardinality(S) = Cardinality(S)
BY Zenon DEF Online!Cardinality, Cardinality

\* The sockets on a worker can be counted.
LEMMA InsideFinite == \A w : IsFiniteSet(Online!Inside(w)) /\ Cardinality(Online!Inside(w)) \in Nat
<1>1. \A w : Online!Inside(w) \subseteq Sockets
  BY DEF Online!Inside, Online!On
<1> QED
  BY <1>1, FS_Subset, FS_CardinalityType, ServicesAssumption

\* One socket comes into the workspace on worker w, or goes.
LEMMA OneComes ==
    ASSUME OnlineTypes, NEW s \in Sockets, NEW w \in {1, 2}, ~inside[s], home[s] = w,
           home' = home, inside' = [inside EXCEPT ![s] = TRUE]
    PROVE  /\ Cardinality(Online!Inside(w))' = Cardinality(Online!Inside(w)) + 1
           /\ \A v \in {1, 2} : v # w => Online!Inside(v)' = Online!Inside(v)
<1>1. Online!Inside(w)' = Online!Inside(w) \cup {s} /\ s \notin Online!Inside(w)
  BY DEF OnlineTypes, Online!Inside, Online!On
<1>2. \A v \in {1, 2} : v # w => Online!Inside(v)' = Online!Inside(v)
  BY DEF OnlineTypes, Online!Inside, Online!On
<1> QED
  BY <1>1, <1>2, InsideFinite, FS_AddElement

\* A socket that goes is one less on its worker and none less elsewhere.
LEMMA OneGoes ==
    ASSUME OnlineTypes, NEW s \in Sockets, NEW w \in {1, 2}, inside[s], home[s] = w,
           home' \in {home, [home EXCEPT ![s] = 0]}, inside' = [inside EXCEPT ![s] = FALSE]
    PROVE  /\ Cardinality(Online!Inside(w))' = Cardinality(Online!Inside(w)) - 1
           /\ Cardinality(Online!Inside(w)) > 0
           /\ \A v \in {1, 2} : v # w => Online!Inside(v)' = Online!Inside(v)
<1>1. Online!Inside(w)' = Online!Inside(w) \ {s} /\ s \in Online!Inside(w)
  BY DEF OnlineTypes, Online!Inside, Online!On
<1>2. \A v \in {1, 2} : v # w => Online!Inside(v)' = Online!Inside(v)
  BY DEF OnlineTypes, Online!Inside, Online!On
<1>3. Cardinality(Online!Inside(w)) > 0
  BY <1>1, InsideFinite, FS_EmptySet
<1> QED
  BY <1>1, <1>2, <1>3, InsideFinite, FS_RemoveElement

\* Sockets outside the workspace count nowhere.
LEMMA SameInside ==
    ASSUME OnlineTypes, inside' = inside,
           home' = home \/ \E s \in Sockets, w \in {0, 1, 2} : ~inside[s] /\ home' = [home EXCEPT ![s] = w]
    PROVE  \A w \in {1, 2} : Online!Inside(w)' = Online!Inside(w)
BY DEF OnlineTypes, Online!Inside, Online!On

\* Steps that neither count nor move a socket of the workspace.
LEMMA CountsStay ==
    ASSUME OnlineTypes, CountsRight, UNCHANGED <<count, hash, wiped>>,
           \A w \in {1, 2} : Online!Inside(w)' = Online!Inside(w)
    PROVE  CountsRight'
BY DEF CountsRight

\* A socket that connects, or sets out to join, is not counted yet.
LEMMA OnlineArrives == ASSUME OnlineInv, NEW s \in Sockets, Online!Connect(s) \/ Online!Join(s) PROVE OnlineInv'
<1>1. UNCHANGED <<inside, count, hash, odd, wiped>> /\ OnlineTypes
  BY DEF OnlineInv, Online!Connect, Online!Join
<1>2. \A w \in {1, 2} : Online!Inside(w)' = Online!Inside(w)
  <2>1. home' = home \/ (~inside[s] /\ \E w \in {0, 1, 2} : home' = [home EXCEPT ![s] = w])
    BY DEF Online!Connect, Online!Join, Online!Workers
  <2> QED
    BY <1>1, <2>1, SameInside
<1>3. OnlineTypes'
  BY <1>1 DEF OnlineTypes, Online!Connect, Online!Join, Online!Workers
<1>4. ASSUME ~odd', NEW x \in Sockets, joining'[x] # 0 PROVE home'[x] \in {0, joining'[x]}
  BY <1>1, <1>4 DEF OnlineInv, OnlineTypes, Online!Connect, Online!Join, Online!Workers
<1>5. odd' \/ CountsRight'
  BY <1>1, <1>2, CountsStay DEF OnlineInv
<1> QED
  BY <1>3, <1>4, <1>5 DEF OnlineInv

\* A socket that has joined is counted on its worker.
LEMMA OnlineJoined == ASSUME OnlineInv, NEW s \in Sockets, Online!Joined(s) PROVE OnlineInv'
<1>1. PICK w \in {1, 2} : w = joining[s]
  BY DEF OnlineInv, OnlineTypes, Online!Joined
<1>2. joining' = [joining EXCEPT ![s] = 0] /\ UNCHANGED <<home, wiped>> /\ OnlineTypes
  BY DEF OnlineInv, Online!Joined
<1>3. CASE UNCHANGED <<inside, count, hash, odd>>
  <2>1. \A v \in {1, 2} : Online!Inside(v)' = Online!Inside(v)
    BY <1>2, <1>3, SameInside
  <2>2. odd' \/ (CountsRight' /\ \A x \in Sockets : joining'[x] # 0 => home'[x] \in {0, joining'[x]})
    BY <1>2, <1>3, <2>1, CountsStay DEF OnlineInv, OnlineTypes
  <2>3. OnlineTypes'
    BY <1>2, <1>3 DEF OnlineTypes
  <2> QED
    BY <2>2, <2>3 DEF OnlineInv
<1>4. CASE ~inside[s] /\ inside' = [inside EXCEPT ![s] = TRUE] /\ count' = [count EXCEPT ![w] = @ + 1]
           /\ hash' = hash + 1 /\ odd' = (odd \/ home[s] = 0)
  <2>1. OnlineTypes'
    BY <1>2, <1>4 DEF OnlineTypes
  <2>2. ASSUME ~odd' PROVE CountsRight' /\ \A x \in Sockets : joining'[x] # 0 => home'[x] \in {0, joining'[x]}
    <3>1. home[s] = w /\ CountsRight
      <4>1. ~odd /\ home[s] # 0
        BY <1>4, <2>2, Zenon
      <4>2. CountsRight /\ (joining[s] # 0 => home[s] \in {0, joining[s]})
        BY <4>1 DEF OnlineInv
      <4> QED
        BY <1>1, <4>1, <4>2
    <3>2. /\ Cardinality(Online!Inside(w))' = Cardinality(Online!Inside(w)) + 1
          /\ \A v \in {1, 2} : v # w => Online!Inside(v)' = Online!Inside(v)
      BY <1>2, <1>4, <3>1, OneComes
    <3>3. \A v \in {1, 2} : count'[v] = Cardinality(Online!Inside(v))'
      BY <1>2, <1>4, <3>1, <3>2 DEF OnlineTypes, CountsRight
    <3>4. wiped' \/ hash' = Cardinality(Online!Inside(1))' + Cardinality(Online!Inside(2))'
      BY <1>2, <1>4, <3>1, <3>2, InsideFinite DEF OnlineTypes, CountsRight
    <3>5. \A x \in Sockets : joining'[x] # 0 => home'[x] \in {0, joining'[x]}
      BY <1>2, <1>4, <2>2 DEF OnlineInv, OnlineTypes
    <3> QED
      BY <3>3, <3>4, <3>5 DEF CountsRight
  <2> QED
    BY <2>1, <2>2 DEF OnlineInv
<1> QED
  BY <1>1, <1>3, <1>4 DEF Online!Joined

\* A socket that was counted leaves or goes: both counts are lowered.
LEMMA OnlineLeft ==
    ASSUME OnlineInv, NEW s \in Sockets, Online!Leave(s) \/ Online!Disconnect(s) PROVE OnlineInv'
<1>1. PICK w \in {1, 2} : w = home[s]
  BY DEF OnlineInv, OnlineTypes, Online!Leave, Online!Disconnect
<1>2. inside' = [inside EXCEPT ![s] = FALSE] /\ UNCHANGED <<joining, wiped>> /\ OnlineTypes
  BY DEF OnlineInv, Online!Leave, Online!Disconnect
<1>3. home' \in {home, [home EXCEPT ![s] = 0]} /\ odd' \in BOOLEAN /\ (odd => odd') /\ (inside[s] => odd' = odd)
  BY <1>2 DEF OnlineTypes, Online!Leave, Online!Disconnect
<1>4. \/ count' = [count EXCEPT ![w] = Online!Less(@)] /\ (hash' = hash - 1 \/ (~inside[s] /\ hash' = hash))
      \/ ~inside[s] /\ UNCHANGED <<count, hash>>
  <2>1. CASE Online!Leave(s)
    BY <1>1, <2>1 DEF Online!Leave, Online!Marked
  <2>2. CASE Online!Disconnect(s)
    <3>1. CASE inside[s]
      BY <1>1, <2>2, <3>1 DEF Online!Disconnect, Online!Marked
    <3>2. CASE ~inside[s]
      BY <2>2, <3>2 DEF Online!Disconnect
    <3> QED
      BY <3>1, <3>2
  <2> QED
    BY <2>1, <2>2
<1>5. \A n \in Nat : Online!Less(n) \in Nat /\ (n > 0 => Online!Less(n) = n - 1)
  BY DEF Online!Less
<1>6. OnlineTypes'
  <2>1. count' \in [{1, 2} -> Nat] /\ hash' \in Int
    BY <1>2, <1>4, <1>5 DEF OnlineTypes
  <2> QED
    BY <1>2, <1>3, <2>1 DEF OnlineTypes
<1>7. ASSUME ~odd' PROVE CountsRight'
  <2>1. CountsRight
    BY <1>3, <1>7 DEF OnlineInv
  <2>2. CASE inside[s]
    <3>1. /\ Cardinality(Online!Inside(w))' = Cardinality(Online!Inside(w)) - 1 /\ Cardinality(Online!Inside(w)) > 0
          /\ \A v \in {1, 2} : v # w => Online!Inside(v)' = Online!Inside(v)
      BY <1>1, <1>2, <1>3, <2>2, OneGoes
    <3>2. count' = [count EXCEPT ![w] = Online!Less(@)] /\ hash' = hash - 1
      BY <1>4, <2>2
    <3>3. \A v \in {1, 2} : count'[v] = Cardinality(Online!Inside(v))'
      BY <1>2, <1>5, <2>1, <3>1, <3>2 DEF OnlineTypes, CountsRight
    <3>4. wiped' \/ hash' = Cardinality(Online!Inside(1))' + Cardinality(Online!Inside(2))'
      BY <1>2, <2>1, <3>1, <3>2, InsideFinite DEF OnlineTypes, CountsRight
    <3> QED
      BY <3>3, <3>4 DEF CountsRight
  <2>3. CASE ~inside[s]
    <3>1. UNCHANGED <<count, hash>>
      BY <1>7, <2>3 DEF Online!Leave, Online!Disconnect
    <3>2. inside' = inside /\ \A v \in {1, 2} : Online!Inside(v)' = Online!Inside(v)
      BY <1>2, <1>3, <2>3, SameInside DEF OnlineTypes
    <3> QED
      BY <1>2, <2>1, <3>1, <3>2, CountsStay
  <2> QED
    BY <2>2, <2>3
<1>8. odd' \/ \A x \in Sockets : joining'[x] # 0 => home'[x] \in {0, joining'[x]}
  BY <1>2, <1>3 DEF OnlineInv, OnlineTypes
<1> QED
  BY <1>6, <1>7, <1>8 DEF OnlineInv

\* Deleting the field of the hash is recorded when it wipes out a count.
LEMMA OnlineHdel == ASSUME OnlineInv, Online!Hdel \/ UNCHANGED Online!vars PROVE OnlineInv'
<1>1. UNCHANGED <<home, joining, inside, count, odd>> /\ hash' \in {hash, 0} /\ OnlineTypes
  BY DEF OnlineInv, Online!Hdel, Online!vars
<1>2. wiped' \in BOOLEAN /\ (wiped => wiped') /\ (wiped' \/ hash' = hash)
  BY <1>1 DEF Online!Hdel, Online!vars, OnlineTypes
<1>3. OnlineTypes'
  BY <1>1, <1>2 DEF OnlineTypes
<1>4. \A v \in {1, 2} : Online!Inside(v)' = Online!Inside(v)
  BY <1>1 DEF Online!Inside, Online!On
<1>5. CountsRight => CountsRight'
  BY <1>1, <1>2, <1>4 DEF CountsRight
<1> QED
  BY <1>1, <1>3, <1>5 DEF OnlineInv

\* A worker that dies takes its sockets and its counter along.
LEMMA OnlineCrash == ASSUME OnlineInv, NEW w \in {1, 2}, Online!Crash(w) PROVE OnlineInv'
<1>1. /\ count' = [count EXCEPT ![w] = 0] /\ home' = [s \in Sockets |-> IF home[s] = w THEN 0 ELSE home[s]]
      /\ inside' = [s \in Sockets |-> inside[s] /\ home[s] # w]
      /\ joining' = [s \in Sockets |-> IF joining[s] = w THEN 0 ELSE joining[s]]
      /\ wiped' = TRUE /\ UNCHANGED <<hash, odd>> /\ OnlineTypes
  BY DEF OnlineInv, Online!Crash
<1>2. \A s \in Sockets : inside'[s] \in BOOLEAN
  BY <1>1, Zenon
<1>3. OnlineTypes'
  BY <1>1, <1>2 DEF OnlineTypes
<1>4. odd' \/ \A x \in Sockets : joining'[x] # 0 => home'[x] \in {0, joining'[x]}
  BY <1>1 DEF OnlineInv, OnlineTypes
<1>5. Online!Inside(w)' = {} /\ \A v \in {1, 2} : v # w => Online!Inside(v)' = Online!Inside(v)
  BY <1>1 DEF Online!Inside, Online!On, OnlineTypes
<1>6. CountsRight => CountsRight'
  BY <1>1, <1>5, FS_EmptySet DEF OnlineTypes, CountsRight
<1> QED
  BY <1>1, <1>3, <1>4, <1>6 DEF OnlineInv

\* A worker counts the sockets it has in the workspace and the hash those of
\* all workers, unless a socket left what it was not in or went before its
\* join was done; of the hash, unless it was deleted after a join or a worker
\* died (markWorkspaceJoined, markWorkspaceLeft, markSocketDisconnected).
THEOREM CountsAreSockets == Online!Spec => []PresenceHonest
<1>1. ASSUME Online!Init PROVE OnlineInv
  <2>1. \A w \in {1, 2} : Online!Inside(w) = {}
    BY <1>1 DEF Online!Init, Online!Inside, Online!On
  <2>2. CountsRight
    BY <1>1, <2>1, FS_EmptySet DEF Online!Init, CountsRight, Online!Workers
  <2>3. OnlineTypes
    <3>1. inside \in [Sockets -> BOOLEAN]
      BY <1>1, Zenon DEF Online!Init
    <3>2. odd \in BOOLEAN /\ wiped \in BOOLEAN
      BY <1>1, Zenon DEF Online!Init
    <3> QED
      BY <1>1, <3>1, <3>2 DEF Online!Init, OnlineTypes, Online!Workers
  <2> QED
    BY <1>1, <2>2, <2>3 DEF Online!Init, OnlineInv
<1>2. ASSUME OnlineInv, [Online!Next]_(Online!vars) PROVE OnlineInv'
  BY <1>2, OnlineArrives, OnlineJoined, OnlineLeft, OnlineHdel, OnlineCrash DEF Online!Next, Online!Workers
<1>3. OnlineInv => PresenceHonest
  <2>1. OnlineInv => odd \/ CountsRight
    BY DEF OnlineInv
  <2>2. CountsRight => PresenceHonest
    <3>1. CountsRight => /\ \A w \in Online!Workers : count[w] = Cardinality(Online!Inside(w))
                         /\ wiped \/ hash = Cardinality(Online!Inside(1)) + Cardinality(Online!Inside(2))
      BY Zenon DEF CountsRight, Online!Workers
    <3> QED
      BY <3>1, SameCardinality, Zenon DEF PresenceHonest, Online!PresenceHonest
  <2>3. odd => PresenceHonest
    BY Zenon DEF PresenceHonest, Online!PresenceHonest
  <2> QED
    BY <2>1, <2>2, <2>3
<1> QED
  BY <1>1, <1>2, <1>3, PTL DEF Online!Spec

(***************************************************************************)
(* Requests with one key                                                   *)
(***************************************************************************)
KeyTurns == [pc : Keys!Pcs, depth : {0, 1}, body : {"none", "result", "conflict"}]

Promised == layers = 1 /\ ~void /\ ~faulty

\* with one interceptor, a handler that answers and nothing at fault: the
\* record is pending while somebody handles or stores, it lasts from the first
\* lock on, and what is stored is the answer of a handler
TurnOK(q) ==
    /\ q.pc # "idle" => q.depth = 1
    /\ q.pc = "store" => q.body = "result"
    /\ q.pc = "recheck" => record # "absent"
KeysOK ==
    /\ turn \in [Requests -> KeyTurns] /\ record \in {"absent", "pending", "result"}
    /\ answer \in [Requests -> Keys!Bodies]
    /\ record = "pending" => \E x \in Requests : turn[x].pc \in {"handle", "store"}
    /\ \A r \in Requests : TurnOK(turn[r])

KeysInv == Promised => KeysOK

\* One request moves, and what was promised remains.
LEMMA KeyMoves ==
    ASSUME KeysOK, NEW r \in Requests, NEW q \in KeyTurns, Keys!Becomes(r, q),
           answer' \in [Requests -> Keys!Bodies], record' \in {record, "pending", "result"},
           q.pc # "idle" => q.depth = 1, q.pc = "store" => q.body = "result", q.pc = "recheck" => record # "absent",
           record' = "pending" => q.pc \in {"handle", "store"} \/ (record = "pending" /\ turn[r].pc \notin {"handle", "store"})
    PROVE  KeysOK'
<1>1. turn' \in [Requests -> KeyTurns] /\ turn'[r] = q /\ \A x \in Requests : x # r => turn'[x] = turn[x]
  BY DEF KeysOK, Keys!Becomes
<1>2. record # "absent" => record' # "absent"
  OBVIOUS
<1>3. ASSUME NEW x \in Requests PROVE TurnOK(turn[x])'
  BY <1>1, <1>2 DEF KeysOK, TurnOK
<1>4. ASSUME record' = "pending" PROVE \E x \in Requests : turn'[x].pc \in {"handle", "store"}
  <2>1. CASE q.pc \in {"handle", "store"}
    BY <1>1, <2>1
  <2>2. CASE record = "pending" /\ turn[r].pc \notin {"handle", "store"}
    <3>1. PICK x \in Requests : turn[x].pc \in {"handle", "store"}
      BY <2>2 DEF KeysOK
    <3> QED
      BY <1>1, <2>2, <3>1
  <2> QED
    BY <1>4, <2>1, <2>2
<1>5. record' \in {"absent", "pending", "result"}
  BY DEF KeysOK
<1> QED
  BY <1>1, <1>3, <1>4, <1>5 DEF KeysOK, Keys!Bodies

\* A slot with no request in it is before its look.
LEMMA KeyIdle == Keys!Idle \in KeyTurns /\ Keys!Idle.pc = "idle"
BY DEF Keys!Idle, KeyTurns, Keys!Pcs

\* A request that answers leaves the key to another one, or with a result.
LEMMA KeyReturns ==
    ASSUME KeysOK, NEW r \in Requests, turn[r].pc # "idle", NEW body \in Keys!Bodies, Keys!Return(r, body),
           record' \in {record, "result"}, record' = "pending" => turn[r].pc \notin {"handle", "store"}
    PROVE  KeysOK'
<1>1. turn[r].depth = 1
  BY DEF KeysOK, TurnOK
<1>2. Keys!Becomes(r, Keys!Idle) /\ answer' = [answer EXCEPT ![r] = body]
  BY <1>1 DEF Keys!Return
<1>3. answer' \in [Requests -> Keys!Bodies]
  BY <1>2 DEF KeysOK
<1> QED
  BY <1>2, <1>3, KeyIdle, KeyMoves

\* A look that finds something goes on to look again.
LEMMA KeyGoes ==
    ASSUME KeysOK, NEW r \in Requests, NEW pc \in {"lock", "recheck"}, Keys!Go(r, pc), turn[r].pc \in {"look", "lock"},
           record' = record, pc = "recheck" => record # "absent"
    PROVE  KeysOK'
<1> DEFINE q == [turn[r] EXCEPT !.pc = pc]
<1>1. turn[r] \in KeyTurns /\ turn[r].depth = 1
  BY DEF KeysOK, TurnOK
<1>2. q \in KeyTurns /\ q.pc = pc /\ q.depth = 1
  BY <1>1 DEF KeyTurns, Keys!Pcs
<1>3. Keys!Becomes(r, q) /\ answer' = answer
  BY DEF Keys!Go
<1> HIDE DEF q
<1> QED
  BY <1>2, <1>3, KeyMoves DEF KeysOK

\* What may go wrong is told for good.
LEMMA KeyPromised ==
    ASSUME [Keys!Next]_(Keys!vars)
    PROVE  UNCHANGED <<layers, void>> /\ (~faulty' => ~faulty) /\ (Promised' => Promised)
<1>1. UNCHANGED <<layers, void>>
  <2>1. ASSUME NEW r \in Requests,
               Keys!Ask(r) \/ Keys!Look(r) \/ Keys!Lock(r) \/ Keys!Recheck(r) \/ Keys!Handle(r) \/ Keys!Store(r)
        PROVE  UNCHANGED <<layers, void>>
    BY <2>1, Zenon DEF Keys!Ask, Keys!Look, Keys!Lock, Keys!Recheck, Keys!Handle, Keys!Store
  <2>2. CASE Keys!Lapse \/ UNCHANGED Keys!vars
    BY <2>2 DEF Keys!Lapse, Keys!vars
  <2> QED
    BY <2>1, <2>2 DEF Keys!Next
<1>2. faulty' = faulty \/ faulty' = TRUE
  <2>1. ASSUME NEW r \in Requests,
               Keys!Ask(r) \/ Keys!Look(r) \/ Keys!Lock(r) \/ Keys!Recheck(r) \/ Keys!Handle(r) \/ Keys!Store(r)
        PROVE  faulty' = faulty \/ faulty' = TRUE
    <3>1. CASE Keys!Ask(r) \/ Keys!Look(r)
      BY <3>1 DEF Keys!Ask, Keys!Look
    <3>2. CASE Keys!Lock(r)
      BY <3>2, Zenon DEF Keys!Lock
    <3>3. CASE Keys!Recheck(r)
      BY <3>3 DEF Keys!Recheck
    <3>4. CASE Keys!Handle(r) \/ Keys!Store(r)
      BY <3>4 DEF Keys!Handle, Keys!Store
    <3> QED
      BY <2>1, <3>1, <3>2, <3>3, <3>4
  <2>2. CASE Keys!Lapse \/ UNCHANGED Keys!vars
    BY <2>2 DEF Keys!Lapse, Keys!vars
  <2> QED
    BY <2>1, <2>2 DEF Keys!Next
<1>3. ~faulty' => ~faulty
  BY <1>2, Zenon
<1> QED
  BY <1>1, <1>3 DEF Promised

\* Every step keeps the record pending only while somebody works on it.
LEMMA KeysStep == ASSUME KeysOK, [Keys!Next]_(Keys!vars), Promised, Promised' PROVE KeysOK'
<1>1. ASSUME NEW r \in Requests, Keys!Ask(r) PROVE KeysOK'
  <2> DEFINE q == [Keys!Idle EXCEPT !.pc = "look", !.depth = 1]
  <2>1. q \in KeyTurns /\ q.pc = "look" /\ q.depth = 1
    BY KeyIdle DEF KeyTurns, Keys!Pcs
  <2>2. Keys!Becomes(r, q) /\ UNCHANGED <<record, answer>> /\ turn[r].pc = "idle"
    BY <1>1, KeyIdle DEF Keys!Ask
  <2> HIDE DEF q
  <2> QED
    BY <2>1, <2>2, KeyMoves DEF KeysOK
<1>2. ASSUME NEW r \in Requests, Keys!Look(r) PROVE KeysOK'
  <2>1. turn[r].pc = "look" /\ record' = record /\ ((Keys!Return(r, record) /\ Keys!Cached) \/ Keys!Go(r, "lock"))
    BY <1>2 DEF Keys!Look
  <2>2. Keys!Cached => record \in Keys!Bodies
    BY DEF Keys!Cached, Keys!Bodies
  <2> QED
    BY <2>1, <2>2, KeyReturns, KeyGoes
<1>3. ASSUME NEW r \in Requests, Keys!Lock(r) PROVE KeysOK'
  <2> DEFINE q == [turn[r] EXCEPT !.pc = "handle"]
  <2>1. turn[r].pc = "lock" /\ turn[r] \in KeyTurns /\ turn[r].depth = 1
    BY <1>3 DEF Keys!Lock, KeysOK, TurnOK
  <2>2. CASE record # "absent" /\ Keys!Go(r, "recheck") /\ record' = record
    BY <2>1, <2>2, KeyGoes
  <2>3. CASE record' = "pending" /\ Keys!Becomes(r, q) /\ answer' = answer
    <3>1. q \in KeyTurns /\ q.pc = "handle" /\ q.depth = 1
      BY <2>1 DEF KeyTurns, Keys!Pcs
    <3> HIDE DEF q
    <3> QED
      BY <2>3, <3>1, KeyMoves DEF KeysOK
  <2> QED
    BY <1>3, <2>1, <2>2, <2>3 DEF Keys!Lock, Promised
<1>4. ASSUME NEW r \in Requests, Keys!Recheck(r) PROVE KeysOK'
  <2>1. turn[r].pc = "recheck" /\ record' = record
        /\ ((Keys!Return(r, record) /\ Keys!Cached) \/ Keys!Return(r, "conflict"))
    BY <1>4 DEF Keys!Recheck
  <2>2. (Keys!Cached => record \in Keys!Bodies) /\ "conflict" \in Keys!Bodies
    BY DEF Keys!Cached, Keys!Bodies
  <2> QED
    BY <2>1, <2>2, KeyReturns
<1>5. ASSUME NEW r \in Requests, Keys!Handle(r) PROVE KeysOK'
  <2> DEFINE q == [turn[r] EXCEPT !.pc = "store", !.body = "result"]
  <2>1. turn[r].pc = "handle" /\ turn[r] \in KeyTurns /\ turn[r].depth = 1 /\ record' = record
    BY <1>5 DEF Keys!Handle, KeysOK, TurnOK
  <2>2. Keys!Becomes(r, q) /\ answer' = [answer EXCEPT ![r] = "result"]
    BY <1>5 DEF Keys!Handle, Promised
  <2>3. q \in KeyTurns /\ q.pc = "store" /\ q.depth = 1 /\ q.body = "result"
    BY <2>1 DEF KeyTurns, Keys!Pcs
  <2>4. answer' \in [Requests -> Keys!Bodies]
    BY <2>2 DEF KeysOK, Keys!Bodies
  <2> HIDE DEF q
  <2> QED
    BY <2>1, <2>2, <2>3, <2>4, KeyMoves
<1>6. ASSUME NEW r \in Requests, Keys!Store(r) PROVE KeysOK'
  <2>1. turn[r].pc = "store" /\ turn[r].body = "result" /\ Keys!Return(r, turn[r].body)
    BY <1>6 DEF Keys!Store, KeysOK, TurnOK
  <2>2. record' = "result"
    BY <1>6, <2>1 DEF Keys!Store, Promised
  <2> QED
    BY <2>1, <2>2, KeyReturns DEF Keys!Bodies
<1>7. ~Keys!Lapse
  BY DEF Keys!Lapse, Promised
<1>8. CASE UNCHANGED Keys!vars
  BY <1>8 DEF Keys!vars, KeysOK, TurnOK
<1> QED
  BY <1>1, <1>2, <1>3, <1>4, <1>5, <1>6, <1>7, <1>8 DEF Keys!Next

\* A request is told of another one with its key only while there is one, as
\* long as the interceptor is applied once, the key has not lapsed, Redis and
\* the handler did not fail and the handler answers
\* (IdempotencyInterceptor.intercept).
THEOREM RefusedForAnother == Keys!Spec => ConflictMeansAnother
<1>1. ASSUME Keys!Init PROVE KeysInv
  BY <1>1, KeyIdle DEF Keys!Init, KeysInv, KeysOK, TurnOK, Keys!Bodies
<1>2. ASSUME KeysInv, [Keys!Next]_(Keys!vars) PROVE KeysInv'
  BY <1>2, KeysStep, KeyPromised DEF KeysInv
<1> DEFINE Told == layers = 1 /\ ~void /\ ~faulty' =>
                     \A r \in Requests :
                       turn[r].pc = "recheck" /\ turn'[r].pc # "recheck" /\ answer'[r] = "conflict"
                         => \E x \in Requests \ {r} : turn[x].pc \in {"handle", "store"}
<1>3. ASSUME KeysInv, [Keys!Next]_(Keys!vars) PROVE Told
  <2> SUFFICES ASSUME layers = 1, ~void, ~faulty', NEW r \in Requests,
                      turn[r].pc = "recheck", turn'[r].pc # "recheck", answer'[r] = "conflict"
               PROVE  \E x \in Requests \ {r} : turn[x].pc \in {"handle", "store"}
    OBVIOUS
  <2>1. Promised /\ KeysOK
    BY <1>3, KeyPromised DEF KeysInv, Promised
  <2>2. Keys!Recheck(r)
    <3>1. ASSUME NEW q, NEW x \in Requests, Keys!Becomes(x, q) PROVE x = r
      BY <3>1, <2>1 DEF Keys!Becomes, KeysOK
    <3>2. ASSUME NEW x \in Requests, NEW pc, Keys!Go(x, pc) PROVE x = r
      BY <3>1, <3>2 DEF Keys!Go
    <3>3. ASSUME NEW x \in Requests, NEW body, Keys!Return(x, body) PROVE x = r
      BY <3>1, <3>3, Zenon DEF Keys!Return
    <3>4. ASSUME NEW x \in Requests PROVE ~Keys!Ask(x) /\ ~Keys!Look(x) /\ ~Keys!Lock(x) /\ ~Keys!Handle(x) /\ ~Keys!Store(x)
      <4>1. ~Keys!Ask(x)
        BY <3>1, KeyIdle DEF Keys!Ask
      <4>2. ~Keys!Look(x)
        BY <3>2, <3>3 DEF Keys!Look
      <4>3. ~Keys!Lock(x)
        BY <3>1, <3>2, Zenon DEF Keys!Lock
      <4>4. ~Keys!Handle(x)
        BY <3>1, Zenon DEF Keys!Handle
      <4>5. ~Keys!Store(x)
        BY <3>3 DEF Keys!Store
      <4> QED
        BY <4>1, <4>2, <4>3, <4>4, <4>5
    <3>5. ASSUME NEW x \in Requests, Keys!Recheck(x) PROVE x = r
      BY <3>3, <3>5 DEF Keys!Recheck
    <3>6. ~Keys!Lapse /\ ~UNCHANGED Keys!vars
      BY DEF Keys!Lapse, Keys!vars
    <3> QED
      BY <1>3, <3>4, <3>5, <3>6 DEF Keys!Next
  <2>3. record = "pending"
    BY <2>1, <2>2 DEF Keys!Recheck, Keys!Return, Keys!Cached, KeysOK, TurnOK
  <2> QED
    BY <2>1, <2>3 DEF KeysOK
<1> QED
  BY <1>1, <1>2, <1>3, PTL DEF Keys!Spec, ConflictMeansAnother, Keys!ConflictMeansAnother
(***************************************************************************)
(* Side by side                                                            *)
(***************************************************************************)
\* What the run checks of the services side by side is what each of them
\* keeps alone: a step of one leaves the state of the others as it is.
THEOREM ServicesKeep ==
    ServicesSpec => [](OneLink /\ OneNotice /\ UnreadKept /\ PagesComplete /\ NothingDangles /\ PresenceHonest)
                    /\ ConflictMeansAnother
<1>1. ServicesInit => Invitations!Init /\ Notifications!Init /\ Pages!Init /\ Reactions!Init /\ Online!Init /\ Keys!Init
  BY DEF ServicesInit
<1>2. ASSUME [ServicesNext]_all PROVE [Invitations!Next]_(Invitations!vars)
  BY <1>2 DEF ServicesNext, all, invitations, Invitations!vars
<1>3. ASSUME [ServicesNext]_all PROVE [Notifications!Next]_(Notifications!vars)
  BY <1>3 DEF ServicesNext, all, notifications, Notifications!vars
<1>4. ASSUME [ServicesNext]_all PROVE [Pages!Next]_(Pages!vars)
  BY <1>4 DEF ServicesNext, all, pages, Pages!vars
<1>5. ASSUME [ServicesNext]_all PROVE [Reactions!Next]_(Reactions!vars)
  BY <1>5 DEF ServicesNext, all, reactions, Reactions!vars
<1>6. ASSUME [ServicesNext]_all PROVE [Online!Next]_(Online!vars)
  BY <1>6 DEF ServicesNext, all, presence, Online!vars
<1>7. ASSUME [ServicesNext]_all PROVE [Keys!Next]_(Keys!vars)
  BY <1>7 DEF ServicesNext, all, keys, Keys!vars
<1>8. ServicesSpec => Invitations!Spec /\ Notifications!Spec /\ Pages!Spec
  BY <1>1, <1>2, <1>3, <1>4, PTL DEF ServicesSpec, Invitations!Spec, Notifications!Spec, Pages!Spec
<1>9. ServicesSpec => Reactions!Spec /\ Online!Spec /\ Keys!Spec
  BY <1>1, <1>5, <1>6, <1>7, PTL DEF ServicesSpec, Reactions!Spec, Online!Spec, Keys!Spec
<1> QED
  BY <1>8, <1>9, OneWorkingLink, NotifiedOnce, NothingReadUnseen, NothingSkipped, NothingIsLeftOver,
     CountsAreSockets, RefusedForAnother, PTL
=============================================================================
