---------------------------- MODULE HuddleProofs ----------------------------
(***************************************************************************)
(* For any set of users, any number of requests in flight and any bound on *)
(* rows: at most one session of a target is open (OneOpenSession), the     *)
(* rows implement the single slot of HuddleSlot, and no session goes back  *)
(* to pending.  For requests served one after the other: rows and rosters  *)
(* agree, and what is broadcast and posted is the session as it is.        *)
(*                                                                         *)
(* OneOpenSession alone is not inductive: two rows stay apart only through *)
(* the unique index on entity_active_key, so SlotInv adds that every open  *)
(* row holds the key and that keys are unique.                             *)
(***************************************************************************)
EXTENDS Huddle, TLAPS

USE HuddleAssumption

\* The conjuncts of SlotInv about huddle_sessions, and the other types.
RowsInv == /\ session \in [Ids -> Session]
           /\ MarkerUnique /\ OpenHoldsMarker /\ EndedIsClosed

RestOK == /\ nextId \in 1 .. MaxSessions + 1
          /\ roster \in [Ids -> [Users -> {"none", "in", "left"}]]
          /\ feed \in [Ids -> {"none", "happening", "happened"}]
          /\ shown \in Ids \cup {None}
          /\ req \in [Requests -> Request]
          /\ arrived \in 0 .. MaxArrivals

\* The invariant is what it says of the rows and what it says of the rest.
LEMMA Split == SlotInv <=> RowsInv /\ RestOK
  BY DEF SlotInv, TypeOK, RowsInv, RestOK

\* The same of the state after a step.
LEMMA SplitPrime == SlotInv' <=> RowsInv' /\ RestOK'
  BY DEF SlotInv, TypeOK, RowsInv, RestOK

\* Initially there is no row at all.
LEMMA InitSlotInv == Init => SlotInv
  BY DEF Init, SlotInv, TypeOK, MarkerUnique, OpenHoldsMarker, EndedIsClosed,
         Open, NoSession, Session, Idle, Request, PCs, Ops, Webhooks, Ids, None

-----------------------------------------------------------------------------
(* One statement on huddle_sessions *)

\* what a statement may write into row s
Admissible(s, row) ==
    /\ row \in Session
    /\ row.marker => session[s].marker \/ MarkerFree(s)
    /\ ~row.ended => row.marker
    /\ row.status = "ended" => row.ended /\ ~row.marker

\* A statement that writes one admissible row keeps the rows in order.
LEMMA RowStep ==
  ASSUME RowsInv, NEW s \in Ids \cup {None}, NEW row,
         s \in Ids => Admissible(s, row),
         session' = [session EXCEPT ![s] = row]
  PROVE  RowsInv'
<1>1. CASE s = None
  <2>1. session' = session
    BY <1>1 DEF RowsInv, Ids, None
  <2>. QED  BY <2>1 DEF RowsInv, MarkerUnique, OpenHoldsMarker, EndedIsClosed, Open
<1>2. CASE s \in Ids
  <2>1. /\ Admissible(s, row)
        /\ session'[s] = row
        /\ \A t \in Ids \ {s} : session'[t] = session[t]
        /\ session' \in [Ids -> Session]
    BY <1>2 DEF RowsInv, Admissible
  <2>2. MarkerUnique'
    BY <1>2, <2>1 DEF RowsInv, MarkerUnique, MarkerFree, Admissible
  <2>3. OpenHoldsMarker'
    BY <1>2, <2>1 DEF RowsInv, OpenHoldsMarker, Open, Admissible
  <2>4. EndedIsClosed'
    BY <1>2, <2>1 DEF RowsInv, EndedIsClosed, Admissible
  <2>. QED  BY <2>1, <2>2, <2>3, <2>4 DEF RowsInv
<1>. QED  BY <1>1, <1>2

\* A step that leaves huddle_sessions alone keeps the rows in order.
LEMMA RowsUnchanged == RowsInv /\ UNCHANGED session => RowsInv'
  BY DEF RowsInv, MarkerUnique, OpenHoldsMarker, EndedIsClosed, Open

\* Ending, touching and promoting a row are admissible whatever became of the
\* row since it was read; setting the key is when the index accepts it.
LEMMA Statements ==
  ASSUME RowsInv, NEW s \in Ids, NEW lag \in BOOLEAN
  PROVE  /\ Admissible(s, Ended(session[s]))
         /\ Admissible(s, Touched(session[s], lag))
         /\ Admissible(s, [Touched(session[s], lag) EXCEPT !.starter = TRUE])
         /\ Admissible(s, [session[s] EXCEPT !.status = "active",
                             !.starter = TRUE, !.overdue = FALSE])
         /\ MarkerFree(s) => Admissible(s, Activated(session[s]))
         /\ MarkerFree(s) => Admissible(s, Reopened(session[s], lag))
<1>1. /\ session[s] \in Session
      /\ ~session[s].ended => session[s].marker
      /\ session[s].status = "ended" => session[s].ended /\ ~session[s].marker
  BY DEF RowsInv, OpenHoldsMarker, EndedIsClosed, Open
<1>. QED
  BY <1>1 DEF Admissible, Session, Ended, Touched, Activated, Reopened

-----------------------------------------------------------------------------
(* One change of a request *)

\* What a request in flight holds: sessions in hand, handler, wording.
LEMMA RequestTypes ==
  ASSUME RestOK, NEW r \in Requests
  PROVE  /\ req[r] \in Request
         /\ req[r].sid \in Ids \cup {None}
         /\ req[r].cur \in Ids \cup {None}
         /\ req[r].msg \in Ids \cup {None}
         /\ req[r].op \in Ops \cup {"none"}
         /\ req[r].copy \in {"none", "happening", "happened"}
         /\ \A lag \in Lags(r) : lag \in BOOLEAN
  BY DEF RestOK, Request, Lags

\* A request that becomes another one leaves all requests requests.
LEMMA BecomesType ==
  ASSUME RestOK, NEW r \in Requests, NEW x \in Request, Becomes(r, x)
  PROVE  req' \in [Requests -> Request]
  BY DEF RestOK, Becomes

\* Every change of a request keeps it a request.
LEMMA MoveTypes ==
  ASSUME RestOK, NEW r \in Requests
  PROVE  /\ \A pc \in PCs : Go(r, pc) => req' \in [Requests -> Request]
         /\ Finish(r) => req' \in [Requests -> Request]
         /\ ToState(r) => req' \in [Requests -> Request]
         /\ Posted(r) => req' \in [Requests -> Request]
         /\ \A s \in Ids \cup {None} :
               Cleaned(r, s) => req' \in [Requests -> Request]
         /\ \A s \in Ids \cup {None}, pc \in PCs :
               Hold(r, s, pc) => req' \in [Requests -> Request]
<1>1. req[r] \in Request
  BY DEF RestOK
<1>2. \A pc \in PCs : [req[r] EXCEPT !.pc = pc] \in Request
  BY <1>1 DEF Request
<1>3. Idle \in Request
  BY DEF Idle, Request, PCs, None
<1>4. [req[r] EXCEPT !.pc = "clean", !.phase = "state", !.user = NoUser]
        \in Request
  BY <1>1 DEF Request, PCs
<1>5. [req[r] EXCEPT !.pc = "broadcast", !.msg = None, !.copy = "none"]
        \in Request
  BY <1>1 DEF Request, PCs
<1>6. \A s \in Ids \cup {None} :
        [req[r] EXCEPT !.cur = Result(r, s), !.pc = AfterClean(r)] \in Request
  <2>1. AfterClean(r) \in PCs
    BY DEF AfterClean, PCs
  <2>2. \A s \in Ids \cup {None} : Result(r, s) \in Ids \cup {None}
    BY DEF Result
  <2>. QED  BY <1>1, <2>1, <2>2 DEF Request
<1>7. \A s \in Ids \cup {None}, pc \in PCs :
        [req[r] EXCEPT !.sid = s, !.pc = pc,
           !.phase = IF pc = "clean" THEN "state" ELSE req[r].phase,
           !.user  = IF pc = "clean" THEN NoUser ELSE req[r].user] \in Request
  <2>. SUFFICES ASSUME NEW s \in Ids \cup {None}, NEW pc \in PCs
       PROVE  [req[r] EXCEPT !.sid = s, !.pc = pc,
                 !.phase = IF pc = "clean" THEN "state" ELSE req[r].phase,
                 !.user  = IF pc = "clean" THEN NoUser ELSE req[r].user]
                \in Request
    OBVIOUS
  <2>1. \A phase \in {"head", "state"}, user \in Users \cup {NoUser} :
          [req[r] EXCEPT !.sid = s, !.pc = pc, !.phase = phase, !.user = user]
            \in Request
    BY <1>1 DEF Request
  <2>2. /\ (IF pc = "clean" THEN "state" ELSE req[r].phase) \in {"head", "state"}
        /\ (IF pc = "clean" THEN NoUser ELSE req[r].user) \in Users \cup {NoUser}
    BY <1>1 DEF Request
  <2>. QED  BY <2>1, <2>2, Zenon
<1>8. \A x \in Request : Becomes(r, x) => req' \in [Requests -> Request]
  BY BecomesType
<1>9. /\ \A pc \in PCs : Go(r, pc) => req' \in [Requests -> Request]
      /\ Finish(r) => req' \in [Requests -> Request]
  BY <1>2, <1>3, <1>8, Zenon DEF Go, Finish
<1>10. /\ ToState(r) => req' \in [Requests -> Request]
       /\ Posted(r) => req' \in [Requests -> Request]
  BY <1>4, <1>5, <1>8, Zenon DEF ToState, Posted
<1>11. \A s \in Ids \cup {None} :
         Cleaned(r, s) => req' \in [Requests -> Request]
  BY <1>6, <1>8, Zenon DEF Cleaned
<1>12. \A s \in Ids \cup {None}, pc \in PCs :
         Hold(r, s, pc) => req' \in [Requests -> Request]
  BY <1>7, <1>8, Zenon DEF Hold
<1>. QED  BY <1>9, <1>10, <1>11, <1>12

-----------------------------------------------------------------------------
(* The actions *)

\* The session a request holds leads it to a statement of its own.
LEMMA OnSessionType == \A op : OnSession(op) \in PCs
  BY DEF OnSession, PCs

\* The steps of cleanupOpenSessionIfStale keep the invariant.
LEMMA CleanStep ==
  ASSUME SlotInv, NEW r \in Requests, Clean(r)
  PROVE  SlotInv'
<1>. USE Split, SplitPrime, RowsUnchanged, MoveTypes, RequestTypes
<1>1. CASE CleanFind(r)
  <2>1. PICK s \in Ids \cup {None} :
          \/ Cleaned(r, s)
          \/ Becomes(r, [req[r] EXCEPT
               !.cur = s,
               !.pc = IF session[s].status = "pending"
                      THEN "cleanEnd" ELSE "cleanRoster"])
    BY <1>1, Zenon DEF CleanFind
  <2>2. [req[r] EXCEPT
               !.cur = s,
               !.pc = IF session[s].status = "pending"
                      THEN "cleanEnd" ELSE "cleanRoster"] \in Request
    BY DEF Request, PCs
  <2>3. req' \in [Requests -> Request]
    BY <2>1, <2>2, BecomesType
  <2>. QED  BY <1>1, <2>3 DEF CleanFind, RestOK
<1>2. CASE CleanRoster(r)
  <2>1. req' \in [Requests -> Request]
    BY <1>2 DEF CleanRoster, PCs
  <2>. QED  BY <1>2, <2>1 DEF CleanRoster, RestOK
<1>3. CASE CleanEnd(r)
  <2>1. RowsInv'
    BY <1>3, RowStep, Statements DEF CleanEnd
  <2>2. req' \in [Requests -> Request]
    BY <1>3 DEF CleanEnd, PCs
  <2>. QED  BY <1>3, <2>1, <2>2 DEF CleanEnd, RestOK
<1>4. CASE CleanLeft(r)
  <2>1. req' \in [Requests -> Request]
    BY <1>4 DEF CleanLeft
  <2>2. roster' \in [Ids -> [Users -> {"none", "in", "left"}]]
    BY <1>4 DEF CleanLeft, AllLeft, RestOK
  <2>. QED  BY <1>4, <2>1, <2>2 DEF CleanLeft, RestOK
<1>. QED  BY <1>1, <1>2, <1>3, <1>4 DEF Clean

\* A new row is admissible where the index accepts its key.
LEMMA NewRow ==
  ASSUME RowsInv, NEW r \in Requests, NEW s \in Ids, MarkerFree(s),
         NEW lag \in BOOLEAN
  PROVE  Admissible(s, Inserted(r, lag))
  BY DEF Admissible, Inserted, Session

\* Finding, touching, creating and recovering a session keep the invariant.
LEMMA ObtainStep ==
  ASSUME SlotInv, NEW r \in Requests, Obtain(r)
  PROVE  SlotInv'
<1>. USE Split, SplitPrime, RowsUnchanged, MoveTypes, RequestTypes,
         OnSessionType
<1>1. CASE FindOpen(r)
  <2>1. PICK s \in Ids \cup {None} :
          \/ Becomes(r, [Idle EXCEPT !.op = "get", !.phase = "state",
                                     !.pc = "clean"])
          \/ Finish(r) \/ Go(r, "create")
          \/ Hold(r, s, IF req[r].op = "join"
                           /\ session[s].status = "pending"
                        THEN "promote" ELSE "touch")
          \/ Hold(r, s, OnSession(req[r].op))
    BY <1>1, Zenon DEF FindOpen
  <2>2. [Idle EXCEPT !.op = "get", !.phase = "state", !.pc = "clean"]
          \in Request
    BY DEF Idle, Request, PCs, Ops, None
  <2>3. {"create", "promote", "touch"} \subseteq PCs
    BY DEF PCs
  <2>4. req' \in [Requests -> Request]
    BY <2>1, <2>2, <2>3, BecomesType
  <2>. QED  BY <1>1, <2>4 DEF FindOpen, RestOK
<1>2. CASE Touch(r)
  <2>1. session' = [session EXCEPT ![req[r].sid] =
                     [Touched(session[req[r].sid], FALSE) EXCEPT !.starter = TRUE]]
    BY <1>2 DEF Touch
  <2>2. RowsInv'
    BY <2>1, RowStep, Statements
  <2>3. req' \in [Requests -> Request]
    BY <1>2 DEF Touch
  <2>. QED  BY <1>2, <2>2, <2>3 DEF Touch, RestOK
<1>3. CASE Promote(r)
  <2>1. session' = [session EXCEPT ![req[r].sid] =
                     [session[req[r].sid] EXCEPT !.status = "active",
                        !.starter = TRUE, !.overdue = FALSE]]
    BY <1>3 DEF Promote
  <2>2. RowsInv'
    BY <2>1, RowStep, Statements
  <2>3. req' \in [Requests -> Request]
    BY <1>3 DEF Promote
  <2>. QED  BY <1>3, <2>2, <2>3 DEF Promote, RestOK
<1>4. CASE Create(r)
  <2>1. CASE /\ nextId \in Ids /\ MarkerFree(nextId)
             /\ \E lag \in Lags(r) :
                  session' = [session EXCEPT ![nextId] = Inserted(r, lag)]
             /\ nextId' = nextId + 1
             /\ Hold(r, nextId, OnSession(req[r].op))
    <3>1. RowsInv'
      BY <2>1, RowStep, NewRow
    <3>2. req' \in [Requests -> Request]
      BY <2>1
    <3>3. nextId' \in 1 .. MaxSessions + 1
      BY <2>1 DEF Ids
    <3>. QED  BY <1>4, <3>1, <3>2, <3>3 DEF Create, RestOK
  <2>2. CASE Go(r, "recover") /\ UNCHANGED <<session, nextId>>
    <3>1. req' \in [Requests -> Request]
      BY <2>2 DEF PCs
    <3>. QED  BY <1>4, <2>2, <3>1 DEF Create, RestOK
  <2>. QED  BY <1>4, <2>1, <2>2 DEF Create
<1>5. CASE Recover(r)
  <2>1. req' \in [Requests -> Request]
    BY <1>5 DEF Recover
  <2>. QED  BY <1>5, <2>1 DEF Recover, RestOK
<1>. QED  BY <1>1, <1>2, <1>3, <1>4, <1>5 DEF Obtain

\* One mark in a roster keeps rosters rosters.
LEMMA RosterTypes ==
  ASSUME RestOK, NEW s, NEW u, NEW m \in {"none", "in", "left"}
  PROVE  [roster EXCEPT ![s][u] = m] \in [Ids -> [Users -> {"none", "in", "left"}]]
  BY DEF RestOK

\* Joining, leaving, muting and the roster check keep the invariant.
LEMMA MemberStep ==
  ASSUME SlotInv, NEW r \in Requests, Member(r)
  PROVE  SlotInv'
<1>. USE Split, SplitPrime, RowsUnchanged, MoveTypes, RequestTypes
<1>1. CASE Activate(r)
  <2>1. RowsInv'
    BY <1>1, RowStep, Statements DEF Activate
  <2>2. req' \in [Requests -> Request]
    BY <1>1 DEF Activate, PCs
  <2>. QED  BY <1>1, <2>1, <2>2 DEF Activate, RestOK
<1>2. CASE Enter(r) \/ Mute(r)
  <2>. QED  BY <1>2, RosterTypes DEF Enter, Mute, RestOK
<1>3. CASE Leave(r)
  <2>1. req' \in [Requests -> Request]
    BY <1>3 DEF Leave, PCs
  <2>. QED  BY <1>3, <2>1, RosterTypes DEF Leave, RestOK
<1>4. CASE LeaveTouch(r)
  <2>1. RowsInv'
    BY <1>4, RowStep, Statements DEF LeaveTouch
  <2>2. req' \in [Requests -> Request]
    BY <1>4 DEF LeaveTouch, PCs
  <2>. QED  BY <1>4, <2>1, <2>2 DEF LeaveTouch, RestOK
<1>5. CASE ReadRoster(r)
  <2>1. req' \in [Requests -> Request]
    BY <1>5 DEF ReadRoster, PCs
  <2>. QED  BY <1>5, <2>1 DEF ReadRoster, RestOK
<1>6. CASE Close(r)
  <2>1. RowsInv'
    BY <1>6, RowStep, Statements DEF Close
  <2>2. req' \in [Requests -> Request]
    BY <1>6 DEF Close
  <2>. QED  BY <1>6, <2>1, <2>2 DEF Close, RestOK
<1>. QED  BY <1>1, <1>2, <1>3, <1>4, <1>5, <1>6 DEF Member

\* LiveKit's events keep the invariant, reopening a session included.
LEMMA WebhookStep ==
  ASSUME SlotInv, NEW r \in Requests, Webhook(r)
  PROVE  SlotInv'
<1>. USE Split, SplitPrime, RowsUnchanged, MoveTypes, RequestTypes
<1>1. CASE Reopen(r)
  <2>1. RowsInv'
    BY <1>1, RowStep, Statements DEF Reopen
  <2>2. req' \in [Requests -> Request]
    BY <1>1 DEF Reopen, PCs
  <2>. QED  BY <1>1, <2>1, <2>2 DEF Reopen, RestOK
<1>2. CASE FindParticipant(r)
  <2>1. req' \in [Requests -> Request]
    BY <1>2 DEF FindParticipant, PCs
  <2>. QED  BY <1>2, <2>1 DEF FindParticipant, RestOK
<1>3. CASE MarkLeft(r) \/ InsertLeft(r)
  <2>. QED  BY <1>3, RosterTypes DEF MarkLeft, InsertLeft, RestOK
<1>4. CASE EndRow(r)
  <2>1. RowsInv'
    BY <1>4, RowStep, Statements DEF EndRow
  <2>2. req' \in [Requests -> Request]
    BY <1>4 DEF EndRow, PCs
  <2>. QED  BY <1>4, <2>1, <2>2 DEF EndRow, RestOK
<1>5. CASE EndLeft(r)
  <2>1. roster' \in [Ids -> [Users -> {"none", "in", "left"}]]
    BY <1>5 DEF EndLeft, AllLeft, RestOK
  <2>. QED  BY <1>5, <2>1 DEF EndLeft, RestOK
<1>. QED  BY <1>1, <1>2, <1>3, <1>4, <1>5 DEF Webhook

\* The feed message and the broadcast keep the invariant.
LEMMA StateStep ==
  ASSUME SlotInv, NEW r \in Requests, State(r)
  PROVE  SlotInv'
<1>. USE Split, SplitPrime, RowsUnchanged, MoveTypes, RequestTypes
<1>1. CASE Sync(r)
  <2>1. PICK s \in Ids \cup {None} :
          \/ Go(r, "broadcast")
          \/ Becomes(r, [req[r] EXCEPT
                  !.msg  = s,
                  !.pc   = IF feed[s] = "none" THEN "feedInsert"
                                               ELSE "feedUpdate",
                  !.copy = IF session[s].status = "ended" THEN "happened"
                                                          ELSE "happening"])
    BY <1>1, Zenon DEF Sync
  <2>2. [req[r] EXCEPT
                  !.msg  = s,
                  !.pc   = IF feed[s] = "none" THEN "feedInsert"
                                               ELSE "feedUpdate",
                  !.copy = IF session[s].status = "ended" THEN "happened"
                                                          ELSE "happening"]
          \in Request
    <3>1. \A pc \in PCs, c \in {"none", "happening", "happened"} :
            [req[r] EXCEPT !.msg = s, !.pc = pc, !.copy = c] \in Request
      BY DEF Request
    <3>2. {"feedInsert", "feedUpdate"} \subseteq PCs
      BY DEF PCs
    <3>. QED  BY <3>1, <3>2
  <2>3. req' \in [Requests -> Request]
    BY <2>1, <2>2, BecomesType DEF PCs
  <2>. QED  BY <1>1, <2>3 DEF Sync, RestOK
<1>2. CASE FeedInsert(r)
  <2>1. feed' \in [Ids -> {"none", "happening", "happened"}]
    BY <1>2 DEF FeedInsert, RestOK
  <2>. QED  BY <1>2, <2>1 DEF FeedInsert, RestOK
<1>3. CASE FeedUpdate(r)
  <2>1. feed' \in [Ids -> {"none", "happening", "happened"}]
    BY <1>3 DEF FeedUpdate, RestOK
  <2>. QED  BY <1>3, <2>1 DEF FeedUpdate, RestOK
<1>4. CASE Broadcast(r)
  <2>1. req' \in [Requests -> Request]
    BY <1>4 DEF Broadcast, PCs
  <2>. QED  BY <1>4, <2>1 DEF Broadcast, RestOK
<1>. QED  BY <1>1, <1>2, <1>3, <1>4 DEF State

\* A request that arrives is a request.
LEMMA ArriveStep ==
  ASSUME SlotInv, NEW r \in Requests, Arrive(r)
  PROVE  SlotInv'
<1>. USE Split, SplitPrime, RowsUnchanged
<1>1. PICK op \in Ops, u \in Users \cup {NoUser} :
        Becomes(r, [Idle EXCEPT
             !.op    = op,
             !.user  = u,
             !.pc    = IF op = "mute" THEN "open" ELSE "clean",
             !.phase = IF op = "get" THEN "state" ELSE "head"])
  BY DEF Arrive
<1>2. [Idle EXCEPT
             !.op    = op,
             !.user  = u,
             !.pc    = IF op = "mute" THEN "open" ELSE "clean",
             !.phase = IF op = "get" THEN "state" ELSE "head"] \in Request
  BY DEF Idle, Request, PCs, None
<1>3. req' \in [Requests -> Request]
  BY <1>1, <1>2, BecomesType
<1>. QED  BY <1>3 DEF Arrive, RestOK

\* A time to live that runs out changes nothing but the flag.
LEMMA TimeStep == SlotInv /\ TimePasses => SlotInv'
<1>. SUFFICES ASSUME SlotInv, TimePasses PROVE SlotInv'
  OBVIOUS
<1>. USE Split, SplitPrime
<1>1. PICK late \in SUBSET Ids :
        session' = [s \in Ids |->
             IF s \in late THEN [session[s] EXCEPT !.overdue = TRUE]
                           ELSE session[s]]
  BY DEF TimePasses
<1>2. \A s \in Ids : /\ session'[s] \in Session
                     /\ session'[s].status = session[s].status
                     /\ session'[s].ended = session[s].ended
                     /\ session'[s].marker = session[s].marker
  BY <1>1 DEF RowsInv, Session
<1>3. session' \in [Ids -> Session]
  BY <1>1, <1>2
<1>4. RowsInv'
  BY <1>2, <1>3 DEF RowsInv, MarkerUnique, OpenHoldsMarker, EndedIsClosed, Open
<1>. QED  BY <1>4 DEF TimePasses, RestOK

\* No statement of any handler, and no passing of time, breaks it.
LEMMA NextSlotInv == SlotInv /\ [Next]_vars => SlotInv'
<1>. SUFFICES ASSUME SlotInv, [Next]_vars PROVE SlotInv'
  OBVIOUS
<1>1. CASE TimePasses
  BY <1>1, TimeStep
<1>2. ASSUME NEW r \in Requests, Arrive(r) \/ Step(r) PROVE SlotInv'
  BY <1>2, ArriveStep, CleanStep, ObtainStep, MemberStep, WebhookStep,
     StateStep DEF Step
<1>3. CASE UNCHANGED vars
  BY <1>3, Split, SplitPrime, RowsUnchanged DEF vars, RestOK
<1>. QED  BY <1>1, <1>2, <1>3 DEF Next

-----------------------------------------------------------------------------
(* Theorems *)

\* Rows, rosters, messages and requests keep their types, open rows hold the
\* key and keys are unique, for every interleaving of statements.
THEOREM SlotInvariant == Spec => []SlotInv
<1>. QED  BY InitSlotInv, NextSlotInv, PTL DEF Spec

\* Open rows hold the key and keys are unique: one row is open.
LEMMA AtMostOne == SlotInv => OneOpenSession
  BY DEF SlotInv, MarkerUnique, OpenHoldsMarker, OneOpenSession

\* The same of the state after a step.
LEMMA AtMostOnePrime == SlotInv' => OneOpenSession'
  BY DEF SlotInv, MarkerUnique, OpenHoldsMarker, OneOpenSession, Open

\* At most one session of a target is open, in every reachable state.
THEOREM OneOpen == Spec => []OneOpenSession
<1>. QED  BY SlotInvariant, AtMostOne, PTL

-----------------------------------------------------------------------------
(* The rows implement the slot *)

\* ended_at of at most one row changes
OneRowChanges == \E s : \A t \in Ids : t # s => session'[t].ended = session[t].ended

\* A statement that writes one row changes ended_at of one row at most.
LEMMA RowWritten ==
  ASSUME RowsInv, NEW s, NEW row, session' = [session EXCEPT ![s] = row]
  PROVE  OneRowChanges
<1>1. \A t \in Ids : t # s => session'[t].ended = session[t].ended
  BY DEF RowsInv
<1>. QED  BY <1>1 DEF OneRowChanges

\* A statement that writes no row changes ended_at of none.
LEMMA RowsKept == UNCHANGED session => OneRowChanges
  BY DEF OneRowChanges

\* No statement writes ended_at of two rows.
LEMMA NextOneRow == SlotInv /\ [Next]_vars => OneRowChanges
<1>. SUFFICES ASSUME SlotInv, [Next]_vars PROVE OneRowChanges
  OBVIOUS
<1>. USE Split, RowWritten, RowsKept
<1>1. CASE TimePasses
  <2>1. PICK late \in SUBSET Ids :
          session' = [s \in Ids |->
             IF s \in late THEN [session[s] EXCEPT !.overdue = TRUE]
                           ELSE session[s]]
    BY <1>1 DEF TimePasses
  <2>2. \A s \in Ids : session'[s].ended = session[s].ended
    BY <2>1 DEF RowsInv, Session
  <2>. QED  BY <2>2 DEF OneRowChanges
<1>2. ASSUME NEW r \in Requests, Arrive(r) \/ Step(r) PROVE OneRowChanges
  <2>1. CASE Arrive(r)
    BY <2>1 DEF Arrive
  <2>2. CASE Clean(r)
    BY <2>2 DEF Clean, CleanFind, CleanRoster, CleanEnd, CleanLeft
  <2>3. CASE FindOpen(r) \/ Recover(r)
    BY <2>3 DEF FindOpen, Recover
  <2>4. CASE Touch(r)
    <3>1. \E row : session' = [session EXCEPT ![req[r].sid] = row]
      BY <2>4 DEF Touch
    <3>. QED  BY <3>1
  <2>5. CASE Promote(r)
    <3>1. \E row : session' = [session EXCEPT ![req[r].sid] = row]
      BY <2>5 DEF Promote
    <3>. QED  BY <3>1
  <2>6. CASE Create(r)
    BY <2>6 DEF Create
  <2>7. CASE Activate(r) \/ LeaveTouch(r) \/ Close(r)
    BY <2>7 DEF Activate, LeaveTouch, Close
  <2>8. CASE Enter(r) \/ Leave(r) \/ Mute(r) \/ ReadRoster(r)
    BY <2>8 DEF Enter, Leave, Mute, ReadRoster
  <2>9. CASE Reopen(r) \/ EndRow(r)
    BY <2>9 DEF Reopen, EndRow
  <2>10. CASE FindParticipant(r) \/ MarkLeft(r) \/ InsertLeft(r) \/ EndLeft(r)
    BY <2>10 DEF FindParticipant, MarkLeft, InsertLeft, EndLeft
  <2>11. CASE State(r)
    BY <2>11 DEF State, Sync, FeedInsert, FeedUpdate, Broadcast
  <2>. QED
    BY <1>2, <2>1, <2>2, <2>3, <2>4, <2>5, <2>6, <2>7, <2>8, <2>9, <2>10,
       <2>11 DEF Step, Obtain, Member, Webhook
<1>3. CASE UNCHANGED vars
  BY <1>3 DEF vars
<1>. QED  BY <1>1, <1>2, <1>3 DEF Next

OpenRows == {s \in Ids : Open(s)}

\* With at most one row open before and after, a change of one row takes the
\* free slot or gives the slot up.
LEMMA SlotStep ==
  ASSUME OneOpenSession, OneOpenSession', OneRowChanges
  PROVE  [Slot!Next]_OpenRows
<1>1. PICK s : \A t \in Ids : t # s => session'[t].ended = session[t].ended
  BY DEF OneRowChanges
<1>2. \A t \in Ids : t # s => (t \in OpenRows <=> t \in OpenRows')
  BY <1>1 DEF OpenRows, Open
<1>3. /\ \A t, u \in OpenRows : t = u
      /\ \A t, u \in OpenRows' : t = u
  BY DEF OneOpenSession, OpenRows, Open
<1>4. CASE OpenRows' = {}
  BY <1>4 DEF Slot!Next, Slot!GiveUp, OpenRows
<1>5. CASE OpenRows' # {} /\ OpenRows = {}
  <2>1. PICK t \in Ids : t \in OpenRows'
    BY <1>5 DEF OpenRows
  <2>2. OpenRows' = {t}
    BY <1>3, <2>1
  <2>. QED  BY <1>5, <2>1, <2>2 DEF Slot!Next, Slot!Take, OpenRows
<1>6. CASE OpenRows' # {} /\ OpenRows # {}
  <2>1. PICK t \in Ids, u \in Ids : t \in OpenRows /\ u \in OpenRows'
    BY <1>6 DEF OpenRows
  <2>2. t = u
    BY <1>2, <1>3, <2>1
  <2>3. OpenRows' = OpenRows
    BY <1>3, <2>1, <2>2
  <2>. QED  BY <2>3
<1>. QED  BY <1>4, <1>5, <1>6

\* Every behaviour of the requests is a behaviour of the slot.
THEOREM HuddleImplementsSlot == Spec => SlotSpec
<1>1. Init => Slot!Init
  BY DEF Init, Slot!Init, Open, NoSession
<1>2. SlotInv /\ SlotInv' /\ [Next]_vars => [Slot!Next]_OpenRows
  BY AtMostOne, NextOneRow, SlotStep, AtMostOnePrime
<1>3. [Slot!Next]_OpenRows => [Slot!Next]_({s \in Ids : Open(s)})
  BY DEF OpenRows
<1>. QED
  BY <1>1, <1>2, <1>3, SlotInvariant, PTL DEF Spec, SlotSpec, Slot!Spec
-----------------------------------------------------------------------------
(* What a request becomes *)

\* The request that moves is what it becomes, and no other request moves.
LEMMA BecomesFields ==
  ASSUME RestOK, NEW r \in Requests, NEW x, Becomes(r, x)
  PROVE  req'[r] = x /\ \A q \in Requests \ {r} : req'[q] = req[q]
  BY DEF Becomes, RestOK

\* The fields of the request that holds a session.
LEMMA HoldFields ==
  ASSUME RestOK, NEW r \in Requests, NEW s, NEW pc, Hold(r, s, pc)
  PROVE  /\ req'[r].sid = s /\ req'[r].pc = pc /\ req'[r].cur = req[r].cur
         /\ \A q \in Requests \ {r} : req'[q] = req[q]
<1>1. PICK phase, user :
        Becomes(r, [req[r] EXCEPT !.sid = s, !.pc = pc, !.phase = phase,
                                  !.user = user])
  BY Zenon DEF Hold
<1>2. /\ req'[r] = [req[r] EXCEPT !.sid = s, !.pc = pc, !.phase = phase,
                                  !.user = user]
      /\ \A q \in Requests \ {r} : req'[q] = req[q]
  BY <1>1, BecomesFields
<1>. QED  BY <1>2 DEF RestOK, Request

\* Where each move takes the request, and the sessions it then holds.
LEMMA Moves ==
  ASSUME RestOK, NEW r \in Requests
  PROVE  /\ \A pc : Go(r, pc) =>
               /\ req'[r].pc = pc /\ req'[r].sid = req[r].sid
               /\ req'[r].cur = req[r].cur /\ req'[r].msg = req[r].msg
               /\ req'[r].copy = req[r].copy
               /\ \A q \in Requests \ {r} : req'[q] = req[q]
         /\ Finish(r) =>
               /\ req'[r].pc = "idle" /\ req'[r].sid = None /\ req'[r].cur = None
               /\ \A q \in Requests \ {r} : req'[q] = req[q]
         /\ ToState(r) =>
               /\ req'[r].pc = "clean" /\ req'[r].sid = req[r].sid
               /\ req'[r].cur = req[r].cur
               /\ \A q \in Requests \ {r} : req'[q] = req[q]
         /\ Posted(r) =>
               /\ req'[r].pc = "broadcast" /\ req'[r].sid = req[r].sid
               /\ req'[r].cur = req[r].cur
               /\ \A q \in Requests \ {r} : req'[q] = req[q]
         /\ \A s : Cleaned(r, s) =>
               /\ req'[r].pc = AfterClean(r) /\ req'[r].sid = req[r].sid
               /\ req'[r].cur = Result(r, s)
               /\ \A q \in Requests \ {r} : req'[q] = req[q]
<1>1. req[r] \in Request
  BY DEF RestOK
<1>2. ASSUME NEW pc, Go(r, pc)
      PROVE  /\ req'[r].pc = pc /\ req'[r].sid = req[r].sid
             /\ req'[r].cur = req[r].cur /\ req'[r].msg = req[r].msg
             /\ req'[r].copy = req[r].copy
             /\ \A q \in Requests \ {r} : req'[q] = req[q]
  <2>1. /\ req'[r] = [req[r] EXCEPT !.pc = pc]
        /\ \A q \in Requests \ {r} : req'[q] = req[q]
    BY <1>2, BecomesFields, Zenon DEF Go
  <2>. QED  BY <1>1, <2>1 DEF Request
<1>3. ASSUME Finish(r)
      PROVE  /\ req'[r].pc = "idle" /\ req'[r].sid = None /\ req'[r].cur = None
             /\ \A q \in Requests \ {r} : req'[q] = req[q]
  <2>1. req'[r] = Idle /\ \A q \in Requests \ {r} : req'[q] = req[q]
    BY <1>3, BecomesFields, Zenon DEF Finish
  <2>. QED  BY <2>1 DEF Idle
<1>4. ASSUME ToState(r)
      PROVE  /\ req'[r].pc = "clean" /\ req'[r].sid = req[r].sid
             /\ req'[r].cur = req[r].cur
             /\ \A q \in Requests \ {r} : req'[q] = req[q]
  <2>1. /\ req'[r] = [req[r] EXCEPT !.pc = "clean", !.phase = "state",
                                    !.user = NoUser]
        /\ \A q \in Requests \ {r} : req'[q] = req[q]
    BY <1>4, BecomesFields, Zenon DEF ToState
  <2>. QED  BY <1>1, <2>1 DEF Request
<1>5. ASSUME Posted(r)
      PROVE  /\ req'[r].pc = "broadcast" /\ req'[r].sid = req[r].sid
             /\ req'[r].cur = req[r].cur
             /\ \A q \in Requests \ {r} : req'[q] = req[q]
  <2>1. /\ req'[r] = [req[r] EXCEPT !.pc = "broadcast", !.msg = None,
                                    !.copy = "none"]
        /\ \A q \in Requests \ {r} : req'[q] = req[q]
    BY <1>5, BecomesFields, Zenon DEF Posted
  <2>. QED  BY <1>1, <2>1 DEF Request
<1>6. ASSUME NEW s, Cleaned(r, s)
      PROVE  /\ req'[r].pc = AfterClean(r) /\ req'[r].sid = req[r].sid
             /\ req'[r].cur = Result(r, s)
             /\ \A q \in Requests \ {r} : req'[q] = req[q]
  <2>1. /\ req'[r] = [req[r] EXCEPT !.cur = Result(r, s), !.pc = AfterClean(r)]
        /\ \A q \in Requests \ {r} : req'[q] = req[q]
    BY <1>6, BecomesFields, Zenon DEF Cleaned
  <2>. QED  BY <1>1, <2>1 DEF Request
<1>. QED  BY <1>2, <1>3, <1>4, <1>5, <1>6, Zenon

-----------------------------------------------------------------------------
(* No session goes back to pending.  A status is set to pending only by the *)
(* insert of a row, so what has to be known is that the row inserted is one *)
(* nobody has written: ids from nextId on are blank, and no request holds   *)
(* one of them.                                                             *)

Blank == \A s \in Ids : s >= nextId => session[s] = NoSession
Aims  == \A r \in Requests : req[r].sid < nextId /\ req[r].cur < nextId

FreshInv == Blank /\ Aims

\* The step of NeverBackToPending.
NoneBack == \A s \in Ids : session[s].status \in {"active", "ended"}
                             => session'[s].status # "pending"

\* A session found open has been inserted.
LEMMA FoundIsInserted ==
  ASSUME RestOK, Blank, NEW s \in Ids \cup {None}, FindsOpen(s)
  PROVE  s < nextId
<1>1. nextId \in Nat /\ nextId > 0
  BY DEF RestOK
<1>2. s = None \/ (s \in Ids /\ Open(s))
  BY DEF FindsOpen
<1>. QED  BY <1>1, <1>2 DEF Blank, Open, NoSession, None, Ids

\* A step that writes no row keeps FreshInv if the request still holds
\* inserted sessions.
LEMMA FreshKept ==
  ASSUME RestOK, FreshInv, NEW r \in Requests, UNCHANGED <<session, nextId>>,
         \A q \in Requests \ {r} : req'[q] = req[q],
         req'[r].sid < nextId, req'[r].cur < nextId
  PROVE  FreshInv' /\ NoneBack
  BY DEF FreshInv, Blank, Aims, NoneBack

\* So does a step that writes an inserted row and not a pending status.
LEMMA FreshWritten ==
  ASSUME SlotInv, FreshInv, NEW r \in Requests,
         NEW s \in Ids \cup {None}, NEW row, s < nextId,
         s \in Ids => row.status \in {"active", "ended", session[s].status},
         session' = [session EXCEPT ![s] = row], UNCHANGED nextId,
         \A q \in Requests \ {r} : req'[q] = req[q],
         req'[r].sid < nextId, req'[r].cur < nextId
  PROVE  FreshInv' /\ NoneBack
<1>1. session \in [Ids -> Session] /\ nextId \in Nat
  BY Split DEF RowsInv, RestOK
<1>2. \A t \in Ids : t # s => session'[t] = session[t]
  BY <1>1
<1>3. s \in Ids => session'[s] = row
  BY <1>1
<1>4. Blank'
  BY <1>1, <1>2 DEF FreshInv, Blank, Ids
<1>5. Aims'
  BY DEF FreshInv, Aims
<1>6. NoneBack
  BY <1>2, <1>3 DEF NoneBack
<1>. QED  BY <1>4, <1>5, <1>6 DEF FreshInv
\* No statement but an insert writes a status that is not active, ended or
\* the one it found.
LEMMA StatusWritten ==
  ASSUME RowsInv, NEW s \in Ids, NEW lag
  PROVE  LET ok == {"active", "ended", session[s].status} IN
         /\ Ended(session[s]).status \in ok
         /\ Touched(session[s], lag).status \in ok
         /\ [Touched(session[s], lag) EXCEPT !.starter = TRUE].status \in ok
         /\ [session[s] EXCEPT !.status = "active", !.starter = TRUE,
                               !.overdue = FALSE].status \in ok
         /\ Activated(session[s]).status \in ok
         /\ Reopened(session[s], lag).status \in ok
  BY DEF RowsInv, Session, Ended, Touched, Activated, Reopened

\* The cleanup holds and ends inserted sessions only.
LEMMA FreshClean ==
  ASSUME SlotInv, FreshInv, NEW r \in Requests, Clean(r)
  PROVE  FreshInv' /\ NoneBack
<1>1. /\ RestOK /\ RowsInv /\ None < nextId /\ req[r].cur \in Ids \cup {None}
      /\ req[r].sid < nextId /\ req[r].cur < nextId
  BY Split, RequestTypes DEF FreshInv, Aims, RestOK, None
<1>2. ASSUME NEW s \in Ids \cup {None}, FindsOpen(s) \/ s = req[r].cur \/ s = None,
             Cleaned(r, s), UNCHANGED <<session, nextId>>
      PROVE  FreshInv' /\ NoneBack
  <2>1. s < nextId
    BY <1>1, <1>2, FoundIsInserted DEF FreshInv
  <2>2. Result(r, s) < nextId
    BY <1>1, <2>1 DEF Result
  <2>. QED  BY <1>1, <1>2, <2>2, Moves, FreshKept
<1>3. ASSUME NEW pc, Go(r, pc), UNCHANGED <<session, nextId>>
      PROVE  FreshInv' /\ NoneBack
  BY <1>1, <1>3, Moves, FreshKept
<1>4. CASE CleanFind(r)
  <2>1. PICK s \in Ids \cup {None} :
          /\ FindsOpen(s)
          /\ \/ s = None /\ Cleaned(r, None)
             \/ Cleaned(r, s)
             \/ Becomes(r, [req[r] EXCEPT
                  !.cur = s,
                  !.pc = IF session[s].status = "pending"
                         THEN "cleanEnd" ELSE "cleanRoster"])
    BY <1>4, Zenon DEF CleanFind
  <2>2. UNCHANGED <<session, nextId>>
    BY <1>4 DEF CleanFind
  <2>3. CASE Cleaned(r, None) \/ Cleaned(r, s)
    BY <1>2, <2>1, <2>2, <2>3
  <2>4. CASE Becomes(r, [req[r] EXCEPT
                  !.cur = s,
                  !.pc = IF session[s].status = "pending"
                         THEN "cleanEnd" ELSE "cleanRoster"])
    <3>1. PICK pc : Becomes(r, [req[r] EXCEPT !.cur = s, !.pc = pc])
      BY <2>4, Zenon
    <3>2. /\ req'[r] = [req[r] EXCEPT !.cur = s, !.pc = pc]
          /\ \A q \in Requests \ {r} : req'[q] = req[q]
      BY <1>1, <3>1, BecomesFields, Zenon
    <3>3. req'[r].sid = req[r].sid /\ req'[r].cur = s
      BY <1>1, <3>2, RequestTypes DEF Request
    <3>. QED  BY <1>1, <2>1, <2>2, <3>2, <3>3, FoundIsInserted, FreshKept
                 DEF FreshInv
  <2>. QED  BY <2>1, <2>3, <2>4
<1>5. CASE CleanRoster(r)
  BY <1>1, <1>2, <1>3, <1>5 DEF CleanRoster
<1>6. CASE CleanEnd(r)
  <2>1. session' = [session EXCEPT ![req[r].cur] = Ended(session[req[r].cur])]
    BY <1>6 DEF CleanEnd
  <2>2. Go(r, "cleanLeft") /\ UNCHANGED nextId
    BY <1>6 DEF CleanEnd
  <2>. QED  BY <1>1, <2>1, <2>2, Moves, StatusWritten, FreshWritten
<1>7. CASE CleanLeft(r)
  BY <1>1, <1>2, <1>7 DEF CleanLeft
<1>. QED  BY <1>4, <1>5, <1>6, <1>7 DEF Clean

\* A request holds what it found or inserted, and what it inserts was blank.
LEMMA FreshObtain ==
  ASSUME SlotInv, FreshInv, NEW r \in Requests, Obtain(r)
  PROVE  FreshInv' /\ NoneBack
<1>1. /\ RestOK /\ RowsInv /\ None < nextId /\ req[r].sid \in Ids \cup {None}
      /\ req[r].sid < nextId /\ req[r].cur < nextId
  BY Split, RequestTypes DEF FreshInv, Aims, RestOK, None
<1>2. ASSUME NEW s \in Ids \cup {None}, NEW pc,
             FindsOpen(s), Hold(r, s, pc), UNCHANGED <<session, nextId>>
      PROVE  FreshInv' /\ NoneBack
  BY <1>1, <1>2, FoundIsInserted, HoldFields, FreshKept DEF FreshInv
<1>3. ASSUME Finish(r), UNCHANGED <<session, nextId>>
      PROVE  FreshInv' /\ NoneBack
  BY <1>1, <1>3, Moves, FreshKept
<1>4. ASSUME NEW pc, Go(r, pc), UNCHANGED <<session, nextId>>
      PROVE  FreshInv' /\ NoneBack
  BY <1>1, <1>4, Moves, FreshKept
<1>5. CASE FindOpen(r)
  <2>1. PICK s \in Ids \cup {None} :
          /\ FindsOpen(s)
          /\ \/ Becomes(r, [Idle EXCEPT !.op = "get", !.phase = "state",
                                        !.pc = "clean"])
             \/ Finish(r) \/ Go(r, "create")
             \/ Hold(r, s, IF req[r].op = "join"
                              /\ session[s].status = "pending"
                           THEN "promote" ELSE "touch")
             \/ Hold(r, s, OnSession(req[r].op))
    BY <1>5, Zenon DEF FindOpen
  <2>2. UNCHANGED <<session, nextId>>
    BY <1>5 DEF FindOpen
  <2>3. CASE Becomes(r, [Idle EXCEPT !.op = "get", !.phase = "state",
                                     !.pc = "clean"])
    <3>1. /\ req'[r] = [Idle EXCEPT !.op = "get", !.phase = "state",
                                    !.pc = "clean"]
          /\ \A q \in Requests \ {r} : req'[q] = req[q]
      BY <1>1, <2>3, BecomesFields, Zenon
    <3>2. req'[r].sid = None /\ req'[r].cur = None
      BY <3>1 DEF Idle
    <3>. QED  BY <1>1, <2>2, <3>1, <3>2, FreshKept
  <2>. QED  BY <1>2, <1>3, <1>4, <2>1, <2>2, <2>3
<1>6. CASE Touch(r)
  <2>1. session' = [session EXCEPT ![req[r].sid] =
                     [Touched(session[req[r].sid], FALSE) EXCEPT !.starter = TRUE]]
    BY <1>6 DEF Touch
  <2>2. Hold(r, req[r].sid, OnSession(req[r].op)) /\ UNCHANGED nextId
    BY <1>6 DEF Touch
  <2>. QED  BY <1>1, <2>1, <2>2, HoldFields, StatusWritten, FreshWritten
<1>7. CASE Promote(r)
  <2>1. session' = [session EXCEPT ![req[r].sid] =
                     [session[req[r].sid] EXCEPT !.status = "active",
                        !.starter = TRUE, !.overdue = FALSE]]
    BY <1>7 DEF Promote
  <2>2. Hold(r, req[r].sid, OnSession(req[r].op)) /\ UNCHANGED nextId
    BY <1>7 DEF Promote
  <2>. QED  BY <1>1, <2>1, <2>2, HoldFields, StatusWritten, FreshWritten
<1>8. CASE Create(r)
  <2>1. CASE /\ nextId \in Ids
             /\ \E lag \in Lags(r) :
                  session' = [session EXCEPT ![nextId] = Inserted(r, lag)]
             /\ nextId' = nextId + 1
             /\ Hold(r, nextId, OnSession(req[r].op))
    <3>1. PICK row : session' = [session EXCEPT ![nextId] = row]
      BY <2>1
    <3>2. \A s \in Ids : s # nextId => session'[s] = session[s]
      BY <1>1, <3>1 DEF RowsInv
    <3>3. Blank'
      BY <1>1, <2>1, <3>2 DEF FreshInv, Blank, Ids
    <3>4. Aims'
      BY <1>1, <2>1, HoldFields, RequestTypes DEF FreshInv, Aims, Ids, None
    <3>5. session[nextId].status = "none"
      BY <1>1, <2>1 DEF FreshInv, Blank, NoSession, Ids
    <3>6. NoneBack
      BY <3>2, <3>5 DEF NoneBack
    <3>. QED  BY <3>3, <3>4, <3>6 DEF FreshInv
  <2>. QED  BY <1>4, <1>8, <2>1 DEF Create
<1>9. CASE Recover(r)
  BY <1>2, <1>3, <1>9 DEF Recover
<1>. QED  BY <1>5, <1>6, <1>7, <1>8, <1>9 DEF Obtain

\* Members and LiveKit write the sessions they hold.
LEMMA FreshHandlers ==
  ASSUME SlotInv, FreshInv, NEW r \in Requests, Member(r) \/ Webhook(r)
  PROVE  FreshInv' /\ NoneBack
<1>1. /\ RestOK /\ RowsInv /\ None < nextId /\ req[r].sid \in Ids \cup {None}
      /\ req[r].sid < nextId /\ req[r].cur < nextId
  BY Split, RequestTypes DEF FreshInv, Aims, RestOK, None
<1>2. ASSUME Finish(r) \/ ToState(r) \/ \E pc : Go(r, pc)
      PROVE  /\ \A q \in Requests \ {r} : req'[q] = req[q]
             /\ req'[r].sid < nextId /\ req'[r].cur < nextId
  BY <1>1, <1>2, Moves
<1>3. CASE \/ Enter(r) \/ Leave(r) \/ Mute(r) \/ ReadRoster(r)
           \/ FindParticipant(r) \/ MarkLeft(r) \/ InsertLeft(r) \/ EndLeft(r)
  <2>1. /\ UNCHANGED <<session, nextId>>
        /\ Finish(r) \/ ToState(r) \/ \E pc : Go(r, pc)
    BY <1>3, Zenon DEF Enter, Leave, Mute, ReadRoster, FindParticipant, MarkLeft,
                InsertLeft, EndLeft
  <2>. QED  BY <1>1, <1>2, <2>1, FreshKept
<1>4. CASE Activate(r) \/ LeaveTouch(r) \/ Close(r) \/ Reopen(r) \/ EndRow(r)
  <2>1. /\ UNCHANGED nextId
        /\ Finish(r) \/ ToState(r) \/ \E pc : Go(r, pc)
    BY <1>4, Zenon DEF Activate, LeaveTouch, Close, Reopen, EndRow
  <2>2. \/ UNCHANGED session
        \/ \E row : /\ session' = [session EXCEPT ![req[r].sid] = row]
                    /\ \/ row = Activated(session[req[r].sid])
                       \/ row = Touched(session[req[r].sid], FALSE)
                       \/ row = Ended(session[req[r].sid])
                       \/ \E lag : row = Reopened(session[req[r].sid], lag)
    BY <1>4 DEF Activate, LeaveTouch, Close, Reopen, EndRow
  <2>3. CASE UNCHANGED session
    BY <1>1, <1>2, <2>1, <2>3, FreshKept
  <2>4. ASSUME NEW row, session' = [session EXCEPT ![req[r].sid] = row],
               \/ row = Activated(session[req[r].sid])
               \/ row = Touched(session[req[r].sid], FALSE)
               \/ row = Ended(session[req[r].sid])
               \/ \E lag : row = Reopened(session[req[r].sid], lag)
        PROVE  FreshInv' /\ NoneBack
    <3>1. req[r].sid \in Ids =>
            row.status \in {"active", "ended", session[req[r].sid].status}
      BY <1>1, <2>4, StatusWritten
    <3>. QED  BY <1>1, <1>2, <2>1, <2>4, <3>1, FreshWritten
  <2>. QED  BY <2>2, <2>3, <2>4
<1>. QED  BY <1>3, <1>4 DEF Member, Webhook

\* fetchState writes no session.
LEMMA FreshState ==
  ASSUME SlotInv, FreshInv, NEW r \in Requests, State(r)
  PROVE  FreshInv' /\ NoneBack
<1>1. /\ RestOK /\ None < nextId /\ req[r].sid < nextId /\ req[r].cur < nextId
  BY Split DEF FreshInv, Aims, RestOK, None
<1>2. UNCHANGED <<session, nextId>>
  <2>1. Sync(r) => UNCHANGED <<session, nextId>>
    BY DEF Sync
  <2>2. FeedInsert(r) => UNCHANGED <<session, nextId>>
    BY DEF FeedInsert
  <2>3. FeedUpdate(r) \/ Broadcast(r) => UNCHANGED <<session, nextId>>
    BY DEF FeedUpdate, Broadcast
  <2>. QED  BY <2>1, <2>2, <2>3 DEF State
<1>3. CASE Finish(r) \/ Posted(r) \/ \E pc : Go(r, pc)
  BY <1>1, <1>2, <1>3, Moves, FreshKept
<1>4. ASSUME NEW s, NEW pc, NEW c,
             Becomes(r, [req[r] EXCEPT !.msg = s, !.pc = pc, !.copy = c])
      PROVE  FreshInv' /\ NoneBack
  <2>1. /\ req'[r] = [req[r] EXCEPT !.msg = s, !.pc = pc, !.copy = c]
        /\ \A q \in Requests \ {r} : req'[q] = req[q]
    BY <1>1, <1>4, BecomesFields, Zenon
  <2>2. req'[r].sid = req[r].sid /\ req'[r].cur = req[r].cur
    BY <1>1, <2>1, RequestTypes DEF Request
  <2>. QED  BY <1>1, <1>2, <2>1, <2>2, FreshKept
<1>5. \/ Finish(r) \/ Posted(r) \/ \E pc : Go(r, pc)
      \/ \E s, pc, c :
           Becomes(r, [req[r] EXCEPT !.msg = s, !.pc = pc, !.copy = c])
  BY Zenon DEF State, Sync, FeedInsert, FeedUpdate, Broadcast
<1>. QED  BY <1>3, <1>4, <1>5, Zenon

\* A request arrives with no session in hand.
LEMMA FreshArrive ==
  ASSUME SlotInv, FreshInv, NEW r \in Requests, Arrive(r)
  PROVE  FreshInv' /\ NoneBack
<1>1. RestOK /\ None < nextId
  BY Split DEF RestOK, None
<1>2. PICK op, u, pc, phase :
        Becomes(r, [Idle EXCEPT !.op = op, !.user = u, !.pc = pc,
                                !.phase = phase])
  BY Zenon DEF Arrive
<1>3. /\ req'[r] = [Idle EXCEPT !.op = op, !.user = u, !.pc = pc,
                                !.phase = phase]
      /\ \A q \in Requests \ {r} : req'[q] = req[q]
  BY <1>1, <1>2, BecomesFields, Zenon
<1>4. req'[r].sid = None /\ req'[r].cur = None
  BY <1>3 DEF Idle
<1>. QED  BY <1>1, <1>3, <1>4, FreshKept DEF Arrive

\* Every step keeps blank ids blank and takes no session back to pending.
LEMMA NextFresh ==
  ASSUME SlotInv, FreshInv, [Next]_vars PROVE FreshInv' /\ NoneBack
<1>1. CASE TimePasses
  <2>1. PICK late \in SUBSET {s \in Ids : Open(s)} :
          session' = [s \in Ids |->
             IF s \in late THEN [session[s] EXCEPT !.overdue = TRUE]
                           ELSE session[s]]
    BY <1>1 DEF TimePasses
  <2>2. \A s \in Ids : /\ session'[s].status = session[s].status
                       /\ ~Open(s) => session'[s] = session[s]
    BY <2>1, Split DEF RowsInv, Session
  <2>3. UNCHANGED <<nextId, req>>
    BY <1>1 DEF TimePasses
  <2>. QED  BY <2>2, <2>3 DEF FreshInv, Blank, Aims, NoneBack, Open, NoSession
<1>2. ASSUME NEW r \in Requests, Arrive(r) \/ Step(r)
      PROVE  FreshInv' /\ NoneBack
  BY <1>2, FreshArrive, FreshClean, FreshObtain, FreshHandlers, FreshState
     DEF Step
<1>3. CASE UNCHANGED vars
  BY <1>3 DEF vars, FreshInv, Blank, Aims, NoneBack
<1>. QED  BY <1>1, <1>2, <1>3 DEF Next

\* Ids that have not been given out are blank and in nobody's hands.
LEMMA FreshInvariant == Spec => []FreshInv
<1>1. Init => FreshInv
  BY DEF Init, FreshInv, Blank, Aims, Idle, None
<1>. QED  BY <1>1, NextFresh, SlotInvariant, PTL DEF Spec

\* However requests interleave, no session that was activated or ended is
\* taken back to pending: of all statements only the insert of a new row
\* writes that status.
THEOREM StatusMovesForward == Spec => NeverBackToPending
<1>1. SlotInv /\ FreshInv /\ [Next]_vars => [NoneBack]_vars
  BY NextFresh
<1>2. [NoneBack]_vars <=>
        [\A s \in Ids : session[s].status \in {"active", "ended"}
                         => session'[s].status # "pending"]_vars
  BY DEF NoneBack
<1>. QED
  BY <1>1, <1>2, SlotInvariant, FreshInvariant, PTL DEF Spec, NeverBackToPending
-----------------------------------------------------------------------------
(* Requests served one after the other: one slot, r.  What the code says of *)
(* rows, rosters and the feed message between two statements of the request *)
(* it is serving.                                                           *)

Live(s) == s \in Ids /\ Open(s)

\* A row is marked exactly when it is open, and a closed one has ended.
RowsAgree == \A s \in Ids :
    /\ session[s].marker <=> Open(s)
    /\ ~Open(s) => session[s].status \in {"none", "ended"}

\* The two statements that end a session: q is between them.
Leaving(q, s) == \/ q.pc = "cleanLeft" /\ q.cur = s
                 \/ q.pc = "endLeft" /\ q.sid = s

\* A closed session has nobody in it but in the middle of its end.
Deserted(q) == \A s \in Ids : ~Open(s) => ~Present(s) \/ Leaving(q, s)

Worded(s, w) == (w = "happened") <=> (session[s].status = "ended")

\* What is true of the session a request writes to next: it is still open.
WritesLive(q) ==
    /\ q.pc \in {"promote", "touch", "activate", "apply", "enter", "mute"}
         => Live(q.sid)
    /\ q.pc = "cleanRoster" => Live(q.cur)
    /\ q.pc = "close" => ~Present(q.sid)

\* The session fetchState answers with is live.
AnswersLive(q) ==
    q.pc \in {"sync", "feedInsert", "feedUpdate", "broadcast"} /\ q.cur # None
      => Live(q.cur) /\ (session[q.cur].overdue => Present(q.cur))

\* The feed message that is due, and the one that has been posted.
PostsLatest(q) ==
    /\ q.pc \in {"feedInsert", "feedUpdate"} =>
         q.msg \in Ids /\ FindsLatest(q.msg) /\ Worded(q.msg, q.copy)
    /\ q.pc = "broadcast" => \A s \in Ids :
         FindsLatest(s) /\ HasAuthor(s) => Worded(s, feed[s])

Holds(q) == WritesLive(q) /\ AnswersLive(q) /\ PostsLatest(q)

SerialInv(r) == RowsAgree /\ Deserted(req[r]) /\ Holds(req[r])

\* Where a request reads before it writes, so that nothing need be known.
PlainPCs == {"idle", "clean", "cleanEnd", "cleanLeft", "open", "create",
             "recover", "leave", "leaveTouch", "roster", "markLeft",
             "insertLeft", "endLeft"}

\* A request that reads next holds nothing that could be stale.
LEMMA PlainHolds ==
  ASSUME NEW r \in Requests, req'[r].pc \in PlainPCs PROVE Holds(req[r])'
  BY DEF Holds, WritesLive, AnswersLive, PostsLatest, PlainPCs

\* A request about to write to its session holds what it needs when the
\* session is open.
LEMMA WriterHolds ==
  ASSUME NEW r \in Requests, Live(req[r].sid)',
         req'[r].pc \in PlainPCs \cup {"promote", "touch", "activate", "apply",
                                       "enter", "mute"}
  PROVE  Holds(req[r])'
  BY DEF Holds, WritesLive, AnswersLive, PostsLatest, PlainPCs

\* Outside the end of a session nobody is in a closed one.
LEMMA Empty ==
  ASSUME NEW q, Deserted(q), q.pc \notin {"cleanLeft", "endLeft"}, NEW s \in Ids,
         Present(s)
  PROVE  Open(s)
  BY DEF Deserted, Leaving

\* Rows stay in agreement when the row written is.
LEMMA RowAgrees ==
  ASSUME RowsInv, RowsAgree, NEW s \in Ids \cup {None}, NEW row,
         session' = [session EXCEPT ![s] = row],
         s \in Ids => /\ row.marker <=> ~row.ended
                      /\ row.ended => row.status \in {"none", "ended"}
  PROVE  RowsAgree'
<1>1. session \in [Ids -> Session]
  BY DEF RowsInv
<1>2. ASSUME NEW t \in Ids
      PROVE  /\ session'[t].marker <=> ~session'[t].ended
             /\ session'[t].ended => session'[t].status \in {"none", "ended"}
  <2>1. CASE t = s
    BY <1>1, <1>2, <2>1
  <2>2. CASE t # s
    BY <1>1, <1>2, <2>2 DEF RowsAgree, Open
  <2>. QED  BY <2>1, <2>2
<1>. QED  BY <1>2 DEF RowsAgree, Open

\* A session is the latest in one way only.
LEMMA LatestIsOne ==
  ASSUME NEW s \in Ids \cup {None}, NEW t \in Ids, FindsLatest(s), FindsLatest(t)
  PROVE  s = t
<1>1. CASE \E x \in Ids : Open(x)
  <2>1. FindsOpen(s) /\ FindsOpen(t)
    BY <1>1 DEF FindsLatest
  <2>2. s \in Ids /\ t \in Ids /\ s <= t /\ t <= s
    BY <1>1, <2>1 DEF FindsOpen
  <2>. QED  BY <2>2 DEF Ids
<1>2. CASE ~ \E x \in Ids : Open(x)
  BY <1>2 DEF FindsLatest
<1>. QED  BY <1>1, <1>2

\* Which session is found does not depend on anything but the rows.
LEMMA SameRowsSameSession ==
  ASSUME UNCHANGED <<session, nextId>>
  PROVE  \A s : /\ Open(s)' <=> Open(s)
                /\ Live(s)' <=> Live(s)
                /\ FindsOpen(s)' <=> FindsOpen(s)
                /\ FindsLatest(s)' <=> FindsLatest(s)
                /\ \A w : Worded(s, w)' <=> Worded(s, w)
  BY DEF Open, Live, FindsOpen, FindsLatest, Worded

\* A step that writes neither rows nor rosters, outside the end of a session.
LEMMA NothingWritten ==
  ASSUME NEW r \in Requests, SerialInv(r), UNCHANGED <<session, roster>>,
         req[r].pc \notin {"cleanLeft", "endLeft"}
  PROVE  RowsAgree' /\ Deserted(req[r])'
<1>1. RowsAgree'
  BY DEF SerialInv, RowsAgree, Open
<1>2. \A s \in Ids : ~Open(s)' => ~Present(s)'
  BY DEF SerialInv, Deserted, Leaving, Open, Present
<1>. QED  BY <1>1, <1>2 DEF Deserted
\* The cleanup answers with a session that is open and in time, or with none.
LEMMA SerialClean ==
  ASSUME SlotInv, NEW r \in Requests, SerialInv(r), Clean(r)
  PROVE  SerialInv(r)'
<1>1. /\ RestOK /\ RowsInv /\ RowsAgree /\ Deserted(req[r]) /\ Holds(req[r])
      /\ req[r].cur \in Ids \cup {None} /\ req[r].phase \in {"head", "state"}
  BY Split, RequestTypes DEF SerialInv, RestOK, Request
<1>2. ASSUME NEW s \in Ids \cup {None}, Cleaned(r, s), UNCHANGED <<session, roster>>,
             req[r].phase = "state" /\ s # None =>
               Live(s) /\ (session[s].overdue => Present(s))
      PROVE  Holds(req[r])'
  <2>1. req'[r].pc = AfterClean(r) /\ req'[r].cur = Result(r, s)
    BY <1>1, <1>2, Moves
  <2>2. CASE req[r].phase = "head"
    BY <2>1, <2>2, PlainHolds DEF AfterClean, PlainPCs
  <2>3. CASE req[r].phase = "state"
    <3>1. req'[r].pc = "sync" /\ req'[r].cur = s
      BY <2>1, <2>3 DEF AfterClean, Result
    <3>2. AnswersLive(req[r])'
      BY <1>2, <2>3, <3>1 DEF AnswersLive, Live, Open, Present
    <3>. QED  BY <3>1, <3>2 DEF Holds, WritesLive, PostsLatest
  <2>. QED  BY <1>1, <2>2, <2>3
<1>3. CASE CleanFind(r)
  <2>1. PICK s \in Ids \cup {None} :
          /\ FindsOpen(s)
          /\ \/ s = None /\ Cleaned(r, None)
             \/ /\ s # None
                /\ session[s].overdue => req[r].phase = "head" /\ TRUE \in Lags(r)
                /\ Cleaned(r, s)
             \/ /\ s # None
                /\ Becomes(r, [req[r] EXCEPT
                     !.cur = s,
                     !.pc = IF session[s].status = "pending"
                            THEN "cleanEnd" ELSE "cleanRoster"])
    BY <1>3, Zenon DEF CleanFind
  <2>2. UNCHANGED <<session, roster>> /\ req[r].pc = "clean"
    BY <1>3 DEF CleanFind, At
  <2>3. s # None => Live(s)
    BY <2>1 DEF FindsOpen, Live
  <2>4. ASSUME s = None /\ Cleaned(r, None) PROVE Holds(req[r])'
    BY <1>2, <2>2, <2>4
  <2>5. ASSUME /\ s # None
               /\ session[s].overdue => req[r].phase = "head" /\ TRUE \in Lags(r)
               /\ Cleaned(r, s)
        PROVE  Holds(req[r])'
    BY <1>2, <2>2, <2>3, <2>5
  <2>6. ASSUME /\ s # None
               /\ Becomes(r, [req[r] EXCEPT
                     !.cur = s,
                     !.pc = IF session[s].status = "pending"
                            THEN "cleanEnd" ELSE "cleanRoster"])
        PROVE  Holds(req[r])'
    <3>1. PICK pc \in {"cleanEnd", "cleanRoster"} :
            Becomes(r, [req[r] EXCEPT !.cur = s, !.pc = pc])
      BY <2>6, Zenon
    <3>2. req'[r] = [req[r] EXCEPT !.cur = s, !.pc = pc]
      BY <1>1, <3>1, BecomesFields, Zenon
    <3>3. req'[r].pc = pc /\ req'[r].cur = s
      BY <1>1, <3>2, RequestTypes DEF Request
    <3>4. CASE pc = "cleanEnd"
      BY <3>3, <3>4, PlainHolds DEF PlainPCs
    <3>5. CASE pc = "cleanRoster"
      BY <2>2, <2>3, <2>6, <3>3, <3>5
         DEF Holds, WritesLive, AnswersLive, PostsLatest, Live, Open
    <3>. QED  BY <3>1, <3>4, <3>5
  <2>7. Holds(req[r])'
    BY <2>1, <2>4, <2>5, <2>6
  <2>. QED  BY <2>2, <2>7, NothingWritten DEF SerialInv
<1>4. CASE CleanRoster(r)
  <2>1. UNCHANGED <<session, roster>> /\ req[r].pc = "cleanRoster"
    BY <1>4 DEF CleanRoster, At
  <2>2. Live(req[r].cur)
    BY <1>1, <2>1 DEF Holds, WritesLive
  <2>3. ASSUME Present(req[r].cur), Cleaned(r, req[r].cur) PROVE Holds(req[r])'
    BY <1>1, <1>2, <2>1, <2>2, <2>3
  <2>4. ASSUME Go(r, "cleanEnd") PROVE Holds(req[r])'
    BY <1>1, <2>4, Moves, PlainHolds DEF PlainPCs
  <2>5. Holds(req[r])'
    BY <1>4, <2>3, <2>4 DEF CleanRoster
  <2>. QED  BY <2>1, <2>5, NothingWritten DEF SerialInv
<1>5. CASE CleanEnd(r)
  <2>1. /\ session' = [session EXCEPT ![req[r].cur] = Ended(session[req[r].cur])]
        /\ Go(r, "cleanLeft") /\ UNCHANGED roster /\ req[r].pc = "cleanEnd"
    BY <1>5 DEF CleanEnd, At
  <2>2. req'[r].pc = "cleanLeft" /\ req'[r].cur = req[r].cur
    BY <1>1, <2>1, Moves
  <2>3. RowsAgree'
    <3>1. req[r].cur \in Ids => LET row == Ended(session[req[r].cur]) IN
            row.marker = FALSE /\ row.ended = TRUE /\ row.status = "ended"
      BY <1>1 DEF Ended, RowsInv, Session
    <3>. QED  BY <1>1, <2>1, <3>1, RowAgrees
  <2>4. \A s \in Ids : s # req[r].cur => session'[s] = session[s]
    BY <1>1, <2>1 DEF RowsInv
  <2>5. Deserted(req[r])'
    BY <1>1, <2>1, <2>2, <2>4 DEF Deserted, Leaving, Open, Present
  <2>. QED  BY <2>2, <2>3, <2>5, PlainHolds DEF SerialInv, PlainPCs
<1>6. CASE CleanLeft(r)
  <2>1. /\ roster' = [roster EXCEPT ![req[r].cur] = AllLeft(req[r].cur)]
        /\ Cleaned(r, None) /\ UNCHANGED session /\ req[r].pc = "cleanLeft"
    BY <1>6 DEF CleanLeft, At
  <2>2. RowsAgree'
    BY <1>1, <2>1 DEF RowsAgree, Open
  <2>3. \A s \in Ids : /\ s # req[r].cur => roster'[s] = roster[s]
                       /\ s = req[r].cur => ~Present(s)'
    BY <1>1, <2>1 DEF RestOK, Present, AllLeft
  <2>4. Deserted(req[r])'
    BY <1>1, <2>1, <2>3 DEF Deserted, Leaving, Open, Present
  <2>5. /\ req'[r].pc = AfterClean(r) /\ req'[r].cur = Result(r, None)
    BY <1>1, <2>1, Moves
  <2>6. Holds(req[r])'
    BY <2>5 DEF AfterClean, Result, Holds, WritesLive, AnswersLive, PostsLatest
  <2>. QED  BY <2>2, <2>4, <2>6 DEF SerialInv
<1>. QED  BY <1>3, <1>4, <1>5, <1>6 DEF Clean

\* A write that leaves a row open or closed as it was, outside the end of a
\* session, leaves nobody in a closed one.
LEMMA SameOpenRows ==
  ASSUME NEW r \in Requests, SerialInv(r), UNCHANGED roster,
         req[r].pc \notin {"cleanLeft", "endLeft"},
         \A s \in Ids : Open(s) => Open(s)'
  PROVE  Deserted(req[r])'
<1>1. \A s \in Ids : ~Open(s)' => ~Present(s)'
  BY DEF SerialInv, Deserted, Leaving, Present
<1>. QED  BY <1>1 DEF Deserted

\* Where a session leads.
LEMMA OnSessionPCs ==
  \A op : OnSession(op) \in {"clean", "activate", "leave", "mute", "apply"}
  BY DEF OnSession

\* A request holds an open session when it sets out to write to it.
LEMMA SerialObtain ==
  ASSUME SlotInv, NEW r \in Requests, SerialInv(r), Obtain(r)
  PROVE  SerialInv(r)'
<1>1. /\ RestOK /\ RowsInv /\ RowsAgree /\ Deserted(req[r]) /\ Holds(req[r])
      /\ req[r].sid \in Ids \cup {None}
  BY Split, RequestTypes DEF SerialInv
<1>2. ASSUME NEW s \in Ids \cup {None},
             NEW pc \in {"clean", "activate", "leave", "mute", "apply",
                         "promote", "touch"},
             FindsOpen(s), s # None, Hold(r, s, pc), UNCHANGED session
      PROVE  Holds(req[r])'
  <2>1. Live(s)'
    BY <1>2 DEF FindsOpen, Live, Open
  <2>2. req'[r].sid = s /\ req'[r].pc = pc
    BY <1>1, <1>2, HoldFields
  <2>3. Live(req[r].sid)'
    BY <2>1, <2>2 DEF Live, Open
  <2>. QED  BY <1>2, <2>2, <2>3, WriterHolds DEF PlainPCs
<1>3. Finish(r) => Holds(req[r])'
  BY <1>1, Moves, PlainHolds DEF PlainPCs
<1>4. \A pc \in {"create", "recover"} : Go(r, pc) => Holds(req[r])'
  BY <1>1, Moves, PlainHolds DEF PlainPCs
<1>5. CASE FindOpen(r)
  <2>1. PICK s \in Ids \cup {None} :
          /\ FindsOpen(s)
          /\ \/ Becomes(r, [Idle EXCEPT !.op = "get", !.phase = "state",
                                        !.pc = "clean"])
             \/ Finish(r) \/ Go(r, "create")
             \/ s # None /\ Hold(r, s, IF req[r].op = "join"
                              /\ session[s].status = "pending"
                           THEN "promote" ELSE "touch")
             \/ s # None /\ Hold(r, s, OnSession(req[r].op))
    BY <1>5, Zenon DEF FindOpen
  <2>2. UNCHANGED <<session, roster>> /\ req[r].pc = "open"
    BY <1>5 DEF FindOpen, At
  <2>3. CASE Becomes(r, [Idle EXCEPT !.op = "get", !.phase = "state",
                                     !.pc = "clean"])
    <3>1. req'[r] = [Idle EXCEPT !.op = "get", !.phase = "state", !.pc = "clean"]
      BY <1>1, <2>3, BecomesFields, Zenon
    <3>2. req'[r].pc = "clean"
      BY <3>1 DEF Idle
    <3>. QED  BY <3>2, <2>2, PlainHolds, NothingWritten DEF PlainPCs, SerialInv
  <2>4. Holds(req[r])'
    BY <1>2, <1>3, <1>4, <2>1, <2>2, <2>3, OnSessionPCs DEF SerialInv
  <2>. QED  BY <2>2, <2>4, NothingWritten DEF SerialInv
<1>6. CASE Touch(r) \/ Promote(r)
  <2>1. PICK row :
          /\ session' = [session EXCEPT ![req[r].sid] = row]
          /\ \/ row = [Touched(session[req[r].sid], FALSE) EXCEPT !.starter = TRUE]
             \/ row = [session[req[r].sid] EXCEPT !.status = "active",
                        !.starter = TRUE, !.overdue = FALSE]
    BY <1>6 DEF Touch, Promote
  <2>2. /\ Hold(r, req[r].sid, OnSession(req[r].op)) /\ UNCHANGED roster
        /\ req[r].pc \in {"touch", "promote"}
    BY <1>6 DEF Touch, Promote, At
  <2>3. Live(req[r].sid)
    BY <1>1, <2>2 DEF Holds, WritesLive
  <2>4. session[req[r].sid] \in Session
    BY <2>3, <1>1 DEF Live, RowsInv
  <2>5. /\ row.ended = session[req[r].sid].ended
        /\ row.marker = session[req[r].sid].marker
        /\ ~row.ended
    BY <2>1, <2>3, <2>4 DEF Touched, Session, Live, Open
  <2>6. RowsAgree'
    <3>1. row.marker <=> ~row.ended
      BY <1>1, <2>3, <2>5 DEF RowsAgree, Live, Open
    <3>. QED  BY <1>1, <2>1, <2>5, <3>1, RowAgrees
  <2>7. \A s \in Ids : Open(s)' <=> Open(s)
    BY <1>1, <2>1, <2>3, <2>5 DEF RowsInv, Open, Live
  <2>8. req'[r].sid = req[r].sid /\ req'[r].pc = OnSession(req[r].op)
    BY <1>1, <2>2, HoldFields
  <2>9. Live(req[r].sid)'
    BY <2>3, <2>7, <2>8 DEF Live, Open
  <2>. QED  BY <2>2, <2>6, <2>7, <2>8, <2>9, SameOpenRows, WriterHolds,
               OnSessionPCs DEF SerialInv, PlainPCs
<1>7. CASE Create(r)
  <2>1. UNCHANGED roster /\ req[r].pc = "create"
    BY <1>7 DEF Create, At
  <2>2. CASE /\ nextId \in Ids
             /\ \E lag \in Lags(r) :
                  session' = [session EXCEPT ![nextId] = Inserted(r, lag)]
             /\ Hold(r, nextId, OnSession(req[r].op))
    <3>1. PICK lag \in Lags(r) :
            session' = [session EXCEPT ![nextId] = Inserted(r, lag)]
      BY <2>2
    <3>2. Inserted(r, lag).marker /\ ~Inserted(r, lag).ended
      BY DEF Inserted
    <3>3. RowsAgree'
      BY <1>1, <2>2, <3>1, <3>2, RowAgrees
    <3>5. /\ \A s \in Ids : Open(s) => Open(s)'
          /\ ~session'[nextId].ended
      BY <1>1, <2>2, <3>1, <3>2 DEF RowsInv, Open
    <3>6. req'[r].sid = nextId /\ req'[r].pc = OnSession(req[r].op)
      BY <1>1, <2>2, HoldFields
    <3>7. Live(req[r].sid)'
      BY <2>2, <3>5, <3>6 DEF Live, Open
    <3>. QED  BY <2>1, <3>3, <3>5, <3>6, <3>7, SameOpenRows, WriterHolds,
                 OnSessionPCs DEF SerialInv, PlainPCs
  <2>3. CASE Go(r, "recover") /\ UNCHANGED session
    BY <1>4, <2>1, <2>3, NothingWritten DEF SerialInv
  <2>. QED  BY <1>7, <2>2, <2>3 DEF Create
<1>8. CASE Recover(r)
  <2>1. PICK s \in Ids \cup {None} :
          FindsOpen(s) /\ IF s = None THEN Finish(r)
                                      ELSE Hold(r, s, OnSession(req[r].op))
    BY <1>8 DEF Recover
  <2>2. UNCHANGED <<session, roster>> /\ req[r].pc = "recover"
    BY <1>8 DEF Recover, At
  <2>3. Holds(req[r])'
    BY <1>2, <1>3, <2>1, <2>2, OnSessionPCs
  <2>. QED  BY <2>2, <2>3, NothingWritten DEF SerialInv
<1>. QED  BY <1>5, <1>6, <1>7, <1>8 DEF Obtain
\* A mark in the roster of an open session, or the mark of someone leaving,
\* puts nobody into a closed one.
LEMMA MarkStep ==
  ASSUME RestOK, NEW r \in Requests, SerialInv(r),
         req[r].pc \notin {"cleanLeft", "endLeft"}, UNCHANGED session,
         NEW s, NEW u, NEW m, roster' = [roster EXCEPT ![s][u] = m],
         m = "left" \/ Live(s)
  PROVE  RowsAgree' /\ Deserted(req[r])'
<1>1. RowsAgree'
  BY DEF SerialInv, RowsAgree, Open
<1>2. ASSUME NEW t \in Ids, Present(t)', ~Open(t) PROVE Present(t)
  <2>1. PICK v \in Users : roster'[t][v] = "in"
    BY <1>2 DEF Present
  <2>2. roster[t][v] = "in"
    BY <1>2, <2>1 DEF RestOK, Live
  <2>. QED  BY <2>2 DEF Present
<1>3. \A t \in Ids : ~Open(t)' => ~Present(t)'
  BY <1>2, Empty DEF SerialInv, Open
<1>. QED  BY <1>1, <1>3 DEF Deserted

\* Members enter open sessions only, and close those they have left empty.
LEMMA SerialMember ==
  ASSUME SlotInv, NEW r \in Requests, SerialInv(r), Member(r)
  PROVE  SerialInv(r)'
<1>1. /\ RestOK /\ RowsInv /\ RowsAgree /\ Deserted(req[r]) /\ Holds(req[r])
      /\ req[r].sid \in Ids \cup {None}
  BY Split, RequestTypes DEF SerialInv
<1>2. Finish(r) \/ ToState(r) => Holds(req[r])'
  BY <1>1, Moves, PlainHolds DEF PlainPCs
<1>3. \A pc \in PlainPCs : Go(r, pc) => Holds(req[r])'
  BY <1>1, Moves, PlainHolds
<1>4. CASE Activate(r)
  <2>1. UNCHANGED roster /\ req[r].pc = "activate"
    BY <1>4 DEF Activate, At
  <2>2. Live(req[r].sid)
    BY <1>1, <2>1 DEF Holds, WritesLive
  <2>3. CASE /\ session' = [session EXCEPT
                              ![req[r].sid] = Activated(session[req[r].sid])]
             /\ Go(r, "enter")
    <3>1. LET row == Activated(session[req[r].sid]) IN row.marker /\ ~row.ended
      BY <1>1, <2>2 DEF Activated, RowsInv, Session, Live, Open
    <3>2. RowsAgree'
      BY <1>1, <2>3, <3>1, RowAgrees
    <3>3. \A s \in Ids : Open(s) => Open(s)'
      BY <1>1, <2>2, <2>3, <3>1 DEF RowsInv, Open, Live
    <3>4. req'[r].pc = "enter" /\ req'[r].sid = req[r].sid
      BY <1>1, <2>3, Moves
    <3>5. Live(req[r].sid)'
      BY <2>2, <3>3, <3>4 DEF Live, Open
    <3>. QED  BY <2>1, <3>2, <3>3, <3>4, <3>5, SameOpenRows, WriterHolds
                 DEF SerialInv
  <2>4. CASE Finish(r) /\ UNCHANGED session
    BY <1>2, <2>1, <2>4, NothingWritten DEF SerialInv
  <2>. QED  BY <1>4, <2>3, <2>4 DEF Activate
<1>5. CASE Enter(r)
  <2>1. /\ roster' = [roster EXCEPT ![req[r].sid][req[r].user] = "in"]
        /\ ToState(r) /\ UNCHANGED session /\ req[r].pc = "enter"
    BY <1>5 DEF Enter, At
  <2>2. Live(req[r].sid)
    BY <1>1, <2>1 DEF Holds, WritesLive
  <2>. QED  BY <1>1, <1>2, <2>1, <2>2, MarkStep DEF SerialInv
<1>6. CASE Leave(r)
  <2>1. /\ roster' = [roster EXCEPT ![req[r].sid][req[r].user] = "left"]
        /\ Go(r, "leaveTouch") /\ UNCHANGED session /\ req[r].pc = "leave"
    BY <1>6 DEF Leave, At
  <2>. QED  BY <1>1, <1>3, <2>1, MarkStep DEF SerialInv, PlainPCs
<1>7. CASE LeaveTouch(r)
  <2>1. /\ session' = [session EXCEPT
                         ![req[r].sid] = Touched(session[req[r].sid], FALSE)]
        /\ Go(r, "roster") /\ UNCHANGED roster /\ req[r].pc = "leaveTouch"
    BY <1>7 DEF LeaveTouch, At
  <2>2. req[r].sid \in Ids =>
          LET old == session[req[r].sid]
              row == Touched(old, FALSE)
          IN  row.marker = old.marker /\ row.ended = old.ended
                /\ row.status = old.status
    BY <1>1 DEF RowsInv, Session, Touched
  <2>3. req[r].sid \in Ids =>
          LET row == Touched(session[req[r].sid], FALSE) IN
            /\ row.marker <=> ~row.ended
            /\ row.ended => row.status \in {"none", "ended"}
    BY <1>1, <2>2 DEF RowsAgree, Open
  <2>4. RowsAgree'
    BY <1>1, <2>1, <2>3, RowAgrees
  <2>5. \A s \in Ids : Open(s) => Open(s)'
    BY <1>1, <2>1, <2>2 DEF RowsInv, Open
  <2>. QED  BY <1>3, <2>1, <2>4, <2>5, SameOpenRows DEF SerialInv, PlainPCs
<1>8. CASE Mute(r)
  <2>1. UNCHANGED session /\ req[r].pc = "mute"
    BY <1>8 DEF Mute, At
  <2>2. Live(req[r].sid)
    BY <1>1, <2>1 DEF Holds, WritesLive
  <2>3. CASE /\ roster' = [roster EXCEPT ![req[r].sid][req[r].user] = "in"]
             /\ ToState(r)
    BY <1>1, <1>2, <2>1, <2>2, <2>3, MarkStep DEF SerialInv
  <2>4. CASE Finish(r) /\ UNCHANGED roster
    BY <1>2, <2>1, <2>4, NothingWritten DEF SerialInv
  <2>. QED  BY <1>8, <2>3, <2>4 DEF Mute
<1>9. CASE ReadRoster(r)
  <2>1. UNCHANGED <<session, roster>> /\ req[r].pc = "roster"
    BY <1>9 DEF ReadRoster, At
  <2>2. ASSUME ~Present(req[r].sid), Go(r, "close") PROVE Holds(req[r])'
    <3>1. req'[r].pc = "close" /\ req'[r].sid = req[r].sid
      BY <1>1, <2>2, Moves
    <3>. QED  BY <2>1, <2>2, <3>1
              DEF Holds, WritesLive, AnswersLive, PostsLatest, Present
  <2>3. Holds(req[r])'
    BY <1>2, <1>9, <2>2 DEF ReadRoster
  <2>. QED  BY <2>1, <2>3, NothingWritten DEF SerialInv
<1>10. CASE Close(r)
  <2>1. /\ session' = [session EXCEPT ![req[r].sid] = Ended(session[req[r].sid])]
        /\ Finish(r) \/ ToState(r)
        /\ UNCHANGED roster /\ req[r].pc = "close"
    BY <1>10 DEF Close, At
  <2>2. req[r].sid \in Ids => LET row == Ended(session[req[r].sid]) IN
          row.marker = FALSE /\ row.ended = TRUE /\ row.status = "ended"
    BY <1>1 DEF Ended, RowsInv, Session
  <2>3. RowsAgree'
    BY <1>1, <2>1, <2>2, RowAgrees
  <2>4. ~Present(req[r].sid)
    BY <1>1, <2>1 DEF Holds, WritesLive
  <2>5. \A s \in Ids : s # req[r].sid => session'[s] = session[s]
    BY <1>1, <2>1 DEF RowsInv
  <2>6. \A s \in Ids : ~Open(s)' => ~Present(s)'
    BY <1>1, <2>1, <2>4, <2>5, Empty DEF Open, Present
  <2>. QED  BY <1>2, <2>1, <2>3, <2>6 DEF SerialInv, Deserted
<1>. QED
  BY <1>4, <1>5, <1>6, <1>7, <1>8, <1>9, <1>10 DEF Member

\* LiveKit's events mark open sessions only; room_finished is between its two
\* statements while a closed session still has people in it.
LEMMA SerialWebhook ==
  ASSUME SlotInv, NEW r \in Requests, SerialInv(r), Webhook(r)
  PROVE  SerialInv(r)'
<1>1. /\ RestOK /\ RowsInv /\ RowsAgree /\ Deserted(req[r]) /\ Holds(req[r])
      /\ req[r].sid \in Ids \cup {None}
  BY Split, RequestTypes DEF SerialInv
<1>2. Finish(r) \/ ToState(r) => Holds(req[r])'
  BY <1>1, Moves, PlainHolds DEF PlainPCs
<1>3. \A pc \in PlainPCs : Go(r, pc) => Holds(req[r])'
  BY <1>1, Moves, PlainHolds
<1>4. CASE Reopen(r)
  <2>1. UNCHANGED roster /\ req[r].pc = "apply"
    BY <1>4 DEF Reopen, At
  <2>2. Live(req[r].sid)
    BY <1>1, <2>1 DEF Holds, WritesLive
  <2>3. CASE /\ \E lag \in Lags(r) : session' = [session EXCEPT
                   ![req[r].sid] = Reopened(session[req[r].sid], lag)]
             /\ Go(r, "enter") \/ ToState(r)
    <3>1. PICK lag \in Lags(r) : session' = [session EXCEPT
                   ![req[r].sid] = Reopened(session[req[r].sid], lag)]
      BY <2>3
    <3>2. LET row == Reopened(session[req[r].sid], lag) IN
            row.marker /\ ~row.ended
      BY <1>1, <2>2 DEF Reopened, RowsInv, Session, Live
    <3>3. RowsAgree'
      BY <1>1, <3>1, <3>2, RowAgrees
    <3>4. \A s \in Ids : Open(s) => Open(s)'
      BY <1>1, <2>2, <3>1, <3>2 DEF RowsInv, Open, Live
    <3>5. ASSUME Go(r, "enter") PROVE Holds(req[r])'
      <4>1. req'[r].pc = "enter" /\ req'[r].sid = req[r].sid
        BY <1>1, <3>5, Moves
      <4>2. Live(req[r].sid)'
        BY <2>2, <3>4, <4>1 DEF Live, Open
      <4>. QED  BY <4>1, <4>2, WriterHolds
    <3>. QED  BY <1>2, <2>1, <2>3, <3>3, <3>4, <3>5, SameOpenRows DEF SerialInv
  <2>4. CASE Finish(r) /\ UNCHANGED session
    BY <1>2, <2>1, <2>4, NothingWritten DEF SerialInv
  <2>. QED  BY <1>4, <2>3, <2>4 DEF Reopen
<1>5. CASE FindParticipant(r)
  <2>1. UNCHANGED <<session, roster>> /\ req[r].pc = "apply"
    BY <1>5 DEF FindParticipant, At
  <2>2. Go(r, "insertLeft") \/ Go(r, "markLeft")
    BY <1>5 DEF FindParticipant
  <2>. QED  BY <1>3, <2>1, <2>2, NothingWritten DEF SerialInv, PlainPCs
<1>6. CASE MarkLeft(r) \/ InsertLeft(r)
  <2>1. UNCHANGED session /\ req[r].pc \in {"markLeft", "insertLeft"}
    BY <1>6 DEF MarkLeft, InsertLeft, At
  <2>2. CASE /\ roster' = [roster EXCEPT ![req[r].sid][req[r].user] = "left"]
             /\ ToState(r)
    BY <1>1, <1>2, <2>1, <2>2, MarkStep DEF SerialInv
  <2>3. CASE Finish(r) /\ UNCHANGED roster
    BY <1>2, <2>1, <2>3, NothingWritten DEF SerialInv
  <2>. QED  BY <1>6, <2>2, <2>3 DEF MarkLeft, InsertLeft
<1>7. CASE EndRow(r)
  <2>1. /\ session' = [session EXCEPT ![req[r].sid] = Ended(session[req[r].sid])]
        /\ Go(r, "endLeft") /\ UNCHANGED roster /\ req[r].pc = "apply"
    BY <1>7 DEF EndRow, At
  <2>2. req'[r].pc = "endLeft" /\ req'[r].sid = req[r].sid
    BY <1>1, <2>1, Moves
  <2>3. RowsAgree'
    <3>1. req[r].sid \in Ids => LET row == Ended(session[req[r].sid]) IN
            row.marker = FALSE /\ row.ended = TRUE /\ row.status = "ended"
      BY <1>1 DEF Ended, RowsInv, Session
    <3>. QED  BY <1>1, <2>1, <3>1, RowAgrees
  <2>4. \A s \in Ids : s # req[r].sid => session'[s] = session[s]
    BY <1>1, <2>1 DEF RowsInv
  <2>5. Deserted(req[r])'
    BY <1>1, <2>1, <2>2, <2>4 DEF Deserted, Leaving, Open, Present
  <2>. QED  BY <2>2, <2>3, <2>5, PlainHolds DEF SerialInv, PlainPCs
<1>8. CASE EndLeft(r)
  <2>1. /\ roster' = [roster EXCEPT ![req[r].sid] = AllLeft(req[r].sid)]
        /\ ToState(r) /\ UNCHANGED session /\ req[r].pc = "endLeft"
    BY <1>8 DEF EndLeft, At
  <2>2. RowsAgree'
    BY <1>1, <2>1 DEF RowsAgree, Open
  <2>3. \A s \in Ids : /\ s # req[r].sid => roster'[s] = roster[s]
                       /\ s = req[r].sid => ~Present(s)'
    BY <1>1, <2>1 DEF RestOK, Present, AllLeft
  <2>4. Deserted(req[r])'
    BY <1>1, <2>1, <2>3 DEF Deserted, Leaving, Open, Present
  <2>. QED  BY <1>2, <2>1, <2>2, <2>4 DEF SerialInv
<1>. QED  BY <1>4, <1>5, <1>6, <1>7, <1>8 DEF Webhook

\* The message that is posted is that of the latest session, in its wording,
\* and the answer stays what the cleanup found.
LEMMA SerialState ==
  ASSUME SlotInv, NEW r \in Requests, SerialInv(r), State(r)
  PROVE  SerialInv(r)'
<1>1. /\ RestOK /\ Holds(req[r]) /\ req[r].cur \in Ids \cup {None}
      /\ req[r].msg \in Ids \cup {None}
  BY Split, RequestTypes DEF SerialInv
<1>2. /\ UNCHANGED <<session, nextId, roster>>
      /\ req[r].pc \in {"sync", "feedInsert", "feedUpdate", "broadcast"}
  <2>1. CASE Sync(r)
    BY <2>1 DEF Sync, At
  <2>2. CASE FeedInsert(r)
    BY <2>2 DEF FeedInsert, At
  <2>3. CASE FeedUpdate(r)
    BY <2>3 DEF FeedUpdate, At
  <2>4. CASE Broadcast(r)
    BY <2>4 DEF Broadcast, At
  <2>. QED  BY <2>1, <2>2, <2>3, <2>4 DEF State
<1>3. ASSUME req'[r].cur = req[r].cur,
             req'[r].pc \in {"feedInsert", "feedUpdate", "broadcast"},
             PostsLatest(req[r])'
      PROVE  Holds(req[r])'
  <2>1. AnswersLive(req[r])'
    BY <1>1, <1>2, <1>3 DEF Holds, AnswersLive, Live, Open, Present
  <2>. QED  BY <1>3, <2>1 DEF Holds, WritesLive
<1>4. \A pc \in {"idle", "roster"} : Finish(r) \/ Go(r, pc) => Holds(req[r])'
  <2>1. Finish(r) => Holds(req[r])'
    BY <1>1, Moves, PlainHolds DEF PlainPCs
  <2>2. Go(r, "roster") \/ Go(r, "idle") => Holds(req[r])'
    BY <1>1, Moves, PlainHolds DEF PlainPCs
  <2>. QED  BY <2>1, <2>2
<1>5. ASSUME Sync(r) PROVE Holds(req[r])'
  <2>1. PICK s \in Ids \cup {None} :
          /\ FindsLatest(s)
          /\ IF s = None \/ (s # None /\ ~HasAuthor(s)) THEN Go(r, "broadcast")
             ELSE Becomes(r, [req[r] EXCEPT
                    !.msg  = s,
                    !.pc   = IF feed[s] = "none" THEN "feedInsert"
                                                 ELSE "feedUpdate",
                    !.copy = IF session[s].status = "ended" THEN "happened"
                                                            ELSE "happening"])
    BY <1>5, Zenon DEF Sync
  <2>2. UNCHANGED feed
    BY <1>5 DEF Sync
  <2>3. CASE s = None \/ (s # None /\ ~HasAuthor(s))
    <3>1. req'[r].pc = "broadcast" /\ req'[r].cur = req[r].cur
      BY <1>1, <2>1, <2>3, Moves
    <3>2. \A t \in Ids : ~(FindsLatest(t) /\ HasAuthor(t))
      BY <2>1, <2>3, LatestIsOne DEF None, Ids
    <3>3. \A t \in Ids : /\ FindsLatest(t)' <=> FindsLatest(t)
                         /\ HasAuthor(t)' <=> HasAuthor(t)
      BY <1>2, <2>2, SameRowsSameSession DEF HasAuthor
    <3>4. PostsLatest(req[r])'
      BY <3>1, <3>2, <3>3 DEF PostsLatest
    <3>. QED  BY <1>3, <3>1, <3>4
  <2>4. CASE ~(s = None \/ (s # None /\ ~HasAuthor(s)))
    <3>1. PICK pc \in {"feedInsert", "feedUpdate"} :
            Becomes(r, [req[r] EXCEPT !.msg = s, !.pc = pc,
                          !.copy = IF session[s].status = "ended"
                                   THEN "happened" ELSE "happening"])
      BY <2>1, <2>4, Zenon
    <3>2. PICK c : /\ c = IF session[s].status = "ended"
                          THEN "happened" ELSE "happening"
                   /\ Becomes(r, [req[r] EXCEPT !.msg = s, !.pc = pc, !.copy = c])
      BY <3>1, Zenon
    <3>3. req'[r] = [req[r] EXCEPT !.msg = s, !.pc = pc, !.copy = c]
      BY <1>1, <3>2, BecomesFields, Zenon
    <3>4. /\ req'[r].pc = pc /\ req'[r].cur = req[r].cur
          /\ req'[r].msg = s /\ req'[r].copy = c
      BY <1>1, <3>3, RequestTypes DEF Request
    <3>5. s \in Ids /\ FindsLatest(s)' /\ Worded(s, c)'
      BY <1>2, <2>1, <2>4, <3>2, SameRowsSameSession DEF Worded
    <3>6. PostsLatest(req[r])'
      BY <3>1, <3>4, <3>5 DEF PostsLatest, FindsLatest, FindsOpen, Open, Worded
    <3>. QED  BY <1>3, <3>1, <3>4, <3>6
  <2>. QED  BY <2>3, <2>4
<1>6. ASSUME req[r].pc \in {"feedInsert", "feedUpdate"},
             feed' = [feed EXCEPT ![req[r].msg] = req[r].copy], Posted(r)
      PROVE  Holds(req[r])'
  <2>1. /\ req[r].msg \in Ids /\ FindsLatest(req[r].msg)
        /\ Worded(req[r].msg, req[r].copy)
    BY <1>1, <1>6 DEF Holds, PostsLatest
  <2>2. req'[r].pc = "broadcast" /\ req'[r].cur = req[r].cur
    BY <1>1, <1>6, Moves
  <2>3. feed'[req[r].msg] = req[r].copy
    BY <1>1, <1>6, <2>1 DEF RestOK
  <2>4. \A t \in Ids : FindsLatest(t)' => t = req[r].msg
    BY <1>2, <2>1, LatestIsOne, SameRowsSameSession
  <2>5. \A t \in Ids : FindsLatest(t)' =>
          ((feed'[t] = "happened") <=> (session'[t].status = "ended"))
    BY <1>2, <2>1, <2>3, <2>4 DEF Worded
  <2>6. PostsLatest(req[r])'
    BY <2>2, <2>5 DEF PostsLatest, Worded
  <2>. QED  BY <1>3, <2>2, <2>6
<1>7. ASSUME FeedInsert(r) PROVE Holds(req[r])'
  BY <1>4, <1>6, <1>7 DEF FeedInsert, At
<1>8. ASSUME FeedUpdate(r) PROVE Holds(req[r])'
  BY <1>6, <1>8 DEF FeedUpdate, At
<1>9. ASSUME Broadcast(r) PROVE Holds(req[r])'
  BY <1>4, <1>9 DEF Broadcast
<1>10. Holds(req[r])'
  BY <1>5, <1>7, <1>8, <1>9 DEF State
<1>. QED  BY <1>2, <1>10, NothingWritten DEF SerialInv

\* A request arrives and reads.
LEMMA SerialArrive ==
  ASSUME SlotInv, NEW r \in Requests, SerialInv(r), Arrive(r)
  PROVE  SerialInv(r)'
<1>1. RestOK
  BY Split
<1>2. PICK op, u, phase, pc :
        /\ pc = IF op = "mute" THEN "open" ELSE "clean"
        /\ Becomes(r, [Idle EXCEPT !.op = op, !.user = u, !.pc = pc,
                                   !.phase = phase])
  BY Zenon DEF Arrive
<1>3. req'[r] = [Idle EXCEPT !.op = op, !.user = u, !.pc = pc, !.phase = phase]
  BY <1>1, <1>2, BecomesFields, Zenon
<1>4. req'[r].pc \in PlainPCs
  BY <1>2, <1>3 DEF Idle, PlainPCs
<1>. QED  BY <1>4, PlainHolds, NothingWritten DEF SerialInv, Arrive, At

\* Time passes between requests, and no row opens or closes by it.
LEMMA SerialTime ==
  ASSUME SlotInv, NEW r \in Requests, SerialInv(r), TimePasses
  PROVE  SerialInv(r)'
<1>1. PICK late \in SUBSET Ids :
        session' = [s \in Ids |->
             IF s \in late THEN [session[s] EXCEPT !.overdue = TRUE]
                           ELSE session[s]]
  BY DEF TimePasses
<1>2. \A s \in Ids : /\ session'[s].status = session[s].status
                     /\ session'[s].ended = session[s].ended
                     /\ session'[s].marker = session[s].marker
  BY <1>1, Split DEF RowsInv, Session
<1>3. UNCHANGED <<roster, req>> /\ req[r].pc = "idle"
  BY DEF TimePasses, At
<1>4. RowsAgree'
  BY <1>2 DEF SerialInv, RowsAgree, Open
<1>5. Deserted(req[r])'
  BY <1>2, <1>3, SameOpenRows DEF Open
<1>. QED  BY <1>3, <1>4, <1>5, PlainHolds DEF SerialInv, PlainPCs
\* Every statement of the one request in flight keeps what is known between
\* its statements.
LEMMA NextSerial ==
  ASSUME SlotInv, NEW r, Requests = {r}, SerialInv(r), [Next]_vars
  PROVE  SerialInv(r)'
<1>1. r \in Requests
  OBVIOUS
<1>2. CASE TimePasses
  BY <1>1, <1>2, SerialTime
<1>3. CASE Arrive(r) \/ Step(r)
  BY <1>1, <1>3, SerialArrive, SerialClean, SerialObtain, SerialMember,
     SerialWebhook, SerialState DEF Step
<1>4. CASE UNCHANGED vars
  <2>1. /\ UNCHANGED <<session, nextId, roster, feed>> /\ UNCHANGED req
    BY <1>4 DEF vars
  <2>2. RowsAgree' /\ Deserted(req[r])'
    BY <2>1 DEF SerialInv, RowsAgree, Deserted, Leaving, Open, Present
  <2>3. Holds(req[r])'
    BY <2>1 DEF SerialInv, Holds, WritesLive, AnswersLive, PostsLatest, Live,
                Open, Present, FindsLatest, FindsOpen, HasAuthor, Worded
  <2>. QED  BY <2>2, <2>3 DEF SerialInv
<1>. QED  BY <1>2, <1>3, <1>4 DEF Next

\* It holds of every reachable state, whatever the request and the clock do.
LEMMA SerialInvariant ==
  ASSUME NEW r, Requests = {r} PROVE Spec => []SerialInv(r)
<1>1. Init => SerialInv(r)
  BY DEF Init, SerialInv, RowsAgree, Deserted, Holds, WritesLive, AnswersLive,
         PostsLatest, Open, Present, NoSession, Idle
<1>. QED  BY <1>1, NextSerial, SlotInvariant, PTL DEF Spec

\* Requests served one after the other leave a row marked exactly when it is
\* open, and nobody in a session that is closed: whichever handlers ran, by
\* whichever of their early returns.
THEOREM HandlersAgree ==
  ASSUME NEW r, Requests = {r} PROVE Spec => []QuietRowsAgree
<1>1. SerialInv(r) => QuietRowsAgree
  BY DEF SerialInv, RowsAgree, Deserted, Leaving, QuietRowsAgree, Quiet, At
<1>. QED  BY <1>1, SerialInvariant, PTL

\* When such a request broadcasts its state, the feed message of the session
\* it is about says "happened" exactly when that session has ended.
THEOREM FeedIsInStep ==
  ASSUME NEW r, Requests = {r} PROVE Spec => []FeedFollowsSession
<1>1. SerialInv(r) => FeedFollowsSession
  BY DEF SerialInv, Holds, PostsLatest, Worded, FeedFollowsSession, At
<1>. QED  BY <1>1, SerialInvariant, PTL

\* What such a request broadcasts as the active session is open, and has not
\* outlived its time to live with nobody in it.
THEOREM BroadcastIsLive ==
  ASSUME NEW r, Requests = {r} PROVE Spec => BroadcastShowsLive
<1>. DEFINE A == shown' \notin {None, shown} =>
                   /\ Open(shown')
                   /\ ~(session[shown'].overdue /\ ~Present(shown'))
<1>1. ASSUME SerialInv(r), [Next]_vars PROVE [A]_vars
  <2>1. CASE Broadcast(r)
    <3>1. shown' # shown => shown' = req[r].cur
      BY <2>1 DEF Broadcast
    <3>2. AnswersLive(req[r]) /\ req[r].pc = "broadcast"
      BY <1>1, <2>1 DEF SerialInv, Holds, Broadcast, At
    <3>. QED  BY <3>1, <3>2 DEF AnswersLive, Live
  <2>2. shown' = shown => [A]_vars
    OBVIOUS
  <2>3. TimePasses \/ Arrive(r) => shown' = shown
    <3>1. TimePasses => shown' = shown
      BY DEF TimePasses
    <3>2. Arrive(r) => shown' = shown
      BY DEF Arrive
    <3>. QED  BY <3>1, <3>2
  <2>4. Clean(r) => shown' = shown
    <3>1. CleanFind(r) => shown' = shown
      BY DEF CleanFind
    <3>2. CleanRoster(r) \/ CleanEnd(r) \/ CleanLeft(r) => shown' = shown
      BY DEF CleanRoster, CleanEnd, CleanLeft
    <3>. QED  BY <3>1, <3>2 DEF Clean
  <2>5. Obtain(r) => shown' = shown
    BY DEF Obtain, FindOpen, Touch, Promote, Create, Recover
  <2>6. Member(r) => shown' = shown
    BY DEF Member, Activate, Enter, Leave, LeaveTouch, Mute, ReadRoster, Close
  <2>7. Webhook(r) => shown' = shown
    BY DEF Webhook, Reopen, FindParticipant, MarkLeft, InsertLeft, EndRow,
           EndLeft
  <2>8. Sync(r) => shown' = shown
    BY DEF Sync
  <2>9. FeedInsert(r) \/ FeedUpdate(r) => shown' = shown
    BY DEF FeedInsert, FeedUpdate
  <2>. QED
    BY <1>1, <2>1, <2>2, <2>3, <2>4, <2>5, <2>6, <2>7, <2>8, <2>9
       DEF Next, Step, State
<1>. QED  BY <1>1, SerialInvariant, PTL DEF Spec, BroadcastShowsLive
=============================================================================
