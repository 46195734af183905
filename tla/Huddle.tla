------------------------------- MODULE Huddle -------------------------------
(***************************************************************************)
(* The huddle of one target (a channel or a direct-message conversation):  *)
(* rows of huddle_sessions and huddle_participants, the feed message of a  *)
(* session, and the requests and LiveKit webhooks that change them         *)
(* (src/src/huddle/huddle.service.ts).                                     *)
(*                                                                         *)
(* HuddleService keeps nothing in memory and opens no transaction: a       *)
(* request is a sequence of autocommitted SQL statements, and the requests *)
(* of all workers interleave between any two of them.  So a request is a   *)
(* record with a program counter, and an action is one statement (reads    *)
(* with no write between them are one step).  Rows of different targets    *)
(* have different active keys, so one target is the whole story.           *)
(***************************************************************************)
EXTENDS Naturals

CONSTANTS
    Users,        \* workspace members who may join
    NoUser,       \* a request that names no participant
    Requests,     \* the slots in which requests are in flight together
    MaxArrivals,  \* bound: requests that ever arrive
    MaxSessions   \* bound: rows ever inserted in huddle_sessions

ASSUME HuddleAssumption ==
    MaxSessions \in Nat /\ MaxArrivals \in Nat /\ NoUser \notin Users

VARIABLES
    session,   \* session[s]: the row of huddle_sessions with id s
    nextId,    \* the next row; ids grow with started_at
    roster,    \* roster[s][u]: huddle_participants (left_at NULL is "in")
    feed,      \* feed[s]: the message with huddle_session_id s, by its content
    shown,     \* activeSession of the last 'huddle:state' broadcast
    req,       \* the requests in flight
    arrived    \* how many have arrived

vars == <<session, nextId, roster, feed, shown, req, arrived>>

Ids  == 1 .. MaxSessions
None == 0

(***************************************************************************)
(* A row.  ended: ended_at IS NOT NULL.  marker: entity_active_key is set. *)
(* starter: started_by_id is set.  overdue: the time to live of the row's  *)
(* status has run out (15 minutes since started_at when pending, 2 minutes *)
(* since last_activity_at when active).                                    *)
(***************************************************************************)
Session == [status  : {"none", "pending", "active", "ended"},
            ended   : BOOLEAN,
            marker  : BOOLEAN,
            starter : BOOLEAN,
            overdue : BOOLEAN]

NoSession == [status |-> "none", ended |-> TRUE, marker |-> FALSE,
              starter |-> FALSE, overdue |-> FALSE]

\* participant_connection_aborted and track_unpublished are "dropped";
\* track_published is handled as participant_joined, "joined"
Webhooks == {"room_started", "joined", "left", "dropped", "room_finished"}
Ops      == {"start", "join", "leave", "mute", "get"} \cup Webhooks

PCs == {"idle", "clean", "cleanRoster", "cleanEnd", "cleanLeft", "open",
        "create", "recover", "touch", "promote", "activate", "enter",
        "leave", "leaveTouch", "roster", "close", "mute", "apply",
        "markLeft", "insertLeft", "endLeft", "sync", "feedInsert",
        "feedUpdate", "broadcast"}

Request == [pc    : PCs,
            op    : Ops \cup {"none"},
            user  : Users \cup {NoUser},
            phase : {"head", "state"},   \* before, or inside, fetchState
            sid   : Ids \cup {None},     \* the session in hand
            cur   : Ids \cup {None},     \* what cleanupOpenSessionIfStale found
            msg   : Ids \cup {None},     \* the session whose feed message is due
            copy  : {"none", "happening", "happened"}]

Idle == [pc |-> "idle", op |-> "none", user |-> NoUser, phase |-> "head",
         sid |-> None, cur |-> None, msg |-> None, copy |-> "none"]

TypeOK ==
    /\ session \in [Ids -> Session]
    /\ nextId \in 1 .. MaxSessions + 1
    /\ roster \in [Ids -> [Users -> {"none", "in", "left"}]]
    /\ feed \in [Ids -> {"none", "happening", "happened"}]
    /\ shown \in Ids \cup {None}
    /\ req \in [Requests -> Request]
    /\ arrived \in 0 .. MaxArrivals

Init ==
    /\ session = [s \in Ids |-> NoSession]
    /\ nextId = 1
    /\ roster = [s \in Ids |-> [u \in Users |-> "none"]]
    /\ feed = [s \in Ids |-> "none"]
    /\ shown = None
    /\ req = [r \in Requests |-> Idle]
    /\ arrived = 0

-----------------------------------------------------------------------------
(* Reads *)

Open(s) == ~session[s].ended

\* s is the result of findOpenSession
FindsOpen(s) ==
    IF \E t \in Ids : Open(t)
    THEN s \in Ids /\ Open(s) /\ \A t \in Ids : Open(t) => t <= s
    ELSE s = None

\* the open session, else the last one (findRecentSessions with limit 1)
FindsLatest(s) ==
    IF \E t \in Ids : Open(t) THEN FindsOpen(s) ELSE s = nextId - 1

Present(s) == \E u \in Users : roster[s][u] = "in"

\* mutation: the column has a plain index
MarkerAlwaysFree(s) == s \in Ids

\* huddle_sessions_entity_active_key_unique accepts the key on row s
MarkerFree(s) == \A t \in Ids \ {s} : ~session[t].marker

At(r, pc) == req[r].pc = pc
Becomes(r, x) == req' = [req EXCEPT ![r] = x]
Go(r, pc)     == Becomes(r, [req[r] EXCEPT !.pc = pc])
Finish(r)     == Becomes(r, Idle)

\* a webhook works with the time LiveKit stamped on the event, which may be
\* minutes old when the event is delivered late or again
Lags(r) == IF req[r].op \in Webhooks THEN BOOLEAN ELSE {FALSE}

\* fetchState needs nothing of the request but, for two webhooks, the session
ToState(r) ==
    Becomes(r, [req[r] EXCEPT !.pc = "clean", !.phase = "state",
                              !.user = NoUser])

-----------------------------------------------------------------------------
(* Statements *)

\* last_activity_at = now; the age of a pending row is not touched by it
Touched(row, lag) ==
    [row EXCEPT !.overdue = IF row.status = "active" THEN lag ELSE @]

\* mutation: the session is ended but ended_at is forgotten
EndedWithoutTime(row) == [row EXCEPT !.status = "ended", !.marker = FALSE]

\* the first statement of endSession, and the one of endSessionIfRosterEmpty
Ended(row) ==
    [row EXCEPT !.status = "ended", !.ended = TRUE, !.marker = FALSE]

\* updateSessionStatus of joinHuddle: the key is set, ended_at is not cleared
Activated(row) ==
    [row EXCEPT !.status = "active", !.marker = TRUE, !.starter = TRUE,
                !.overdue = FALSE]

\* updateSessionStatus of room_started and participant_joined
Reopened(row, lag) ==
    [row EXCEPT !.status = "active", !.marker = TRUE, !.ended = FALSE,
                !.overdue = lag]

\* the row createSessionRow inserts for a request
Inserted(r, lag) ==
    [status  |-> IF req[r].op = "start" THEN "pending" ELSE "active",
     ended   |-> FALSE,
     marker  |-> TRUE,
     starter |-> req[r].op \in {"start", "join"},
     overdue |-> lag]

\* mutation: endSession leaves the participants as they are
NobodyLeft(s) == roster[s]

\* the second statement of endSession: left_at of everyone still in
AllLeft(s) == [u \in Users |-> IF roster[s][u] = "in" THEN "left"
                                                      ELSE roster[s][u]]

-----------------------------------------------------------------------------
(* cleanupOpenSessionIfStale: at the head of a request, and again inside   *)
(* the fetchState that ends it.                                            *)

AfterClean(r) == IF req[r].phase = "head" THEN "open" ELSE "sync"

\* only fetchState uses the session the cleanup returns
Result(r, s) == IF req[r].phase = "head" THEN None ELSE s

Cleaned(r, s) ==
    Becomes(r, [req[r] EXCEPT !.cur = Result(r, s), !.pc = AfterClean(r)])

CleanFind(r) ==
    /\ At(r, "clean")
    /\ \E s \in Ids \cup {None} :
        /\ FindsOpen(s)
        /\ \/ s = None /\ Cleaned(r, None)
           \/ /\ s # None
              /\ session[s].overdue => req[r].phase = "head" /\ TRUE \in Lags(r)
              /\ Cleaned(r, s)
           \/ /\ s # None /\ session[s].overdue
              /\ Becomes(r, [req[r] EXCEPT
                    !.cur = s,
                    !.pc = IF session[s].status = "pending"
                           THEN "cleanEnd" ELSE "cleanRoster"])
    /\ UNCHANGED <<session, nextId, roster, feed, shown, arrived>>

CleanRoster(r) ==
    /\ At(r, "cleanRoster")
    /\ IF Present(req[r].cur) THEN Cleaned(r, req[r].cur) ELSE Go(r, "cleanEnd")
    /\ UNCHANGED <<session, nextId, roster, feed, shown, arrived>>

CleanEnd(r) ==
    /\ At(r, "cleanEnd")
    /\ session' = [session EXCEPT ![req[r].cur] = Ended(@)]
    /\ Go(r, "cleanLeft")
    /\ UNCHANGED <<nextId, roster, feed, shown, arrived>>

\* mutation: the cleanup returns the row it has just ended
CleanLeftReturnsRow(r) ==
    /\ At(r, "cleanLeft")
    /\ roster' = [roster EXCEPT ![req[r].cur] = AllLeft(req[r].cur)]
    /\ Go(r, AfterClean(r))
    /\ UNCHANGED <<session, nextId, feed, shown, arrived>>

CleanLeft(r) ==
    /\ At(r, "cleanLeft")
    /\ roster' = [roster EXCEPT ![req[r].cur] = AllLeft(req[r].cur)]
    /\ Cleaned(r, None)
    /\ UNCHANGED <<session, nextId, feed, shown, arrived>>

-----------------------------------------------------------------------------
(* The session a request works on *)

\* a request arrives; getState is fetchState alone, mute cleans nothing first
Arrive(r) ==
    /\ At(r, "idle")
    /\ arrived < MaxArrivals /\ arrived' = arrived + 1
    /\ \E op \in Ops, u \in Users \cup {NoUser} :
        /\ (u = NoUser) = (op \in {"get", "room_started", "room_finished"})
        /\ Becomes(r, [Idle EXCEPT
             !.op    = op,
             !.user  = u,
             !.pc    = IF op = "mute" THEN "open" ELSE "clean",
             !.phase = IF op = "get" THEN "state" ELSE "head"])
    /\ UNCHANGED <<session, nextId, roster, feed, shown>>

\* where a request goes once it holds a session
OnSession(op) ==
    CASE op = "start" -> "clean"
      [] op = "join"  -> "activate"
      [] op = "leave" -> "leave"
      [] op = "mute"  -> "mute"
      [] OTHER        -> "apply"

Hold(r, s, pc) ==
    Becomes(r, [req[r] EXCEPT
        !.sid   = s,
        !.pc    = pc,
        !.phase = IF pc = "clean" THEN "state" ELSE req[r].phase,
        !.user  = IF pc = "clean" THEN NoUser ELSE req[r].user])

\* findOpenSession of findOrCreateOpenSession, leaveHuddle, muteParticipant
\* and ensureSessionForWebhook
FindOpen(r) ==
    /\ At(r, "open")
    /\ \E s \in Ids \cup {None} :
        /\ FindsOpen(s)
        /\ \/ /\ s = None /\ req[r].op = "leave"
              /\ Becomes(r, [Idle EXCEPT !.op = "get", !.phase = "state",
                                         !.pc = "clean"])
           \/ s = None /\ req[r].op = "mute" /\ Finish(r)
           \/ s = None /\ req[r].op \notin {"leave", "mute"} /\ Go(r, "create")
           \/ /\ s # None /\ req[r].op \in {"start", "join"}
              /\ Hold(r, s, IF req[r].op = "join"
                               /\ session[s].status = "pending"
                            THEN "promote" ELSE "touch")
           \/ /\ s # None /\ req[r].op \notin {"start", "join"}
              /\ Hold(r, s, OnSession(req[r].op))
    /\ UNCHANGED <<session, nextId, roster, feed, shown, arrived>>

\* mutation: a start writes its own status over the one it found
TouchWithOwnStatus(r) ==
    /\ At(r, "touch")
    /\ session' = [session EXCEPT ![req[r].sid].status =
                     IF req[r].op = "start" THEN "pending" ELSE "active"]
    /\ Hold(r, req[r].sid, OnSession(req[r].op))
    /\ UNCHANGED <<nextId, roster, feed, shown, arrived>>

\* the two updates of findOrCreateOpenSession, by id and nothing else
Touch(r) ==
    /\ At(r, "touch")
    /\ session' = [session EXCEPT
                     ![req[r].sid] = [Touched(@, FALSE) EXCEPT !.starter = TRUE]]
    /\ Hold(r, req[r].sid, OnSession(req[r].op))
    /\ UNCHANGED <<nextId, roster, feed, shown, arrived>>

Promote(r) ==
    /\ At(r, "promote")
    /\ session' = [session EXCEPT
                     ![req[r].sid] = [@ EXCEPT !.status = "active",
                                               !.starter = TRUE,
                                               !.overdue = FALSE]]
    /\ Hold(r, req[r].sid, OnSession(req[r].op))
    /\ UNCHANGED <<nextId, roster, feed, shown, arrived>>

\* createSessionRow; an insert that fails looks for the winner's row
Create(r) ==
    /\ At(r, "create")
    /\ \/ /\ nextId \in Ids /\ MarkerFree(nextId)
          /\ \E lag \in Lags(r) :
               session' = [session EXCEPT ![nextId] = Inserted(r, lag)]
          /\ nextId' = nextId + 1
          /\ Hold(r, nextId, OnSession(req[r].op))
       \/ /\ ~(nextId \in Ids /\ MarkerFree(nextId))
          /\ Go(r, "recover")
          /\ UNCHANGED <<session, nextId>>
    /\ UNCHANGED <<roster, feed, shown, arrived>>

\* mutation: a lost insert is retried until it succeeds
RecoverRetries(r) ==
    /\ At(r, "recover")
    /\ Go(r, "create")
    /\ UNCHANGED <<session, nextId, roster, feed, shown, arrived>>

Recover(r) ==
    /\ At(r, "recover")
    /\ \E s \in Ids \cup {None} :
        /\ FindsOpen(s)
        /\ IF s = None THEN Finish(r) ELSE Hold(r, s, OnSession(req[r].op))
    /\ UNCHANGED <<session, nextId, roster, feed, shown, arrived>>

-----------------------------------------------------------------------------
(* joinHuddle, leaveHuddle, muteParticipant *)

\* a key another row holds makes the update, and the request, fail
Activate(r) ==
    /\ At(r, "activate")
    /\ \/ /\ MarkerFree(req[r].sid)
          /\ session' = [session EXCEPT ![req[r].sid] = Activated(@)]
          /\ Go(r, "enter")
       \/ ~MarkerFree(req[r].sid) /\ Finish(r) /\ UNCHANGED session
    /\ UNCHANGED <<nextId, roster, feed, shown, arrived>>

\* upsertParticipantSnapshot with left_at NULL (joinHuddle, the joined webhook)
Enter(r) ==
    /\ At(r, "enter")
    /\ roster' = [roster EXCEPT ![req[r].sid][req[r].user] = "in"]
    /\ ToState(r)
    /\ UNCHANGED <<session, nextId, feed, shown, arrived>>

Leave(r) ==
    /\ At(r, "leave")
    /\ roster' = [roster EXCEPT ![req[r].sid][req[r].user] = "left"]
    /\ Go(r, "leaveTouch")
    /\ UNCHANGED <<session, nextId, feed, shown, arrived>>

LeaveTouch(r) ==
    /\ At(r, "leaveTouch")
    /\ session' = [session EXCEPT ![req[r].sid] = Touched(@, FALSE)]
    /\ Go(r, "roster")
    /\ UNCHANGED <<nextId, roster, feed, shown, arrived>>

\* muteParticipant writes left_at NULL whatever the row said, unless LiveKit
\* knows no such participant or no microphone of theirs
Mute(r) ==
    /\ At(r, "mute")
    /\ \/ /\ roster' = [roster EXCEPT ![req[r].sid][req[r].user] = "in"]
          /\ ToState(r)
       \/ Finish(r) /\ UNCHANGED roster
    /\ UNCHANGED <<session, nextId, feed, shown, arrived>>

\* endSessionIfRosterEmpty: a read, then an update that does not repeat it
ReadRoster(r) ==
    /\ At(r, "roster")
    /\ IF ~Present(req[r].sid) THEN Go(r, "close")
       ELSE IF req[r].op = "leave" THEN ToState(r) ELSE Finish(r)
    /\ UNCHANGED <<session, nextId, roster, feed, shown, arrived>>

Close(r) ==
    /\ At(r, "close")
    /\ session' = [session EXCEPT ![req[r].sid] = Ended(@)]
    /\ IF req[r].op = "leave" THEN ToState(r) ELSE Finish(r)
    /\ UNCHANGED <<nextId, roster, feed, shown, arrived>>

-----------------------------------------------------------------------------
(* handleWebhook, after ensureSessionForWebhook *)

Reopen(r) ==
    /\ At(r, "apply") /\ req[r].op \in {"room_started", "joined"}
    /\ \/ /\ MarkerFree(req[r].sid)
          /\ \E lag \in Lags(r) :
               session' = [session EXCEPT ![req[r].sid] = Reopened(@, lag)]
          /\ IF req[r].op = "joined" THEN Go(r, "enter") ELSE ToState(r)
       \/ ~MarkerFree(req[r].sid) /\ Finish(r) /\ UNCHANGED session
    /\ UNCHANGED <<nextId, roster, feed, shown, arrived>>

\* markParticipantLeftSnapshot: a select decides between update and insert
FindParticipant(r) ==
    /\ At(r, "apply") /\ req[r].op \in {"left", "dropped"}
    /\ Go(r, IF roster[req[r].sid][req[r].user] = "none"
             THEN "insertLeft" ELSE "markLeft")
    /\ UNCHANGED <<session, nextId, roster, feed, shown, arrived>>

MarkLeft(r) ==
    /\ At(r, "markLeft")
    /\ roster' = [roster EXCEPT ![req[r].sid][req[r].user] = "left"]
    /\ ToState(r)
    /\ UNCHANGED <<session, nextId, feed, shown, arrived>>

\* huddle_participants_session_user_unique rejects a second row
InsertLeft(r) ==
    /\ At(r, "insertLeft")
    /\ \/ /\ roster[req[r].sid][req[r].user] = "none"
          /\ roster' = [roster EXCEPT ![req[r].sid][req[r].user] = "left"]
          /\ ToState(r)
       \/ /\ roster[req[r].sid][req[r].user] # "none"
          /\ Finish(r) /\ UNCHANGED roster
    /\ UNCHANGED <<session, nextId, feed, shown, arrived>>

\* room_finished: the two statements of endSession
EndRow(r) ==
    /\ At(r, "apply") /\ req[r].op = "room_finished"
    /\ session' = [session EXCEPT ![req[r].sid] = Ended(@)]
    /\ Go(r, "endLeft")
    /\ UNCHANGED <<nextId, roster, feed, shown, arrived>>

EndLeft(r) ==
    /\ At(r, "endLeft")
    /\ roster' = [roster EXCEPT ![req[r].sid] = AllLeft(req[r].sid)]
    /\ ToState(r)
    /\ UNCHANGED <<session, nextId, feed, shown, arrived>>

-----------------------------------------------------------------------------
(* fetchState and the broadcast of its result *)

\* the author: a participant, the starter, or the author of the message
HasAuthor(s) ==
    \/ \E u \in Users : roster[s][u] # "none"
    \/ session[s].starter
    \/ feed[s] # "none"

\* the reads of syncHuddleFeedMessage; a message that is there is always
\* rewritten, since jsonb gives the keys of the snapshot back in another order
\* than they are compared in
Sync(r) ==
    /\ At(r, "sync")
    /\ \E s \in Ids \cup {None} :
        /\ FindsLatest(s)
        /\ IF s = None \/ (s # None /\ ~HasAuthor(s)) THEN Go(r, "broadcast")
           ELSE Becomes(r, [req[r] EXCEPT
                  !.msg  = s,
                  !.pc   = IF feed[s] = "none" THEN "feedInsert"
                                               ELSE "feedUpdate",
                  !.copy = IF session[s].status = "ended" THEN "happened"
                                                          ELSE "happening"])
    /\ UNCHANGED <<session, nextId, roster, feed, shown, arrived>>

Posted(r) == Becomes(r, [req[r] EXCEPT !.pc = "broadcast", !.msg = None,
                                       !.copy = "none"])

\* messages.huddle_session_id is unique: a second insert fails the request
FeedInsert(r) ==
    /\ At(r, "feedInsert")
    /\ \/ /\ feed[req[r].msg] = "none"
          /\ feed' = [feed EXCEPT ![req[r].msg] = req[r].copy]
          /\ Posted(r)
       \/ feed[req[r].msg] # "none" /\ Finish(r) /\ UNCHANGED feed
    /\ UNCHANGED <<session, nextId, roster, shown, arrived>>

\* mutation: a message once posted is never rewritten
FeedNeverUpdated(r) ==
    /\ At(r, "feedUpdate")
    /\ Posted(r)
    /\ UNCHANGED <<session, nextId, roster, feed, shown, arrived>>

FeedUpdate(r) ==
    /\ At(r, "feedUpdate")
    /\ feed' = [feed EXCEPT ![req[r].msg] = req[r].copy]
    /\ Posted(r)
    /\ UNCHANGED <<session, nextId, roster, shown, arrived>>

\* getState answers its caller only; two webhooks look at the roster afterwards
Broadcast(r) ==
    /\ At(r, "broadcast")
    /\ shown' = IF req[r].op = "get" THEN shown ELSE req[r].cur
    /\ IF req[r].op \in {"left", "room_finished"} THEN Go(r, "roster")
                                                  ELSE Finish(r)
    /\ UNCHANGED <<session, nextId, roster, feed, arrived>>

-----------------------------------------------------------------------------
(* Time.  Requests are much shorter than a time to live, so a row runs out *)
(* of it while no request is in flight.                                    *)
TimePasses ==
    /\ \A r \in Requests : At(r, "idle")
    /\ \E late \in SUBSET {s \in Ids : Open(s) /\ ~session[s].overdue} :
        /\ late # {}
        /\ session' = [s \in Ids |->
             IF s \in late THEN [session[s] EXCEPT !.overdue = TRUE]
                           ELSE session[s]]
    /\ UNCHANGED <<nextId, roster, feed, shown, req, arrived>>

Clean(r)   == CleanFind(r) \/ CleanRoster(r) \/ CleanEnd(r) \/ CleanLeft(r)
Obtain(r)  == \/ FindOpen(r) \/ Touch(r) \/ Promote(r)
              \/ Create(r) \/ Recover(r)
Member(r)  == \/ Activate(r) \/ Enter(r) \/ Leave(r) \/ LeaveTouch(r)
              \/ Mute(r) \/ ReadRoster(r) \/ Close(r)
Webhook(r) == \/ Reopen(r) \/ FindParticipant(r) \/ MarkLeft(r)
              \/ InsertLeft(r) \/ EndRow(r) \/ EndLeft(r)
State(r)   == Sync(r) \/ FeedInsert(r) \/ FeedUpdate(r) \/ Broadcast(r)

Step(r) == Clean(r) \/ Obtain(r) \/ Member(r) \/ Webhook(r) \/ State(r)

Next == TimePasses \/ \E r \in Requests : Arrive(r) \/ Step(r)

Spec == Init /\ [][Next]_vars

\* every awaited statement eventually answers; nothing makes requests arrive
FairSpec == Spec /\ \A r \in Requests : WF_vars(Step(r))

-----------------------------------------------------------------------------
(* Properties that hold however requests interleave *)

\* A target has at most one session with ended_at NULL, whichever statements
\* of starts, joins, leaves, webhooks and cleanups interleave (the unique
\* index on entity_active_key is all that prevents two).
OneOpenSession == \A s, t \in Ids : Open(s) /\ Open(t) => s = t

\* The strengthening that makes it inductive: the index keeps keys apart, a
\* row loses its key only in the statement that sets ended_at, and a row
\* marked ended is closed.
MarkerUnique == \A s, t \in Ids :
    session[s].marker /\ session[t].marker => s = t
OpenHoldsMarker == \A s \in Ids : Open(s) => session[s].marker
EndedIsClosed == \A s \in Ids :
    session[s].status = "ended" => session[s].ended /\ ~session[s].marker

SlotInv == TypeOK /\ MarkerUnique /\ OpenHoldsMarker /\ EndedIsClosed

\* Nobody takes a session that was activated or ended back to pending, not
\* even a start that read the row before it was activated.
NeverBackToPending ==
    [][\A s \in Ids : session[s].status \in {"active", "ended"}
                       => session'[s].status # "pending"]_vars

\* The sessions of a target use one slot, taken and given up in turn.
Slot == INSTANCE HuddleSlot WITH Sessions <- Ids,
                                 open <- {s \in Ids : Open(s)}
SlotSpec == Slot!Spec

-----------------------------------------------------------------------------
(* Properties of requests that are served one after the other *)

Quiet == \A r \in Requests : At(r, "idle")

\* Between requests a row is marked exactly when it is open, and a closed row
\* has nobody in it: each handler leaves session and roster agreeing, taken
\* alone, whichever of its early returns it takes.
QuietRowsAgree == Quiet =>
    \A s \in Ids : /\ session[s].marker <=> Open(s)
                   /\ ~Open(s) => session[s].status \in {"none", "ended"}
                   /\ ~Open(s) => ~Present(s)

\* A broadcast never presents as active a session that has ended or that has
\* outlived its time to live ("ends stale pending sessions before state is
\* read", huddle.service.spec.ts:115).
BroadcastShowsLive ==
    [][shown' \notin {None, shown} =>
         /\ Open(shown')
         /\ ~(session[shown'].overdue /\ ~Present(shown'))]_vars

\* When a state is broadcast, the feed message of the session it is about has
\* the wording of that session's status.
FeedFollowsSession ==
    \A r \in Requests, s \in Ids : At(r, "broadcast") /\ FindsLatest(s)
        /\ HasAuthor(s) => (feed[s] = "happened" <=> session[s].status = "ended")

\* Every request is answered: no handler retries for ever, not even when its
\* insert keeps losing to the unique index.
RequestsReturn == \A r \in Requests : ~At(r, "idle") ~> At(r, "idle")

-----------------------------------------------------------------------------
(* What schema.ts:454 says of the marker, which concurrent requests refute *)

\* entity_active_key is the "active session marker": it is on no session that
\* has ended.  A join that read the session before a leave, a cleanup or a
\* webhook ended it sets the key again and leaves ended_at as it is.
MarkedIsOpen == \A s \in Ids : session[s].marker => Open(s)
=============================================================================
