------------------------------ MODULE Workplace -----------------------------
(***************************************************************************)
(* One workspace: its members with their roles and access status, the      *)
(* permission to manage them, its channels and who is in them              *)
(* (src/src/workspace, src/src/channel).  Of the permissions of the        *)
(* catalogue only manage_user_permissions is kept: it decides who may      *)
(* change the others; that a member holds one of the others is left open.  *)
(* Names, topics, posting settings and the timeline messages about them    *)
(* are left out.                                                           *)
(*                                                                         *)
(* An action is a statement or a transaction; Arrive is a handler up to    *)
(* its first write, its checks included, refused requests are left out.    *)
(***************************************************************************)
EXTENDS Naturals, FiniteSets, TLC

CONSTANTS
    Users,         \* users of the application
    Requests,      \* slots in which requests are in flight together
    MaxChannels,   \* bound: channels ever inserted
    MaxArrivals    \* bound: requests that ever arrive

ASSUME WorkplaceAssumption == MaxChannels \in Nat /\ MaxArrivals \in Nat

VARIABLES
    exists,    \* the row of workspaces
    role,      \* role[u]: workspace_members.role, "none" without a row
    status,    \* status[u]: membership_status
    allow,     \* the roles that hold manage_user_permissions
    chan,      \* chan[c]: the row of channels
    seat,      \* seat[c][u]: the row of channel_members, by its role
    starred,   \* pairs of a channel and a member who starred it
    req,       \* the requests in flight
    arrived,   \* how many have arrived
    skewed,    \* history: a role was written after another one had changed
    doubled,   \* history: a first channel was written after another channel
    early,     \* history: members who came before there was a default channel,
               \* and a founder who came after
    cut        \* history: users whose joining or founding stopped half-way

people == <<exists, role, status, allow>>
places == <<chan, seat, starred>>
past   == <<skewed, doubled, early, cut>>
vars   == <<people, places, req, arrived, past>>

Roles    == {"member", "admin", "owner", "primary"}
Channels == 1 .. MaxChannels
None     == 0

NoChannel == [st |-> "none", private |-> FALSE, default |-> FALSE]
There(c)  == chan[c].st = "there"
Defaults  == {c \in Channels : There(c) /\ chan[c].default}

\* canUser for manage_user_permissions
Active(u)   == role[u] # "none" /\ status[u] = "active"
Managers    == {u \in Users : Active(u) /\ role[u] \in allow}
Manages(u)  == u \in Managers

\* findOne: a private channel is for its members
Reads(u, c) == Active(u) /\ There(c) /\ (seat[c][u] # "out" \/ ~chan[c].private)

Idle == [pc |-> "idle", op |-> "none", user |-> None, to |-> None, who |-> {}, c |-> None,
         as |-> "none", keys |-> {}, flag |-> FALSE, late |-> {}]
Free(r)   == req[r] = Idle
Go(r, pc) == req' = [req EXCEPT ![r].pc = pc]
Finish(r) == req' = [req EXCEPT ![r] = Idle]

\* r goes on as q after it has changed something of this kind
Changed(r, kind, q) ==
    req' = [x \in Requests |-> IF x = r THEN q ELSE IF Free(x) THEN Idle
                               ELSE [req[x] EXCEPT !.late = @ \cup {kind}]]

Begin(r, call) ==
    /\ Free(r) /\ arrived < MaxArrivals
    /\ arrived' = arrived + 1
    /\ req' = [req EXCEPT ![r] = call]
    /\ UNCHANGED <<people, places, past>>

(***************************************************************************)
(* Requests about members                                                  *)
(***************************************************************************)
\* WorkspaceService.create
ArriveFound(r, u) ==
    /\ ~exists /\ \A x \in Requests : req[x].op # "found"
    /\ Begin(r, [Idle EXCEPT !.pc = "workspace", !.op = "found", !.user = u])

\* joinByInviteCode
ArriveJoin(r, u) ==
    /\ exists /\ role[u] = "none"
    /\ Begin(r, [Idle EXCEPT !.pc = "member", !.op = "join", !.user = u, !.as = "member"])

\* updateMemberRole
ArriveRole(r, u) ==
    \E t \in Users \ {u}, as \in Roles :
        /\ Manages(u) /\ role[t] # "none"
        /\ role[t] = "primary" => as = "primary"
        /\ as = "primary" => role[u] = "primary"
        /\ Begin(r, [Idle EXCEPT !.pc = "role", !.op = "role", !.user = u, !.to = t, !.as = as])

\* mutation: nothing keeps a manager from changing its own access
ArriveStatusOwn(r, u) ==
    \E t \in Users, on \in BOOLEAN :
        /\ Manages(u) /\ role[t] # "none"
        /\ Begin(r, [Idle EXCEPT !.pc = "status", !.op = "status", !.user = u, !.to = t, !.flag = on])

\* updateWorkspaceMemberAccessStatus
ArriveStatus(r, u) ==
    \E t \in Users \ {u}, on \in BOOLEAN :
        /\ Manages(u) /\ role[t] # "none"
        /\ Begin(r, [Idle EXCEPT !.pc = "status", !.op = "status", !.user = u, !.to = t, !.flag = on])

\* updatePermission of manage_user_permissions itself
ArrivePermission(r, u) ==
    \E keys \in {Roles, {"owner", "primary"}, {"primary"}, {}} :
        /\ Manages(u)
        /\ Begin(r, [Idle EXCEPT !.pc = "allow", !.op = "allow", !.user = u, !.keys = keys])

(***************************************************************************)
(* Requests about channels                                                 *)
(***************************************************************************)
\* mutation: the first channel is not told apart
ArriveCreateAny(r, u) ==
    \E p \in BOOLEAN :
        /\ Active(u)
        /\ Begin(r, [Idle EXCEPT !.pc = "channel", !.op = "create", !.user = u,
                     !.as = IF p THEN "private" ELSE "public", !.flag = TRUE])

\* create: it counts the channels to know whether this is the first
ArriveCreate(r, u) ==
    \E p \in BOOLEAN :
        /\ Active(u)
        /\ Begin(r, [Idle EXCEPT !.pc = "channel", !.op = "create", !.user = u,
                     !.as = IF p THEN "private" ELSE "public",
                     !.flag = \A c \in Channels : ~There(c)])

\* update
ArriveUpdate(r, u, c) ==
    \E p \in BOOLEAN :
        /\ Reads(u, c)
        /\ Begin(r, [Idle EXCEPT !.pc = "patch", !.op = "update", !.user = u, !.c = c, !.flag = p])

\* delete
ArriveDelete(r, u, c) ==
    /\ Active(u) /\ There(c) /\ ~chan[c].default
    /\ Begin(r, [Idle EXCEPT !.pc = "delete", !.op = "delete", !.user = u, !.c = c])

\* addChannelMember
ArriveAdd(r, u, c) ==
    \E t \in Users :
        /\ Reads(u, c) /\ Manages(u)
        /\ role[t] # "none" /\ seat[c][t] = "out"
        /\ Begin(r, [Idle EXCEPT !.pc = "seat", !.op = "add", !.user = u, !.c = c, !.who = {t}])

\* addAllWorkspaceMembersToChannel
ArriveAddAll(r, u, c) ==
    LET all == {t \in Users : role[t] # "none" /\ seat[c][t] = "out"} IN
    /\ Reads(u, c) /\ Manages(u) /\ ~chan[c].default /\ all # {}
    /\ Begin(r, [Idle EXCEPT !.pc = "seat", !.op = "add", !.user = u, !.c = c, !.who = all])

\* removeChannelMember, by one who may remove
ArriveRemove(r, u, c) ==
    \E t \in Users :
        /\ Reads(u, c) /\ ~chan[c].default
        /\ Begin(r, [Idle EXCEPT !.pc = "unseat", !.op = "remove", !.user = u, !.c = c, !.who = {t}])

\* mutation: only deletion spares the default channel
ArriveLeaveAny(r, u, c) ==
    /\ Active(u) /\ There(c) /\ seat[c][u] # "out"
    /\ Begin(r, [Idle EXCEPT !.pc = "unseat", !.op = "leave", !.user = u, !.c = c, !.who = {u}])

\* leaveChannel: the last owner stays
ArriveLeave(r, u, c) ==
    /\ Active(u) /\ There(c) /\ ~chan[c].default /\ seat[c][u] # "out"
    /\ seat[c][u] = "owner" => Cardinality({t \in Users : seat[c][t] = "owner"}) > 1
    /\ Begin(r, [Idle EXCEPT !.pc = "unseat", !.op = "leave", !.user = u, !.c = c, !.who = {u}])

\* starChannel and unstarChannel
ArriveStar(r, u, c) ==
    \E on \in BOOLEAN :
        /\ Active(u) /\ There(c) /\ seat[c][u] # "out"
        /\ Begin(r, [Idle EXCEPT !.pc = "star", !.op = "star", !.user = u, !.c = c, !.flag = on])

Arrive(r) ==
    \E u \in Users :
        \/ ArriveFound(r, u) \/ ArriveJoin(r, u)
        \/ ArriveRole(r, u) \/ ArriveStatus(r, u) \/ ArrivePermission(r, u)
        \/ ArriveCreate(r, u)
        \/ \E c \in Channels :
             \/ ArriveUpdate(r, u, c) \/ ArriveDelete(r, u, c)
             \/ ArriveAdd(r, u, c) \/ ArriveAddAll(r, u, c)
             \/ ArriveRemove(r, u, c) \/ ArriveLeave(r, u, c) \/ ArriveStar(r, u, c)

(***************************************************************************)
(* Members                                                                 *)
(***************************************************************************)
\* the row of the workspace; its invite code is valid from here on
Found(r) ==
    /\ req[r].pc = "workspace"
    /\ exists' = TRUE
    /\ req' = [req EXCEPT ![r].pc = "member", ![r].as = "primary"]
    /\ UNCHANGED <<role, status, allow, places, arrived, past>>

\* the row of a member.  The founder goes on to create the first channel,
\* unless the count says that it is not the first; one who joined looks for
\* the default channel, in which the row does not exist yet
Member(r) ==
    LET q == req[r] IN
    /\ q.pc = "member"
    /\ IF role[q.user] # "none"
       THEN Finish(r) /\ UNCHANGED <<role, status>>
            /\ cut' = IF q.op = "found" THEN cut \cup {q.user} ELSE cut
       ELSE /\ role' = [role EXCEPT ![q.user] = q.as]
            /\ status' = [status EXCEPT ![q.user] = "active"]
            /\ UNCHANGED cut
            /\ \/ /\ q.op = "found"
                  /\ req' = [req EXCEPT ![r].pc = "channel", ![r].as = "public",
                                        ![r].flag = \A c \in Channels : ~There(c)]
               \/ q.op = "join" /\ Defaults = {} /\ Finish(r)
               \/ \E c \in Defaults :
                    /\ q.op = "join"
                    /\ req' = [req EXCEPT ![r].pc = "seat", ![r].c = c, ![r].who = {q.user}]
    /\ early' = IF (q.op = "join") = (Defaults = {}) THEN early \cup {q.user} ELSE early
    /\ UNCHANGED <<exists, allow, places, arrived, skewed, doubled>>

\* mutation: the one who hands over the primary ownership keeps it
HandedTwice(q) == [role EXCEPT ![q.to] = q.as]

\* one row by its user, or, in a transaction, the rows of both
Handed(q) == IF q.as = "primary" THEN [role EXCEPT ![q.user] = "owner", ![q.to] = "primary"]
             ELSE [role EXCEPT ![q.to] = q.as]

Role(r) ==
    LET q == req[r] IN
    /\ q.pc = "role"
    /\ role' = Handed(q)
    /\ skewed' = (skewed \/ "role" \in q.late)
    /\ Changed(r, "role", Idle)
    /\ UNCHANGED <<exists, status, allow, places, arrived, doubled, early, cut>>

Status(r) ==
    LET q == req[r] IN
    /\ q.pc = "status"
    /\ status' = [status EXCEPT ![q.to] = IF q.flag THEN "active" ELSE "deactivated"]
    /\ Changed(r, "status", Idle)
    /\ UNCHANGED <<exists, role, allow, places, arrived, past>>

Permission(r) ==
    LET q == req[r] IN
    /\ q.pc = "allow"
    /\ allow' = q.keys
    /\ Changed(r, "allow", Idle)
    /\ UNCHANGED <<exists, role, status, places, arrived, past>>

(***************************************************************************)
(* Channels                                                                *)
(***************************************************************************)
Channel(r) ==
    LET q == req[r] IN
    /\ q.pc = "channel"
    /\ \E c \in Channels :
         /\ chan[c].st = "none" /\ \A d \in Channels : chan[d].st = "none" => c <= d
         /\ chan' = [chan EXCEPT ![c] = [st |-> "there", private |-> q.as = "private", default |-> q.flag]]
         /\ Changed(r, "channel", [q EXCEPT !.pc = "owner", !.c = c])
    /\ doubled' = (doubled \/ "channel" \in q.late)
    /\ UNCHANGED <<people, seat, starred, arrived, skewed, early, cut>>

\* the creator's row, which addChannelMember may have inserted before
Owner(r) ==
    LET q == req[r] IN
    /\ q.pc = "owner"
    /\ seat' = IF There(q.c) /\ seat[q.c][q.user] = "out" THEN [seat EXCEPT ![q.c][q.user] = "owner"] ELSE seat
    /\ Finish(r)
    /\ UNCHANGED <<people, chan, starred, arrived, past>>

Patch(r) ==
    LET q == req[r] IN
    /\ q.pc = "patch"
    /\ chan' = IF There(q.c) THEN [chan EXCEPT ![q.c].private = q.flag] ELSE chan
    /\ Finish(r)
    /\ UNCHANGED <<people, seat, starred, arrived, past>>

\* by id; the rows of its members go with it
Delete(r) ==
    LET q == req[r] IN
    /\ q.pc = "delete"
    /\ chan' = [chan EXCEPT ![q.c].st = "gone"]
    /\ seat' = [seat EXCEPT ![q.c] = [u \in Users |-> "out"]]
    /\ starred' = {p \in starred : p[1] # q.c}
    /\ Changed(r, "channel", Idle)
    /\ UNCHANGED <<people, arrived, past>>

\* one statement: refused as a whole by the unique index or the foreign key
Seat(r) ==
    LET q == req[r] IN
    /\ q.pc = "seat"
    /\ seat' = IF There(q.c) /\ \A u \in q.who : seat[q.c][u] = "out"
               THEN [seat EXCEPT ![q.c] = [u \in Users |-> IF u \in q.who THEN "member" ELSE @[u]]]
               ELSE seat
    /\ Finish(r)
    /\ UNCHANGED <<people, chan, starred, arrived, past>>

Unseat(r) ==
    LET q == req[r] IN
    /\ q.pc = "unseat"
    /\ seat' = [seat EXCEPT ![q.c] = [u \in Users |-> IF u \in q.who THEN "out" ELSE @[u]]]
    /\ starred' = {p \in starred : ~(p[1] = q.c /\ p[2] \in q.who)}
    /\ Finish(r)
    /\ UNCHANGED <<people, chan, arrived, past>>

Star(r) ==
    LET q == req[r]
        p == <<q.c, q.user>>
    IN  /\ q.pc = "star"
        /\ starred' = IF seat[q.c][q.user] # "out" /\ q.flag THEN starred \cup {p} ELSE starred \ {p}
        /\ Finish(r)
        /\ UNCHANGED <<people, chan, seat, arrived, past>>

\* the worker dies between two statements of a founding, a joining or a
\* creation
Stop(r) ==
    LET q == req[r] IN
    /\ \/ q.pc \in {"member", "channel", "owner"} /\ q.op = "found"
       \/ q.pc = "seat" /\ q.op = "join"
    /\ cut' = cut \cup {q.user}
    /\ Finish(r)
    /\ UNCHANGED <<people, places, arrived, skewed, doubled, early>>

Step(r) ==
    \/ Found(r) \/ Member(r) \/ Role(r) \/ Status(r) \/ Permission(r)
    \/ Channel(r) \/ Owner(r) \/ Patch(r) \/ Delete(r) \/ Seat(r) \/ Unseat(r) \/ Star(r)

\* nothing yet, or a workspace with its default channel and some members
Init ==
    /\ allow = {"admin", "owner", "primary"}
    /\ \E p \in Users :
         \/ /\ exists = FALSE /\ role = [u \in Users |-> "none"]
            /\ chan = [c \in Channels |-> NoChannel]
            /\ seat = [c \in Channels |-> [u \in Users |-> "out"]]
         \/ /\ exists = TRUE /\ MaxChannels > 0
            /\ role \in {f \in [Users -> {"none", "member", "admin", "primary"}] :
                           \A u \in Users : f[u] = "primary" <=> u = p}
            /\ chan = [c \in Channels |-> IF c = 1 THEN [NoChannel EXCEPT !.st = "there", !.default = TRUE] ELSE NoChannel]
            /\ seat = [c \in Channels |-> [u \in Users |-> IF c # 1 \/ role[u] = "none" THEN "out"
                                                           ELSE IF u = p THEN "owner" ELSE "member"]]
    /\ status = [u \in Users |-> "active"]
    /\ starred = {} /\ req = [r \in Requests |-> Idle] /\ arrived = 0
    /\ skewed = FALSE /\ doubled = FALSE /\ early = {} /\ cut = {}

Next == \E r \in Requests : Arrive(r) \/ Step(r) \/ Stop(r)

Spec == Init /\ [][Next]_vars

(***************************************************************************)
(* Properties                                                              *)
(***************************************************************************)
ChannelRow == [st : {"none", "there", "gone"}, private : BOOLEAN, default : BOOLEAN]

TypeOK ==
    /\ exists \in BOOLEAN /\ role \in [Users -> Roles \cup {"none"}]
    /\ status \in [Users -> {"active", "deactivated"}] /\ allow \subseteq Roles
    /\ chan \in [Channels -> ChannelRow] /\ seat \in [Channels -> [Users -> {"out", "member", "owner"}]]
    /\ starred \subseteq Channels \X Users /\ arrived \in 0 .. MaxArrivals

Founding(r) == req[r].op = "found"
Settled     == exists /\ cut = {} /\ \A r \in Requests : ~Founding(r)

\* A workspace has one primary owner, however ownership is handed over and
\* roles are given, unless a role was written by a request that had read the
\* roles before another one changed them (updateMemberRole).
OnePrimary ==
    Settled => skewed \/ Cardinality({u \in Users : role[u] = "primary"}) = 1

\* Nobody's role or access is changed so that no manager remains: the one
\* who makes the change stays one, unless the request was overtaken by
\* another change of roles, access or the permission (updateMemberRole
\* but for the hand-over, updateWorkspaceMemberAccessStatus).
Demotes(r) ==
    /\ req[r].pc = "status" \/ (req[r].pc = "role" /\ req[r].as # "primary")
    /\ req'[r].pc = "idle"
ManagerRemains ==
    [][\A r \in Requests :
         Demotes(r) /\ req[r].late \cap {"role", "status", "allow"} = {} => Managers' # {}]_vars

\* A workspace has one default channel, unless two of its first channels
\* were created at the same time (ChannelService.create, delete).
OneDefault ==
    Settled => doubled \/ Cardinality(Defaults) = 1

\* Every member is in a default channel once the request that let it in is
\* over, unless it came before there was one, or another member had created
\* it before the founder did (joinByInviteCode, create,
\* ensureMembershipInDefaultChannel, removeChannelMember, leaveChannel).
InDefault ==
    Settled => \A u \in Users \ early :
        role[u] # "none" /\ (\A r \in Requests : req[r].op = "join" => req[r].user # u)
          => \E c \in Defaults : seat[c][u] # "out"

=============================================================================
