--------------------------- MODULE WorkplaceProofs --------------------------
(***************************************************************************)
(* A workspace keeps one primary owner, somebody who manages its members,  *)
(* and one default channel with every member in it, for any number of      *)
(* users, of channels and of requests in flight.                           *)
(***************************************************************************)
EXTENDS Workplace, FiniteSetTheorems, TLAPS

(***************************************************************************)
(* The inductive invariant                                                 *)
(***************************************************************************)
Pcs   == {"idle", "workspace", "member", "channel", "owner", "patch", "delete", "seat",
          "unseat", "star", "role", "status", "allow"}
Ops   == {"none", "found", "join", "role", "status", "allow", "create", "update", "delete",
          "add", "remove", "leave", "star"}
Power == {"role", "status", "allow"}

Request == [pc : Pcs, op : Ops, user : Users \cup {None}, to : Users \cup {None},
            who : SUBSET Users, c : Channels \cup {None},
            as : Roles \cup {"none", "public", "private"}, keys : SUBSET Roles,
            flag : BOOLEAN, late : SUBSET (Power \cup {"channel"})]

TypeInv ==
    /\ exists \in BOOLEAN /\ role \in [Users -> Roles \cup {"none"}]
    /\ status \in [Users -> {"active", "deactivated"}] /\ allow \subseteq Roles
    /\ skewed \in BOOLEAN
    /\ req \in [Requests -> Request]

\* how the requests with a role to give were begun
Begun(x) ==
    /\ req[x].pc = "workspace" => req[x].op = "found" /\ req[x].user \in Users /\ ~exists
    /\ req[x].pc = "member" => /\ req[x].user \in Users
                               /\ \/ req[x].op = "found" /\ req[x].as = "primary"
                                  \/ req[x].op = "join" /\ req[x].as = "member"
OneFounder == \A x, y \in Requests : Founding(x) /\ Founding(y) => x = y

\* there is no primary owner yet, and so nobody who could manage anyone
Fatherless == ~exists \/ \E x \in Requests : Founding(x) /\ req[x].pc = "member"
Quiet ==
    Fatherless =>
        /\ \A u \in Users : role[u] \in {"none", "member"}
        /\ allow = {"admin", "owner", "primary"}
        /\ \A x \in Requests : req[x].pc \notin Power
        /\ ~exists => /\ \A u \in Users : role[u] = "none"
                      /\ \A x \in Requests : req[x].pc \in {"idle", "workspace"}

\* what a request that has not been overtaken has read still holds
Entitled(x) ==
    /\ req[x].pc \in {"role", "status"} /\ req[x].late \cap Power = {} =>
           req[x].user \in Managers /\ req[x].user # req[x].to
    /\ req[x].pc = "role" =>
           req[x].user \in Users /\ req[x].to \in Users /\ req[x].user # req[x].to /\ req[x].as \in Roles
    /\ req[x].pc = "status" => req[x].to \in Users
    /\ req[x].pc = "role" /\ "role" \notin req[x].late =>
           /\ role[req[x].to] # "none"
           /\ role[req[x].to] = "primary" => req[x].as = "primary"
           /\ req[x].as = "primary" => role[req[x].user] = "primary"

Sole(p) == \A u \in Users : role[u] = "primary" <=> u = p
OnePrimaryInv == ~Fatherless /\ cut = {} /\ ~skewed => \E p \in Users : Sole(p)

Inv ==
    /\ TypeInv
    /\ \A x \in Requests : Begun(x) /\ Entitled(x)
    /\ OneFounder /\ Quiet /\ OnePrimaryInv

(***************************************************************************)
(* Requests                                                                *)
(***************************************************************************)
\* the request goes on as before, overtaken perhaps
Same(x) ==
    /\ req'[x].pc = req[x].pc /\ req'[x].op = req[x].op /\ req'[x].user = req[x].user
    /\ req'[x].to = req[x].to /\ req'[x].as = req[x].as /\ req[x].late \subseteq req'[x].late
\* the request is at a new place, and what the invariant says of it holds
Fresh(x) ==
    /\ Begun(x)' /\ Entitled(x)'
    /\ req'[x].op # "found" \/ req'[x].pc # "member"
    /\ cut' # {} \/ req[x].op # "found" \/ req[x].pc # "member"
    /\ Fatherless => req'[x].pc \notin Power
    /\ ~exists => req'[x].pc \in {"idle", "workspace"}

\* A slot with no request in it is a request.
LEMMA IdleRequest == Idle \in Request
BY DEF Idle, Request, Pcs, Ops, Power, None

\* A step that leaves the members alone keeps the invariant, when every
\* request goes on or is where the invariant allows it to be.
LEMMA CalmStep ==
    ASSUME Inv, UNCHANGED people, skewed' = skewed, cut' = {} => cut = {},
           req' \in [Requests -> Request], OneFounder',
           \A x \in Requests : Same(x) \/ Fresh(x)
    PROVE  Inv'
<1> USE DEF people
<1>1. TypeInv'
  BY DEF Inv, TypeInv
<1>2. Managers' = Managers
  BY DEF Managers, Active
<1>3. Fatherless' => Fatherless
  BY DEF Fatherless, Founding, Same, Fresh
<1>4. \A x \in Requests : Begun(x)'
  BY DEF Inv, Begun, Same, Fresh
<1>5. \A x \in Requests : Entitled(x)'
  <2>1. ASSUME NEW x \in Requests, Same(x) PROVE Entitled(x)'
    <3>1. Entitled(x)
      BY DEF Inv
    <3>2. req'[x].late \cap Power = {} => req[x].late \cap Power = {}
      BY <2>1 DEF Same
    <3>3. "role" \notin req'[x].late => "role" \notin req[x].late
      BY <2>1 DEF Same
    <3> QED
      BY <2>1, <3>1, <3>2, <3>3, <1>2 DEF Same, Entitled
  <2> QED
    BY <2>1 DEF Fresh
<1>6. Quiet'
  <2>1. ASSUME Fatherless' PROVE \A x \in Requests : req'[x].pc \notin Power
    BY <2>1, <1>3 DEF Inv, Quiet, Same, Fresh
  <2>2. ASSUME ~exists PROVE \A x \in Requests : req'[x].pc \in {"idle", "workspace"}
    BY <2>2 DEF Inv, Quiet, Same, Fresh, Fatherless
  <2> QED
    BY <2>1, <2>2, <1>3 DEF Inv, Quiet
<1>7. OnePrimaryInv'
  <2>1. ASSUME ~Fatherless', cut' = {}, ~skewed' PROVE ~Fatherless
    <3>1. \A x \in Requests : Founding(x) /\ req[x].pc = "member" => FALSE
      BY <2>1 DEF Fatherless, Founding, Same, Fresh
    <3> QED
      BY <2>1, <3>1 DEF Fatherless
  <2> QED
    BY <2>1 DEF Inv, OnePrimaryInv, Sole
<1> QED
  BY <1>1, <1>4, <1>5, <1>6, <1>7 DEF Inv

(***************************************************************************)
(* The beginning of a request                                              *)
(***************************************************************************)
LEMMA BeginCalm ==
    ASSUME Inv, NEW r \in Requests, NEW q \in Request, Begin(r, q), q.late = {},
           \/ q.pc \notin Power \cup {"workspace", "member"} /\ q.op # "found" /\ exists
           \/ q.pc = "member" /\ q.op = "join" /\ q.as = "member" /\ exists /\ q.user \in Users
           \/ /\ q.pc = "workspace" /\ ~exists /\ q.op = "found" /\ q.user \in Users
              /\ \A x \in Requests : ~Founding(x)
           \/ /\ q.pc \in Power /\ q.op # "found" /\ ~Fatherless
              /\ q.pc \in {"role", "status"} => q.user \in Managers /\ q.to \in Users /\ q.user # q.to
              /\ q.pc = "role" => /\ role[q.to] # "none" /\ q.as \in Roles
                                  /\ role[q.to] = "primary" => q.as = "primary"
                                  /\ q.as = "primary" => role[q.user] = "primary"
    PROVE  Inv'
<1>1. UNCHANGED people /\ skewed' = skewed /\ cut' = cut
  BY DEF Begin, past
<1>2. req' = [req EXCEPT ![r] = q] /\ req[r].pc = "idle" /\ req[r].op = "none"
  BY DEF Begin, Free, Idle
<1>3. /\ req' \in [Requests -> Request] /\ req'[r] = q
      /\ \A x \in Requests \ {r} : req'[x] = req[x]
  BY <1>2 DEF Inv, TypeInv
<1>4. \A x \in Requests \ {r} : Same(x)
  BY <1>3 DEF Same
<1>5. OneFounder'
  BY <1>3 DEF Inv, OneFounder, Founding
<1>6. Begun(r)'
  BY <1>1, <1>3 DEF Begun, people, Power
<1>7. Entitled(r)'
  <2>1. Managers' = Managers /\ Managers \subseteq Users
    BY <1>1 DEF Managers, Active, people
  <2> QED
    BY <1>1, <1>3, <2>1 DEF Entitled, people, Power
<1>8. Fresh(r)
  BY <1>1, <1>2, <1>3, <1>6, <1>7 DEF Fresh, Fatherless, Power
<1> QED
  BY <1>1, <1>3, <1>4, <1>5, <1>8, CalmStep

\* There are managers only once the workspace is founded.
LEMMA ManagersRule ==
    ASSUME Inv, NEW u \in Users
    PROVE  /\ Active(u) => exists
           /\ u \in Managers => ~Fatherless
BY DEF Inv, Quiet, TypeInv, Managers, Active, Fatherless

\* What arrives has the roles it read.
LEMMA ArriveCalm ==
    ASSUME Inv, NEW r \in Requests, Arrive(r)
    PROVE  Inv'
<1> USE IdleRequest DEF Inv
<1>1. PICK u \in Users :
        \/ ArriveFound(r, u) \/ ArriveJoin(r, u)
        \/ ArriveRole(r, u) \/ ArriveStatus(r, u) \/ ArrivePermission(r, u)
        \/ ArriveCreate(r, u)
        \/ \E c \in Channels :
             \/ ArriveUpdate(r, u, c) \/ ArriveDelete(r, u, c)
             \/ ArriveAdd(r, u, c) \/ ArriveAddAll(r, u, c)
             \/ ArriveRemove(r, u, c) \/ ArriveLeave(r, u, c) \/ ArriveStar(r, u, c)
  BY DEF Arrive
<1>2. /\ Active(u) => exists
      /\ u \in Managers => ~Fatherless
  BY ManagersRule
<1>3. CASE ArriveFound(r, u)
  <2> DEFINE q == [Idle EXCEPT !.pc = "workspace", !.op = "found", !.user = u]
  <2>1. /\ q \in Request /\ q.late = {} /\ q.pc = "workspace" /\ q.op = "found" /\ q.user = u
    BY DEF Idle, Request, Pcs, Ops, Power
  <2>2. Begin(r, q) /\ ~exists /\ \A x \in Requests : ~Founding(x)
    BY <1>3 DEF ArriveFound, Founding
  <2> HIDE DEF q
  <2> QED
    BY <2>1, <2>2, BeginCalm
<1>4. CASE ArriveJoin(r, u)
  <2> DEFINE q == [Idle EXCEPT !.pc = "member", !.op = "join", !.user = u, !.as = "member"]
  <2>1. /\ q \in Request /\ q.late = {} /\ q.pc = "member" /\ q.op = "join" /\ q.as = "member"
        /\ q.user \in Users
    BY DEF Idle, Request, Pcs, Ops, Power, Roles
  <2>2. Begin(r, q) /\ exists
    BY <1>4 DEF ArriveJoin
  <2> HIDE DEF q
  <2> QED
    BY <2>1, <2>2, BeginCalm
<1>5. CASE ArriveRole(r, u)
  <2>1. PICK t \in Users \ {u}, as \in Roles :
          /\ Manages(u) /\ role[t] # "none"
          /\ role[t] = "primary" => as = "primary"
          /\ as = "primary" => role[u] = "primary"
          /\ Begin(r, [Idle EXCEPT !.pc = "role", !.op = "role", !.user = u, !.to = t, !.as = as])
    BY <1>5 DEF ArriveRole
  <2> DEFINE q == [Idle EXCEPT !.pc = "role", !.op = "role", !.user = u, !.to = t, !.as = as]
  <2>2. /\ q \in Request /\ q.late = {} /\ q.pc = "role" /\ q.op = "role" /\ q.as = as
        /\ q.user = u /\ q.to = t
    BY DEF Idle, Request, Pcs, Ops, Power, Roles
  <2>3. Begin(r, q) /\ u \in Managers
    BY <2>1 DEF Manages
  <2> HIDE DEF q
  <2> QED
    BY <1>2, <2>1, <2>2, <2>3, BeginCalm DEF Power
<1>6. CASE ArriveStatus(r, u)
  <2>1. PICK t \in Users \ {u}, on \in BOOLEAN :
          /\ Manages(u) /\ role[t] # "none"
          /\ Begin(r, [Idle EXCEPT !.pc = "status", !.op = "status", !.user = u, !.to = t, !.flag = on])
    BY <1>6 DEF ArriveStatus
  <2> DEFINE q == [Idle EXCEPT !.pc = "status", !.op = "status", !.user = u, !.to = t, !.flag = on]
  <2>2. /\ q \in Request /\ q.late = {} /\ q.pc = "status" /\ q.op = "status"
        /\ q.user = u /\ q.to = t
    BY DEF Idle, Request, Pcs, Ops, Power
  <2>3. Begin(r, q) /\ u \in Managers
    BY <2>1 DEF Manages
  <2> HIDE DEF q
  <2> QED
    BY <1>2, <2>1, <2>2, <2>3, BeginCalm DEF Power
<1>7. CASE ArrivePermission(r, u)
  <2>1. PICK keys \in {Roles, {"owner", "primary"}, {"primary"}, {}} :
          /\ Manages(u)
          /\ Begin(r, [Idle EXCEPT !.pc = "allow", !.op = "allow", !.user = u, !.keys = keys])
    BY <1>7 DEF ArrivePermission
  <2> DEFINE q == [Idle EXCEPT !.pc = "allow", !.op = "allow", !.user = u, !.keys = keys]
  <2>2. keys \in SUBSET Roles
    BY <2>1 DEF Roles
  <2>3. /\ q \in Request /\ q.late = {} /\ q.pc = "allow" /\ q.op = "allow"
    BY <2>2 DEF Idle, Request, Pcs, Ops, Power
  <2>4. Begin(r, q) /\ u \in Managers
    BY <2>1 DEF Manages
  <2> HIDE DEF q
  <2> QED
    BY <1>2, <2>3, <2>4, BeginCalm DEF Power
<1>8. CASE ArriveCreate(r, u)
  <2>1. PICK p \in BOOLEAN : Active(u) /\
          Begin(r, [Idle EXCEPT !.pc = "channel", !.op = "create", !.user = u,
                                !.as = IF p THEN "private" ELSE "public",
                                !.flag = \A c \in Channels : ~There(c)])
    BY <1>8 DEF ArriveCreate
  <2> DEFINE first == \A c \in Channels : ~There(c)
             q == [Idle EXCEPT !.pc = "channel", !.op = "create", !.user = u,
                               !.as = IF p THEN "private" ELSE "public", !.flag = first]
  <2>2. first \in BOOLEAN
    BY Zenon
  <2> HIDE DEF first
  <2>3. /\ q \in Request /\ q.late = {} /\ q.pc = "channel" /\ q.op = "create"
    BY <2>2 DEF Idle, Request, Pcs, Ops, Power
  <2>4. Begin(r, q)
    BY <2>1 DEF first
  <2> HIDE DEF q
  <2> QED
    BY <1>2, <2>1, <2>3, <2>4, BeginCalm DEF Power
<1>9. ASSUME NEW c \in Channels, ArriveUpdate(r, u, c) PROVE Inv'
  <2>1. PICK p \in BOOLEAN : Active(u) /\
          Begin(r, [Idle EXCEPT !.pc = "patch", !.op = "update", !.user = u, !.c = c, !.flag = p])
    BY <1>9 DEF ArriveUpdate, Reads
  <2> DEFINE q == [Idle EXCEPT !.pc = "patch", !.op = "update", !.user = u, !.c = c, !.flag = p]
  <2>2. /\ q \in Request /\ q.late = {} /\ q.pc = "patch" /\ q.op = "update"
    BY DEF Idle, Request, Pcs, Ops, Power
  <2> HIDE DEF q
  <2> QED
    BY <1>2, <2>1, <2>2, BeginCalm DEF Power, q
<1>10. ASSUME NEW c \in Channels, ArriveDelete(r, u, c) PROVE Inv'
  <2> DEFINE q == [Idle EXCEPT !.pc = "delete", !.op = "delete", !.user = u, !.c = c]
  <2>1. /\ q \in Request /\ q.late = {} /\ q.pc = "delete" /\ q.op = "delete"
    BY DEF Idle, Request, Pcs, Ops, Power
  <2>2. Begin(r, q) /\ exists
    BY <1>2, <1>10 DEF ArriveDelete
  <2> HIDE DEF q
  <2> QED
    BY <2>1, <2>2, BeginCalm DEF Power
<1>11. ASSUME NEW c \in Channels, ArriveAdd(r, u, c) \/ ArriveAddAll(r, u, c) PROVE Inv'
  <2>1. PICK S \in SUBSET Users : Active(u) /\
          Begin(r, [Idle EXCEPT !.pc = "seat", !.op = "add", !.user = u, !.c = c, !.who = S])
    BY <1>11 DEF ArriveAdd, ArriveAddAll, Reads
  <2> DEFINE q == [Idle EXCEPT !.pc = "seat", !.op = "add", !.user = u, !.c = c, !.who = S]
  <2>2. /\ q \in Request /\ q.late = {} /\ q.pc = "seat" /\ q.op = "add"
    BY DEF Idle, Request, Pcs, Ops, Power
  <2> HIDE DEF q
  <2> QED
    BY <1>2, <2>1, <2>2, BeginCalm DEF Power, q
<1>12. ASSUME NEW c \in Channels, ArriveRemove(r, u, c) \/ ArriveLeave(r, u, c) PROVE Inv'
  <2>1. PICK S \in SUBSET Users, op \in {"remove", "leave"} : Active(u) /\
          Begin(r, [Idle EXCEPT !.pc = "unseat", !.op = op, !.user = u, !.c = c, !.who = S])
    BY <1>12 DEF ArriveRemove, ArriveLeave, Reads
  <2> DEFINE q == [Idle EXCEPT !.pc = "unseat", !.op = op, !.user = u, !.c = c, !.who = S]
  <2>2. /\ q \in Request /\ q.late = {} /\ q.pc = "unseat" /\ q.op # "found"
    BY DEF Idle, Request, Pcs, Ops, Power
  <2> HIDE DEF q
  <2> QED
    BY <1>2, <2>1, <2>2, BeginCalm DEF Power, q
<1>13. ASSUME NEW c \in Channels, ArriveStar(r, u, c) PROVE Inv'
  <2>1. PICK on \in BOOLEAN : Active(u) /\
          Begin(r, [Idle EXCEPT !.pc = "star", !.op = "star", !.user = u, !.c = c, !.flag = on])
    BY <1>13 DEF ArriveStar
  <2> DEFINE q == [Idle EXCEPT !.pc = "star", !.op = "star", !.user = u, !.c = c, !.flag = on]
  <2>2. /\ q \in Request /\ q.late = {} /\ q.pc = "star" /\ q.op = "star"
    BY DEF Idle, Request, Pcs, Ops, Power
  <2> HIDE DEF q
  <2> QED
    BY <1>2, <2>1, <2>2, BeginCalm DEF Power, q
<1> QED
  BY <1>1, <1>3, <1>4, <1>5, <1>6, <1>7, <1>8, <1>9, <1>10, <1>11, <1>12, <1>13

(***************************************************************************)
(* The steps that leave the members alone                                  *)
(***************************************************************************)
LEMMA ChangedFacts ==
    ASSUME Inv, NEW r \in Requests, NEW kind \in Power \cup {"channel"}, NEW q \in Request,
           Changed(r, kind, q)
    PROVE  /\ req' \in [Requests -> Request] /\ req'[r] = q
           /\ \A x \in Requests \ {r} : Same(x)
           /\ \A x \in Requests \ {r} : req'[x].pc # "idle" => kind \in req'[x].late
<1>1. req' = [x \in Requests |-> IF x = r THEN q ELSE IF Free(x) THEN Idle
                                 ELSE [req[x] EXCEPT !.late = @ \cup {kind}]]
  BY DEF Changed
<1>2. ASSUME NEW x \in Requests \ {r}
      PROVE  /\ req'[x] \in Request /\ Same(x)
             /\ req'[x].pc # "idle" => kind \in req'[x].late
  <2>1. CASE Free(x)
    BY <1>1, <2>1, IdleRequest DEF Free, Same, Idle
  <2>2. CASE ~Free(x)
    <3> DEFINE q0 == req[x]
    <3>1. q0 \in Request
      BY DEF Inv, TypeInv
    <3>2. req'[x] = [q0 EXCEPT !.late = @ \cup {kind}]
      BY <1>1, <2>2
    <3>3. /\ req'[x] \in Request /\ req'[x].pc = q0.pc /\ req'[x].op = q0.op
          /\ req'[x].user = q0.user /\ req'[x].to = q0.to /\ req'[x].as = q0.as
          /\ req'[x].late = q0.late \cup {kind}
      <4> HIDE DEF q0
      <4> QED
        BY <3>1, <3>2 DEF Request
    <3> QED
      BY <3>3 DEF Same
  <2> QED
    BY <2>1, <2>2
<1>3. req'[r] = q
  BY <1>1
<1>4. req' \in [Requests -> Request]
  BY <1>1, <1>2, <1>3
<1> QED
  BY <1>2, <1>3, <1>4

\* The step of one request leaves the others as they are.
LEMMA ExceptFacts ==
    ASSUME Inv, NEW r \in Requests, NEW q \in Request, req' = [req EXCEPT ![r] = q]
    PROVE  /\ req' \in [Requests -> Request] /\ req'[r] = q
           /\ \A x \in Requests \ {r} : Same(x)
BY DEF Inv, TypeInv, Same

\* One request goes to a place among the channels, or ends.
LEMMA Elsewhere ==
    ASSUME Inv, UNCHANGED people, skewed' = skewed, cut' = {} => cut = {},
           NEW r \in Requests, NEW q \in Request,
           req' \in [Requests -> Request], req'[r] = q, \A x \in Requests \ {r} : Same(x),
           q.pc \notin Power \cup {"workspace", "member"}, q.pc = "idle" \/ exists,
           q.op = "found" => Founding(r),
           cut' # {} \/ ~Founding(r) \/ req[r].pc # "member"
    PROVE  Inv'
<1>1. OneFounder'
  BY DEF Inv, OneFounder, Founding, Same
<1>2. Fresh(r)
  BY DEF Fresh, Begun, Entitled, Power, Founding
<1> QED
  BY <1>1, <1>2, CalmStep

\* Steps on channels change no role.
LEMMA AmongChannels ==
    ASSUME Inv, NEW r \in Requests,
           \/ Channel(r) \/ Owner(r) \/ Patch(r) \/ Delete(r) \/ Seat(r) \/ Unseat(r) \/ Star(r)
           \/ Stop(r)
    PROVE  Inv'
<1> DEFINE q0 == req[r]
<1>1. q0 \in Request /\ Idle \in Request /\ Idle.pc = "idle" /\ Idle.op = "none"
  BY IdleRequest DEF Inv, TypeInv, Idle
<1>2. q0.pc \notin {"idle", "workspace"} => exists
  BY DEF Inv, Quiet, Fatherless
<1>3. CASE Channel(r)
  <2>1. PICK c \in Channels : Changed(r, "channel", [q0 EXCEPT !.pc = "owner", !.c = c])
    BY <1>3 DEF Channel
  <2> DEFINE q == [q0 EXCEPT !.pc = "owner", !.c = c]
  <2>2. q0.pc = "channel" /\ UNCHANGED people /\ skewed' = skewed /\ cut' = cut
    BY <1>3 DEF Channel
  <2>3. q \in Request /\ q.pc = "owner" /\ q.op = q0.op
    <3> HIDE DEF q0
    <3> QED
      BY <1>1 DEF Request, Pcs
  <2>4. Changed(r, "channel", q)
    BY <2>1
  <2> HIDE DEF q
  <2>5. /\ req' \in [Requests -> Request] /\ req'[r] = q
        /\ \A x \in Requests \ {r} : Same(x)
    BY <2>3, <2>4, ChangedFacts
  <2> QED
    BY <1>2, <2>2, <2>3, <2>5, Elsewhere DEF Power, Founding
<1>4. CASE Delete(r)
  <2>1. Changed(r, "channel", Idle) /\ q0.pc = "delete" /\ UNCHANGED people /\ skewed' = skewed /\ cut' = cut
    BY <1>4 DEF Delete, past
  <2>2. /\ req' \in [Requests -> Request] /\ req'[r] = Idle
        /\ \A x \in Requests \ {r} : Same(x)
    BY <1>1, <2>1, ChangedFacts
  <2> QED
    BY <1>1, <2>1, <2>2, Elsewhere DEF Power
<1>5. CASE Owner(r) \/ Patch(r) \/ Seat(r) \/ Unseat(r) \/ Star(r) \/ Stop(r)
  <2>1. req' = [req EXCEPT ![r] = Idle] /\ UNCHANGED people /\ skewed' = skewed
    BY <1>5 DEF Owner, Patch, Seat, Unseat, Star, Stop, Finish, past
  <2>2. cut' # {} \/ (cut' = cut /\ q0.pc # "member")
    BY <1>5 DEF Owner, Patch, Seat, Unseat, Star, Stop, past
  <2>3. /\ req' \in [Requests -> Request] /\ req'[r] = Idle
        /\ \A x \in Requests \ {r} : Same(x)
    BY <1>1, <2>1, ExceptFacts
  <2> QED
    BY <1>1, <2>1, <2>2, <2>3, Elsewhere DEF Power
<1> QED
  BY <1>3, <1>4, <1>5

(***************************************************************************)
(* The steps that change the members                                       *)
(***************************************************************************)
LEMMA FoundKeeps ==
    ASSUME Inv, NEW r \in Requests, Found(r)
    PROVE  Inv'
<1> DEFINE q0 == req[r]
           q  == [q0 EXCEPT !.pc = "member", !.as = "primary"]
<1>1. q0 \in Request /\ q0.pc = "workspace" /\ q0.op = "found" /\ ~exists
  BY DEF Inv, TypeInv, Found, Begun
<1>2. /\ exists' = TRUE /\ UNCHANGED <<role, status, allow>> /\ skewed' = skewed /\ cut' = cut
      /\ req' = [req EXCEPT ![r] = q]
  BY DEF Found, past
<1>3. q \in Request /\ q.pc = "member" /\ q.op = "found" /\ q.as = "primary" /\ q.user = q0.user
  <2> HIDE DEF q0
  <2> QED
    BY <1>1 DEF Request, Pcs, Roles
<1>4. /\ req' \in [Requests -> Request] /\ req'[r] = q
      /\ \A x \in Requests \ {r} : Same(x)
  <2> HIDE DEF q
  <2> QED
    BY <1>2, <1>3, ExceptFacts
<1> HIDE DEF q, q0
<1>5. /\ \A u \in Users : role[u] = "none"
      /\ allow = {"admin", "owner", "primary"}
      /\ \A x \in Requests : req[x].pc \in {"idle", "workspace"}
  BY <1>1 DEF Inv, Quiet, Fatherless
<1>6. \A x \in Requests \ {r} : req'[x].pc \in {"idle", "workspace"} /\ req'[x].op = req[x].op
  BY <1>4, <1>5 DEF Same
<1>7. \A x \in Requests \ {r} : req'[x].pc = "idle"
  <2>1. \A x \in Requests \ {r} : req[x].pc # "workspace"
    BY <1>1 DEF Inv, Begun, OneFounder, Founding, q0
  <2> QED
    BY <2>1, <1>4, <1>6 DEF Same
<1>8. TypeInv'
  BY <1>2, <1>4 DEF Inv, TypeInv
<1>9. \A x \in Requests : Begun(x)' /\ Entitled(x)'
  <2>1. q0.user \in Users
    BY <1>1 DEF Inv, Begun, q0
  <2> QED
    BY <2>1, <1>3, <1>4, <1>7 DEF Begun, Entitled
<1>10. OneFounder'
  BY <1>1, <1>3, <1>4, <1>6 DEF Inv, OneFounder, Founding, q0
<1>11. Quiet'
  BY <1>2, <1>3, <1>4, <1>5, <1>7 DEF Quiet, Power
<1>12. Fatherless'
  BY <1>3, <1>4 DEF Fatherless, Founding
<1> QED
  BY <1>8, <1>9, <1>10, <1>11, <1>12 DEF Inv, OnePrimaryInv

\* A member more, of a user who was none, disturbs no request on its way.
LEMMA MemberKeeps ==
    ASSUME Inv, NEW r \in Requests, Member(r)
    PROVE  Inv'
<1> DEFINE q0 == req[r]
<1>1. /\ q0 \in Request /\ q0.pc = "member" /\ q0.user \in Users /\ exists
      /\ \/ q0.op = "found" /\ q0.as = "primary"
         \/ q0.op = "join" /\ q0.as = "member"
  <2>1. q0 \in Request /\ q0.pc = "member"
    BY DEF Inv, TypeInv, Member
  <2>2. exists
    BY <2>1 DEF Inv, Quiet, Fatherless
  <2> QED
    BY <2>1, <2>2 DEF Inv, Begun
<1>2. UNCHANGED <<exists, allow>> /\ skewed' = skewed
  BY DEF Member, past
<1>3. CASE role[q0.user] # "none"
  <2>1. /\ UNCHANGED people /\ req' = [req EXCEPT ![r] = Idle]
        /\ cut' = IF q0.op = "found" THEN cut \cup {q0.user} ELSE cut
    BY <1>3, <1>2 DEF Member, Finish, people
  <2>2. /\ req' \in [Requests -> Request] /\ req'[r] = Idle
        /\ \A x \in Requests \ {r} : Same(x)
    BY <2>1, IdleRequest, ExceptFacts
  <2>3. Idle.pc = "idle" /\ Idle.op = "none"
    BY DEF Idle
  <2>4. (cut' = {} => cut = {}) /\ (cut' # {} \/ ~Founding(r))
    BY <2>1 DEF Founding
  <2> QED
    BY <1>2, <2>1, <2>2, <2>3, <2>4, IdleRequest, Elsewhere DEF Power
<1>4. CASE role[q0.user] = "none"
  <2>1. /\ role' = [role EXCEPT ![q0.user] = q0.as]
        /\ status' = [status EXCEPT ![q0.user] = "active"]
        /\ cut' = cut
    BY <1>4 DEF Member
  <2>2. PICK q \in Request :
          /\ req' = [req EXCEPT ![r] = q] /\ q.pc \in {"idle", "seat", "channel"}
          /\ q.op = "found" => q0.op = "found"
    <3>1. CASE q0.op = "found"
      <4> DEFINE q == [q0 EXCEPT !.pc = "channel", !.as = "public", !.flag = \A c \in Channels : ~There(c)]
      <4>1. req' = [req EXCEPT ![r] = q]
        BY <1>4, <3>1 DEF Member
      <4>2. (\A c \in Channels : ~There(c)) \in BOOLEAN
        BY Zenon
      <4>3. q \in Request /\ q.pc = "channel"
        <5> HIDE DEF q0
        <5> QED
          BY <1>1, <4>2 DEF Request, Pcs
      <4> HIDE DEF q
      <4> QED
        BY <3>1, <4>1, <4>3
    <3>2. CASE Finish(r)
      BY <3>2, IdleRequest DEF Finish, Idle
    <3>3. ASSUME NEW c \in Defaults, q0.op = "join",
                 req' = [req EXCEPT ![r].pc = "seat", ![r].c = c, ![r].who = {q0.user}]
          PROVE  \E q \in Request :
                   /\ req' = [req EXCEPT ![r] = q] /\ q.pc \in {"idle", "seat", "channel"}
                   /\ q.op = "found" => q0.op = "found"
      <4> DEFINE q == [q0 EXCEPT !.pc = "seat", !.c = c, !.who = {q0.user}]
      <4>1. req' = [req EXCEPT ![r] = q]
        BY <3>3
      <4>2. q \in Request /\ q.pc = "seat" /\ q.op = q0.op
        <5>1. c \in Channels
          BY DEF Defaults
        <5> HIDE DEF q0
        <5> QED
          BY <1>1, <5>1 DEF Request, Pcs
      <4> HIDE DEF q
      <4> QED
        BY <4>1, <4>2
    <3> QED
      BY <1>4, <3>1, <3>2, <3>3 DEF Member
  <2>3. /\ req' \in [Requests -> Request] /\ req'[r] = q
        /\ \A x \in Requests \ {r} : req'[x] = req[x]
    BY <2>2 DEF Inv, TypeInv
  <2>4. /\ role' \in [Users -> Roles \cup {"none"}] /\ status' \in [Users -> {"active", "deactivated"}]
        /\ role'[q0.user] = q0.as /\ \A u \in Users \ {q0.user} : role'[u] = role[u] /\ status'[u] = status[u]
    BY <1>1, <2>1 DEF Inv, TypeInv, Roles
  <2> HIDE DEF q0
  <2>5. TypeInv'
    BY <1>2, <2>3, <2>4 DEF Inv, TypeInv
  <2>6. \A x \in Requests : Begun(x)'
    BY <1>2, <2>2, <2>3 DEF Inv, Begun
  <2>7. Managers \subseteq Managers'
    BY <1>2, <1>4, <2>4 DEF Managers, Active, q0
  <2>8. \A x \in Requests : Entitled(x)'
    <3>1. ASSUME NEW x \in Requests \ {r} PROVE Entitled(x)'
      <4>1. Entitled(x) /\ req'[x] = req[x]
        BY <2>3 DEF Inv
      <4>2. \A u \in Users : role[u] # "none" => role'[u] = role[u]
        BY <1>4, <2>4 DEF q0
      <4> QED
        BY <4>1, <4>2, <2>7 DEF Entitled
    <3>2. Entitled(r)'
      BY <2>2, <2>3 DEF Entitled
    <3> QED
      BY <3>1, <3>2
  <2>9. OneFounder'
    BY <2>2, <2>3 DEF Inv, OneFounder, Founding, q0
  <2>10. Quiet'
    <3>1. ASSUME Fatherless' PROVE q0.as = "member" /\ Fatherless
      <4>1. PICK x \in Requests : req'[x].op = "found" /\ req'[x].pc = "member"
        BY <1>1, <1>2, <3>1 DEF Fatherless, Founding
      <4>2. x # r /\ Founding(x) /\ req[x].pc = "member"
        BY <2>2, <2>3, <4>1 DEF Founding
      <4> QED
        BY <4>2, <1>1 DEF Inv, OneFounder, Founding, Fatherless, q0
    <3> QED
      BY <1>1, <1>2, <2>2, <2>3, <2>4, <3>1 DEF Inv, Quiet, Power, q0
  <2>11. OnePrimaryInv'
    <3>1. CASE q0.op = "found"
      <4>1. Fatherless
        BY <1>1, <3>1 DEF Fatherless, Founding, q0
      <4>2. \A u \in Users : role[u] # "primary"
        BY <4>1 DEF Inv, Quiet
      <4> QED
        BY <4>2, <3>1, <1>1, <2>4 DEF OnePrimaryInv, Sole
    <3>2. CASE q0.op = "join"
      <4>1. ~Fatherless' => ~Fatherless
        BY <3>2, <1>2, <2>3 DEF Fatherless, Founding, q0
      <4>2. \A u \in Users : role'[u] = "primary" <=> role[u] = "primary"
        BY <3>2, <1>1, <1>4, <2>4 DEF q0
      <4> QED
        BY <4>1, <4>2, <1>2, <2>1 DEF Inv, OnePrimaryInv, Sole
    <3> QED
      BY <1>1, <3>1, <3>2
  <2> QED
    BY <2>5, <2>6, <2>8, <2>9, <2>10, <2>11 DEF Inv
<1> QED
  BY <1>3, <1>4

\* A change of roles, access or the permission overtakes every other request.
LEMMA PowerKeeps ==
    ASSUME Inv, NEW r \in Requests, Role(r) \/ Status(r) \/ Permission(r)
    PROVE  Inv'
<1> DEFINE q0 == req[r]
<1>1. q0 \in Request /\ q0.pc \in Power /\ ~Fatherless
  BY DEF Inv, TypeInv, Role, Status, Permission, Power, Quiet
<1>2. Idle.pc = "idle" /\ Idle.op = "none"
  BY DEF Idle
<1>3. PICK kind \in Power : Changed(r, kind, Idle) /\ (Role(r) => kind = "role")
  <2>1. CASE Role(r)
    BY <2>1 DEF Role, Power
  <2>2. CASE Status(r)
    BY <2>2 DEF Status, Role, Power
  <2>3. CASE Permission(r)
    BY <2>3 DEF Permission, Role, Power
  <2> QED
    BY <2>1, <2>2, <2>3
<1>4. /\ req' \in [Requests -> Request] /\ req'[r] = Idle
      /\ \A x \in Requests \ {r} : Same(x)
      /\ \A x \in Requests \ {r} : req'[x].pc # "idle" => kind \in req'[x].late
  BY <1>3, IdleRequest, ChangedFacts
<1>5. exists' = exists /\ cut' = cut
  BY DEF Role, Status, Permission, past
<1>6. TypeInv'
  <2>1. CASE Role(r)
    <3>1. q0.user \in Users /\ q0.to \in Users /\ q0.as \in Roles
      BY <2>1 DEF Role, Inv, Entitled
    <3>2. role' \in [Users -> Roles \cup {"none"}]
      BY <2>1, <3>1 DEF Role, Handed, Inv, TypeInv, Roles
    <3>3. skewed' \in BOOLEAN
      <4>1. skewed' = (skewed \/ "role" \in q0.late)
        BY <2>1 DEF Role
      <4> QED
        BY <4>1, Zenon
    <3> QED
      BY <1>4, <2>1, <3>2, <3>3 DEF Role, Inv, TypeInv
  <2>2. CASE Status(r)
    BY <1>4, <2>2 DEF Status, Inv, TypeInv, Entitled, past
  <2>3. CASE Permission(r)
    <3>1. q0.keys \subseteq Roles
      BY <1>1 DEF Request
    <3> QED
      BY <1>4, <2>3, <3>1 DEF Permission, Inv, TypeInv, past
  <2> QED
    BY <2>1, <2>2, <2>3
<1>7. \A x \in Requests : Begun(x)'
  BY <1>2, <1>4, <1>5 DEF Inv, Begun, Same
<1>8. \A x \in Requests : Entitled(x)'
  <2>1. ASSUME NEW x \in Requests \ {r} PROVE Entitled(x)'
    <3>1. Entitled(x) /\ Same(x)
      BY <1>4 DEF Inv
    <3>2. req'[x].pc # "idle" => kind \in req'[x].late \cap Power
      BY <1>3, <1>4
    <3>3. CASE Role(r)
      BY <1>3, <3>1, <3>2, <3>3 DEF Entitled, Same
    <3>4. CASE Status(r) \/ Permission(r)
      <4>1. role' = role
        BY <3>4 DEF Status, Permission
      <4> QED
        BY <3>1, <3>2, <4>1 DEF Entitled, Same
    <3> QED
      BY <3>3, <3>4
  <2>2. Entitled(r)'
    BY <1>2, <1>4 DEF Entitled
  <2> QED
    BY <2>1, <2>2
<1>9. OneFounder'
  BY <1>2, <1>4 DEF Inv, OneFounder, Founding, Same
<1>10. ~Fatherless'
  BY <1>1, <1>2, <1>4, <1>5 DEF Fatherless, Founding, Same
<1>11. OnePrimaryInv'
  <2>1. ASSUME cut' = {}, ~skewed' PROVE \E p \in Users : Sole(p)'
    <3>1. CASE Role(r)
      <4>1. /\ q0.user \in Users /\ q0.to \in Users /\ q0.user # q0.to /\ q0.as \in Roles
            /\ role[q0.to] = "primary" => q0.as = "primary"
            /\ q0.as = "primary" => role[q0.user] = "primary"
            /\ ~skewed
        BY <2>1, <3>1 DEF Role, Inv, Entitled
      <4>2. PICK p \in Users : Sole(p)
        BY <1>1, <1>5, <2>1, <4>1 DEF Inv, OnePrimaryInv
      <4>3. role' = Handed(q0) /\ role \in [Users -> Roles \cup {"none"}]
        BY <3>1 DEF Role, Inv, TypeInv
      <4>4. CASE q0.as = "primary"
        <5>1. \A u \in Users : role'[u] = "primary" <=> u = q0.to
          BY <4>1, <4>2, <4>3, <4>4 DEF Handed, Sole
        <5> QED
          BY <4>1, <5>1 DEF Sole
      <4>5. CASE q0.as # "primary"
        <5>1. \A u \in Users : role'[u] = "primary" <=> u = p
          BY <4>1, <4>2, <4>3, <4>5 DEF Handed, Sole
        <5> QED
          BY <5>1 DEF Sole
      <4> QED
        BY <4>4, <4>5
    <3>2. CASE Status(r) \/ Permission(r)
      <4>1. role' = role /\ skewed' = skewed
        BY <3>2 DEF Status, Permission, past
      <4> QED
        BY <1>1, <1>5, <2>1, <4>1 DEF Inv, OnePrimaryInv, Sole
    <3> QED
      BY <3>1, <3>2
  <2> QED
    BY <2>1 DEF OnePrimaryInv
<1> QED
  BY <1>6, <1>7, <1>8, <1>9, <1>10, <1>11 DEF Inv, Quiet

(***************************************************************************)
(* The theorems                                                            *)
(***************************************************************************)
LEMMA InitInv == ASSUME Init PROVE Inv
<1>1. TypeInv
  <2>1. role \in [Users -> Roles \cup {"none"}] /\ exists \in BOOLEAN
    <3>1. role = [u \in Users |-> "none"] \/ role \in [Users -> {"none", "member", "admin", "primary"}]
      BY DEF Init
    <3>2. exists \in BOOLEAN
      BY DEF Init
    <3> QED
      BY <3>1, <3>2 DEF Roles
  <2>2. allow \subseteq Roles /\ status \in [Users -> {"active", "deactivated"}] /\ skewed \in BOOLEAN
    BY DEF Init, Roles
  <2>3. req \in [Requests -> Request]
    BY IdleRequest DEF Init
  <2> QED
    BY <2>1, <2>2, <2>3 DEF TypeInv
<1>2. \A x \in Requests : Begun(x) /\ Entitled(x)
  BY DEF Init, Begun, Entitled, Idle
<1>3. OneFounder
  BY DEF Init, OneFounder, Founding, Idle
<1>4. Quiet
  BY DEF Init, Quiet, Fatherless, Founding, Idle, Power
<1>5. OnePrimaryInv
  BY DEF Init, OnePrimaryInv, Sole, Fatherless
<1> QED
  BY <1>1, <1>2, <1>3, <1>4, <1>5 DEF Inv

\* Every step keeps the invariant.
LEMMA StepInv == ASSUME Inv, [Next]_vars PROVE Inv'
<1>1. ASSUME NEW r \in Requests, Arrive(r) \/ Step(r) \/ Stop(r) PROVE Inv'
  BY <1>1, ArriveCalm, AmongChannels, FoundKeeps, MemberKeeps, PowerKeeps DEF Step
<1>2. CASE UNCHANGED vars
  BY <1>2 DEF Inv, TypeInv, Begun, Entitled, Managers, Active, OneFounder, Founding, Quiet,
              Fatherless, OnePrimaryInv, Sole, vars, people, past
<1> QED
  BY <1>1, <1>2 DEF Next

\* The invariant holds of every reachable state.
LEMMA InvAlways == Spec => []Inv
<1>1. Init => Inv
  BY InitInv
<1>2. Inv /\ [Next]_vars => Inv'
  BY StepInv
<1> QED
  BY <1>1, <1>2, PTL DEF Spec

\* What arrives takes a free slot and writes nothing.
LEMMA ArriveBegins ==
    ASSUME NEW r \in Requests, Arrive(r)
    PROVE  \E q : Begin(r, q)
<1>1. PICK u \in Users :
        \/ ArriveFound(r, u) \/ ArriveJoin(r, u)
        \/ ArriveRole(r, u) \/ ArriveStatus(r, u) \/ ArrivePermission(r, u)
        \/ ArriveCreate(r, u)
        \/ \E c \in Channels :
             \/ ArriveUpdate(r, u, c) \/ ArriveDelete(r, u, c)
             \/ ArriveAdd(r, u, c) \/ ArriveAddAll(r, u, c)
             \/ ArriveRemove(r, u, c) \/ ArriveLeave(r, u, c) \/ ArriveStar(r, u, c)
  BY DEF Arrive
<1>2. CASE \/ ArriveFound(r, u) \/ ArriveJoin(r, u)
           \/ ArriveRole(r, u) \/ ArriveStatus(r, u) \/ ArrivePermission(r, u)
  BY <1>2 DEF ArriveFound, ArriveJoin, ArriveRole, ArriveStatus, ArrivePermission
<1>3. CASE ArriveCreate(r, u)
  BY <1>3, Zenon DEF ArriveCreate
<1>4. ASSUME NEW c \in Channels,
             \/ ArriveUpdate(r, u, c) \/ ArriveDelete(r, u, c)
             \/ ArriveAdd(r, u, c) \/ ArriveAddAll(r, u, c)
             \/ ArriveRemove(r, u, c) \/ ArriveLeave(r, u, c) \/ ArriveStar(r, u, c)
      PROVE  \E q : Begin(r, q)
  BY <1>4 DEF ArriveUpdate, ArriveDelete, ArriveAdd, ArriveAddAll, ArriveRemove, ArriveLeave, ArriveStar
<1> QED
  BY <1>1, <1>2, <1>3, <1>4

\* A step of one request leaves the others where they are.
LEMMA BystanderStays ==
    ASSUME Inv, NEW x \in Requests, NEW r \in Requests \ {x}, Arrive(x) \/ Step(x) \/ Stop(x)
    PROVE  req'[r].pc = req[r].pc
<1>1. CASE \E q : req' = [req EXCEPT ![x] = q]
  BY <1>1 DEF Inv, TypeInv
<1>2. ASSUME NEW kind, NEW q, Changed(x, kind, q) PROVE req'[r].pc = req[r].pc
  <2> DEFINE q0 == req[r]
  <2>1. q0 \in Request
    BY DEF Inv, TypeInv
  <2>2. req'[r] = IF Free(r) THEN Idle ELSE [q0 EXCEPT !.late = @ \cup {kind}]
    BY <1>2 DEF Changed
  <2>3. [q0 EXCEPT !.late = @ \cup {kind}].pc = q0.pc
    <3> HIDE DEF q0
    <3> QED
      BY <2>1 DEF Request
  <2> QED
    BY <2>2, <2>3 DEF Free
<1>3. CASE Arrive(x)
  <2>1. \E q : Begin(x, q)
    BY <1>3, ArriveBegins
  <2> QED
    BY <1>1, <2>1 DEF Begin
<1>4. CASE Role(x) \/ Status(x) \/ Permission(x) \/ Channel(x) \/ Delete(x)
  BY <1>2, <1>4 DEF Role, Status, Permission, Channel, Delete
<1>5. CASE Found(x) \/ Member(x)
  BY <1>5 DEF Inv, TypeInv, Found, Member, Finish
<1>6. CASE Owner(x) \/ Patch(x) \/ Seat(x) \/ Unseat(x) \/ Star(x) \/ Stop(x)
  BY <1>1, <1>6 DEF Owner, Patch, Seat, Unseat, Star, Stop, Finish
<1> QED
  BY <1>3, <1>4, <1>5, <1>6 DEF Step

\* A request about a role or an access ends by the step that writes it.
LEMMA ActorGoes ==
    ASSUME Inv, NEW r \in Requests, req[r].pc \in {"role", "status"}, Arrive(r) \/ Step(r) \/ Stop(r)
    PROVE  Role(r) \/ Status(r)
<1>1. ~Arrive(r)
  <2>1. ~Free(r)
    BY DEF Free, Idle
  <2> QED
    BY <2>1, ArriveBegins DEF Begin
<1> QED
  BY <1>1 DEF Step, Stop, Found, Member, Permission, Channel, Owner, Patch, Delete, Seat, Unseat, Star

\* A workspace has one primary owner, unless a role was written by a request
\* that another change of roles had overtaken.
THEOREM OnePrimaryOwner == Spec => []OnePrimary
<1>1. ASSUME Inv, Settled, ~skewed PROVE Cardinality({u \in Users : role[u] = "primary"}) = 1
  <2>1. PICK p \in Users : Sole(p)
    BY <1>1 DEF Inv, OnePrimaryInv, Settled, Fatherless
  <2>2. {u \in Users : role[u] = "primary"} = {p}
    BY <2>1 DEF Sole
  <2> QED
    BY <2>2, FS_Singleton
<1>2. Inv => OnePrimary
  BY <1>1 DEF OnePrimary
<1> QED
  BY <1>2, InvAlways, PTL

\* Whoever changes the role or the access of another stays a manager, unless
\* the request was overtaken.
THEOREM SomebodyManages == Spec => ManagerRemains
<1> DEFINE A == \A r \in Requests :
             Demotes(r) /\ req[r].late \cap {"role", "status", "allow"} = {} => Managers' # {}
<1>1. ASSUME Inv, [Next]_vars PROVE [A]_vars
  <2>1. ASSUME NEW r \in Requests, Demotes(r), req[r].late \cap {"role", "status", "allow"} = {},
               Next
        PROVE  Managers' # {}
    <3>1. req[r].pc \in {"role", "status"} /\ req'[r].pc = "idle" /\ (req[r].pc = "role" => req[r].as # "primary")
      BY <2>1 DEF Demotes
    <3>2. Role(r) \/ Status(r)
      <4>1. PICK x \in Requests : Arrive(x) \/ Step(x) \/ Stop(x)
        BY <2>1 DEF Next
      <4>2. CASE x # r
        <5>1. req'[r].pc = req[r].pc
          BY <1>1, <4>1, <4>2, BystanderStays
        <5> QED
          BY <3>1, <5>1
      <4>3. CASE x = r
        BY <1>1, <4>1, <4>3, <3>1, ActorGoes
      <4> QED
        BY <4>2, <4>3
    <3>3. req[r].user \in Managers /\ req[r].user # req[r].to /\ req[r].to \in Users
      BY <1>1, <2>1, <3>1 DEF Inv, Entitled, Power
    <3>4. req[r].user \in Managers'
      <4>1. CASE Role(r)
        BY <1>1, <3>1, <3>3, <4>1 DEF Role, Handed, Inv, TypeInv, Managers, Active
      <4>2. CASE Status(r)
        BY <1>1, <3>1, <3>3, <4>2 DEF Status, Inv, TypeInv, Managers, Active
      <4> QED
        BY <3>2, <4>1, <4>2
    <3> QED
      BY <3>4
  <2> QED
    BY <1>1, <2>1
<1>2. Inv /\ [Next]_vars => [A]_vars
  BY <1>1
<1> QED
  BY <1>2, InvAlways, PTL DEF ManagerRemains, Spec
(***************************************************************************)
(* The default channel: its inductive invariant                            *)
(***************************************************************************)
PlaceTypes ==
    /\ chan \in [Channels -> ChannelRow]
    /\ seat \in [Channels -> [Users -> {"out", "member", "owner"}]]
    /\ doubled \in BOOLEAN

Inserted(c) == chan[c].st # "none"

\* what a request is about is a channel, and nobody deletes or leaves one
\* that is the default; whose role it changes is a member
Aims(x) ==
    /\ req[x].pc \in {"owner", "patch", "delete", "seat", "unseat", "star"} => req[x].c \in Channels
    /\ req[x].pc \in {"delete", "unseat"} => Inserted(req[x].c) /\ ~chan[req[x].c].default
    /\ req[x].pc = "role" => role[req[x].user] # "none" /\ role[req[x].to] # "none"

\* what one who counted the channels knows
Counted(x) ==
    req[x].pc = "channel" =>
        /\ req[x].flag /\ "channel" \notin req[x].late => \A c \in Channels : ~There(c)
        /\ (\A c \in Channels : ~Inserted(c)) => req[x].flag

\* the founder and those who join are on their way to a default channel
Leads(x) ==
    /\ req[x].op = "found" =>
          /\ req[x].pc \in {"workspace", "member", "channel", "owner"}
          /\ req[x].pc = "owner" => Inserted(req[x].c)
          /\ req[x].pc = "channel" => req[x].flag \/ req[x].user \in early
          /\ req[x].pc = "owner" => req[x].c \in Defaults \/ req[x].user \in early
    /\ req[x].op = "join" =>
          /\ req[x].pc \in {"member", "seat"}
          /\ req[x].pc = "seat" => req[x].c \in Defaults /\ req[x].who = {req[x].user}

\* the first channel of all is a default one, and stays
Alone == doubled \/ \A c, d \in Defaults : c = d
Since == (\E c \in Channels : Inserted(c)) => Defaults # {}
Opened == exists /\ cut = {} /\ (\A x \in Requests : ~Founding(x)) => Defaults # {}

Seated(u) == \E c \in Defaults : seat[c][u] # "out"
Brings(x, u) ==
    req[x].user = u /\ (\/ req[x].op = "join" /\ req[x].pc = "seat"
                        \/ req[x].op = "found" /\ req[x].pc \in {"channel", "owner"})
Housed ==
    cut = {} => \A u \in Users \ early :
        role[u] # "none" => Seated(u) \/ \E x \in Requests : Brings(x, u)

PlaceInv ==
    /\ PlaceTypes
    /\ \A x \in Requests : Aims(x) /\ Counted(x) /\ Leads(x)
    /\ Alone /\ Since /\ Opened /\ Housed
\* the request goes on as before
Stays(x) ==
    /\ Same(x) /\ req'[x].c = req[x].c /\ req'[x].who = req[x].who /\ req'[x].flag = req[x].flag
\* no row goes away, no default changes and no default channel is deleted,
\* and no member leaves
Lasts ==
    /\ \A u \in Users : role[u] # "none" => role'[u] # "none"
    /\ \A c \in Channels : Inserted(c) => Inserted(c)'
    /\ \A c \in Channels : Inserted(c) => (chan'[c].default <=> chan[c].default)
    /\ Defaults \subseteq Defaults'

\* What the invariant says of a request stays true while it goes on, when a
\* channel that appears is told to it.
LEMMA GoesOn ==
    ASSUME Inv, PlaceTypes, PlaceTypes', Lasts, early \subseteq early',
           NEW x \in Requests, Aims(x), Counted(x), Leads(x), Stays(x),
           req'[x].pc = "channel" /\ "channel" \notin req'[x].late =>
              \A c \in Channels : There(c)' => There(c)
    PROVE  Aims(x)' /\ Counted(x)' /\ Leads(x)'
<1>1. Aims(x)'
  <2>1. req[x].pc = "role" => req[x].user \in Users /\ req[x].to \in Users
    BY DEF Inv, Entitled
  <2> QED
    BY <2>1 DEF Aims, Stays, Same, Lasts
<1>2. Counted(x)'
  <2>1. "channel" \notin req'[x].late => "channel" \notin req[x].late
    BY DEF Stays, Same
  <2> QED
    BY <2>1 DEF Counted, Stays, Same, Lasts
<1>3. Leads(x)'
  <2>1. req[x].op = "found" /\ req[x].pc = "owner" => chan'[req[x].c].st # "none"
    BY DEF Aims, Leads, Lasts, Inserted
  <2> QED
    BY <2>1 DEF Leads, Stays, Same, Lasts, Inserted
<1> QED
  BY <1>1, <1>2, <1>3

\* The members stay housed, when nobody loses a place in a default channel
\* and a request that ends has brought its user in.
LEMMA StillHoused ==
    ASSUME Housed, Defaults \subseteq Defaults', early \subseteq early', cut' = {} => cut = {},
           \A u \in Users : role'[u] # "none" => role[u] # "none",
           \A c \in Defaults, u \in Users : seat[c][u] # "out" => seat'[c][u] # "out",
           \A x \in Requests, u \in Users \ early' : Brings(x, u) /\ cut' = {} => Brings(x, u)' \/ Seated(u)'
    PROVE  Housed'
<1>1. ASSUME cut' = {}, NEW u \in Users \ early', role'[u] # "none"
      PROVE  Seated(u)' \/ \E x \in Requests : Brings(x, u)'
  <2>1. Seated(u) \/ \E x \in Requests : Brings(x, u)
    BY <1>1 DEF Housed
  <2>2. Seated(u) => Seated(u)'
    BY DEF Seated
  <2> QED
    BY <1>1, <2>1, <2>2
<1> QED
  BY <1>1 DEF Housed
\* a request as it arrives
Proper(q) ==
    /\ q \in Request /\ q.late = {}
    /\ q.op = "found" => q.pc = "workspace"
    /\ q.op = "join" => q.pc = "member"
    /\ q.pc # "owner"
    /\ q.pc \in {"patch", "delete", "seat", "unseat", "star"} => q.c \in Channels
    /\ q.pc \in {"delete", "unseat"} => Inserted(q.c) /\ ~chan[q.c].default
    /\ q.pc = "role" => q.user \in Users /\ role[q.user] # "none" /\ role[q.to] # "none"
    /\ q.pc = "channel" => (q.flag <=> \A c \in Channels : ~There(c))

\* What arrives names a channel that is there, and no default one to be deleted
\* or left.
LEMMA ArrivesProperly ==
    ASSUME Inv, NEW r \in Requests, Arrive(r)
    PROVE  \E q : Begin(r, q) /\ Proper(q)
<1> USE DEF Proper
<1>1. PICK u \in Users :
        \/ ArriveFound(r, u) \/ ArriveJoin(r, u)
        \/ ArriveRole(r, u) \/ ArriveStatus(r, u) \/ ArrivePermission(r, u)
        \/ ArriveCreate(r, u)
        \/ \E c \in Channels :
             \/ ArriveUpdate(r, u, c) \/ ArriveDelete(r, u, c)
             \/ ArriveAdd(r, u, c) \/ ArriveAddAll(r, u, c)
             \/ ArriveRemove(r, u, c) \/ ArriveLeave(r, u, c) \/ ArriveStar(r, u, c)
  BY DEF Arrive
<1>2. CASE ArriveFound(r, u)
  <2> DEFINE q == [Idle EXCEPT !.pc = "workspace", !.op = "found", !.user = u]
  <2>1. Proper(q)
    BY DEF Idle, Request, Pcs, Ops, Power
  <2> HIDE DEF Proper
  <2> QED
    BY <1>2, <2>1 DEF ArriveFound
<1>3. CASE ArriveJoin(r, u)
  <2> DEFINE q == [Idle EXCEPT !.pc = "member", !.op = "join", !.user = u, !.as = "member"]
  <2>1. Proper(q)
    BY DEF Idle, Request, Pcs, Ops, Power, Roles
  <2> HIDE DEF Proper
  <2> QED
    BY <1>3, <2>1 DEF ArriveJoin
<1>4. CASE ArriveRole(r, u)
  <2>1. PICK t \in Users \ {u}, as \in Roles :
          /\ Manages(u) /\ role[t] # "none"
          /\ role[t] = "primary" => as = "primary"
          /\ as = "primary" => role[u] = "primary"
          /\ Begin(r, [Idle EXCEPT !.pc = "role", !.op = "role", !.user = u, !.to = t, !.as = as])
    BY <1>4, Zenon DEF ArriveRole
  <2>2. Proper([Idle EXCEPT !.pc = "role", !.op = "role", !.user = u, !.to = t, !.as = as])
    BY <2>1 DEF Manages, Managers, Active, Idle, Request, Pcs, Ops, Power, Roles
  <2> HIDE DEF Proper
  <2> QED
    BY <2>1, <2>2
<1>5. CASE ArriveStatus(r, u)
  <2>1. PICK t \in Users \ {u}, on \in BOOLEAN :
          /\ Manages(u) /\ role[t] # "none"
          /\ Begin(r, [Idle EXCEPT !.pc = "status", !.op = "status", !.user = u, !.to = t, !.flag = on])
    BY <1>5, Zenon DEF ArriveStatus
  <2>2. Proper([Idle EXCEPT !.pc = "status", !.op = "status", !.user = u, !.to = t, !.flag = on])
    BY DEF Idle, Request, Pcs, Ops, Power
  <2> HIDE DEF Proper
  <2> QED
    BY <2>1, <2>2
<1>6. CASE ArrivePermission(r, u)
  <2>1. PICK keys \in {Roles, {"owner", "primary"}, {"primary"}, {}} :
          Begin(r, [Idle EXCEPT !.pc = "allow", !.op = "allow", !.user = u, !.keys = keys])
    BY <1>6 DEF ArrivePermission
  <2>2. keys \in SUBSET Roles
    BY <2>1 DEF Roles
  <2>3. Proper([Idle EXCEPT !.pc = "allow", !.op = "allow", !.user = u, !.keys = keys])
    BY <2>2 DEF Idle, Request, Pcs, Ops, Power
  <2> HIDE DEF Proper
  <2> QED
    BY <2>1, <2>3
<1>7. CASE ArriveCreate(r, u)
  <2>1. PICK p \in BOOLEAN :
          Begin(r, [Idle EXCEPT !.pc = "channel", !.op = "create", !.user = u,
                                !.as = IF p THEN "private" ELSE "public",
                                !.flag = \A c \in Channels : ~There(c)])
    BY <1>7, Zenon DEF ArriveCreate
  <2> DEFINE first == \A c \in Channels : ~There(c)
             q == [Idle EXCEPT !.pc = "channel", !.op = "create", !.user = u,
                               !.as = IF p THEN "private" ELSE "public", !.flag = first]
  <2>2. first \in BOOLEAN
    BY Zenon
  <2>3. Proper(q)
    <3>1. q \in Request /\ q.late = {} /\ q.pc = "channel" /\ q.op = "create" /\ q.flag = first
      <4> HIDE DEF first
      <4> QED
        BY <2>2 DEF Idle, Request, Pcs, Ops, Power
    <3> HIDE DEF q
    <3> QED
      BY <3>1
  <2>4. Begin(r, q)
    BY <2>1
  <2> HIDE DEF Proper, q
  <2> QED
    BY <2>3, <2>4
<1>8. ASSUME NEW c \in Channels, ArriveUpdate(r, u, c) PROVE \E q : Begin(r, q) /\ Proper(q)
  <2>1. PICK p \in BOOLEAN :
          Begin(r, [Idle EXCEPT !.pc = "patch", !.op = "update", !.user = u, !.c = c, !.flag = p])
    BY <1>8, Zenon DEF ArriveUpdate
  <2>2. Proper([Idle EXCEPT !.pc = "patch", !.op = "update", !.user = u, !.c = c, !.flag = p])
    BY DEF Idle, Request, Pcs, Ops, Power
  <2> HIDE DEF Proper
  <2> QED
    BY <2>1, <2>2
<1>9. ASSUME NEW c \in Channels, ArriveDelete(r, u, c) PROVE \E q : Begin(r, q) /\ Proper(q)
  <2> DEFINE q == [Idle EXCEPT !.pc = "delete", !.op = "delete", !.user = u, !.c = c]
  <2>1. Proper(q)
    BY <1>9 DEF Idle, Request, Pcs, Ops, Power, ArriveDelete, There, Inserted
  <2> HIDE DEF Proper
  <2> QED
    BY <1>9, <2>1 DEF ArriveDelete
<1>10. ASSUME NEW c \in Channels, ArriveAdd(r, u, c) \/ ArriveAddAll(r, u, c)
       PROVE  \E q : Begin(r, q) /\ Proper(q)
  <2>1. PICK S \in SUBSET Users :
          Begin(r, [Idle EXCEPT !.pc = "seat", !.op = "add", !.user = u, !.c = c, !.who = S])
    BY <1>10, Zenon DEF ArriveAdd, ArriveAddAll
  <2>2. Proper([Idle EXCEPT !.pc = "seat", !.op = "add", !.user = u, !.c = c, !.who = S])
    BY DEF Idle, Request, Pcs, Ops, Power
  <2> HIDE DEF Proper
  <2> QED
    BY <2>1, <2>2
<1>11. ASSUME NEW c \in Channels, ArriveRemove(r, u, c) \/ ArriveLeave(r, u, c)
       PROVE  \E q : Begin(r, q) /\ Proper(q)
  <2>1. PICK S \in SUBSET Users, op \in {"remove", "leave"} : There(c) /\ ~chan[c].default /\
          Begin(r, [Idle EXCEPT !.pc = "unseat", !.op = op, !.user = u, !.c = c, !.who = S])
    BY <1>11, Zenon DEF ArriveRemove, ArriveLeave, Reads
  <2>2. chan[c].st = "there" /\ ~chan[c].default
    BY <2>1 DEF There
  <2>3. Proper([Idle EXCEPT !.pc = "unseat", !.op = op, !.user = u, !.c = c, !.who = S])
    BY <2>2 DEF Idle, Request, Pcs, Ops, Power, Inserted
  <2> HIDE DEF Proper
  <2> QED
    BY <2>1, <2>3
<1>12. ASSUME NEW c \in Channels, ArriveStar(r, u, c) PROVE \E q : Begin(r, q) /\ Proper(q)
  <2>1. PICK on \in BOOLEAN :
          Begin(r, [Idle EXCEPT !.pc = "star", !.op = "star", !.user = u, !.c = c, !.flag = on])
    BY <1>12, Zenon DEF ArriveStar
  <2>2. Proper([Idle EXCEPT !.pc = "star", !.op = "star", !.user = u, !.c = c, !.flag = on])
    BY DEF Idle, Request, Pcs, Ops, Power
  <2> HIDE DEF Proper
  <2> QED
    BY <2>1, <2>2
<1> QED
  BY <1>1, <1>2, <1>3, <1>4, <1>5, <1>6, <1>7, <1>8, <1>9, <1>10, <1>11, <1>12
\* A change leaves the other requests where they are, but late for its kind.
LEMMA ChangedStays ==
    ASSUME Inv, NEW r \in Requests, NEW kind \in Power \cup {"channel"}, NEW q \in Request,
           Changed(r, kind, q)
    PROVE  \A x \in Requests \ {r} : Stays(x)
<1>1. ASSUME NEW x \in Requests \ {r} PROVE Stays(x)
  <2>1. Same(x)
    BY ChangedFacts
  <2>2. req' = [y \in Requests |-> IF y = r THEN q ELSE IF Free(y) THEN Idle
                                   ELSE [req[y] EXCEPT !.late = @ \cup {kind}]]
    BY DEF Changed
  <2>3. CASE Free(x)
    BY <2>1, <2>2, <2>3 DEF Free, Stays
  <2>4. CASE ~Free(x)
    <3> DEFINE q0 == req[x]
    <3>1. q0 \in Request
      BY DEF Inv, TypeInv
    <3>2. req'[x] = [q0 EXCEPT !.late = @ \cup {kind}]
      BY <2>2, <2>4
    <3>3. req'[x].c = q0.c /\ req'[x].who = q0.who /\ req'[x].flag = q0.flag
      <4> HIDE DEF q0
      <4> QED
        BY <3>1, <3>2 DEF Request
    <3> QED
      BY <2>1, <3>3 DEF Stays
  <2> QED
    BY <2>3, <2>4
<1> QED
  BY <1>1

\* Any other step leaves them as they are.
LEMMA ExceptStays ==
    ASSUME Inv, NEW r \in Requests, NEW q \in Request, req' = [req EXCEPT ![r] = q]
    PROVE  req'[r] = q /\ \A x \in Requests \ {r} : Stays(x)
BY DEF Inv, TypeInv, Same, Stays

\* A step that inserts no channel and deletes no default one keeps the
\* invariant, when the request that makes it is where the invariant allows it
\* to be and the members stay housed.
LEMMA NoNewChannel ==
    ASSUME Inv, PlaceInv, PlaceTypes', NEW r \in Requests, Lasts, Defaults' = Defaults,
           \A c \in Channels : (There(c)' => There(c)) /\ (Inserted(c)' => Inserted(c)),
           doubled' = doubled, early \subseteq early', cut' = {} => cut = {},
           \A x \in Requests \ {r} : Stays(x),
           Aims(r)', Counted(r)', Leads(r)',
           exists' => exists \/ Founding(r)',
           Founding(r) => Founding(r)' \/ cut' # {} \/ Defaults # {},
           Housed'
    PROVE  PlaceInv'
<1>1. \A x \in Requests : Aims(x)' /\ Counted(x)' /\ Leads(x)'
  <2>1. ASSUME NEW x \in Requests \ {r} PROVE Aims(x)' /\ Counted(x)' /\ Leads(x)'
    BY GoesOn DEF PlaceInv
  <2> QED
    BY <2>1
<1>2. Alone' /\ Since'
  BY DEF PlaceInv, Alone, Since, Lasts
<1>3. Opened'
  <2>1. ASSUME exists', cut' = {}, \A x \in Requests : ~Founding(x)' PROVE Defaults # {}
    <3>1. \A x \in Requests \ {r} : ~Founding(x)
      BY <2>1 DEF Founding, Stays, Same
    <3>2. CASE Founding(r)
      BY <2>1, <3>2
    <3>3. CASE ~Founding(r)
      <4>1. exists /\ cut = {} /\ \A x \in Requests : ~Founding(x)
        BY <2>1, <3>1, <3>3
      <4> QED
        BY <4>1 DEF PlaceInv, Opened
    <3> QED
      BY <3>2, <3>3
  <2> QED
    BY <2>1 DEF Opened
<1> QED
  BY <1>1, <1>2, <1>3 DEF PlaceInv

\* The same, when no one becomes a member and no one loses a place in a
\* default channel.
LEMMA NothingOpens ==
    ASSUME Inv, PlaceInv, PlaceTypes', NEW r \in Requests, Lasts, Defaults' = Defaults,
           \A c \in Channels : (There(c)' => There(c)) /\ (Inserted(c)' => Inserted(c)),
           \A u \in Users : role'[u] # "none" => role[u] # "none",
           doubled' = doubled, early \subseteq early', cut' = {} => cut = {},
           \A x \in Requests \ {r} : Stays(x),
           Aims(r)', Counted(r)', Leads(r)',
           exists' => exists \/ Founding(r)',
           Founding(r) => Founding(r)' \/ cut' # {} \/ Defaults # {},
           \A c \in Defaults, u \in Users : seat[c][u] # "out" => seat'[c][u] # "out",
           \A u \in Users \ early' : Brings(r, u) /\ cut' = {} => Brings(r, u)' \/ Seated(u)'
    PROVE  PlaceInv'
<1>1. ASSUME NEW x \in Requests, NEW u \in Users \ early', Brings(x, u), cut' = {}
      PROVE  Brings(x, u)' \/ Seated(u)'
  <2>1. CASE x = r
    BY <1>1, <2>1
  <2>2. CASE x # r
    <3>1. Stays(x)
      BY <2>2
    <3>2. Brings(x, u)'
      BY <1>1, <3>1 DEF Brings, Stays, Same
    <3> QED
      BY <3>2
  <2> QED
    BY <2>1, <2>2
<1>2. Housed'
  BY <1>1, StillHoused DEF PlaceInv
<1> QED
  BY <1>2, NoNewChannel
\* What arrives keeps the default channel and its members.
LEMMA ArrivePlaces ==
    ASSUME Inv, PlaceInv, NEW r \in Requests, Arrive(r)
    PROVE  PlaceInv'
<1>1. PICK q : Begin(r, q) /\ Proper(q)
  BY ArrivesProperly
<1>2. /\ UNCHANGED <<people, places, past>> /\ req' = [req EXCEPT ![r] = q]
      /\ req[r].pc = "idle" /\ req[r].op = "none"
  BY <1>1 DEF Begin, Free, Idle
<1>3. q \in Request
  BY <1>1 DEF Proper
<1>4. req'[r] = q /\ \A x \in Requests \ {r} : Stays(x)
  BY <1>2, <1>3, ExceptStays
<1>5. UNCHANGED <<exists, role, chan, seat, doubled, early, cut>>
  BY <1>2 DEF people, places, past
<1>6. PlaceTypes' /\ Lasts /\ Defaults' = Defaults
  BY <1>5 DEF PlaceInv, PlaceTypes, Lasts, Defaults, There, Inserted
<1>7. \A c \in Channels : (There(c)' => There(c)) /\ (Inserted(c)' => Inserted(c))
  BY <1>5 DEF There, Inserted
<1>8. Aims(r)'
  BY <1>1, <1>4, <1>5 DEF Aims, Proper, Inserted
<1>9. Counted(r)'
  <2>1. ASSUME q.pc = "channel", \A c \in Channels : ~Inserted(c) PROVE q.flag
    BY <1>1, <2>1 DEF Proper, Inserted, There
  <2>2. ASSUME q.pc = "channel", q.flag PROVE \A c \in Channels : ~There(c)
    BY <1>1, <2>2 DEF Proper
  <2> QED
    BY <1>4, <1>5, <2>1, <2>2 DEF Counted, Inserted, There
<1>10. Leads(r)'
  BY <1>1, <1>4 DEF Leads, Proper
<1>11. ~Founding(r) /\ \A u \in Users : ~Brings(r, u)
  BY <1>2 DEF Founding, Brings
<1> QED
  BY <1>4, <1>5, <1>6, <1>7, <1>8, <1>9, <1>10, <1>11, NothingOpens

\* A founder is on the way to a first channel.
LEMMA FoundPlaces ==
    ASSUME Inv, PlaceInv, NEW r \in Requests, Found(r)
    PROVE  PlaceInv'
<1> DEFINE q0 == req[r]
           q  == [q0 EXCEPT !.pc = "member", !.as = "primary"]
<1>1. q0 \in Request /\ q0.pc = "workspace" /\ q0.op = "found"
  BY DEF Inv, TypeInv, Found, Begun
<1>2. req' = [req EXCEPT ![r] = q]
  BY DEF Found
<1>3. q \in Request /\ q.pc = "member" /\ q.op = "found"
  <2> HIDE DEF q0
  <2> QED
    BY <1>1 DEF Request, Pcs, Roles
<1> HIDE DEF q
<1>4. req'[r] = q /\ \A x \in Requests \ {r} : Stays(x)
  BY <1>2, <1>3, ExceptStays
<1>5. UNCHANGED <<role, chan, seat, doubled, early, cut>>
  BY DEF Found, places, past
<1>6. PlaceTypes' /\ Lasts /\ Defaults' = Defaults
  BY <1>5 DEF PlaceInv, PlaceTypes, Lasts, Defaults, There, Inserted
<1>7. \A c \in Channels : (There(c)' => There(c)) /\ (Inserted(c)' => Inserted(c))
  BY <1>5 DEF There, Inserted
<1>8. Aims(r)' /\ Counted(r)' /\ Leads(r)' /\ Founding(r)'
  BY <1>3, <1>4 DEF Aims, Counted, Leads, Founding
<1>9. \A u \in Users : ~Brings(r, u)
  BY <1>1 DEF Brings
<1> QED
  BY <1>4, <1>5, <1>6, <1>7, <1>8, <1>9, NothingOpens

\* Roles, access and permissions move nobody in or out of a channel.
LEMMA PowerPlaces ==
    ASSUME Inv, PlaceInv, NEW r \in Requests, Role(r) \/ Status(r) \/ Permission(r)
    PROVE  PlaceInv'
<1>1. PICK kind \in Power : Changed(r, kind, Idle)
  BY DEF Role, Status, Permission, Power
<1>2. req'[r] = Idle /\ \A x \in Requests \ {r} : Stays(x)
  BY <1>1, IdleRequest, ChangedStays, ChangedFacts
<1>3. UNCHANGED <<exists, chan, seat, doubled, early, cut>>
  BY DEF Role, Status, Permission, places, past
<1>4. \A u \in Users : role'[u] # "none" <=> role[u] # "none"
  <2>1. CASE Role(r)
    <3>1. /\ req[r].user \in Users /\ req[r].to \in Users /\ req[r].as \in Roles
          /\ role[req[r].user] # "none" /\ role[req[r].to] # "none"
      BY <2>1 DEF Role, Inv, Entitled, PlaceInv, Aims
    <3>2. role \in [Users -> Roles \cup {"none"}] /\ role' = Handed(req[r])
      BY <2>1 DEF Role, Inv, TypeInv
    <3> QED
      BY <3>1, <3>2 DEF Handed, Roles
  <2>2. CASE Status(r) \/ Permission(r)
    BY <2>2 DEF Status, Permission
  <2> QED
    BY <2>1, <2>2
<1>5. PlaceTypes' /\ Lasts /\ Defaults' = Defaults
  BY <1>3, <1>4 DEF PlaceInv, PlaceTypes, Lasts, Defaults, There, Inserted
<1>6. \A c \in Channels : (There(c)' => There(c)) /\ (Inserted(c)' => Inserted(c))
  BY <1>3 DEF There, Inserted
<1>7. Aims(r)' /\ Counted(r)' /\ Leads(r)'
  BY <1>2 DEF Aims, Counted, Leads, Idle
<1>8. ~Founding(r) /\ \A u \in Users : ~Brings(r, u)
  BY DEF PlaceInv, Leads, Founding, Brings, Role, Status, Permission
<1> QED
  BY <1>2, <1>3, <1>4, <1>5, <1>6, <1>7, <1>8, NothingOpens

\* A request that deletes or leaves a channel: never a default one.
LEMMA LeavingPlaces ==
    ASSUME Inv, PlaceInv, NEW r \in Requests, Delete(r) \/ Unseat(r)
    PROVE  PlaceInv'
<1> DEFINE c0 == req[r].c
<1>1. c0 \in Channels /\ chan[c0].st # "none" /\ ~chan[c0].default /\ req[r].op \notin {"found", "join"}
  BY DEF Delete, Unseat, PlaceInv, Aims, Leads, Inserted
<1>2. req'[r] = Idle /\ \A x \in Requests \ {r} : Stays(x)
  <2>1. Changed(r, "channel", Idle) \/ req' = [req EXCEPT ![r] = Idle]
    BY DEF Delete, Unseat, Finish
  <2> QED
    BY <2>1, IdleRequest, ChangedStays, ChangedFacts, ExceptStays
<1>3. UNCHANGED <<exists, role, doubled, early, cut>>
  BY DEF Delete, Unseat, people, past
<1>4. /\ chan' \in [Channels -> ChannelRow]
      /\ \A c \in Channels : /\ chan'[c].default = chan[c].default
                             /\ chan'[c].st = "none" <=> chan[c].st = "none"
                             /\ chan'[c].st = "there" => chan[c].st = "there"
                             /\ c # c0 => chan'[c] = chan[c]
  <2>1. CASE Delete(r)
    <3>1. chan' = [chan EXCEPT ![c0].st = "gone"]
      BY <2>1 DEF Delete
    <3> HIDE DEF c0
    <3> QED
      BY <1>1, <3>1 DEF PlaceInv, PlaceTypes, ChannelRow
  <2>2. CASE Unseat(r)
    BY <2>2 DEF Unseat, PlaceInv, PlaceTypes
  <2> QED
    BY <2>1, <2>2
<1>5. /\ seat' \in [Channels -> [Users -> {"out", "member", "owner"}]]
      /\ \A c \in Channels \ {c0} : seat'[c] = seat[c]
  <2>1. CASE Delete(r)
    BY <1>1, <2>1 DEF Delete, PlaceInv, PlaceTypes
  <2>2. CASE Unseat(r)
    BY <1>1, <2>2 DEF Unseat, PlaceInv, PlaceTypes
  <2> QED
    BY <2>1, <2>2
<1> HIDE DEF c0
<1>6. c0 \notin Defaults /\ Defaults' = Defaults
  BY <1>1, <1>4 DEF Defaults, There
<1>7. PlaceTypes' /\ Lasts
  BY <1>3, <1>4, <1>5, <1>6 DEF PlaceInv, PlaceTypes, Lasts, Inserted
<1>8. \A c \in Channels : (There(c)' => There(c)) /\ (Inserted(c)' => Inserted(c))
  BY <1>4 DEF There, Inserted
<1>9. Aims(r)' /\ Counted(r)' /\ Leads(r)'
  BY <1>2 DEF Aims, Counted, Leads, Idle
<1>10. ~Founding(r) /\ \A u \in Users : ~Brings(r, u)
  BY <1>1 DEF Founding, Brings
<1>11. \A c \in Defaults, u \in Users : seat[c][u] # "out" => seat'[c][u] # "out"
  BY <1>5, <1>6 DEF Defaults
<1> QED
  BY <1>2, <1>3, <1>6, <1>7, <1>8, <1>9, <1>10, <1>11, NothingOpens
\* A request that ends without deleting a channel or leaving one: the
\* founder and the one who joined are in, unless they were stopped.
LEMMA EndingPlaces ==
    ASSUME Inv, PlaceInv, NEW r \in Requests,
           Owner(r) \/ Patch(r) \/ Seat(r) \/ Star(r) \/ Stop(r)
    PROVE  PlaceInv'
<1> DEFINE q0 == req[r]
<1>1. req'[r] = Idle /\ \A x \in Requests \ {r} : Stays(x)
  <2>1. req' = [req EXCEPT ![r] = Idle]
    BY DEF Owner, Patch, Seat, Star, Stop, Finish
  <2> QED
    BY <2>1, IdleRequest, ExceptStays
<1>2. UNCHANGED <<exists, role, doubled, early>> /\ cut \subseteq cut'
  BY DEF Owner, Patch, Seat, Star, Stop, people, past
<1>3. /\ chan' \in [Channels -> ChannelRow]
      /\ \A c \in Channels : chan'[c].default = chan[c].default /\ chan'[c].st = chan[c].st
  <2>1. CASE Patch(r)
    <3>1. q0.c \in Channels /\ q0.flag \in BOOLEAN
      BY <2>1 DEF Patch, PlaceInv, Aims, Inv, TypeInv, Request
    <3>2. CASE chan' = chan
      BY <3>2 DEF PlaceInv, PlaceTypes
    <3>3. CASE chan' = [chan EXCEPT ![q0.c].private = q0.flag]
      <4>1. PICK c \in Channels, on \in BOOLEAN : chan' = [chan EXCEPT ![c].private = on]
        BY <3>1, <3>3
      <4> QED
        BY <4>1 DEF PlaceInv, PlaceTypes, ChannelRow
    <3> QED
      BY <2>1, <3>2, <3>3 DEF Patch
  <2>2. CASE Owner(r) \/ Seat(r) \/ Star(r) \/ Stop(r)
    BY <2>2 DEF Owner, Seat, Star, Stop, places, PlaceInv, PlaceTypes
  <2> QED
    BY <2>1, <2>2
<1>4. Defaults' = Defaults
  BY <1>3 DEF Defaults, There
<1>5. /\ seat' \in [Channels -> [Users -> {"out", "member", "owner"}]]
      /\ \A c \in Channels, u \in Users : seat[c][u] # "out" => seat'[c][u] # "out"
      /\ \A u \in Users : Brings(r, u) /\ cut' = {} => Seated(u)' \/ u \in early
  <2>1. CASE Owner(r)
    <3>1. q0.c \in Channels /\ q0.pc = "owner"
      BY <2>1 DEF Owner, PlaceInv, Aims
    <3>2. seat' = IF There(q0.c) /\ seat[q0.c][q0.user] = "out"
                  THEN [seat EXCEPT ![q0.c][q0.user] = "owner"] ELSE seat
      BY <2>1 DEF Owner
    <3>3. seat \in [Channels -> [Users -> {"out", "member", "owner"}]]
      BY DEF PlaceInv, PlaceTypes
    <3>4. /\ seat' \in [Channels -> [Users -> {"out", "member", "owner"}]]
          /\ \A c \in Channels, u \in Users : seat[c][u] # "out" => seat'[c][u] # "out"
      <4> HIDE DEF q0
      <4> QED
        BY <3>1, <3>2, <3>3
    <3>5. ASSUME NEW u \in Users \ early, Brings(r, u) PROVE Seated(u)'
      <4>1. q0.c \in Defaults /\ q0.user = u
        BY <3>1, <3>5 DEF Brings, PlaceInv, Leads
      <4>2. There(q0.c)
        BY <4>1 DEF Defaults
      <4>3. seat'[q0.c][u] # "out"
        <5> HIDE DEF q0
        <5> QED
          BY <3>1, <3>2, <3>3, <4>1, <4>2
      <4>4. q0.c \in Defaults'
        BY <1>4, <4>1
      <4>5. PICK c \in Channels : c = q0.c
        BY <3>1
      <4> QED
        BY <4>3, <4>4, <4>5 DEF Seated
    <3> QED
      BY <3>4, <3>5
  <2>2. CASE Seat(r)
    <3>1. q0.c \in Channels /\ q0.pc = "seat" /\ q0.who \subseteq Users
      BY <2>2 DEF Seat, PlaceInv, Aims, Inv, TypeInv, Request
    <3>2. seat' = IF There(q0.c) /\ \A u \in q0.who : seat[q0.c][u] = "out"
                  THEN [seat EXCEPT ![q0.c] = [u \in Users |-> IF u \in q0.who THEN "member" ELSE @[u]]]
                  ELSE seat
      BY <2>2 DEF Seat
    <3>3. seat \in [Channels -> [Users -> {"out", "member", "owner"}]]
      BY DEF PlaceInv, PlaceTypes
    <3>4. /\ seat' \in [Channels -> [Users -> {"out", "member", "owner"}]]
          /\ \A c \in Channels, u \in Users : seat[c][u] # "out" => seat'[c][u] # "out"
      <4> HIDE DEF q0
      <4> QED
        BY <3>1, <3>2, <3>3
    <3>5. ASSUME NEW u \in Users, Brings(r, u) PROVE Seated(u)'
      <4>1. q0.c \in Defaults /\ q0.user = u /\ q0.who = {u}
        BY <3>1, <3>5 DEF Brings, PlaceInv, Leads
      <4>2. There(q0.c)
        BY <4>1 DEF Defaults
      <4>3. seat'[q0.c][u] # "out"
        <5> HIDE DEF q0
        <5> QED
          BY <3>1, <3>2, <3>3, <4>1, <4>2
      <4>4. q0.c \in Defaults'
        BY <1>4, <4>1
      <4>5. PICK c \in Channels : c = q0.c
        BY <3>1
      <4> QED
        BY <4>3, <4>4, <4>5 DEF Seated
    <3> QED
      BY <3>4, <3>5
  <2>3. CASE Patch(r) \/ Star(r)
    BY <2>3 DEF Patch, Star, Brings, PlaceInv, PlaceTypes
  <2>4. CASE Stop(r)
    <3>1. cut' # {} /\ seat' = seat
      BY <2>4 DEF Stop, places
    <3> QED
      BY <3>1 DEF PlaceInv, PlaceTypes
  <2> QED
    BY <2>1, <2>2, <2>3, <2>4
<1>6. PlaceTypes' /\ Lasts
  BY <1>2, <1>3, <1>4, <1>5 DEF PlaceInv, PlaceTypes, Lasts, Inserted
<1>7. \A c \in Channels : (There(c)' => There(c)) /\ (Inserted(c)' => Inserted(c))
  BY <1>3 DEF There, Inserted
<1>8. Aims(r)' /\ Counted(r)' /\ Leads(r)'
  BY <1>1 DEF Aims, Counted, Leads, Idle
<1>9. Founding(r) => cut' # {} \/ Defaults # {}
  <2>1. CASE Owner(r)
    BY <2>1 DEF Owner, Founding, PlaceInv, Aims, Leads, Since
  <2>2. CASE Patch(r) \/ Star(r) \/ Seat(r)
    BY <2>2 DEF Patch, Star, Seat, Founding, PlaceInv, Leads
  <2>3. CASE Stop(r)
    BY <2>3 DEF Stop
  <2> QED
    BY <2>1, <2>2, <2>3
<1>10. cut' = {} => cut = {}
  BY <1>2
<1>11. \A u \in Users \ early' : Brings(r, u) /\ cut' = {} => Seated(u)'
  BY <1>2, <1>5
<1>12. \A c \in Defaults, u \in Users : seat[c][u] # "out" => seat'[c][u] # "out"
  BY <1>5 DEF Defaults
<1> HIDE DEF q0
<1> QED
  BY <1>1, <1>2, <1>4, <1>6, <1>7, <1>8, <1>9, <1>10, <1>11, <1>12, NothingOpens
\* A channel is the default one if whoever inserts it counted none.
LEMMA ChannelPlaces ==
    ASSUME Inv, PlaceInv, NEW r \in Requests, Channel(r)
    PROVE  PlaceInv'
<1> DEFINE q0 == req[r]
           first == q0.flag
           hidden == q0.as = "private"
<1>1. q0 \in Request /\ q0.pc = "channel" /\ q0.op # "join" /\ first \in BOOLEAN
  BY DEF Inv, TypeInv, Channel, PlaceInv, Leads, Request
<1>2. PICK c0 \in Channels :
         /\ chan[c0].st = "none"
         /\ chan' = [chan EXCEPT ![c0] = [st |-> "there", private |-> hidden, default |-> first]]
         /\ Changed(r, "channel", [q0 EXCEPT !.pc = "owner", !.c = c0])
  BY Zenon DEF Channel
<1> DEFINE q == [q0 EXCEPT !.pc = "owner", !.c = c0]
<1>3. /\ q \in Request /\ q.pc = "owner" /\ q.c = c0 /\ q.op = q0.op /\ q.user = q0.user
  <2> HIDE DEF q0
  <2> QED
    BY <1>1 DEF Request, Pcs
<1>4. Changed(r, "channel", q)
  BY <1>2
<1> HIDE DEF q
<1>5. /\ req'[r] = q /\ \A x \in Requests \ {r} : Stays(x)
      /\ \A x \in Requests \ {r} : req'[x].pc # "idle" => "channel" \in req'[x].late
  BY <1>3, <1>4, ChangedStays, ChangedFacts
<1>6. UNCHANGED <<exists, role, seat, early, cut>> /\ doubled' = (doubled \/ "channel" \in q0.late)
  BY DEF Channel, people
<1>7. hidden \in BOOLEAN /\ doubled' \in BOOLEAN
  BY <1>6, Zenon
<1>8. /\ first /\ "channel" \notin q0.late => \A c \in Channels : ~There(c)
      /\ (\A c \in Channels : ~Inserted(c)) => first
  BY <1>1 DEF PlaceInv, Counted
<1>9. q0.op = "found" => first \/ q0.user \in early
  BY <1>1 DEF PlaceInv, Leads
<1> HIDE DEF q0, first, hidden
<1>10. /\ chan' \in [Channels -> ChannelRow]
       /\ chan'[c0].st = "there" /\ chan'[c0].default = first
       /\ \A c \in Channels \ {c0} : chan'[c] = chan[c]
  BY <1>1, <1>2, <1>7 DEF PlaceInv, PlaceTypes, ChannelRow
<1>11. Defaults' = IF first THEN Defaults \cup {c0} ELSE Defaults
  BY <1>2, <1>10 DEF Defaults, There
<1>12. PlaceTypes' /\ Lasts
  BY <1>2, <1>6, <1>7, <1>10, <1>11 DEF PlaceInv, PlaceTypes, Lasts, Inserted
<1>13. \A x \in Requests : Aims(x)' /\ Counted(x)' /\ Leads(x)'
  <2>1. ASSUME NEW x \in Requests \ {r} PROVE Aims(x)' /\ Counted(x)' /\ Leads(x)'
    BY <1>5, <1>6, <1>12, GoesOn DEF PlaceInv
  <2>2. Aims(r)' /\ Counted(r)'
    BY <1>3, <1>5 DEF Aims, Counted
  <2>3. Leads(r)'
    BY <1>1, <1>3, <1>5, <1>6, <1>9, <1>10, <1>11 DEF Leads, Inserted
  <2> QED
    BY <2>1, <2>2, <2>3
<1>14. Alone'
  <2>1. ASSUME ~doubled' PROVE \A c, d \in Defaults' : c = d
    <3>1. ~doubled /\ "channel" \notin q0.late
      BY <1>6, <2>1
    <3>2. CASE first
      <4>1. Defaults = {}
        BY <1>8, <3>1, <3>2 DEF Defaults
      <4> QED
        BY <1>11, <3>2, <4>1
    <3>3. CASE ~first
      BY <1>11, <3>1, <3>3 DEF PlaceInv, Alone
    <3> QED
      BY <3>2, <3>3
  <2> QED
    BY <2>1 DEF Alone
<1>15. Defaults' # {}
  <2>1. CASE \A c \in Channels : ~Inserted(c)
    BY <1>8, <1>11, <2>1
  <2>2. CASE \E c \in Channels : Inserted(c)
    BY <1>11, <2>2 DEF PlaceInv, Since
  <2> QED
    BY <2>1, <2>2
<1>16. Housed'
  <2>1. ASSUME NEW x \in Requests, NEW u \in Users \ early', Brings(x, u) PROVE Brings(x, u)'
    <3>1. CASE x = r
      BY <1>1, <1>3, <1>5, <2>1, <3>1 DEF Brings, q0
    <3>2. CASE x # r
      <4>1. Stays(x)
        BY <1>5, <3>2
      <4> QED
        BY <2>1, <4>1 DEF Brings, Stays, Same
    <3> QED
      BY <3>1, <3>2
  <2> QED
    BY <2>1, <1>6, <1>12, StillHoused DEF PlaceInv, Lasts
<1> QED
  BY <1>12, <1>13, <1>14, <1>15, <1>16 DEF PlaceInv, Since, Opened

\* A new member is on the way to the default channel, or came before it.
LEMMA MemberPlaces ==
    ASSUME Inv, PlaceInv, NEW r \in Requests, Member(r)
    PROVE  PlaceInv'
<1> DEFINE q0 == req[r]
           u0 == q0.user
<1>1. /\ q0 \in Request /\ q0.pc = "member" /\ u0 \in Users
      /\ \/ q0.op = "found" /\ q0.as = "primary"
         \/ q0.op = "join" /\ q0.as = "member"
  <2>1. q0 \in Request /\ q0.pc = "member"
    <3>1. q0 \in Request
      BY DEF Inv, TypeInv
    <3> QED
      BY <3>1, Zenon DEF Member
  <2> QED
    BY <2>1 DEF Inv, Begun
<1>2. /\ UNCHANGED <<exists, chan, seat, doubled>>
      /\ early' = IF (q0.op = "join") = (Defaults = {}) THEN early \cup {u0} ELSE early
  BY Zenon DEF Member, places
<1>3. \A u \in Users : ~Brings(r, u)
  BY <1>1 DEF Brings
<1>4. \A c \in Channels : (There(c)' => There(c)) /\ (Inserted(c)' => Inserted(c))
  BY <1>2 DEF There, Inserted
<1>5. PlaceTypes' /\ Defaults' = Defaults /\ early \subseteq early'
  BY <1>2 DEF PlaceInv, PlaceTypes, Defaults, There
<1>6. CASE role[u0] # "none"
  <2>1. role' = role /\ req' = [req EXCEPT ![r] = Idle]
        /\ cut' = IF q0.op = "found" THEN cut \cup {u0} ELSE cut
    BY <1>6 DEF Member, Finish
  <2>2. req'[r] = Idle /\ \A x \in Requests \ {r} : Stays(x)
    BY <2>1, IdleRequest, ExceptStays
  <2>3. Aims(r)' /\ Counted(r)' /\ Leads(r)'
    BY <2>2 DEF Aims, Counted, Leads, Idle
  <2>4. Founding(r) => cut' # {}
    BY <2>1 DEF Founding
  <2>5. Lasts
    BY <1>2, <1>5, <2>1 DEF Lasts, Inserted
  <2>6. \A c \in Defaults, u \in Users : seat[c][u] # "out" => seat'[c][u] # "out"
    BY <1>2
  <2>7. cut' = {} => cut = {}
    BY <2>1
  <2> HIDE DEF q0, u0
  <2> QED
    BY <1>2, <1>3, <1>4, <1>5, <2>1, <2>2, <2>3, <2>4, <2>5, <2>6, <2>7, NothingOpens
<1>7. CASE role[u0] = "none"
  <2>1. role' = [role EXCEPT ![u0] = q0.as] /\ cut' = cut
    BY <1>7, Zenon DEF Member
  <2>2. /\ role'[u0] # "none" /\ \A u \in Users \ {u0} : role'[u] = role[u]
    BY <1>1, <2>1 DEF Inv, TypeInv
  <2>3. PICK q \in Request :
          /\ req' = [req EXCEPT ![r] = q]
          /\ \/ /\ q0.op = "found" /\ q.user = u0 /\ q.op = "found" /\ q.pc = "channel"
                /\ q.flag <=> \A c \in Channels : ~There(c)
             \/ q0.op = "join" /\ Defaults = {} /\ q = Idle
             \/ /\ q0.op = "join" /\ q.user = u0 /\ q.op = "join" /\ q.pc = "seat"
                /\ q.c \in Defaults /\ q.who = {u0}
    <3>1. CASE q0.op = "found"
      <4> DEFINE none == \A c \in Channels : ~There(c)
                 q == [q0 EXCEPT !.pc = "channel", !.as = "public", !.flag = none]
      <4>1. req' = [req EXCEPT ![r] = q]
        BY <1>7, <3>1 DEF Member
      <4>2. none \in BOOLEAN
        BY Zenon
      <4>3. q \in Request /\ q.pc = "channel" /\ q.op = "found" /\ q.user = u0 /\ q.flag = none
        <5>1. q0.op = "found" /\ q0 \in Request
          BY <1>1, <3>1
        <5> HIDE DEF q0, none
        <5> QED
          BY <4>2, <5>1 DEF Request, Pcs
      <4> HIDE DEF q
      <4> QED
        BY <3>1, <4>1, <4>3
    <3>2. CASE q0.op = "join" /\ Defaults = {} /\ Finish(r)
      BY <3>2, IdleRequest DEF Finish
    <3>3. ASSUME NEW c \in Defaults, q0.op = "join",
                 req' = [req EXCEPT ![r].pc = "seat", ![r].c = c, ![r].who = {u0}]
          PROVE  \E q \in Request :
                   /\ req' = [req EXCEPT ![r] = q] /\ q.user = u0
                   /\ q.op = "join" /\ q.pc = "seat" /\ q.c \in Defaults /\ q.who = {u0}
      <4> DEFINE q == [q0 EXCEPT !.pc = "seat", !.c = c, !.who = {u0}]
      <4>1. req' = [req EXCEPT ![r] = q]
        BY <3>3
      <4>2. q \in Request /\ q.pc = "seat" /\ q.op = q0.op /\ q.user = u0 /\ q.c = c /\ q.who = {u0}
        <5>1. c \in Channels /\ u0 \in Users /\ u0 = q0.user
          BY <1>1 DEF Defaults
        <5> HIDE DEF q0, u0
        <5> QED
          BY <1>1, <5>1 DEF Request, Pcs
      <4> HIDE DEF q
      <4> QED
        BY <3>3, <4>1, <4>2
    <3> QED
      <4>1. \/ q0.op = "found"
            \/ q0.op = "join" /\ Defaults = {} /\ Finish(r)
            \/ \E c \in Defaults :
                  q0.op = "join" /\ req' = [req EXCEPT ![r].pc = "seat", ![r].c = c, ![r].who = {u0}]
        BY <1>7, Zenon DEF Member
      <4> HIDE DEF q0, u0
      <4> QED
        BY <3>1, <3>2, <3>3, <4>1, Zenon
  <2>4. req'[r] = q /\ \A x \in Requests \ {r} : Stays(x)
    BY <2>3, ExceptStays
  <2> HIDE DEF q0, u0
  <2>5. Aims(r)' /\ Counted(r)' /\ Leads(r)'
    <3>1. Aims(r)'
      BY <2>3, <2>4, <1>5 DEF Aims, Idle, Defaults
    <3>2. Counted(r)'
      BY <2>3, <2>4, <1>2 DEF Counted, Idle, There, Inserted
    <3>3. q.op = "found" => q.flag \/ u0 \in early'
      BY <1>1, <1>2, <2>3 DEF PlaceInv, Since, Inserted, There, Idle
    <3>4. Leads(r)'
      BY <2>3, <2>4, <3>3, <1>5 DEF Leads, Idle
    <3> QED
      BY <3>1, <3>2, <3>4
  <2>6. Founding(r) => Founding(r)'
    BY <1>1, <2>3, <2>4 DEF Founding, q0
  <2>7. Lasts
    BY <1>2, <1>5, <2>2 DEF Lasts, Inserted
  <2>8. Housed'
    <3> PICK m \in Users : m = u0
      BY <1>1
    <3>1. ASSUME cut' = {}, NEW u \in Users \ early', role'[u] # "none", u # m
          PROVE  Seated(u)' \/ \E x \in Requests : Brings(x, u)'
      <4>1. Seated(u) \/ \E x \in Requests : Brings(x, u)
        BY <1>5, <2>1, <2>2, <3>1 DEF PlaceInv, Housed
      <4>2. Seated(u) => Seated(u)'
        BY <1>2, <1>5 DEF Seated
      <4>3. ASSUME NEW x \in Requests, Brings(x, u) PROVE Brings(x, u)'
        <5>1. Stays(x)
          BY <1>3, <2>4, <4>3
        <5> QED
          BY <4>3, <5>1 DEF Brings, Stays, Same
      <4> QED
        BY <4>1, <4>2, <4>3
    <3>2. m \in early' \/ Brings(r, m)'
      <4>1. CASE q0.op = "join" /\ Defaults = {}
        BY <1>2, <4>1
      <4>2. CASE q0.op = "found" \/ Defaults # {}
        BY <1>1, <2>3, <2>4, <4>2 DEF Brings
      <4> QED
        BY <1>1, <4>1, <4>2
    <3> QED
      <4>1. ASSUME cut' = {}, NEW u \in Users \ early', role'[u] # "none"
            PROVE  Seated(u)' \/ \E x \in Requests : Brings(x, u)'
        <5>1. CASE u = m
          BY <3>2, <4>1, <5>1
        <5>2. CASE u # m
          BY <3>1, <4>1, <5>2
        <5> QED
          BY <5>1, <5>2
      <4> QED
        BY <4>1 DEF Housed
  <2>9. exists' => exists
    BY <1>2
  <2> QED
    BY <1>2, <1>4, <1>5, <2>1, <2>4, <2>5, <2>6, <2>7, <2>8, <2>9, NoNewChannel
<1> QED
  BY <1>6, <1>7
(***************************************************************************)
(* The default channel: the theorems                                       *)
(***************************************************************************)
LEMMA InitPlaces == ASSUME Init PROVE PlaceInv
<1>1. /\ \A x \in Requests : req[x] = Idle
      /\ starred = {} /\ doubled = FALSE /\ early = {} /\ cut = {}
  BY DEF Init
<1>2. \A x \in Requests : Aims(x) /\ Counted(x) /\ Leads(x)
  BY <1>1 DEF Aims, Counted, Leads, Idle
<1>3. CASE /\ exists = FALSE /\ role = [u \in Users |-> "none"]
           /\ chan = [c \in Channels |-> NoChannel]
           /\ seat = [c \in Channels |-> [u \in Users |-> "out"]]
  <2>1. PlaceTypes
    BY <1>1, <1>3 DEF PlaceTypes, ChannelRow, NoChannel
  <2>2. \A c \in Channels : ~Inserted(c) /\ ~There(c)
    BY <1>3 DEF Inserted, There, NoChannel
  <2>3. Defaults = {}
    BY <2>2 DEF Defaults
  <2> QED
    BY <1>2, <1>3, <2>1, <2>2, <2>3 DEF PlaceInv, Alone, Since, Opened, Housed
<1>4. ASSUME NEW p \in Users, exists = TRUE, MaxChannels > 0,
             role \in [Users -> {"none", "member", "admin", "primary"}],
             chan = [c \in Channels |-> IF c = 1 THEN [NoChannel EXCEPT !.st = "there", !.default = TRUE]
                                        ELSE NoChannel],
             seat = [c \in Channels |-> [u \in Users |-> IF c # 1 \/ role[u] = "none" THEN "out"
                                                         ELSE IF u = p THEN "owner" ELSE "member"]]
      PROVE  PlaceInv
  <2>1. 1 \in Channels
    BY <1>4, WorkplaceAssumption DEF Channels
  <2>2. /\ chan \in [Channels -> ChannelRow] /\ chan[1].st = "there" /\ chan[1].default
        /\ \A c \in Channels \ {1} : chan[c].st = "none"
    BY <1>4, <2>1 DEF ChannelRow, NoChannel
  <2>3. PlaceTypes
    BY <1>1, <1>4, <2>2 DEF PlaceTypes
  <2>4. Defaults = {1}
    BY <2>1, <2>2 DEF Defaults, There
  <2>5. \A u \in Users : role[u] # "none" => Seated(u)
    BY <1>4, <2>1, <2>4 DEF Seated
  <2> QED
    BY <1>2, <2>3, <2>4, <2>5 DEF PlaceInv, Alone, Since, Opened, Housed
<1>5. \/ /\ exists = FALSE /\ role = [u \in Users |-> "none"]
         /\ chan = [c \in Channels |-> NoChannel]
         /\ seat = [c \in Channels |-> [u \in Users |-> "out"]]
      \/ \E p \in Users :
           /\ exists = TRUE /\ MaxChannels > 0
           /\ role \in {f \in [Users -> {"none", "member", "admin", "primary"}] :
                          \A u \in Users : f[u] = "primary" <=> u = p}
           /\ chan = [c \in Channels |-> IF c = 1 THEN [NoChannel EXCEPT !.st = "there", !.default = TRUE]
                                         ELSE NoChannel]
           /\ seat = [c \in Channels |-> [u \in Users |-> IF c # 1 \/ role[u] = "none" THEN "out"
                                                          ELSE IF u = p THEN "owner" ELSE "member"]]
  BY Zenon DEF Init
<1> QED
  BY <1>3, <1>4, <1>5

\* Every step keeps the default channel and its members.
LEMMA StepPlaces == ASSUME Inv, PlaceInv, [Next]_vars PROVE PlaceInv'
<1>1. ASSUME NEW r \in Requests, Arrive(r) \/ Step(r) \/ Stop(r) PROVE PlaceInv'
  BY <1>1, ArrivePlaces, FoundPlaces, MemberPlaces, PowerPlaces, ChannelPlaces, LeavingPlaces,
     EndingPlaces DEF Step
<1>2. CASE UNCHANGED vars
  BY <1>2 DEF vars, people, places, past, PlaceInv, PlaceTypes, Aims, Counted, Leads, Alone, Since,
              Opened, Housed, Defaults, There, Inserted, Founding, Seated, Brings
<1> QED
  BY <1>1, <1>2 DEF Next

\* It holds of every reachable state.
LEMMA PlacesAlways == Spec => []PlaceInv
<1>1. Init => PlaceInv
  BY InitPlaces
<1>2. Inv /\ PlaceInv /\ [Next]_vars => PlaceInv'
  BY StepPlaces
<1> QED
  BY <1>1, <1>2, InvAlways, PTL DEF Spec

\* A workspace has one default channel from the end of its founding on,
\* unless two of its first channels were created at the same time: nobody
\* deletes a default channel, and who creates a channel knows whether it is
\* the first.
THEOREM OneDefaultChannel == Spec => []OneDefault
<1>1. ASSUME PlaceInv, Settled, ~doubled PROVE Cardinality(Defaults) = 1
  <2>1. PICK c \in Defaults : TRUE
    BY <1>1 DEF PlaceInv, Opened, Settled
  <2>2. Defaults = {c}
    BY <1>1, <2>1 DEF PlaceInv, Alone
  <2> QED
    BY <2>2, FS_Singleton
<1>2. PlaceInv => OneDefault
  BY <1>1 DEF OneDefault
<1> QED
  BY <1>2, PlacesAlways, PTL

\* Every member is in a default channel once the request that let it in is
\* over, unless it came before there was one.
THEOREM MembersAreHoused == Spec => []InDefault
<1>1. ASSUME PlaceInv, Settled, NEW u \in Users \ early, role[u] # "none",
             \A r \in Requests : req[r].op = "join" => req[r].user # u
      PROVE  \E c \in Defaults : seat[c][u] # "out"
  <2>1. \A x \in Requests : ~Brings(x, u)
    BY <1>1 DEF Settled, Founding, Brings
  <2> QED
    BY <1>1, <2>1 DEF PlaceInv, Housed, Settled, Seated
<1>2. PlaceInv => InDefault
  BY <1>1 DEF InDefault
<1> QED
  BY <1>2, PlacesAlways, PTL
=============================================================================
