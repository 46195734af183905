---------------------------- MODULE EmailInvite -----------------------------
(***************************************************************************)
(* Invitations by email to a workspace and its channels                    *)
(* (src/src/email-invite, sendWorkspaceInvitesByEmail).  A guest is an     *)
(* address; codes are right or wrong; mails are sent or fail.  Redis keys  *)
(* of an invitation lapse at any time, an invitation expires at any time.  *)
(* An action is a statement, a transaction or a Redis command with the     *)
(* reads that follow it; refused requests are left out.                    *)
(***************************************************************************)
EXTENDS Naturals, FiniteSets

CONSTANTS
    Users,         \* guests, by their address
    Requests,      \* slots in which calls are in flight together
    MaxTries,      \* OTP_MAX_ATTEMPTS
    MaxInvites,    \* bound: rows ever inserted
    MaxCalls       \* bound: calls that ever arrive

VARIABLES
    invite,     \* invite[i]: the row of workspace_email_invites
    insider,    \* guests that have a row of workspace_members
    placed,     \* pairs of a guest and a channel it is in
    account,    \* guests that have a row of users
    key,        \* key[i]: the Redis keys of invitation i
    call,       \* the calls in flight
    calls,      \* how many have arrived
    crossed     \* history: guests invited by two calls that overlapped

vars == <<invite, insider, placed, account, key, call, calls, crossed>>

Invites == 1 .. MaxInvites
NoRow   == [st |-> "none", guest |-> 0, channel |-> 0, expired |-> FALSE]
NoKeys  == [otp |-> FALSE, ok |-> FALSE, tries |-> 0, locked |-> FALSE, cool |-> FALSE]
Idle    == [pc |-> "idle", op |-> "none", guest |-> 0, todo |-> {}, i |-> 0, late |-> FALSE]

Free(r)   == call[r] = Idle
Next1(S)  == CHOOSE c \in S : \A d \in S : c <= d
NewInvite == Next1({i \in Invites : invite[i].st = "none"})
Active(i) == invite[i].st = "pending" /\ ~invite[i].expired
Pending(rows, g) == {i \in Invites : rows[i].st = "pending" /\ rows[i].guest = g}

Begin(r, q) ==
    /\ Free(r) /\ calls < MaxCalls
    /\ calls' = calls + 1
    /\ call' = [call EXCEPT ![r] = q]
    /\ UNCHANGED <<invite, insider, placed, account, key, crossed>>

Becomes(r, q) == call' = [call EXCEPT ![r] = q]

(***************************************************************************)
(* Inviting: sendWorkspaceInvitesByEmail, createInvite                     *)
(***************************************************************************)
\* members are skipped; channel 0 stands for an invitation to none
ArriveInvite(r) ==
    \E g \in Users \ insider, cs \in {{0}, {1}, {1, 2}} :
        Begin(r, [Idle EXCEPT !.pc = "look", !.op = "invite", !.guest = g, !.todo = cs])

\* mutation: an absent channel compares with none
SameChannelSql(row, c) == row.channel = c /\ c # 0

SameChannel(row, c) == row.channel = c

\* one pending row, if there is any, the expired ones included
Look(r) ==
    LET q     == call[r]
        c     == Next1(q.todo)
        found == {i \in Pending(invite, q.guest) : SameChannel(invite[i], c)}
    IN  /\ q.pc = "look"
        /\ \/ \E i \in found : ~invite[i].expired /\ Becomes(r, [q EXCEPT !.pc = "mail"])
           \/ /\ found = {} \/ \E i \in found : invite[i].expired
              /\ Becomes(r, [q EXCEPT !.pc = "insert", !.late = FALSE])
        /\ UNCHANGED <<invite, insider, placed, account, key, calls, crossed>>

Insert(r) ==
    LET q == call[r] IN
    /\ q.pc = "insert" /\ \E i \in Invites : invite[i].st = "none"
    /\ invite' = [invite EXCEPT ![NewInvite] = [st |-> "pending", guest |-> q.guest, channel |-> Next1(q.todo), expired |-> FALSE]]
    /\ crossed' = IF q.late THEN crossed \cup {q.guest} ELSE crossed
    /\ call' = [x \in Requests |-> IF x = r THEN [q EXCEPT !.pc = "mail"]
                                   ELSE IF call[x].guest = q.guest THEN [call[x] EXCEPT !.late = TRUE] ELSE call[x]]
    /\ UNCHANGED <<insider, placed, account, key, calls>>

\* the mail, whose failure ends the call, then the next channel
Mail(r) ==
    LET q    == call[r]
        rest == q.todo \ {Next1(q.todo)}
    IN  /\ q.pc = "mail"
        /\ \/ Becomes(r, Idle)
           \/ rest # {} /\ Becomes(r, [q EXCEPT !.pc = "look", !.todo = rest])
        /\ UNCHANGED <<invite, insider, placed, account, key, calls, crossed>>

(***************************************************************************)
(* The code: sendOtp, verifyOtp, recordFailedAttempt                       *)
(***************************************************************************)
\* SET NX of the cooldown
ArriveSend(r) ==
    \E i \in Invites :
        /\ Active(i) /\ ~key[i].cool /\ Free(r) /\ calls < MaxCalls
        /\ calls' = calls + 1
        /\ key' = [key EXCEPT ![i].cool = TRUE]
        /\ Becomes(r, [Idle EXCEPT !.pc = "code", !.op = "send", !.i = i])
        /\ UNCHANGED <<invite, insider, placed, account, crossed>>

\* the code, then the count and the lock are cleared; that the mail fails
\* changes nothing more
Code(r) ==
    LET q == call[r] IN
    /\ q.pc \in {"code", "count", "lock"} /\ q.op = "send"
    /\ CASE q.pc = "code"  -> key' = [key EXCEPT ![q.i].otp = TRUE] /\ Becomes(r, [q EXCEPT !.pc = "count"])
         [] q.pc = "count" -> key' = [key EXCEPT ![q.i].tries = 0] /\ Becomes(r, [q EXCEPT !.pc = "lock"])
         [] OTHER          -> key' = [key EXCEPT ![q.i].locked = FALSE] /\ Becomes(r, Idle)
    /\ UNCHANGED <<invite, insider, placed, account, calls, crossed>>

ArriveVerify(r) ==
    \E i \in Invites, right \in BOOLEAN :
        /\ Active(i) /\ ~key[i].locked /\ key[i].otp
        /\ Begin(r, [Idle EXCEPT !.pc = IF right THEN "right" ELSE "wrong", !.op = "verify", !.i = i])

Verify(r) ==
    LET q == call[r]
        n == key[q.i].tries + 1
    IN  /\ \/ q.pc = "right" /\ key' = [key EXCEPT ![q.i].ok = TRUE] /\ Becomes(r, Idle)
           \/ /\ q.pc = "wrong" /\ key' = [key EXCEPT ![q.i].tries = IF n > MaxTries THEN MaxTries ELSE n]
              /\ Becomes(r, IF n < MaxTries THEN Idle ELSE [q EXCEPT !.pc = "full"])
           \/ q.pc = "full" /\ key' = [key EXCEPT ![q.i].locked = TRUE] /\ Becomes(r, Idle)
        /\ UNCHANGED <<invite, insider, placed, account, calls, crossed>>

(***************************************************************************)
(* Accepting: acceptInvite, acceptPendingChannelInvitesForUser             *)
(***************************************************************************)
\* by the code, which must have been right, or by a sign-in elsewhere
ArriveAccept(r) ==
    \E i \in Invites, how \in {"otp", "oauth"} :
        /\ Active(i)
        /\ how = "otp" => key[i].ok
        /\ Begin(r, [Idle EXCEPT !.pc = "user", !.op = "accept", !.guest = invite[i].guest, !.i = i])

\* findOrCreateUserByEmail, then the look for a membership
User(r) ==
    LET q == call[r] IN
    /\ q.pc = "user"
    /\ account' = account \cup {q.guest}
    /\ Becomes(r, [q EXCEPT !.pc = IF q.guest \in insider THEN "again" ELSE "enter"])
    /\ UNCHANGED <<invite, insider, placed, key, calls, crossed>>

\* one transaction: the pending rows become accepted, then a seat is
\* inserted for the channel of each row that is pending
Accepted(g, all) == [i \in Invites |-> IF i \in Pending(invite, g) /\ (all \/ invite[i].channel # 0)
                                       THEN [invite[i] EXCEPT !.st = "accepted"] ELSE invite[i]]
Seats(rows, g)   == {<<g, rows[i].channel>> : i \in {j \in Pending(rows, g) : rows[j].channel # 0}}

\* the row of the member is refused if there is one by now
Enter(r) ==
    LET q == call[r] IN
    /\ q.pc = "enter"
    /\ IF q.guest \in insider
       THEN Becomes(r, Idle) /\ UNCHANGED <<invite, insider, placed>>
       ELSE /\ insider' = insider \cup {q.guest}
            /\ invite' = Accepted(q.guest, TRUE)
            /\ placed' = placed \cup Seats(invite', q.guest)
            /\ Becomes(r, [q EXCEPT !.pc = "clean"])
    /\ UNCHANGED <<account, key, calls, crossed>>

Again(r) ==
    LET q == call[r] IN
    /\ q.pc = "again"
    /\ invite' = Accepted(q.guest, FALSE)
    /\ placed' = placed \cup Seats(invite', q.guest)
    /\ Becomes(r, Idle)
    /\ UNCHANGED <<insider, account, key, calls, crossed>>

Clean(r) ==
    /\ call[r].pc = "clean"
    /\ key' = [key EXCEPT ![call[r].i] = NoKeys]
    /\ Becomes(r, Idle)
    /\ UNCHANGED <<invite, insider, placed, account, calls, crossed>>

(***************************************************************************)
(* Time, and the other way in                                              *)
(***************************************************************************)
Expire(i) ==
    /\ Active(i)
    /\ invite' = [invite EXCEPT ![i].expired = TRUE]
    /\ UNCHANGED <<insider, placed, account, key, call, calls, crossed>>

Lapse(i) ==
    /\ \E k \in {"otp", "ok", "locked", "cool"} : key[i][k] /\ key' = [key EXCEPT ![i][k] = FALSE]
    /\ UNCHANGED <<invite, insider, placed, account, call, calls, crossed>>

\* joinByInviteCode
ByCode(g) ==
    /\ g \in account \ insider
    /\ insider' = insider \cup {g}
    /\ UNCHANGED <<invite, placed, account, key, call, calls, crossed>>

Init ==
    /\ invite = [i \in Invites |-> NoRow] /\ key = [i \in Invites |-> NoKeys]
    /\ insider = {} /\ placed = {} /\ account \in SUBSET Users
    /\ call = [r \in Requests |-> Idle] /\ calls = 0 /\ crossed = {}

Next ==
    \/ \E r \in Requests : \/ ArriveInvite(r) \/ ArriveSend(r) \/ ArriveVerify(r) \/ ArriveAccept(r)
                           \/ Look(r) \/ Insert(r) \/ Mail(r) \/ Code(r) \/ Verify(r)
                           \/ User(r) \/ Enter(r) \/ Again(r) \/ Clean(r)
    \/ \E i \in Invites : Expire(i) \/ Lapse(i)
    \/ \E g \in Users : ByCode(g)

Spec == Init /\ [][Next]_vars

(***************************************************************************)
(* Properties                                                              *)
(***************************************************************************)
\* A guest has one working link for each channel it is invited to, unless
\* two calls invited it at the same time, or an expired invitation is still
\* pending and found in place of the working one (createInvite, which says
\* it returns the token there is).
OneLink ==
    \A i, j \in Invites :
        /\ i # j /\ Active(i) /\ Active(j)
        /\ invite[i].guest = invite[j].guest /\ invite[i].channel = invite[j].channel
        => \/ invite[i].guest \in crossed
           \/ \E k \in Pending(invite, invite[i].guest) : invite[k].channel = invite[i].channel /\ invite[k].expired

\* Accepting an invitation to a channel puts the guest in the channel, as
\* the comments of acceptInvite and sendWorkspaceInvitesByEmail say.
InvitedArePlaced ==
    \A i \in Invites :
        invite[i].st = "accepted" /\ invite[i].channel # 0 => <<invite[i].guest, invite[i].channel>> \in placed

=============================================================================
