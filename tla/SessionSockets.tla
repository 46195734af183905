--------------------------- MODULE SessionSockets ---------------------------
(***************************************************************************)
(* The Socket.IO connections opened with the access tokens of a login      *)
(* session, beside the requests of AuthSession (src/src/chat/main.gateway: *)
(* handleConnection, handleDisconnect, the revocation subscriber of        *)
(* afterInit, the revalidation and expiry timers).                         *)
(***************************************************************************)
EXTENDS AuthSession

CONSTANT Sockets     \* connections the clients of the session ever open

VARIABLE sock        \* each connection

sockVars == <<sock, authVars>>

\* pc: "assert" and "blacklist" are the awaits of handleConnection; "on" is
\* after them, with client.data.sid set and the timers started
Socket == [pc     : {"off", "assert", "blacklist", "on"},
           up     : BOOLEAN,       \* client.connected
           timer  : BOOLEAN,       \* its revalidation interval is running
           worker : Workers,
           acc    : Access]

SocketsOK == sock \in [Sockets -> Socket]

SockInit ==
    /\ AuthInit
    /\ sock \in [Sockets -> {x \in Socket : x.pc = "off" /\ ~x.up /\ ~x.timer}]

Live(s) == sock[s].pc = "on" /\ sock[s].up

-----------------------------------------------------------------------------
\* client.disconnect: handleDisconnect clears the interval there is now
Dropped(x) == [x EXCEPT !.up = FALSE, !.timer = FALSE]

SockStep(s, x) == sock' = [sock EXCEPT ![s] = x] /\ UNCHANGED authVars

\* the handshake carries an access token that has not expired
Connect(s) ==
    /\ sock[s].pc = "off" /\ ~sock[s].timer
    /\ SockStep(s, [sock[s] EXCEPT !.pc = "assert", !.up = TRUE])

AssertActive(s) ==
    /\ sock[s].pc = "assert"
    /\ SockStep(s, IF store = NoToken THEN [Dropped(sock[s]) EXCEPT !.pc = "off"]
                   ELSE [sock[s] EXCEPT !.pc = "blacklist"])

\* nothing asks whether the client is still connected
Accept(s) ==
    /\ sock[s].pc = "blacklist"
    /\ SockStep(s, IF sock[s].acc \in barred
                   THEN [Dropped(sock[s]) EXCEPT !.pc = "off"]
                   ELSE [sock[s] EXCEPT !.pc = "on", !.timer = TRUE])

\* a Redis command of the handshake fails
HandshakeFails(s) ==
    /\ sock[s].pc \in {"assert", "blacklist"}
    /\ SockStep(s, [Dropped(sock[s]) EXCEPT !.pc = "off"])

\* the client leaves, or the access token expires; a handshake in progress
\* goes on without it
Disconnect(s) ==
    /\ sock[s].up
    /\ SockStep(s, [Dropped(sock[s]) EXCEPT
                        !.pc = IF @ = "on" THEN "off" ELSE @])

\* mutation: revalidation looks at the blacklist only
RevalidateToken(s) ==
    /\ Live(s) /\ sock[s].timer
    /\ sock[s].acc \in barred
    /\ SockStep(s, [Dropped(sock[s]) EXCEPT !.pc = "off"])

\* revalidateSocketSession when it finds something wrong; the two reads are
\* one step, a socket that loses the session between them is cut next time
Revalidate(s) ==
    /\ Live(s) /\ sock[s].timer
    /\ store = NoToken \/ sock[s].acc \in barred
    /\ SockStep(s, [Dropped(sock[s]) EXCEPT !.pc = "off"])

\* a Redis failure under it is as good as a revoked session
RevalidateFails(s) ==
    /\ Live(s) /\ sock[s].timer
    /\ SockStep(s, [Dropped(sock[s]) EXCEPT !.pc = "off"])

\* the subscriber cuts the sockets whose sid is set; those still in their
\* handshake have none
CutSockets(w) ==
    /\ Heard(w)
    /\ sock' = [s \in Sockets |->
                  IF Live(s) /\ sock[s].worker = w
                  THEN [Dropped(sock[s]) EXCEPT !.pc = "off"] ELSE sock[s]]

\* the subscription was down
MissNotice(w) == Heard(w) /\ UNCHANGED sock

Handshake(s) == AssertActive(s) \/ Accept(s) \/ HandshakeFails(s)

AuthOnly ==
    /\ \/ GraceLapses \/ TokenAges
       \/ \E r \in Requests : Refresh(r) \/ SignOut(r) \/ RedisFails(r)
    /\ UNCHANGED sock

SockNext ==
    \/ AuthOnly
    \/ \E w \in Workers : CutSockets(w) \/ MissNotice(w)
    \/ \E s \in Sockets : \/ Connect(s) \/ Handshake(s) \/ Disconnect(s)
                          \/ Revalidate(s) \/ RevalidateFails(s)

\* the interval of a live socket fires again and again
SockSpec == SockInit /\ [][SockNext]_sockVars
                     /\ \A s \in Sockets : WF_sockVars(Revalidate(s))

-----------------------------------------------------------------------------
\* Once the session is gone (sign-out, reuse, expiry) its sockets go too and
\* none comes back, even those whose handshake had passed assertActive when
\* the session was revoked and whose worker had the message before their sid
\* was set, and even when the message is lost.
SocketsEnd ==
    (store = NoToken) ~> [](\A s \in Sockets : ~Live(s))
=============================================================================
