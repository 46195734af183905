----------------------------- MODULE AuthSession -----------------------------
(***************************************************************************)
(* One login session: the record auth:session:<sid> in Redis, the grace    *)
(* entries of rotated tokens, the blacklists, and the refresh and sign-out *)
(* requests of a browser that hold the session's tokens                    *)
(* (src/src/auth: auth-session.service.ts, auth.service.ts, the JWT        *)
(* strategies and auth.controller.ts).                                     *)
(*                                                                         *)
(* Every await on Redis is a step; only the rotation script is atomic.     *)
(* Sessions share no key, so one session is the whole story.  A token is   *)
(* the number of its issue; the hash of a token is the token.              *)
(***************************************************************************)
EXTENDS Naturals

CONSTANTS
    MaxTokens,   \* bound: refresh tokens ever issued for the session
    Requests,    \* the slots in which requests are in flight together
    Access,      \* access tokens issued for the session
    NoAccess,    \* "no valid access token"
    Workers      \* gateway processes subscribed to auth:session-revoked

ASSUME AuthAssumption == MaxTokens \in Nat \ {0} /\ NoAccess \notin Access

VARIABLES
    store,     \* tokenHash of auth:session:<sid>, NoToken when it is gone
    issued,    \* tokens 0 .. issued - 1 have been current
    grace,     \* auth:rotation:<sid>:<hash>: the answer kept for 10 seconds
    age,       \* of a token: "due" inside the rotate window, "expired"
    denied,    \* blacklisted refresh tokens
    barred,    \* blacklisted access tokens
    jar,       \* the refresh_token cookie of the browser
    notices,   \* workers with an undelivered revocation message
    out,       \* a sign-out that revoked the session has answered 200
    given,     \* <<t, u>>: a refresh with token t was answered with token u
    req        \* the requests in flight

authVars == <<store, issued, grace, age, denied, barred, jar, notices, out,
              given, req>>

Tokens  == 0 .. MaxTokens - 1
NoToken == MaxTokens
Issued  == 0 .. issued - 1

SignOutTasks == {"barAccess", "denyRefresh", "delete", "publish"}

PCs == {"idle", "denied", "active", "read", "grace", "rotate", "revoke",
        "publish", "answer", "signOut", "detached"}

Request == [pc     : PCs,
            tok    : Tokens \cup {NoToken},   \* the token it carries
            ans    : Tokens \cup {NoToken},   \* the token of its answer
            acc    : Access \cup {NoAccess},  \* a sign-out's access token
            tasks  : SUBSET SignOutTasks,     \* what a sign-out has left to do
            failed : BOOLEAN]                 \* a task of it failed

Idle == [pc |-> "idle", tok |-> NoToken, ans |-> NoToken,
         acc |-> NoAccess, tasks |-> {}, failed |-> FALSE]

TypeOK ==
    /\ store \in Tokens \cup {NoToken}
    /\ issued \in 1 .. MaxTokens
    /\ grace \in [Tokens -> Tokens \cup {NoToken}]
    /\ age \in [Tokens -> {"fresh", "due", "expired"}]
    /\ denied \in SUBSET Tokens
    /\ barred \in SUBSET Access
    /\ jar \in Tokens \cup {NoToken}
    /\ notices \in SUBSET Workers
    /\ out \in BOOLEAN
    /\ given \in SUBSET (Tokens \X Tokens)
    /\ req \in [Requests -> Request]

\* createLoginTokens has stored the first token and set the cookies
AuthInit ==
    /\ store = 0 /\ issued = 1 /\ jar = 0
    /\ grace = [t \in Tokens |-> NoToken]
    /\ age = [t \in Tokens |-> "fresh"]
    /\ denied = {} /\ barred = {}
    /\ notices = {} /\ out = FALSE /\ given = {}
    /\ req = [r \in Requests |-> Idle]

-----------------------------------------------------------------------------
At(r, pc)     == req[r].pc = pc
Becomes(r, x) == req' = [req EXCEPT ![r] = x]
Go(r, pc)     == Becomes(r, [req[r] EXCEPT !.pc = pc])
Finish(r)     == Becomes(r, Idle)

\* the answer to a refresh; setTokenCookies works on the response alone
Answer(r, u) ==
    /\ Becomes(r, [req[r] EXCEPT !.pc = "answer", !.ans = u])
    /\ given' = given \cup {<<req[r].tok, u>>}

redis == <<store, issued, grace, denied, barred, notices>>

-----------------------------------------------------------------------------
(* POST auth/refresh: JwtRefreshStrategy.validate, then refreshTokens *)

\* any holder of a token that has not expired: the browser, a tab with an
\* older copy of the cookie, a client that missed an answer
SendRefresh(r) ==
    /\ At(r, "idle")
    /\ \E t \in Issued :
        /\ age[t] # "expired"
        /\ Becomes(r, [Idle EXCEPT !.pc = "denied", !.tok = t])
    /\ UNCHANGED <<redis, age, jar, out, given>>

CheckDenied(r) ==
    /\ At(r, "denied")
    /\ IF req[r].tok \in denied THEN Finish(r) ELSE Go(r, "active")
    /\ UNCHANGED <<redis, age, jar, out, given>>

\* assertActive of the strategy
CheckActive(r) ==
    /\ At(r, "active")
    /\ IF store = NoToken THEN Finish(r) ELSE Go(r, "read")
    /\ UNCHANGED <<redis, age, jar, out, given>>

\* assertActive of refreshTokens, and what it does with the session it read
ReadSession(r) ==
    /\ At(r, "read")
    /\ \/ store = NoToken /\ Finish(r) /\ UNCHANGED given
       \/ /\ store \notin {NoToken, req[r].tok}
          /\ Go(r, "grace") /\ UNCHANGED given
       \/ store = req[r].tok /\ age[store] = "fresh" /\ Answer(r, store)
       \/ /\ store = req[r].tok /\ age[store] # "fresh"
          /\ Go(r, "rotate") /\ UNCHANGED given
    /\ UNCHANGED <<redis, age, jar, out>>

ReadGrace(r) ==
    /\ At(r, "grace")
    /\ \/ grace[req[r].tok] # NoToken /\ Answer(r, grace[req[r].tok])
       \/ grace[req[r].tok] = NoToken /\ Go(r, "revoke") /\ UNCHANGED given
    /\ UNCHANGED <<redis, age, jar, out>>

\* mutation: the script compares no hash
RotateUnchecked(r) ==
    /\ At(r, "rotate") /\ store # NoToken /\ issued \in Tokens
    /\ store' = issued /\ issued' = issued + 1
    /\ grace' = [grace EXCEPT ![req[r].tok] = issued]
    /\ Answer(r, issued)
    /\ UNCHANGED <<age, denied, barred, jar, notices, out>>

\* mutation: the script trusts the session read before it and sets the key
RotateRevives(r) ==
    /\ At(r, "rotate") /\ issued \in Tokens
    /\ store' = issued /\ issued' = issued + 1
    /\ grace' = [grace EXCEPT ![req[r].tok] = issued]
    /\ Answer(r, issued)
    /\ UNCHANGED <<age, denied, barred, jar, notices, out>>

\* rotateScript; the token generated for a rotation that does not happen is
\* dropped
Rotate(r) ==
    /\ At(r, "rotate")
    /\ \/ /\ store = req[r].tok /\ issued \in Tokens
          /\ store' = issued /\ issued' = issued + 1
          /\ grace' = [grace EXCEPT ![req[r].tok] = issued]
          /\ Answer(r, issued)
       \/ /\ store \notin {NoToken, req[r].tok} /\ Go(r, "grace")
          /\ UNCHANGED <<store, issued, grace, given>>
       \/ /\ store = NoToken /\ Finish(r)
          /\ UNCHANGED <<store, issued, grace, given>>
    /\ UNCHANGED <<age, denied, barred, jar, notices, out>>

\* revoke: DEL, then PUBLISH, then 401
RevokeReused(r) ==
    /\ At(r, "revoke")
    /\ store' = NoToken
    /\ Go(r, "publish")
    /\ UNCHANGED <<issued, grace, age, denied, barred, jar, notices, out, given>>

PublishReused(r) ==
    /\ At(r, "publish")
    /\ notices' = Workers
    /\ Finish(r)
    /\ UNCHANGED <<store, issued, grace, age, denied, barred, jar, out, given>>

\* the response reaches the browser, or does not
Deliver(r) ==
    /\ At(r, "answer")
    /\ jar' \in {req[r].ans, jar}
    /\ Finish(r)
    /\ UNCHANGED <<redis, age, out, given>>

-----------------------------------------------------------------------------
(* POST auth/sign-out: logoutUser runs its tasks together (Promise.all)    *)

\* the tokens name the session: an expired one is as good as none
NamesSession(x) == x.acc # NoAccess \/ age[x.tok] # "expired"

SendSignOut(r) ==
    /\ At(r, "idle") /\ jar # NoToken
    /\ \E a \in Access \cup {NoAccess} :
        LET x == [Idle EXCEPT !.pc = "signOut", !.tok = jar, !.acc = a]
        IN  Becomes(r, [x EXCEPT !.tasks =
                {task \in {"barAccess"}   : a # NoAccess} \cup
                {task \in {"denyRefresh"} : age[jar] # "expired"} \cup
                {task \in {"delete"}      : NamesSession(x)}])
    /\ UNCHANGED <<redis, age, jar, out, given>>

\* mutation: sign-out blacklists the tokens and leaves the session
DeleteSkipped(r) ==
    /\ "delete" \in req[r].tasks
    /\ Becomes(r, [req[r] EXCEPT !.tasks = (@ \ {"delete"}) \cup {"publish"}])
    /\ UNCHANGED <<redis, age, jar, out, given>>

\* revoke of a sign-out: DEL, after which its PUBLISH is due
Delete(r) ==
    /\ "delete" \in req[r].tasks
    /\ store' = NoToken
    /\ Becomes(r, [req[r] EXCEPT !.tasks = (@ \ {"delete"}) \cup {"publish"}])
    /\ UNCHANGED <<issued, grace, age, denied, barred, jar, notices, out, given>>

Publish(r) ==
    /\ "publish" \in req[r].tasks
    /\ notices' = Workers
    /\ Becomes(r, [req[r] EXCEPT !.tasks = @ \ {"publish"}])
    /\ UNCHANGED <<store, issued, grace, age, denied, barred, jar, out, given>>

DenyRefresh(r) ==
    /\ "denyRefresh" \in req[r].tasks
    /\ denied' = denied \cup {req[r].tok}
    /\ Becomes(r, [req[r] EXCEPT !.tasks = @ \ {"denyRefresh"}])
    /\ UNCHANGED <<store, issued, grace, age, barred, jar, notices, out, given>>

BarAccess(r) ==
    /\ "barAccess" \in req[r].tasks
    /\ barred' = barred \cup {req[r].acc}
    /\ Becomes(r, [req[r] EXCEPT !.tasks = @ \ {"barAccess"}])
    /\ UNCHANGED <<store, issued, grace, age, denied, jar, notices, out, given>>

\* Promise.all answers when all tasks are done, or at the first failure while
\* the others go on; the cookies are cleared either way, and the response may
\* be lost
AnswerSignOut(r) ==
    /\ At(r, "signOut")
    /\ req[r].tasks = {} \/ req[r].failed
    /\ jar' \in {NoToken, jar}
    /\ out' = (out \/ (~req[r].failed /\ NamesSession(req[r])))
    /\ IF req[r].tasks = {} THEN Finish(r) ELSE Go(r, "detached")
    /\ UNCHANGED <<redis, age, given>>

Detached(r) ==
    /\ At(r, "detached") /\ req[r].tasks = {}
    /\ Finish(r)
    /\ UNCHANGED <<redis, age, jar, out, given>>

-----------------------------------------------------------------------------
(* Redis fails a command: a refresh answers 503, a sign-out loses the task *)
RedisFails(r) ==
    /\ \/ /\ req[r].pc \in {"denied", "active", "read", "grace", "rotate",
                            "revoke", "publish"}
          /\ Finish(r)
       \/ \E task \in req[r].tasks :
            Becomes(r, [req[r] EXCEPT !.tasks = @ \ {task}, !.failed = TRUE])
    /\ UNCHANGED <<redis, age, jar, out, given>>

(* A worker gets the message, or its subscription misses it. *)
Heard(w) ==
    /\ w \in notices
    /\ notices' = notices \ {w}
    /\ UNCHANGED <<store, issued, grace, age, denied, barred, jar, out, given,
                   req>>

(* Time.  A grace entry may lapse under a slow request; tokens age in days, *)
(* between requests.  The key of the session has the lifetime of its token. *)
GraceLapses ==
    /\ \E t \in Tokens : /\ grace[t] # NoToken
                         /\ grace' = [grace EXCEPT ![t] = NoToken]
    /\ UNCHANGED <<store, issued, age, denied, barred, jar, notices, out,
                   given, req>>

TokenAges ==
    /\ \A r \in Requests : At(r, "idle")
    /\ \E t \in Issued :
        \/ /\ age[t] = "fresh" /\ issued \in Tokens
           /\ age' = [age EXCEPT ![t] = "due"]
           /\ UNCHANGED store
        \/ /\ age[t] = "due"
           /\ age' = [age EXCEPT ![t] = "expired"]
           /\ store' = IF store = t THEN NoToken ELSE store
    /\ UNCHANGED <<issued, grace, denied, barred, jar, notices, out, given, req>>

Refresh(r) == \/ SendRefresh(r) \/ CheckDenied(r) \/ CheckActive(r)
              \/ ReadSession(r) \/ ReadGrace(r) \/ Rotate(r)
              \/ RevokeReused(r) \/ PublishReused(r) \/ Deliver(r)
SignOut(r) == \/ SendSignOut(r) \/ Delete(r) \/ Publish(r) \/ DenyRefresh(r)
              \/ BarAccess(r) \/ AnswerSignOut(r) \/ Detached(r)

AuthNext ==
    \/ GraceLapses \/ TokenAges
    \/ \E w \in Workers : Heard(w)
    \/ \E r \in Requests : Refresh(r) \/ SignOut(r) \/ RedisFails(r)

AuthSpec == AuthInit /\ [][AuthNext]_authVars

-----------------------------------------------------------------------------
(* Properties *)

\* The successor of a token is the token issued next: the current token is
\* the last one issued, a grace entry or an answer to t is t's successor, and
\* a request about to rotate presents a token that has been current.
ChainOK ==
    /\ store \in {NoToken, issued - 1}
    /\ \A t \in Tokens : grace[t] # NoToken => grace[t] = t + 1 /\ t + 1 < issued
    /\ \A p \in given : p[2] \in {p[1], p[1] + 1}

\* A request carries a token once it is under way, and only a sign-out has
\* tasks.
CarriesOK(x) ==
    /\ x.pc # "idle" => x.tok \in Tokens
    /\ "barAccess" \in x.tasks => x.acc \in Access
    /\ x.pc \notin {"signOut", "detached"} => x.tasks = {}

\* A sign-out that named the session, lost no task and has run its DEL knows
\* that the session is gone, whatever refreshes ran between its tasks.
Revoked(x) == /\ x.pc = "signOut" /\ ~x.failed
              /\ NamesSession(x) /\ "delete" \notin x.tasks

SignOutOK == \A r \in Requests : Revoked(req[r]) => store = NoToken

\* However many refreshes run at once and however late each step of them is,
\* all that present the same token and are given another are given the same
\* one: the rotation script and the grace entry never split the session
\* into two token families.
OneSuccessor ==
    \A p, q \in given :
        p[1] = q[1] /\ p[2] # p[1] /\ q[2] # q[1] => p[2] = q[2]

\* After a sign-out that named the session has answered 200, no refresh that
\* was on its way (past its checks, or about to run the script) brings the
\* session back.
SignedOutStaysOut == out => store = NoToken

\* The inductive invariant behind the two.
AuthInv == /\ TypeOK /\ ChainOK /\ SignOutOK /\ SignedOutStaysOut
           /\ \A r \in Requests : CarriesOK(req[r])

\* A session is a chain of tokens: each rotation makes a token current that
\* never was, and a session that is over is never current again.
Chain == INSTANCE TokenChain WITH current <- store, past <- Issued
ChainSpec == Chain!Spec
=============================================================================
