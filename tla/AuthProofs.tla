----------------------------- MODULE AuthProofs -----------------------------
(***************************************************************************)
(* For any number of requests, tokens and workers: the answers to a token  *)
(* agree on its successor, a session that a sign-out confirmed stays out,  *)
(* and the session is a chain of tokens.                                   *)
(*                                                                         *)
(* OneSuccessor needs what the grace entries and the script hand out       *)
(* (ChainOK); SignedOutStaysOut needs what a sign-out knows while its      *)
(* tasks still run (SignOutOK).  AuthInv is their conjunction with the     *)
(* types.  The sockets only watch the session, so all of it holds of       *)
(* SockSpec too.                                                           *)
(***************************************************************************)
EXTENDS SessionSockets, TLAPS

USE AuthAssumption

\* Where a token can stand.
LEMMA Bounds == /\ Tokens \subseteq Nat /\ NoToken \in Nat
                /\ NoToken \notin Tokens /\ 0 \in Tokens
  BY DEF Tokens, NoToken

\* Initially the first token is current and no request is in flight.
LEMMA InitAuthInv == AuthInit => AuthInv
<1>. SUFFICES ASSUME AuthInit PROVE AuthInv
  OBVIOUS
<1>1. Idle \in Request /\ CarriesOK(Idle) /\ ~Revoked(Idle)
  BY DEF Idle, Request, PCs, CarriesOK, Revoked
<1>2. \A r \in Requests : req[r] = Idle
  BY DEF AuthInit
<1>3. TypeOK
  <2>1. issued \in 1 .. MaxTokens
    BY AuthAssumption DEF AuthInit
  <2>2. /\ store \in Tokens \cup {NoToken} /\ jar \in Tokens \cup {NoToken}
        /\ grace \in [Tokens -> Tokens \cup {NoToken}]
        /\ age \in [Tokens -> {"fresh", "due", "expired"}]
    BY Bounds DEF AuthInit
  <2>3. req \in [Requests -> Request]
    BY <1>1 DEF AuthInit
  <2>. QED  BY <2>1, <2>2, <2>3 DEF AuthInit, TypeOK
<1>4. ChainOK
  BY Bounds DEF AuthInit, ChainOK
<1>5. SignOutOK /\ SignedOutStaysOut /\ \A r \in Requests : CarriesOK(req[r])
  BY <1>1, <1>2 DEF AuthInit, SignOutOK, SignedOutStaysOut
<1>. QED  BY <1>3, <1>4, <1>5 DEF AuthInv

-----------------------------------------------------------------------------
(* The part of AuthInv about requests *)

\* A step that changes one request, keeps the ages and revives no session.
LEMMA RequestStep ==
  ASSUME AuthInv, NEW r \in Requests, NEW x \in Request, Becomes(r, x),
         CarriesOK(x), age' = age,
         store = NoToken => store' = NoToken,
         Revoked(x) => store' = NoToken
  PROVE  /\ req' \in [Requests -> Request]
         /\ \A q \in Requests : CarriesOK(req[q])'
         /\ SignOutOK'
<1>1. /\ req \in [Requests -> Request]
      /\ req' = [req EXCEPT ![r] = x]
  BY DEF AuthInv, TypeOK, Becomes
<1>2. \A q \in Requests : req'[q] = IF q = r THEN x ELSE req[q]
  BY <1>1
<1>3. \A q \in Requests : CarriesOK(req[q])'
  BY <1>2 DEF AuthInv, CarriesOK
<1>4. \A q \in Requests : Revoked(req[q])' => store' = NoToken
  BY <1>2 DEF AuthInv, SignOutOK, Revoked, NamesSession
<1>. QED  BY <1>1, <1>3, <1>4 DEF SignOutOK, NoToken

\* The same for a step that changes no request.
LEMMA RequestsStay ==
  ASSUME AuthInv, req' = req, age' = age, store = NoToken => store' = NoToken
  PROVE  /\ req' \in [Requests -> Request]
         /\ \A q \in Requests : CarriesOK(req[q])'
         /\ SignOutOK'
  BY DEF AuthInv, TypeOK, CarriesOK, SignOutOK, Revoked, NamesSession, NoToken

\* The forms a request takes on the way of a refresh.
LEMMA Moves ==
  ASSUME AuthInv, NEW r \in Requests
  PROVE  /\ req[r] \in Request /\ CarriesOK(req[r])
         /\ Idle \in Request /\ CarriesOK(Idle) /\ ~Revoked(Idle)
         /\ \A pc \in PCs : [req[r] EXCEPT !.pc = pc] \in Request
         /\ \A u \in Tokens :
              [req[r] EXCEPT !.pc = "answer", !.ans = u] \in Request
         /\ \A task \in SignOutTasks :
              [req[r] EXCEPT !.tasks = @ \ {task}] \in Request
         /\ [req[r] EXCEPT !.tasks = (@ \ {"delete"}) \cup {"publish"}] \in Request
<1>1. req[r] \in Request /\ CarriesOK(req[r])
  BY DEF AuthInv, TypeOK
<1>. QED
  BY <1>1, Bounds DEF Request, Idle, CarriesOK, Revoked, PCs, SignOutTasks

\* What is left of AuthInv when a step has been shown to keep the requests.
Rest == /\ store \in Tokens \cup {NoToken} /\ issued \in 1 .. MaxTokens
        /\ grace \in [Tokens -> Tokens \cup {NoToken}]
        /\ age \in [Tokens -> {"fresh", "due", "expired"}]
        /\ denied \in SUBSET Tokens /\ barred \in SUBSET Access
        /\ jar \in Tokens \cup {NoToken}
        /\ notices \in SUBSET Workers
        /\ out \in BOOLEAN
        /\ given \in SUBSET (Tokens \X Tokens)
        /\ ChainOK /\ SignedOutStaysOut

\* The invariant is what it says of the store and what it says of requests.
LEMMA Parts ==
  AuthInv <=> Rest /\ req \in [Requests -> Request] /\ SignOutOK
                   /\ \A r \in Requests : CarriesOK(req[r])
  BY DEF AuthInv, TypeOK, Rest

\* The same of the state after a step.
LEMMA PartsPrime ==
  AuthInv' <=> Rest' /\ req' \in [Requests -> Request] /\ SignOutOK'
                    /\ \A r \in Requests : CarriesOK(req[r])'
  BY DEF AuthInv, TypeOK, Rest

-----------------------------------------------------------------------------
(* The steps of a refresh *)

\* The store, the grace entries, the answers and the outcome stay.
LEMMA RestStays ==
  ASSUME Rest, UNCHANGED <<store, issued, grace, age, out, given>>,
         jar' \in Tokens \cup {NoToken}, notices' \in SUBSET Workers,
         denied' \in SUBSET Tokens, barred' \in SUBSET Access
  PROVE  Rest'
  BY DEF Rest, ChainOK, SignedOutStaysOut, NoToken, Tokens

\* A step of a request alone leaves the store as it is.
LEMMA RestSame ==
  Rest /\ UNCHANGED <<redis, age, jar, out, given>> => Rest'
  BY DEF Rest, ChainOK, SignedOutStaysOut, redis, NoToken, Tokens

\* An answer is the presented token or its successor.
LEMMA AnswerStep ==
  ASSUME AuthInv, NEW r \in Requests, NEW u \in Tokens, Answer(r, u),
         ~At(r, "idle"), ~At(r, "signOut"), ~At(r, "detached"),
         u \in {req[r].tok, req[r].tok + 1}
  PROVE  /\ given' \in SUBSET (Tokens \X Tokens)
         /\ \A p \in given' : p[2] \in {p[1], p[1] + 1}
         /\ LET x == [req[r] EXCEPT !.pc = "answer", !.ans = u]
            IN  x \in Request /\ CarriesOK(x) /\ ~Revoked(x) /\ Becomes(r, x)
<1>1. req[r] \in Request /\ CarriesOK(req[r])
  BY Moves
<1>2. req[r].tok \in Tokens /\ req[r].tasks = {}
  BY <1>1 DEF CarriesOK, At
<1>3. given' = given \cup {<<req[r].tok, u>>}
  BY DEF Answer
<1>4. /\ given \in SUBSET (Tokens \X Tokens)
      /\ \A p \in given : p[2] \in {p[1], p[1] + 1}
  BY DEF AuthInv, TypeOK, ChainOK
<1>5. given' \in SUBSET (Tokens \X Tokens)
  BY <1>2, <1>3, <1>4
<1>6. \A p \in given' : p[2] \in {p[1], p[1] + 1}
  BY <1>3, <1>4
<1>. QED
  BY <1>1, <1>2, <1>5, <1>6, Moves DEF Answer, CarriesOK, Revoked, Request

\* The requests' part of AuthInv in the next state.
ReqPart == /\ req \in [Requests -> Request]
           /\ \A q \in Requests : CarriesOK(req[q])
           /\ SignOutOK

RefreshPCs == {"denied", "active", "read", "grace", "rotate", "revoke", "publish"}

\* A refresh goes on or ends; the session may end meanwhile.
LEMMA RefreshMoves ==
  ASSUME AuthInv, NEW r \in Requests, req[r].pc \in RefreshPCs, age' = age,
         store = NoToken => store' = NoToken,
         Finish(r) \/ \E pc \in RefreshPCs : Go(r, pc)
  PROVE  ReqPart'
<1>1. CASE Finish(r)
  BY <1>1, Moves, RequestStep DEF Finish, ReqPart
<1>2. ASSUME NEW pc \in RefreshPCs, Go(r, pc) PROVE ReqPart'
  <2> DEFINE x == [req[r] EXCEPT !.pc = pc]
  <2>1. x \in Request
    BY Moves DEF RefreshPCs, PCs
  <2>2. x.pc = pc /\ x.tok = req[r].tok /\ x.tasks = req[r].tasks
    BY Moves DEF Request
  <2>3. CarriesOK(x) /\ ~Revoked(x)
    BY <2>2, Moves DEF CarriesOK, Revoked, RefreshPCs
  <2>4. Becomes(r, x)
    BY <1>2 DEF Go
  <2>. QED  BY <2>1, <2>3, <2>4, RequestStep DEF ReqPart
<1>. QED  BY <1>1, <1>2

\* The two parts after a step make the invariant after the step.
LEMMA Whole == AuthInv' <=> Rest' /\ ReqPart'
  BY PartsPrime DEF ReqPart

\* The session ends: nothing else about the chain changes.
LEMMA RestEnds ==
  ASSUME Rest, store' = NoToken, out' \in BOOLEAN,
         UNCHANGED <<issued, grace, age, denied, barred, jar, notices, given>>
  PROVE  Rest'
  BY DEF Rest, ChainOK, SignedOutStaysOut, NoToken, Tokens

\* The reads of a refresh, and the end of one.
LEMMA ReadSteps ==
  ASSUME AuthInv, NEW r \in Requests,
         CheckDenied(r) \/ CheckActive(r) \/ RevokeReused(r) \/ PublishReused(r)
  PROVE  AuthInv'
<1>1. Rest
  BY Parts
<1>2. CASE CheckDenied(r) \/ CheckActive(r)
  <2>1. Rest'
    BY <1>1, <1>2, RestSame DEF CheckDenied, CheckActive
  <2>2. ReqPart'
    BY <1>2, RefreshMoves DEF CheckDenied, CheckActive, At, RefreshPCs, redis
  <2>. QED  BY <2>1, <2>2, Whole
<1>3. CASE RevokeReused(r)
  <2>1. Rest'
    BY <1>1, <1>3, RestEnds DEF RevokeReused, Rest
  <2>2. ReqPart'
    BY <1>3, RefreshMoves DEF RevokeReused, At, RefreshPCs
  <2>. QED  BY <2>1, <2>2, Whole
<1>4. CASE PublishReused(r)
  <2>1. Rest'
    BY <1>1, <1>4, RestStays DEF PublishReused, Rest
  <2>2. ReqPart'
    BY <1>4, RefreshMoves DEF PublishReused, At, RefreshPCs
  <2>. QED  BY <2>1, <2>2, Whole
<1>. QED  BY <1>2, <1>3, <1>4

\* An answer that rotates nothing.
LEMMA AnswerKeeps ==
  ASSUME AuthInv, NEW r \in Requests, NEW u \in Tokens, Answer(r, u),
         req[r].pc \in RefreshPCs, u \in {req[r].tok, req[r].tok + 1},
         UNCHANGED <<redis, age, jar, out>>
  PROVE  AuthInv'
<1>1. Rest
  BY Parts
<1>2. ~At(r, "idle") /\ ~At(r, "signOut") /\ ~At(r, "detached")
  BY DEF At, RefreshPCs
<1>3. ReqPart'
  BY <1>2, AnswerStep, RequestStep DEF ReqPart, redis
<1>4. Rest'
  BY <1>1, <1>2, AnswerStep DEF Rest, ChainOK, SignedOutStaysOut, redis, NoToken, Tokens
<1>. QED  BY <1>3, <1>4, Whole

\* Reading the session or the grace entry answers, ends or passes on.
LEMMA SessionReads ==
  ASSUME AuthInv, NEW r \in Requests, ReadSession(r) \/ ReadGrace(r)
  PROVE  AuthInv'
<1>1. Rest /\ req[r].pc \in RefreshPCs
  BY Parts DEF ReadSession, ReadGrace, At, RefreshPCs
<1>2. CarriesOK(req[r]) /\ req[r].tok \in Tokens
  BY <1>1, Moves DEF CarriesOK, RefreshPCs
<1>3. CASE /\ UNCHANGED <<redis, age, jar, out, given>>
           /\ Finish(r) \/ Go(r, "grace") \/ Go(r, "rotate") \/ Go(r, "revoke")
  <2>1. Rest'
    BY <1>1, <1>3, RestSame
  <2>2. ReqPart'
    BY <1>1, <1>3, RefreshMoves DEF RefreshPCs, redis
  <2>. QED  BY <2>1, <2>2, Whole
<1>4. CASE UNCHANGED <<redis, age, jar, out>> /\ Answer(r, req[r].tok)
  BY <1>1, <1>2, <1>4, AnswerKeeps
<1>5. CASE /\ UNCHANGED <<redis, age, jar, out>>
           /\ grace[req[r].tok] # NoToken /\ Answer(r, grace[req[r].tok])
  <2>1. grace[req[r].tok] \in Tokens /\ grace[req[r].tok] = req[r].tok + 1
    BY <1>1, <1>2, <1>5 DEF Rest, ChainOK
  <2>. QED  BY <1>1, <1>5, <2>1, AnswerKeeps
<1>. QED
  BY <1>3, <1>4, <1>5 DEF ReadSession, ReadGrace

\* The script: a rotation appends one token to the chain.
LEMMA RotateStep ==
  ASSUME AuthInv, NEW r \in Requests, Rotate(r)
  PROVE  AuthInv'
<1>1. Rest /\ req[r].pc \in RefreshPCs
  BY Parts DEF Rotate, At, RefreshPCs
<1>2. req[r].tok \in Tokens
  BY <1>1, Moves DEF CarriesOK, RefreshPCs
<1>3. CASE /\ store = req[r].tok /\ issued \in Tokens
           /\ store' = issued /\ issued' = issued + 1
           /\ grace' = [grace EXCEPT ![req[r].tok] = issued]
           /\ Answer(r, issued)
           /\ UNCHANGED <<age, denied, barred, jar, notices, out>>
  <2>1. store # NoToken /\ issued = req[r].tok + 1
    BY <1>1, <1>2, <1>3, Bounds DEF Rest, ChainOK
  <2>2. ~At(r, "idle") /\ ~At(r, "signOut") /\ ~At(r, "detached")
    BY <1>1 DEF At, RefreshPCs
  <2>3. ReqPart'
    BY <1>3, <2>1, <2>2, AnswerStep, RequestStep DEF ReqPart
  <2>4. /\ given' \in SUBSET (Tokens \X Tokens)
        /\ \A p \in given' : p[2] \in {p[1], p[1] + 1}
    BY <1>3, <2>1, <2>2, AnswerStep
  <2>5. /\ store' \in Tokens \cup {NoToken} /\ issued' \in 1 .. MaxTokens
        /\ store' = issued' - 1
        /\ grace' \in [Tokens -> Tokens \cup {NoToken}]
        /\ \A t \in Tokens :
             grace'[t] # NoToken => grace'[t] = t + 1 /\ t + 1 < issued'
    <3>1. /\ issued \in Nat /\ issued + 1 \in 1 .. MaxTokens
          /\ issued = req[r].tok + 1
      BY <1>3, <2>1, AuthAssumption DEF Tokens
    <3>2. \A t \in Tokens :
            grace'[t] = IF t = req[r].tok THEN issued ELSE grace[t]
      BY <1>1, <1>2, <1>3 DEF Rest
    <3>3. \A t \in Tokens : grace[t] # NoToken
                              => grace[t] = t + 1 /\ t + 1 < issued + 1
      <4>. SUFFICES ASSUME NEW t \in Tokens, grace[t] # NoToken
                    PROVE  grace[t] = t + 1 /\ t + 1 < issued + 1
        OBVIOUS
      <4>1. grace[t] = t + 1 /\ t + 1 < issued /\ t \in Nat
        BY <1>1, Bounds DEF Rest, ChainOK
      <4>. QED  BY <4>1, <3>1
    <3>4. grace' \in [Tokens -> Tokens \cup {NoToken}]
      BY <1>1, <1>3 DEF Rest
    <3>5. \A t \in Tokens :
            grace'[t] # NoToken => grace'[t] = t + 1 /\ t + 1 < issued'
      <4>. SUFFICES ASSUME NEW t \in Tokens, grace'[t] # NoToken
                    PROVE  grace'[t] = t + 1 /\ t + 1 < issued'
        OBVIOUS
      <4>1. issued' = issued + 1
        BY <1>3
      <4>2. CASE t = req[r].tok
        BY <3>1, <3>2, <4>1, <4>2
      <4>3. CASE t # req[r].tok
        BY <3>2, <3>3, <4>1, <4>3
      <4>. QED  BY <4>2, <4>3
    <3>6. /\ store' \in Tokens \cup {NoToken} /\ issued' \in 1 .. MaxTokens
          /\ store' = issued' - 1
      BY <1>3, <3>1
    <3>. QED  BY <3>4, <3>5, <3>6, Zenon
  <2>6. Rest'
    BY <1>1, <1>3, <2>1, <2>4, <2>5
    DEF Rest, ChainOK, SignedOutStaysOut, Tokens, NoToken
  <2>. QED  BY <2>3, <2>6, Whole
<1>4. CASE /\ UNCHANGED <<redis, age, jar, out, given>>
           /\ Finish(r) \/ Go(r, "grace")
  <2>1. Rest'
    BY <1>1, <1>4, RestSame
  <2>2. ReqPart'
    BY <1>1, <1>4, RefreshMoves DEF RefreshPCs, redis
  <2>. QED  BY <2>1, <2>2, Whole
<1>. QED
  BY <1>3, <1>4 DEF Rotate, redis

-----------------------------------------------------------------------------
(* Deliveries, sign-outs, failures and time *)

\* A delivered answer changes the cookie and nothing the session rests on.
LEMMA DeliverStep ==
  ASSUME AuthInv, NEW r \in Requests, Deliver(r)
  PROVE  AuthInv'
<1>1. Rest /\ req[r].ans \in Tokens \cup {NoToken}
  BY Parts, Moves DEF Request
<1>2. Rest'
  BY <1>1, RestStays DEF Deliver, redis, Rest
<1>3. ReqPart'
  BY Moves, RequestStep DEF Deliver, Finish, ReqPart, redis
<1>. QED  BY <1>2, <1>3, Whole

\* A sign-out starts with its tasks: when the tokens name the session, the
\* DEL is among them.
LEMMA SendSteps ==
  ASSUME AuthInv, NEW r \in Requests, SendRefresh(r) \/ SendSignOut(r)
  PROVE  AuthInv'
<1>1. Rest'
  BY Parts, RestSame DEF SendRefresh, SendSignOut
<1>2. age' = age /\ store' = store
  BY DEF SendRefresh, SendSignOut, redis
<1>3. CASE SendRefresh(r)
  <2>1. PICK t \in Issued :
          Becomes(r, [Idle EXCEPT !.pc = "denied", !.tok = t])
    BY <1>3 DEF SendRefresh
  <2> DEFINE x == [Idle EXCEPT !.pc = "denied", !.tok = t]
  <2>2. t \in Tokens
    BY AuthAssumption DEF AuthInv, TypeOK, Issued, Tokens
  <2>3. x \in Request /\ CarriesOK(x) /\ ~Revoked(x)
    BY <2>2 DEF Idle, Request, PCs, CarriesOK, Revoked
  <2>. QED  BY <1>1, <1>2, <2>1, <2>3, RequestStep, Whole DEF ReqPart
<1>4. CASE SendSignOut(r)
  <2>1. jar \in Tokens
    BY <1>4 DEF SendSignOut, AuthInv, TypeOK
  <2>2. PICK a \in Access \cup {NoAccess} :
          LET y == [Idle EXCEPT !.pc = "signOut", !.tok = jar, !.acc = a]
          IN  Becomes(r, [y EXCEPT !.tasks =
                {task \in {"barAccess"}   : a # NoAccess} \cup
                {task \in {"denyRefresh"} : age[jar] # "expired"} \cup
                {task \in {"delete"}      : NamesSession(y)}])
    BY <1>4, Zenon DEF SendSignOut
  <2> DEFINE y == [Idle EXCEPT !.pc = "signOut", !.tok = jar, !.acc = a]
             tasks == {task \in {"barAccess"}   : a # NoAccess} \cup
                      {task \in {"denyRefresh"} : age[jar] # "expired"} \cup
                      {task \in {"delete"}      : NamesSession(y)}
             x == [y EXCEPT !.tasks = tasks]
  <2>3. tasks \in SUBSET SignOutTasks /\ ("barAccess" \in tasks => a \in Access)
    BY DEF SignOutTasks
  <2>4. NamesSession(y) => "delete" \in tasks
    OBVIOUS
  <2>. HIDE DEF tasks
  <2>5. /\ x.pc = "signOut" /\ x.tok = jar /\ x.acc = a /\ x.tasks = tasks
        /\ y.tok = jar /\ y.acc = a
    BY DEF Idle
  <2>6. x \in Request /\ CarriesOK(x)
    BY <2>1, <2>3, <2>5 DEF Idle, Request, PCs, CarriesOK
  <2>7. ~Revoked(x)
    BY <2>4, <2>5 DEF Revoked, NamesSession
  <2>8. Becomes(r, x)
    BY <2>2 DEF tasks
  <2>. QED  BY <1>1, <1>2, <2>6, <2>7, <2>8, RequestStep, Whole DEF ReqPart
<1>. QED  BY <1>3, <1>4

\* A task other than the DEL is done, or a task fails.
LEMMA TaskDone ==
  ASSUME AuthInv, NEW r \in Requests, NEW task \in req[r].tasks,
         NEW x \in {[req[r] EXCEPT !.tasks = @ \ {task}],
                    [req[r] EXCEPT !.tasks = @ \ {task}, !.failed = TRUE]},
         task = "delete" => x.failed,
         Becomes(r, x), UNCHANGED <<age, store>>
  PROVE  ReqPart'
<1>1. req[r] \in Request /\ CarriesOK(req[r])
  BY Moves
<1>2. /\ x \in Request /\ x.pc = req[r].pc /\ x.tok = req[r].tok
      /\ x.acc = req[r].acc /\ x.tasks = req[r].tasks \ {task}
      /\ x.failed \in {req[r].failed, TRUE}
  BY <1>1 DEF Request
<1>3. CarriesOK(x)
  BY <1>1, <1>2 DEF CarriesOK
<1>4. Revoked(x) => Revoked(req[r])
  BY <1>2 DEF Revoked, NamesSession
<1>5. Revoked(x) => store' = NoToken
  BY <1>4 DEF AuthInv, SignOutOK
<1>. QED  BY <1>2, <1>3, <1>5, RequestStep DEF ReqPart

\* The tasks of a sign-out other than its DEL leave the store alone.
LEMMA TaskSteps ==
  ASSUME AuthInv, NEW r \in Requests,
         Publish(r) \/ DenyRefresh(r) \/ BarAccess(r)
  PROVE  AuthInv'
<1>0. Rest /\ CarriesOK(req[r])
  BY Parts
<1>1. CASE Publish(r)
  <2>1. Rest'
    BY <1>0, <1>1, RestStays DEF Publish, Rest
  <2>2. ReqPart'
    BY <1>1, TaskDone DEF Publish
  <2>. QED  BY <2>1, <2>2, Whole
<1>2. CASE DenyRefresh(r)
  <2>1. req[r].tok \in Tokens
    BY <1>0, <1>2 DEF DenyRefresh, CarriesOK
  <2>2. Rest'
    BY <1>0, <1>2, <2>1, RestStays DEF DenyRefresh, Rest
  <2>3. ReqPart'
    BY <1>2, TaskDone DEF DenyRefresh
  <2>. QED  BY <2>2, <2>3, Whole
<1>3. CASE BarAccess(r)
  <2>1. req[r].acc \in Access
    BY <1>0, <1>3 DEF BarAccess, CarriesOK
  <2>2. Rest'
    BY <1>0, <1>3, <2>1, RestStays DEF BarAccess, Rest
  <2>3. ReqPart'
    BY <1>3, TaskDone DEF BarAccess
  <2>. QED  BY <2>2, <2>3, Whole
<1>. QED  BY <1>1, <1>2, <1>3

\* The DEL of a sign-out ends the session; its PUBLISH is then due.
LEMMA DeleteStep ==
  ASSUME AuthInv, NEW r \in Requests, Delete(r)
  PROVE  AuthInv'
<1> DEFINE x == [req[r] EXCEPT !.tasks = (@ \ {"delete"}) \cup {"publish"}]
<1>1. Rest'
  BY Parts, RestEnds DEF Delete, Rest
<1>2. x \in Request /\ CarriesOK(req[r])
  BY Moves
<1>3. CarriesOK(x)
  BY <1>2 DEF Delete, CarriesOK, Request
<1>4. ReqPart'
  BY <1>2, <1>3, RequestStep DEF Delete, ReqPart
<1>. QED  BY <1>1, <1>4, Whole

\* The 200 of a sign-out: its DEL is done, so the session is gone.
LEMMA AnswerSteps ==
  ASSUME AuthInv, NEW r \in Requests, AnswerSignOut(r) \/ Detached(r)
  PROVE  AuthInv'
<1>1. Rest /\ req[r] \in Request /\ CarriesOK(req[r])
  BY Parts, Moves
<1>2. CASE AnswerSignOut(r)
  <2>1. out' => store = NoToken
    BY <1>2 DEF AnswerSignOut, At, AuthInv, SignOutOK, Revoked, SignedOutStaysOut
  <2>2. out' \in BOOLEAN /\ jar' \in Tokens \cup {NoToken}
    BY <1>1, <1>2 DEF AnswerSignOut, Rest, Request, NamesSession
  <2>3. Rest'
    BY <1>1, <1>2, <2>1, <2>2
    DEF AnswerSignOut, Rest, ChainOK, SignedOutStaysOut, redis, NoToken, Tokens
  <2>4. CASE Finish(r)
    BY <1>2, <2>3, <2>4, Moves, RequestStep, Whole
    DEF AnswerSignOut, Finish, ReqPart, redis
  <2>5. CASE Go(r, "detached")
    <3> DEFINE x == [req[r] EXCEPT !.pc = "detached"]
    <3>1. x \in Request /\ CarriesOK(x) /\ ~Revoked(x)
      BY <1>1, <1>2 DEF AnswerSignOut, At, Request, PCs, CarriesOK, Revoked
    <3>. QED
      BY <1>2, <2>3, <2>5, <3>1, RequestStep, Whole
      DEF AnswerSignOut, Go, ReqPart, redis
  <2>. QED  BY <1>2, <2>4, <2>5 DEF AnswerSignOut
<1>3. CASE Detached(r)
  BY <1>1, <1>3, Moves, RestSame, RequestStep, Whole
  DEF Detached, Finish, ReqPart, redis
<1>. QED  BY <1>2, <1>3

\* A failed command ends a refresh, or costs a sign-out a task and its success.
LEMMA FailStep ==
  ASSUME AuthInv, NEW r \in Requests, RedisFails(r)
  PROVE  AuthInv'
<1>1. Rest'
  BY Parts, RestSame DEF RedisFails
<1>2. CASE req[r].pc \in RefreshPCs /\ Finish(r)
  BY <1>1, <1>2, RefreshMoves, Whole DEF RedisFails, redis
<1>3. ASSUME NEW task \in req[r].tasks,
             Becomes(r, [req[r] EXCEPT !.tasks = @ \ {task}, !.failed = TRUE])
      PROVE  AuthInv'
  <2> DEFINE x == [req[r] EXCEPT !.tasks = @ \ {task}, !.failed = TRUE]
  <2>1. x.failed
    BY Moves DEF Request
  <2>2. ReqPart'
    BY <1>3, <2>1, TaskDone DEF RedisFails, redis
  <2>. QED  BY <1>1, <2>2, Whole
<1>. QED  BY <1>2, <1>3 DEF RedisFails, RefreshPCs

\* A revocation message that arrives is no longer due.
LEMMA HeardStep ==
  ASSUME AuthInv, NEW w \in Workers, Heard(w)
  PROVE  AuthInv'
<1>1. Rest'
  BY Parts, RestStays DEF Heard, Rest
<1>2. ReqPart'
  BY RequestsStay DEF Heard, ReqPart
<1>. QED  BY <1>1, <1>2, Whole

\* A grace entry that lapses leaves the others the successors they were.
LEMMA LapseStep == AuthInv /\ GraceLapses => AuthInv'
<1>. SUFFICES ASSUME AuthInv, GraceLapses PROVE AuthInv'
  OBVIOUS
<1>1. Rest
  BY Parts
<1>2. Rest'
  BY <1>1 DEF GraceLapses, Rest, ChainOK, SignedOutStaysOut, NoToken, Tokens
<1>3. ReqPart'
  BY RequestsStay DEF GraceLapses, ReqPart
<1>. QED  BY <1>2, <1>3, Whole

\* Tokens age only while no request is in flight, so what a sign-out read of
\* their age stays true.
LEMMA AgeStep == AuthInv /\ TokenAges => AuthInv'
<1>. SUFFICES ASSUME AuthInv, TokenAges PROVE AuthInv'
  OBVIOUS
<1>1. Rest
  BY Parts
<1>2. PICK t \in Issued : /\ age' \in {[age EXCEPT ![t] = "due"],
                                       [age EXCEPT ![t] = "expired"]}
                          /\ store' \in {store, NoToken}
  BY DEF TokenAges
<1>3. Rest'
  BY <1>1, <1>2 DEF TokenAges, Rest, ChainOK, SignedOutStaysOut, NoToken, Tokens
<1>4. ReqPart'
  BY DEF TokenAges, ReqPart, AuthInv, TypeOK, SignOutOK, Revoked, CarriesOK, At
<1>. QED  BY <1>3, <1>4, Whole

-----------------------------------------------------------------------------
(* Theorems *)

\* Every step keeps the inductive invariant.
LEMMA StepAuthInv == AuthInv /\ [AuthNext]_authVars => AuthInv'
<1>. SUFFICES ASSUME AuthInv, [AuthNext]_authVars PROVE AuthInv'
  OBVIOUS
<1>1. CASE GraceLapses \/ TokenAges
  BY <1>1, LapseStep, AgeStep
<1>2. ASSUME NEW w \in Workers, Heard(w) PROVE AuthInv'
  BY <1>2, HeardStep
<1>3. ASSUME NEW r \in Requests, Refresh(r) PROVE AuthInv'
  BY <1>3, SendSteps, ReadSteps, SessionReads, RotateStep, DeliverStep DEF Refresh
<1>4. ASSUME NEW r \in Requests, SignOut(r) PROVE AuthInv'
  BY <1>4, SendSteps, DeleteStep, TaskSteps, AnswerSteps DEF SignOut
<1>5. ASSUME NEW r \in Requests, RedisFails(r) PROVE AuthInv'
  BY <1>5, FailStep
<1>6. CASE UNCHANGED authVars
  <2>1. Rest'
    BY <1>6, Parts, RestSame DEF authVars, redis
  <2>2. ReqPart'
    BY <1>6, RequestsStay DEF authVars, ReqPart
  <2>. QED  BY <2>1, <2>2, Whole
<1>. QED  BY <1>1, <1>2, <1>3, <1>4, <1>5, <1>6 DEF AuthNext

\* The invariant holds of every behaviour.
THEOREM AuthInvariant == AuthSpec => []AuthInv
  BY InitAuthInv, StepAuthInv, PTL DEF AuthSpec

\* All that present one token and are given another are given the same one.
THEOREM OneFamily == AuthSpec => []OneSuccessor
<1>1. AuthInv => OneSuccessor
  BY DEF AuthInv, TypeOK, ChainOK, OneSuccessor
<1>. QED  BY <1>1, AuthInvariant, PTL

\* No refresh brings back a session that a sign-out confirmed revoked.
THEOREM SignedOut == AuthSpec => []SignedOutStaysOut
<1>1. AuthInv => SignedOutStaysOut
  BY DEF AuthInv
<1>. QED  BY <1>1, AuthInvariant, PTL

\* A step rotates, ends the session or leaves the chain alone.
LEMMA ChainStep ==
  AuthInv /\ [AuthNext]_authVars => [Chain!Next]_<<store, Issued>>
<1>. SUFFICES ASSUME AuthInv, [AuthNext]_authVars
              PROVE  [Chain!Next]_<<store, Issued>>
  OBVIOUS
<1>1. CASE store' = NoToken /\ issued' = issued
  BY <1>1 DEF Chain!Next, Chain!End, Issued
<1>2. CASE UNCHANGED <<store, issued>>
  BY <1>2 DEF Issued
<1>3. ASSUME NEW r \in Requests, Rotate(r)
      PROVE  [Chain!Next]_<<store, Issued>>
  <2>1. req[r].tok \in Tokens
    BY <1>3, Moves DEF Rotate, At, CarriesOK
  <2>2. CASE UNCHANGED <<store, issued>>
    BY <2>2, <1>2
  <2>3. CASE /\ store = req[r].tok /\ issued \in Tokens
             /\ store' = issued /\ issued' = issued + 1
    <3>1. store # NoToken /\ issued \in Nat /\ issued \in Tokens \ Issued
      BY <2>1, <2>3, Bounds DEF Issued, Tokens
    <3>2. Issued' = Issued \cup {issued}
      BY <2>3, <3>1 DEF Issued
    <3>3. Chain!Rotate(issued)
      BY <2>3, <3>1, <3>2 DEF Chain!Rotate
    <3>. QED  BY <3>1, <3>3 DEF Chain!Next
  <2>. QED  BY <1>3, <2>2, <2>3 DEF Rotate
<1>4. CASE GraceLapses \/ TokenAges \/ \E w \in Workers : Heard(w)
  BY <1>1, <1>2, <1>4 DEF GraceLapses, TokenAges, Heard
<1>5. ASSUME NEW r \in Requests, Refresh(r) PROVE [Chain!Next]_<<store, Issued>>
  BY <1>1, <1>2, <1>3, <1>5
  DEF Refresh, SendRefresh, CheckDenied, CheckActive, ReadSession, ReadGrace,
      RevokeReused, PublishReused, Deliver, redis
<1>6. ASSUME NEW r \in Requests, SignOut(r) PROVE [Chain!Next]_<<store, Issued>>
  BY <1>1, <1>2, <1>6
  DEF SignOut, SendSignOut, Delete, Publish, DenyRefresh, BarAccess,
      AnswerSignOut, Detached, redis
<1>7. ASSUME NEW r \in Requests, RedisFails(r)
      PROVE  [Chain!Next]_<<store, Issued>>
  BY <1>2, <1>7 DEF RedisFails, redis
<1>8. CASE UNCHANGED authVars
  BY <1>2, <1>8 DEF authVars
<1>. QED  BY <1>4, <1>5, <1>6, <1>7, <1>8 DEF AuthNext

\* The session implements the chain of tokens.
THEOREM SessionImplementsChain == AuthSpec => ChainSpec
<1>1. AuthInit => Chain!Init
  BY Bounds DEF AuthInit, Chain!Init, Issued
<1>. QED
  BY <1>1, ChainStep, AuthInvariant, PTL DEF AuthSpec, ChainSpec, Chain!Spec

\* The sockets only watch: a behaviour with them is a behaviour of the
\* session, so the theorems above hold beside any number of connections.
THEOREM SocketsWatch == SockSpec => AuthSpec
<1>1. SockInit => AuthInit
  BY DEF SockInit
<1>2. [SockNext]_sockVars => [AuthNext]_authVars
  <2>1. AuthOnly => AuthNext
    BY DEF AuthOnly, AuthNext
  <2>2. \A w \in Workers : CutSockets(w) \/ MissNotice(w) => AuthNext
    BY DEF CutSockets, MissNotice, AuthNext
  <2>3. ASSUME NEW s \in Sockets,
               \/ Connect(s) \/ Handshake(s) \/ Disconnect(s)
               \/ Revalidate(s) \/ RevalidateFails(s)
        PROVE  UNCHANGED authVars
    BY <2>3 DEF Connect, Handshake, AssertActive, Accept, HandshakeFails,
           Disconnect, Revalidate, RevalidateFails, SockStep
  <2>4. SockNext => AuthNext \/ UNCHANGED authVars
    BY <2>1, <2>2, <2>3, Zenon DEF SockNext
  <2>5. UNCHANGED sockVars => UNCHANGED authVars
    BY DEF sockVars
  <2>. QED  BY <2>4, <2>5
<1>. QED  BY <1>1, <1>2, PTL DEF SockSpec, AuthSpec
=============================================================================
