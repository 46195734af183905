----------------------------- MODULE Idempotency ----------------------------
(***************************************************************************)
(* Requests that carry the same x-idempotency-key, and the record of that  *)
(* key in Redis (idempotency.interceptor, idempotency.service).  An action *)
(* is a Redis command or the handler.  The interceptor is named at the     *)
(* class of four controllers and a second time at forwardMessages, where   *)
(* the framework applies it twice, one around the other; depth counts the  *)
(* applications a request is in.                                           *)
(***************************************************************************)
EXTENDS Naturals, FiniteSets

CONSTANTS
    Requests,      \* requests in flight with the key
    MaxAsks        \* bound: requests that ever arrive

VARIABLES
    layers,     \* how often the interceptor is applied
    void,       \* the handler returns nothing, which is no response
    record,     \* idempotency:<key>
    turn,       \* the requests in flight
    answer,     \* answer[r]: the last response a request in slot r was given
    asks,       \* how many have arrived
    faulty      \* history: the key lapsed, or Redis or a handler failed

vars == <<layers, void, record, turn, answer, asks, faulty>>

Pcs     == {"idle", "look", "lock", "recheck", "handle", "store"}
Bodies  == {"none", "result", "conflict"}
Records == {"absent", "pending"} \cup Bodies
Idle    == [pc |-> "idle", depth |-> 0, body |-> "none"]

Becomes(r, q) == turn' = [turn EXCEPT ![r] = q]
Go(r, pc)     == Becomes(r, [turn[r] EXCEPT !.pc = pc]) /\ UNCHANGED answer

\* a completed record that has a response
Cached == record \in {"result", "conflict"}

\* an application of the interceptor ends with this body, which is on its way
\* to the client; the one around it stores it like the response of a handler
Return(r, body) ==
    /\ answer' = [answer EXCEPT ![r] = body]
    /\ IF turn[r].depth = 1 THEN Becomes(r, Idle)
       ELSE Becomes(r, [pc |-> "store", depth |-> turn[r].depth - 1, body |-> body])

Ask(r) ==
    /\ turn[r] = Idle /\ asks < MaxAsks
    /\ asks' = asks + 1
    /\ Becomes(r, [Idle EXCEPT !.pc = "look", !.depth = 1])
    /\ UNCHANGED <<layers, void, record, answer, faulty>>

\* getRecord
Look(r) ==
    /\ turn[r].pc = "look"
    /\ \/ Cached /\ Return(r, record) /\ UNCHANGED faulty
       \/ ~Cached /\ Go(r, "lock") /\ UNCHANGED faulty
       \/ Go(r, "lock") /\ faulty' = TRUE
    /\ UNCHANGED <<layers, void, record, asks>>

\* acquireLock: SET NX with a time to live of 300 s
Lock(r) ==
    LET q == turn[r] IN
    /\ q.pc = "lock"
    /\ \/ /\ record = "absent" /\ record' = "pending"
          /\ Becomes(r, IF q.depth < layers THEN [q EXCEPT !.pc = "look", !.depth = @ + 1]
                        ELSE [q EXCEPT !.pc = "handle"])
          /\ UNCHANGED <<answer, faulty>>
       \/ record # "absent" /\ Go(r, "recheck") /\ UNCHANGED <<record, faulty>>
       \/ Go(r, "recheck") /\ faulty' = TRUE /\ UNCHANGED record
    /\ UNCHANGED <<layers, void, asks>>

\* mutation: no second look at the record
Conflict(r) ==
    /\ turn[r].pc = "recheck"
    /\ Return(r, "conflict")
    /\ UNCHANGED <<layers, void, record, asks, faulty>>

\* the response stored meanwhile, or a body with statusCode 409
Recheck(r) ==
    /\ turn[r].pc = "recheck"
    /\ \/ Cached /\ Return(r, record) /\ UNCHANGED faulty
       \/ ~Cached /\ Return(r, "conflict") /\ UNCHANGED faulty
       \/ Return(r, "conflict") /\ faulty' = TRUE
    /\ UNCHANGED <<layers, void, record, asks>>

\* next.handle(): nothing frees the key of one that throws
Handle(r) ==
    LET body == IF void THEN "none" ELSE "result" IN
    /\ turn[r].pc = "handle"
    /\ \/ /\ Becomes(r, [turn[r] EXCEPT !.pc = "store", !.body = body])
          /\ answer' = [answer EXCEPT ![r] = body] /\ UNCHANGED faulty
       \/ Becomes(r, Idle) /\ UNCHANGED answer /\ faulty' = TRUE
    /\ UNCHANGED <<layers, void, record, asks>>

\* storeResponse, which nobody waits for
Store(r) ==
    LET q == turn[r] IN
    /\ q.pc = "store"
    /\ \/ record' = q.body /\ UNCHANGED faulty
       \/ UNCHANGED record /\ faulty' = TRUE
    /\ Return(r, q.body)
    /\ UNCHANGED <<layers, void, asks>>

Lapse ==
    /\ record # "absent"
    /\ record' = "absent" /\ faulty' = TRUE
    /\ UNCHANGED <<layers, void, turn, answer, asks>>

Init ==
    /\ layers \in {1, 2} /\ void \in BOOLEAN
    /\ record = "absent" /\ turn = [r \in Requests |-> Idle]
    /\ answer = [r \in Requests |-> "none"] /\ asks = 0 /\ faulty = FALSE

Next ==
    \/ \E r \in Requests : Ask(r) \/ Look(r) \/ Lock(r) \/ Recheck(r) \/ Handle(r) \/ Store(r)
    \/ Lapse

Spec == Init /\ [][Next]_vars

(***************************************************************************)
(* Properties                                                              *)
(***************************************************************************)
TypeOK ==
    /\ record \in Records /\ asks \in 0 .. MaxAsks
    /\ answer \in [Requests -> Bodies]
    /\ turn \in [Requests -> [pc : Pcs, depth : 0 .. 2, body : Bodies]]

\* A request is told that one with its key is being processed only while
\* another one is, its response perhaps on its way to the record, unless the
\* key lapsed, Redis or a handler failed, or the handler returns nothing;
\* but not so where the interceptor is applied twice and a request finds its
\* own lock (IdempotencyInterceptor.intercept).
ConflictMeansAnother ==
    [][layers = 1 /\ ~void /\ ~faulty' =>
         \A r \in Requests :
           turn[r].pc = "recheck" /\ turn'[r].pc # "recheck" /\ answer'[r] = "conflict"
             => \E x \in Requests \ {r} : turn[x].pc \in {"handle", "store"}]_vars

=============================================================================
