------------------------------ MODULE Presence ------------------------------
(***************************************************************************)
(* Who is connected to a workspace, for one user with several sockets on   *)
(* two workers: the counts of each worker (workspace-presence), the hash   *)
(* they share (redis-presence) and the handlers of the gateway that count  *)
(* (join-workspace, leave-workspace, disconnect).  A handler runs to its   *)
(* next await; commands of one worker reach Redis in their order.          *)
(***************************************************************************)
EXTENDS Integers, FiniteSets

CONSTANTS
    Sockets,       \* sockets of the user
    MaxMoves,      \* bound: connections, and calls to join or to leave
    MaxCrashes     \* bound: workers that die

VARIABLES
    home,       \* home[s]: the worker a socket is connected to, 0 for none
    joining,    \* joining[s]: the worker where its join-workspace waits for the
                \* check of access, 0 for none
    inside,     \* inside[s]: socketWorkspaces of its worker has the workspace
    count,      \* count[w]: socketCount of the user, 0 without an entry
    hash,       \* the user's field of the hash
    dels,       \* HDELs sent and not executed
    moves,      \* how many of these
    crashes,    \* how many workers died
    odd,        \* history: a socket left what it was not in, or went while it
                \* joined
    wiped       \* history: the hash was deleted after a join, or a worker died

vars == <<home, joining, inside, count, hash, dels, moves, crashes, odd, wiped>>

Workers == {1, 2}
On(w)   == {s \in Sockets : home[s] = w}
Inside(w) == {s \in On(w) : inside[s]}

Connect(s) ==
    /\ home[s] = 0 /\ joining[s] = 0 /\ ~inside[s] /\ moves < MaxMoves
    /\ moves' = moves + 1
    /\ \E w \in Workers : home' = [home EXCEPT ![s] = w]
    /\ UNCHANGED <<joining, inside, count, hash, dels, crashes, odd, wiped>>

Join(s) ==
    /\ home[s] # 0 /\ joining[s] = 0 /\ moves < MaxMoves
    /\ moves' = moves + 1
    /\ joining' = [joining EXCEPT ![s] = home[s]]
    /\ UNCHANGED <<home, inside, count, hash, dels, crashes, odd, wiped>>

\* access was refused, or the socket joins the rooms and is counted, once,
\* though it may have gone meanwhile
Joined(s) ==
    LET w == joining[s] IN
    /\ w # 0
    /\ joining' = [joining EXCEPT ![s] = 0]
    /\ \/ UNCHANGED <<inside, count, hash, odd>>
       \/ /\ ~inside[s]
          /\ inside' = [inside EXCEPT ![s] = TRUE]
          /\ count' = [count EXCEPT ![w] = @ + 1]
          /\ hash' = hash + 1
          /\ odd' = (odd \/ home[s] = 0)
    /\ UNCHANGED <<home, dels, moves, crashes, wiped>>

\* mutation: the entry stays when the last socket has gone
Sticky(n) == IF n > 1 THEN n - 1 ELSE 1

\* decrementPresence; without an entry there is nothing to count
Less(n) == IF n > 0 THEN n - 1 ELSE 0

\* markLeft: HINCRBY -1, and when nothing is left an HDEL after its answer
Marked ==
    /\ hash' = hash - 1
    /\ dels' = IF hash <= 1 THEN dels + 1 ELSE dels

\* the count is lowered whether the socket was counted or not; the hash, when
\* it is in any workspace
Leave(s) ==
    LET w == home[s] IN
    /\ w # 0
    /\ count' = [count EXCEPT ![w] = Less(@)]
    /\ inside' = [inside EXCEPT ![s] = FALSE]
    /\ Marked \/ (~inside[s] /\ UNCHANGED <<hash, dels>>)
    /\ inside[s] \/ moves < MaxMoves
    /\ moves' = IF inside[s] THEN moves ELSE moves + 1
    /\ odd' = (odd \/ ~inside[s])
    /\ UNCHANGED <<home, joining, crashes, wiped>>

\* the client closes, or the gateway does
Disconnect(s) ==
    LET w == home[s] IN
    /\ w # 0
    /\ home' = [home EXCEPT ![s] = 0]
    /\ inside' = [inside EXCEPT ![s] = FALSE]
    /\ IF inside[s] THEN count' = [count EXCEPT ![w] = Less(@)] /\ Marked
                    ELSE UNCHANGED <<count, hash, dels>>
    /\ UNCHANGED <<joining, moves, crashes, odd, wiped>>

\* the field is deleted, whoever has been counted in it meanwhile
Hdel ==
    /\ dels > 0 /\ dels' = dels - 1
    /\ wiped' = (wiped \/ hash # 0)
    /\ hash' = 0
    /\ UNCHANGED <<home, joining, inside, count, moves, crashes, odd>>

\* the worker starts again with nothing; what it had counted stays in Redis
Crash(w) ==
    /\ crashes < MaxCrashes /\ crashes' = crashes + 1
    /\ count' = [count EXCEPT ![w] = 0]
    /\ home' = [s \in Sockets |-> IF home[s] = w THEN 0 ELSE home[s]]
    /\ inside' = [s \in Sockets |-> inside[s] /\ home[s] # w]
    /\ joining' = [s \in Sockets |-> IF joining[s] = w THEN 0 ELSE joining[s]]
    /\ wiped' = TRUE
    /\ UNCHANGED <<hash, dels, moves, odd>>

Init ==
    /\ home = [s \in Sockets |-> 0] /\ joining = [s \in Sockets |-> 0]
    /\ inside = [s \in Sockets |-> FALSE] /\ count = [w \in Workers |-> 0]
    /\ hash = 0 /\ dels = 0 /\ moves = 0 /\ crashes = 0 /\ odd = FALSE /\ wiped = FALSE

Next ==
    \/ \E s \in Sockets : Connect(s) \/ Join(s) \/ Joined(s) \/ Leave(s) \/ Disconnect(s)
    \/ Hdel \/ \E w \in Workers : Crash(w)

Spec == Init /\ [][Next]_vars

(***************************************************************************)
(* Properties                                                              *)
(***************************************************************************)
\* A worker shows the user connected exactly while one of its sockets there
\* is in the workspace, and the hash counts the sockets of all workers,
\* unless a socket left what it was not in or went before its join was done;
\* of the hash, unless a deletion ran into a join or a worker died
\* (markWorkspaceJoined, markWorkspaceLeft, markSocketDisconnected).
PresenceHonest ==
    \/ odd
    \/ /\ \A w \in Workers : count[w] = Cardinality(Inside(w))
       /\ wiped \/ hash = Cardinality(Inside(1)) + Cardinality(Inside(2))

=============================================================================
