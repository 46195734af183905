---------------------------- MODULE MCServices ------------------------------
(***************************************************************************)
(* The services whose state is small, side by side for TLC.  They share no *)
(* state and each is explored alone: the first state chooses the one that  *)
(* moves in a behaviour, the others stay as they began.                    *)
(***************************************************************************)
EXTENDS Workplace

CONSTANTS
    Guests, MaxTries, MaxInvites, MaxCalls,     \* EmailInvite
    MaxPosts, MaxChanges, Attempts,             \* Notification
    MaxRows, MaxTime, PerMs, PageSize,          \* Timeline
    Names, MaxEmojis, MaxRequests,              \* WorkspaceEmojis
    Sockets, MaxMoves, MaxCrashes,              \* Presence
    MaxAsks                                     \* Idempotency

ASSUME ServicesAssumption ==
    /\ PerMs \in Nat \ {0} /\ MaxRows \in Nat /\ IsFiniteSet(Sockets)
    /\ MaxInvites \in Nat /\ Attempts \in Nat

VARIABLES
    scene,     \* the service that moves
    invite, insider, placed, account, key, call, calls, crossed,
    direct, author, setting, sub, post, notice, changes, moved,
    now, row, lastRead, mark, seen, begun, scroll, reader,
    emoji, settings, slots, ask, asked, raced,
    home, joining, inside, count, hash, dels, moves, crashes, odd, wiped,
    layers, void, record, turn, answer, asks, faulty

Invitations   == INSTANCE EmailInvite WITH Users <- Guests
Notifications == INSTANCE Notification
Pages         == INSTANCE Timeline
Reactions     == INSTANCE WorkspaceEmojis
Online        == INSTANCE Presence
Keys          == INSTANCE Idempotency

workplace     == vars
invitations   == <<invite, insider, placed, account, key, call, calls, crossed>>
notifications == <<direct, author, setting, sub, post, notice, changes, moved>>
pages         == <<now, row, lastRead, mark, seen, begun, scroll, reader>>
reactions     == <<emoji, settings, slots, ask, asked, raced>>
presence      == <<home, joining, inside, count, hash, dels, moves, crashes, odd, wiped>>
keys          == <<layers, void, record, turn, answer, asks, faulty>>
all == <<scene, workplace, invitations, notifications, pages, reactions, presence, keys>>

ServicesInit ==
    /\ scene \in {"workplace", "invitations", "notifications", "pages", "reactions", "presence", "keys"}
    /\ Init /\ Invitations!Init /\ Notifications!Init /\ Pages!Init /\ Reactions!Init
    /\ Online!Init /\ Keys!Init
    /\ scene # "workplace" => ~exists
    /\ scene # "invitations" => account = {}
    /\ scene # "notifications" => ~direct
    /\ scene # "pages" => reader = "marks"
    /\ scene # "keys" => layers = 1 /\ ~void

ServicesNext ==
    \/ /\ scene = "workplace" /\ Next
       /\ UNCHANGED <<scene, invitations, notifications, pages, reactions, presence, keys>>
    \/ /\ scene = "invitations" /\ Invitations!Next
       /\ UNCHANGED <<scene, workplace, notifications, pages, reactions, presence, keys>>
    \/ /\ scene = "notifications" /\ Notifications!Next
       /\ UNCHANGED <<scene, workplace, invitations, pages, reactions, presence, keys>>
    \/ /\ scene = "pages" /\ Pages!Next
       /\ UNCHANGED <<scene, workplace, invitations, notifications, reactions, presence, keys>>
    \/ /\ scene = "reactions" /\ Reactions!Next
       /\ UNCHANGED <<scene, workplace, invitations, notifications, pages, presence, keys>>
    \/ /\ scene = "presence" /\ Online!Next
       /\ UNCHANGED <<scene, workplace, invitations, notifications, pages, reactions, keys>>
    \/ /\ scene = "keys" /\ Keys!Next
       /\ UNCHANGED <<scene, workplace, invitations, notifications, pages, reactions, presence>>

ServicesSpec == ServicesInit /\ [][ServicesNext]_all

\* The properties of the services, each in its module.
OneLink        == Invitations!OneLink
OneNotice      == Notifications!OneNotice
UnreadKept     == Pages!UnreadKept
PagesComplete  == Pages!PagesComplete
NothingDangles == Reactions!NothingDangles
PresenceHonest == Online!PresenceHonest
ConflictMeansAnother == Keys!ConflictMeansAnother

Symmetry == Permutations(Users) \cup Permutations(Requests)
=============================================================================
