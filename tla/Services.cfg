SPECIFICATION ServicesSpec
CONSTANTS
    Users = {u1, u2, u3}
    Requests = {r1, r2}
    MaxChannels = 2
    MaxArrivals = 3
    Guests = {g1}
    MaxTries = 2
    MaxInvites = 2
    MaxCalls = 3
    MaxPosts = 1
    MaxChanges = 1
    Attempts = 2
    MaxRows = 3
    MaxTime = 4
    PerMs = 2
    PageSize = 1
    Names = {n1, n2}
    MaxEmojis = 3
    MaxRequests = 4
    Sockets = {s1, s2}
    MaxMoves = 6
    MaxCrashes = 1
    MaxAsks = 4
SYMMETRY Symmetry
INVARIANTS OnePrimary OneDefault  OneLink  UnreadKept  NothingDangles 
PROPERTIES ManagerRemains ConflictMeansAnother
CHECK_DEADLOCK FALSE
