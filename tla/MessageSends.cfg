SPECIFICATION FairSpec
CONSTANTS
    Users = {u1, u2}
    NoPage = NoPage
    Requests = {r1, r2}
    MaxMessages = 3
    MaxFiles = 2
    MaxArrivals = 2
INVARIANTS RepliesCounted  Delivered ObjectsKept
PROPERTIES PageSettles
CHECK_DEADLOCK FALSE
