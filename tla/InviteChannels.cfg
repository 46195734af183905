SPECIFICATION Spec
CONSTANTS
    Users = {u1, u2, u3}
    Requests = {r1, r2}
    MaxTries = 2
    MaxInvites = 2
    MaxCalls = 3
INVARIANT InvitedArePlaced
CHECK_DEADLOCK FALSE
