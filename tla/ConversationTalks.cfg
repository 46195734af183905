SPECIFICATION Spec
CONSTANTS
    Users = {u1, u2, u3}
    Requests = {r1, r2}
    Limit = 3
    MaxConversations = 3
    MaxMessages = 3
    MaxArrivals = 3
SYMMETRY Symmetry
INVARIANTS OneConversation HiddenAlike HeardByThose 
CHECK_DEADLOCK FALSE
