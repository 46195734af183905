\* Three tokens, two requests at once; no sockets.
CONSTANTS
    MaxTokens = 3
    Requests = {r1, r2}
    Access = {}
    NoAccess = noAccess
    Workers = {w1}
    Sockets = {}
SYMMETRY Symmetry
SPECIFICATION SockSpec
INVARIANTS AuthInv OneSuccessor SignedOutStaysOut
PROPERTIES ChainSpec
CHECK_DEADLOCK FALSE
