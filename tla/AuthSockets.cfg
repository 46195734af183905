\* Two tokens, one request at a time, one connection.
CONSTANTS
    MaxTokens = 2
    Requests = {r1}
    Access = {a1}
    NoAccess = noAccess
    Workers = {w1}
    Sockets = {s1}
SPECIFICATION SockSpec
PROPERTIES SocketsEnd
CHECK_DEADLOCK FALSE
