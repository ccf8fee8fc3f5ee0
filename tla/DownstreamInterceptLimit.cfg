SPECIFICATION Spec
CONSTANTS
    a = a
    Conns <- OneConn
    Protocols = {"connect"}
    Interception = {TRUE}
    Slots = 2
    MaxRequests = 4
    MaxChunks = 0
INVARIANTS
    InterceptedClosed
