SPECIFICATION Spec
CONSTANTS
    a = a
    Conns <- OneConn
    Protocols = {"plain"}
    Interception = {FALSE}
    Slots = 1
    MaxRequests = 3
    MaxChunks = 0
INVARIANTS
    Drained
