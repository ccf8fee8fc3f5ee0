SPECIFICATION FairSpec
CONSTANTS
    a = a
    Conns <- OneConn
    Protocols = {"socks5"}
    Interception = {TRUE}
    Slots = 1
    MaxRequests = 4
    MaxChunks = 0
PROPERTIES
    InterceptionProceeds
