SPECIFICATION FairSpec
CONSTANTS
    a = a
    Conns <- OneConn
    Protocols = {"connect", "plain", "socks5"}
    Interception = {FALSE, TRUE}
    Slots = 2
    MaxRequests = 4
    MaxChunks = 2
INVARIANTS
    TypeOK
    TrackerClosedOnce
    AnsweredInTurn
    StreamsIntact
    CountedAsCarried
PROPERTIES
    TunnelsEnd
    HandshakesEnd
