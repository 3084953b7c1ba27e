SPECIFICATION FairSpec
CONSTANTS
    Byte = 4
    Modes = {"splice", "tls", "sockmap"}
    Sockets <- MCSockets
    InCap = 2
    OutCap = 1
    Budget = 2
CHECK_DEADLOCK FALSE
INVARIANTS
    TypeOK
    SockmapKeepsOrder
    RedirectsToOther
PROPERTIES
    ForwardsInOrder
    DeadlineEnds
