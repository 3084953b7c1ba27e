CONSTANTS
    Conn = {c1, c2}
    Tls = TRUE
    Upstreams <- TlsRule
    Contexts <- TlsClients
    NoName = "none"
    PeekSize = 2
    Modulus = 8
    MaxChunks = 4
SPECIFICATION FairSpec
INVARIANTS
    TypeOK
    BackendSeesWholeStream
    BalancedPicks
PROPERTIES
    PassthroughEnds
CHECK_DEADLOCK FALSE
