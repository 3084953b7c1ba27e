CONSTANTS
    Conn = {c1}
    Tls = TRUE
    Upstreams <- TlsRule
    Contexts <- TlsClients
    NoName = "none"
    PeekSize = 2
    Modulus = 8
    MaxChunks = 5
SPECIFICATION Spec
INVARIANTS
    HelloIsRouted
CHECK_DEADLOCK FALSE
