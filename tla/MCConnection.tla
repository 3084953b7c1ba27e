---------------------------- MODULE MCConnection ----------------------------
EXTENDS Connection

Upstream(kind, arg, backends, lb, proxy, tls) ==
    [match |-> [kind |-> kind, arg |-> arg], backends |-> backends, lb |-> lb,
     proxy_protocol |-> proxy, tls |-> tls]

\* A rule with every kind of condition but Any. A client that names "a" gets
\* the second upstream, which ends TLS, "b" the fifth.
TlsRule ==
    << Upstream("None", "", 1, "RoundRobin", FALSE, FALSE),
       Upstream("Sni", "a", 2, "Random", TRUE, TRUE),
       Upstream("Alpn", "h2", 1, "RoundRobin", FALSE, FALSE),
       Upstream("SniRegex", {"c"}, 1, "RoundRobin", FALSE, FALSE),
       Upstream("SniRegexNot", {"d"}, 2, "RoundRobin", TRUE, FALSE),
       Upstream("DestinationPort", 25, 1, "RoundRobin", FALSE, FALSE) >>

Client(sni, alpns) == [sni |-> sni, alpns |-> alpns, port |-> 443]

\* A client that names "d" gets none, one that names no server the third.
TlsClients ==
    {Client("a", {"h2"}), Client("b", {}), Client("d", {}), Client("none", {"h2"})}
=============================================================================
