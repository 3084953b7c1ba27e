--------------------------- MODULE MCKtlsHandover ---------------------------
EXTENDS KtlsHandover

CONSTANT MaxRecords

\* A kernel that lacks a suite for transmitting, and another for receiving.
SomeKernel ==
    [ulp |-> TRUE,
     takes |-> [Tx |-> Suite \ {<<"tls13", "Chacha20Poly1305">>},
                Rx |-> Suite \ {<<"tls12", "Aes128Gcm">>}]]

SomeSuites == {<<"tls13", "Aes256Gcm">>, <<"tls13", "Chacha20Poly1305">>, <<"tls12", "Aes128Gcm">>}

\* The streams of one handshake record followed by at most MaxRecords - 1 others
\* of one or MaxLen bytes, a close_notify or an invalid header coming last, cut
\* anywhere, with a FIN there or without.
Streams ==
    LET Size(len, i) == HeaderLen + len[i]
        Sizes(len) == LET S[i \in 0..Len(len)] == IF i = 0 THEN 0 ELSE S[i - 1] + Size(len, i)
                      IN S
    IN UNION {UNION {UNION {
           {[n |-> k, cut |-> c, fin |-> fin, kind |-> kind,
             start |-> [i \in 1..(k + 1) |-> Sizes(len)[i - 1]]] :
               c \in 0..Sizes(len)[k], fin \in BOOLEAN}
           : kind \in {f \in [1..k -> Kind] :
                /\ \A i \in 1..k : f[i] = "handshake" <=> i = 1
                /\ \A i \in 1..(k - 1) : f[i] \in {"handshake", "data"}}}
           : len \in [1..k -> {1, MaxLen}]}
           : k \in 1..MaxRecords}
=============================================================================
