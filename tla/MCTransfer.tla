----------------------------- MODULE MCTransfer -----------------------------
(* Addresses for Transfer: a pair of IPv6 sockets, one of IPv4 sockets, and *)
(* one of IPv6 sockets whose keys collide, with bytes of two bits.          *)
EXTENDS Transfer

Address(family, last, port) ==
    [family |-> family, port |-> port,
     ip |-> [i \in 1..16 |-> CASE i = 16 -> last [] i = 5 -> 2 [] OTHER -> i % 2]]

Addresses(family, local, peer) ==
    [client |-> [local |-> Address(family, 1, <<0, 1>>), peer |-> Address(family, 2, <<3, 1>>)],
     backend |-> [local |-> Address(family, 1, local), peer |-> Address(family, 3, peer)]]

MCSockets ==
    {Addresses("v6", <<2, 3>>, <<0, 2>>), Addresses("v4", <<2, 3>>, <<0, 2>>),
     Addresses("v6", <<0, 1>>, <<3, 2>>)}
=============================================================================
