----------------------------- MODULE SocketHash -----------------------------
(***************************************************************************)
(* The keys of the sockmap: socket_hash computes them from the addresses   *)
(* of a socket (splice_strategy/ebpf_sockmap.rs), the stream_verdict       *)
(* program from what the kernel says of a packet (splice-ebpf/src/main.rs).*)
(*                                                                         *)
(* An address is its family, the sixteen bytes of its IPv6 form and a port *)
(* of two bytes.  A byte is a number below Byte, 256 in the code, so that  *)
(* words of four bytes, and their overflow, fit TLC's integers.            *)
(***************************************************************************)
EXTENDS Integers, Sequences, Functions

CONSTANT Byte

ASSUME ByteAssumption == Byte \in Nat \ {0, 1}

\* u32::from_be_bytes, and the value a little-endian load gives.
FromBeBytes(b) == ((b[1] * Byte + b[2]) * Byte + b[3]) * Byte + b[4]
FromLeBytes(b) == FromBeBytes(<<b[4], b[3], b[2], b[1]>>)

\* to_be on a little-endian host: the four bytes swapped.
ToBe(n) ==
    LET upper(m) == m \div Byte
    IN  FromBeBytes(<<n % Byte, upper(n) % Byte, upper(upper(n)) % Byte, upper(upper(upper(n)))>>)

Port(a) == a.port[1] * Byte + a.port[2]

\* The i-th group of four bytes of an address.
Group(a, i) == SubSeq(a.ip, 4 * i - 3, 4 * i)

\* key = 31 * key + word over the words, modulo 2^32.
Mix(words) ==
    LET key[i \in 0..Len(words)] ==
            IF i = 0 THEN 0 ELSE (31 * key[i - 1] + words[i]) % Byte^4
    IN  key[Len(words)]

Ip(a) == [i \in 1..4 |-> ToBe(FromBeBytes(Group(a, i)))]

SocketHashHostPort(local, peer) ==
    Mix(Ip(local) \o <<Port(local)>> \o Ip(peer) \o <<Port(peer)>>)

socket_hash(local, peer) ==
    Mix(Ip(local) \o <<Port(local)>> \o Ip(peer) \o <<ToBe(Port(peer))>>)

\* What __sk_buff says of a packet that arrived on a socket.  The words of the
\* addresses are loads of their network bytes, and zero unless the socket is of
\* the IPv6 family; the local port is in host order, the remote one in network
\* order in the upper half of the word.
SkBuff(local, remote) ==
    LET Words(a) == [i \in 1..4 |-> IF a.family = "v6" THEN FromLeBytes(Group(a, i)) ELSE 0]
    IN  [local_ipv6 |-> Words(local), local_port |-> Port(local),
         remote_ipv6 |-> Words(remote),
         remote_port |-> (remote.port[1] + remote.port[2] * Byte) * (Byte * Byte)]

\* The key stream_verdict looks a packet up with.
VerdictKey(skb) ==
    Mix(skb.local_ipv6 \o <<skb.local_port>> \o skb.remote_ipv6 \o <<skb.remote_port>>)
=============================================================================
