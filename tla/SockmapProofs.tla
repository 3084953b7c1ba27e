--------------------------- MODULE SockmapProofs ----------------------------
(***************************************************************************)
(* The keys that user space and the stream_verdict program compute for a   *)
(* socket are the same, for all IPv6 addresses and ports, although the one *)
(* starts from addresses and the other from words in network order; so     *)
(* each of two sockets in the map is redirected to the other.              *)
(***************************************************************************)
EXTENDS TransferProofs, FiniteSetTheorems

Digit == 0..(Byte - 1)

\* An IPv6 address with its port.
IsV6(a) ==
    /\ a.family = "v6"
    /\ a.ip \in Seq(Digit) /\ Len(a.ip) = 16
    /\ a.port \in Digit \X Digit

\* Division and remainder take a word apart into its last byte and the others.
LEMMA LastByte ==
    ASSUME NEW q \in Nat, NEW r \in Digit
    PROVE  (q * Byte + r) % Byte = r /\ (q * Byte + r) \div Byte = q
<1> USE ByteAssumption DEF Digit
<1> DEFINE n == q * Byte + r
           d == n \div Byte
           m == n % Byte
<1>1. n \in Nat
  OBVIOUS
<1>2. d \in Nat /\ m \in 0..(Byte - 1) /\ n = Byte * d + m
  BY <1>1
<1> HIDE DEF n, d, m
<1>3. (q - d) * Byte = m - r
  BY <1>1, <1>2 DEF n
<1>4. q = d
  <2>1. CASE q - d >= 1
    <3>1. (q - d) * Byte >= Byte
      BY <1>2, <2>1
    <3> QED
      BY <1>2, <1>3, <3>1
  <2>2. CASE q - d <= -1
    <3>1. (q - d) * Byte <= -Byte
      BY <1>2, <2>2
    <3> QED
      BY <1>2, <1>3, <3>1
  <2> QED
    BY <1>2, <2>1, <2>2
<1> QED
  BY <1>2, <1>3, <1>4 DEF n, d, m

\* to_be reverses the bytes of a word.
LEMMA ToBeReverses ==
    ASSUME NEW a \in Digit, NEW b \in Digit, NEW c \in Digit, NEW d \in Digit
    PROVE  ToBe(((a * Byte + b) * Byte + c) * Byte + d) = ((d * Byte + c) * Byte + b) * Byte + a
<1> USE ByteAssumption
<1> DEFINE q1 == a
           q2 == a * Byte + b
           q3 == q2 * Byte + c
           n == q3 * Byte + d
<1>1. a \in Nat /\ q2 \in Nat /\ q3 \in Nat
  BY DEF Digit
<1> HIDE DEF q2, q3, n
<1>2. n % Byte = d /\ n \div Byte = q3
  BY <1>1, LastByte, Zenon DEF n
<1>3. q3 % Byte = c /\ q3 \div Byte = q2
  BY <1>1, LastByte, Zenon DEF q3
<1>4. q2 % Byte = b /\ q2 \div Byte = a
  BY <1>1, LastByte, Zenon DEF q2
<1>5. ToBe(n) = FromBeBytes(<<d, c, b, a>>)
  BY <1>2, <1>3, <1>4, Zenon DEF ToBe
<1> QED
  BY <1>5, Zenon DEF FromBeBytes, n, q3, q2

\* A group of an address is four bytes.
LEMMA GroupBytes ==
    ASSUME NEW a, IsV6(a), NEW i \in 1..4
    PROVE  /\ Group(a, i) \in Seq(Digit) /\ Len(Group(a, i)) = 4
           /\ \A k \in 1..4 : Group(a, i)[k] \in Digit
<1>1. \A k \in (4 * i - 3)..(4 * i) : a.ip[k] \in Digit
  BY SMTT(30) DEF IsV6
<1>2. /\ Group(a, i) \in Seq(Digit)
      /\ Len(Group(a, i)) = 4 * i - (4 * i - 3) + 1
  BY <1>1, SubSeqProperties DEF Group
<1>3. Len(Group(a, i)) = 4
  BY <1>2
<1> QED
  BY <1>2, <1>3, SMTT(30)

\* A word of an address, loaded from its network bytes, is to_be of its value.
LEMMA WordsAgree ==
    ASSUME NEW a, IsV6(a), NEW i \in 1..4
    PROVE  ToBe(FromBeBytes(Group(a, i))) = FromLeBytes(Group(a, i))
<1> DEFINE g == Group(a, i)
<1>1. g \in Seq(Digit) /\ Len(g) = 4 /\ g[1] \in Digit /\ g[2] \in Digit /\ g[3] \in Digit /\ g[4] \in Digit
  BY GroupBytes
<1> HIDE DEF g
<1>2. ToBe(FromBeBytes(g)) = ((g[4] * Byte + g[3]) * Byte + g[2]) * Byte + g[1]
  BY <1>1, ToBeReverses, Zenon DEF FromBeBytes
<1>3. FromLeBytes(g) = ((g[4] * Byte + g[3]) * Byte + g[2]) * Byte + g[1]
  BY Zenon DEF FromLeBytes, FromBeBytes
<1> QED
  BY <1>2, <1>3, Zenon DEF g

\* The remote port of a packet is to_be of the port.
LEMMA PortsAgree ==
    ASSUME NEW a, IsV6(a)
    PROVE  ToBe(Port(a)) = (a.port[1] + a.port[2] * Byte) * (Byte * Byte)
<1> USE ByteAssumption
<1>1. a.port[1] \in Digit /\ a.port[2] \in Digit /\ 0 \in Digit
  BY DEF IsV6, Digit
<1>2. PICK p \in Digit, q \in Digit : p = a.port[1] /\ q = a.port[2]
  BY <1>1, Zenon
<1>3. ToBe(((0 * Byte + 0) * Byte + p) * Byte + q) = ((q * Byte + p) * Byte + 0) * Byte + 0
  BY <1>1, ToBeReverses, Zenon
<1>4. ((0 * Byte + 0) * Byte + p) * Byte + q = p * Byte + q
  BY DEF Digit
<1>5. ((q * Byte + p) * Byte + 0) * Byte + 0 = (p + q * Byte) * (Byte * Byte)
  BY DEF Digit
<1> QED
  BY <1>2, <1>3, <1>4, <1>5, Zenon DEF Port

\* stream_verdict finds a packet of an IPv6 socket under the key splice inserted
\* for that socket.
THEOREM KeysAgree ==
    ASSUME NEW local, NEW peer, IsV6(local), IsV6(peer)
    PROVE  VerdictKey(SkBuff(local, peer)) = socket_hash(local, peer)
<1>1. ASSUME NEW a, IsV6(a)
      PROVE  [i \in 1..4 |-> IF a.family = "v6" THEN FromLeBytes(Group(a, i)) ELSE 0] = Ip(a)
  <2>1. a.family = "v6"
    BY <1>1, Zenon DEF IsV6
  <2>2. \A i \in 1..4 : FromLeBytes(Group(a, i)) = ToBe(FromBeBytes(Group(a, i)))
    BY <1>1, WordsAgree, Zenon
  <2> QED
    BY <2>1, <2>2, Zenon DEF Ip
<1>2. /\ SkBuff(local, peer).local_ipv6 = Ip(local)
      /\ SkBuff(local, peer).remote_ipv6 = Ip(peer)
      /\ SkBuff(local, peer).local_port = Port(local)
      /\ SkBuff(local, peer).remote_port = ToBe(Port(peer))
  BY <1>1, PortsAgree, Zenon DEF SkBuff
<1> QED
  BY <1>2, Zenon DEF VerdictKey, socket_hash
-----------------------------------------------------------------------------
(* The entries of the map. *)

\* Both ends of an IPv6 socket have IPv6 addresses.
V6Sockets ==
    \A p \in Sockets : \A s \in Side :
        p[s].local.family = "v6" => IsV6(p[s].local) /\ IsV6(p[s].peer)

\* The map is empty, has the first entry or both of them.
MapInv ==
    /\ pair \in Sockets
    /\ \/ DOMAIN sockmap = {}
       \/ DOMAIN sockmap = {SocketKey("client")} /\ sockmap[SocketKey("client")] = "backend"
       \/ /\ DOMAIN sockmap = {SocketKey("client"), SocketKey("backend")}
          /\ sockmap[SocketKey("backend")] = "client"
          /\ SocketKey("client") # SocketKey("backend") => sockmap[SocketKey("client")] = "backend"

\* Two elements are neither none nor one.
LEMMA TwoElements ==
    ASSUME NEW a, NEW b, a # b PROVE Cardinality({a, b}) = 2
<1>1. IsFiniteSet({a}) /\ Cardinality({a}) = 1 /\ b \notin {a} /\ {a} \cup {b} = {a, b}
  BY FS_Singleton, Zenon
<1>2. Cardinality({a} \cup {b}) = Cardinality({a}) + 1
  BY <1>1, FS_AddElement, Zenon
<1> QED
  BY <1>1, <1>2

\* How many entries the map has in each case.
LEMMA MapSizes ==
    /\ DOMAIN sockmap = {} => Cardinality(DOMAIN sockmap) = 0
    /\ \A a : DOMAIN sockmap = {a} => Cardinality(DOMAIN sockmap) = 1
    /\ \A a, b : DOMAIN sockmap = {a, b} =>
           Cardinality(DOMAIN sockmap) = IF a = b THEN 1 ELSE 2
<1>1. DOMAIN sockmap = {} => Cardinality(DOMAIN sockmap) = 0
  BY FS_EmptySet, Zenon
<1>2. ASSUME NEW a, DOMAIN sockmap = {a} PROVE Cardinality(DOMAIN sockmap) = 1
  BY <1>2, FS_Singleton, Zenon
<1>3. ASSUME NEW a, NEW b, DOMAIN sockmap = {a, b}
      PROVE  Cardinality(DOMAIN sockmap) = IF a = b THEN 1 ELSE 2
  <2>1. CASE a = b
    <3>1. DOMAIN sockmap = {a}
      BY <1>3, <2>1, Zenon
    <3>2. Cardinality(DOMAIN sockmap) = 1
      BY <3>1, FS_Singleton, Zenon
    <3> QED
      BY <2>1, <3>2, Zenon
  <2>2. CASE a # b
    <3>1. Cardinality({a, b}) = 2
      BY <2>2, TwoElements, Zenon
    <3>2. Cardinality(DOMAIN sockmap) = 2
      BY <1>3, <3>1, Zenon
    <3> QED
      BY <2>2, <3>2, Zenon
  <2> QED
    BY <2>1, <2>2, Zenon
<1> QED
  BY <1>1, <1>2, <1>3, Zenon

\* The same, of the map that the inserts fill.
LEMMA MapCases ==
    ASSUME MapInv
    PROVE  /\ Cardinality(DOMAIN sockmap) = 0 => DOMAIN sockmap = {}
           /\ Cardinality(DOMAIN sockmap) = 1 => DOMAIN sockmap # {}
           /\ Cardinality(DOMAIN sockmap) = 2 =>
                /\ DOMAIN sockmap = {SocketKey("client"), SocketKey("backend")}
                /\ SocketKey("client") # SocketKey("backend")
                /\ sockmap[SocketKey("backend")] = "client" /\ sockmap[SocketKey("client")] = "backend"
<1>1. CASE DOMAIN sockmap = {}
  <2>1. Cardinality(DOMAIN sockmap) = 0
    BY <1>1, MapSizes, Zenon
  <2> QED
    BY <1>1, <2>1
<1>2. CASE DOMAIN sockmap = {SocketKey("client")}
  <2>1. Cardinality(DOMAIN sockmap) = 1
    BY <1>2, MapSizes, Zenon
  <2> QED
    BY <1>2, <2>1
<1>3. CASE /\ DOMAIN sockmap = {SocketKey("client"), SocketKey("backend")}
           /\ sockmap[SocketKey("backend")] = "client"
           /\ SocketKey("client") # SocketKey("backend") => sockmap[SocketKey("client")] = "backend"
  <2>1. Cardinality(DOMAIN sockmap) = IF SocketKey("client") = SocketKey("backend") THEN 1 ELSE 2
    BY <1>3, MapSizes, Zenon
  <2>2. DOMAIN sockmap # {}
    BY <1>3, Zenon
  <2>3. CASE SocketKey("client") = SocketKey("backend")
    BY <2>1, <2>2, <2>3
  <2>4. CASE SocketKey("client") # SocketKey("backend")
    BY <1>3, <2>1, <2>2, <2>4, SMTT(30)
  <2> QED
    BY <2>3, <2>4, Zenon
<1> QED
  BY <1>1, <1>2, <1>3, Zenon DEF MapInv

\* Every step keeps the map so.
LEMMA MapStep == MapInv /\ [Next]_vars => MapInv'
<1> SUFFICES ASSUME MapInv, [Next]_vars PROVE MapInv'
  BY Zenon
<1>1. pair' = pair
  BY Zenon DEF Next, Task, Peers, Insert, CopyItem, CopyEnd, InsertFails, CopyControl, CopyFails,
         CopyDone, CopyPending, Timer, Wake, Close, ClientControl, PeerSends, PeerEnds,
         PeerReads, Elapse, vars, fixedVars
<1>2. SocketKey("client")' = SocketKey("client") /\ SocketKey("backend")' = SocketKey("backend")
  BY <1>1, Zenon DEF SocketKey
<1>3. CASE UNCHANGED sockmap
  BY <1>1, <1>2, <1>3, Zenon DEF MapInv
<1>4. ASSUME NEW s \in Side, Insert(s) PROVE MapInv'
  <2>1. /\ Cardinality(DOMAIN sockmap) = IF s = "client" THEN 0 ELSE 1
        /\ sockmap' = [k \in DOMAIN sockmap \cup {SocketKey(s)} |->
                          IF k = SocketKey(s) THEN Other(s) ELSE sockmap[k]]
    BY <1>4, Zenon DEF Insert
  <2>3. CASE s = "client"
    <3>1. DOMAIN sockmap = {}
      BY <2>1, <2>3, MapCases, Zenon
    <3> QED
      BY <1>1, <1>2, <2>1, <2>3, <3>1, Sides, Zenon DEF MapInv
  <2>4. CASE s = "backend"
    <3>1. DOMAIN sockmap # {}
      BY <2>1, <2>4, MapCases, Zenon
    <3> QED
      BY <1>1, <1>2, <2>1, <2>4, <3>1, Sides, SMTT(30) DEF MapInv
  <2> QED
    BY <2>3, <2>4, Zenon DEF Side
<1> QED
  BY <1>3, <1>4, Zenon
     DEF Next, Task, Peers, CopyItem, CopyEnd, InsertFails, CopyControl, CopyFails,
         CopyDone, CopyPending, Timer, Wake, Close, ClientControl, PeerSends, PeerEnds,
         PeerReads, Elapse, vars, mapVars

\* With both inserts made, a packet on an IPv6 socket is redirected to the other
\* socket, whatever the addresses and ports.
THEOREM Redirects == ASSUME V6Sockets PROVE Spec => []RedirectsToOther
<1>1. Init => MapInv
  BY DEF Init, MapInv
<1>2. MapInv => RedirectsToOther
  <2> SUFFICES ASSUME MapInv, Cardinality(DOMAIN sockmap) = 2, NEW s \in Side,
                      pair[s].local.family = "v6"
               PROVE  StreamVerdict(s) = {Other(s)}
    BY Zenon DEF RedirectsToOther
  <2>2. /\ DOMAIN sockmap = {SocketKey("client"), SocketKey("backend")} /\ SocketKey("client") # SocketKey("backend")
        /\ sockmap[SocketKey("backend")] = "client" /\ sockmap[SocketKey("client")] = "backend"
    BY MapCases, Zenon
  <2>3. PacketKey(s) = SocketKey(s)
    BY KeysAgree DEF MapInv, V6Sockets, PacketKey, PacketKeys, SocketKey, SocketKeys
  <2>4. SocketKey(s) \in DOMAIN sockmap /\ sockmap[SocketKey(s)] = Other(s) /\ s \in Range(sockmap)
    BY <2>2, Sides, Zenon DEF Side, Range
  <2> QED
    BY <2>3, <2>4, Zenon DEF StreamVerdict
<1> QED
  BY <1>1, <1>2, MapStep, PTL DEF Spec
-----------------------------------------------------------------------------
(***************************************************************************)
(* The order of what the sockmap carries.  The invariant says what the map *)
(* holds at each point of the task, that a socket whose packets are        *)
(* redirected receives only the end of its stream, unless it had received  *)
(* something before, and how the last item under way and the next one to   *)
(* be sent go together.                                                    *)
(***************************************************************************)
Entries ==
    IF pc = "insert"
    THEN \/ DOMAIN sockmap = {}
         \/ DOMAIN sockmap = {SocketKey("client")} /\ sockmap[SocketKey("client")] = "backend"
    ELSE /\ DOMAIN sockmap = {SocketKey("client"), SocketKey("backend")}
         /\ sockmap[SocketKey("client")] = "backend" /\ sockmap[SocketKey("backend")] = "client"

\* The packets of socket s are found in the map.
Redirected(s) == pc # "insert" /\ PacketKey(s) = SocketKey(s)

\* What is under way ends with what the peer sent last.
LastSent(s) ==
    UnderWay(s) # <<>> =>
        UnderWay(s)[Len(UnderWay(s))] = IF fin[s] THEN End ELSE Flip(next[s])

InOrder(s) == InSequence(UnderWay(s)) /\ LastSent(s)

Carries(s) ==
    /\ pc = "insert" => outbox[s] = <<>>
    /\ Redirected(s) /\ ~early[s] => \A i \in 1..Len(inbox[s]) : inbox[s][i] = End
    /\ ~(Redirected(s) /\ early[s]) => InOrder(s)

SockmapInv ==
    mode = "sockmap" /\ KeysDiffer /\ pc # "ended" => Entries /\ \A s \in Side : Carries(s)

\* A sequence stays one when the item that is due, or the end, is appended.
LEMMA SequenceAppend ==
    ASSUME NEW q \in Seq(Received), NEW m \in Data \cup {End}, InSequence(q),
           q # <<>> => q[Len(q)] \in Data /\ m \in {Flip(q[Len(q)]), End}
    PROVE  /\ InSequence(Append(q, m)) /\ Append(q, m) # <<>>
           /\ Append(q, m)[Len(Append(q, m))] = m
<1> DEFINE r == Append(q, m)
<1>1. /\ Len(q) \in Nat /\ Len(r) = Len(q) + 1 /\ r[Len(q) + 1] = m
      /\ \A i \in 1..Len(q) : r[i] = q[i]
  OBVIOUS
<1>2. r # <<>> /\ r[Len(r)] = m
  BY <1>1
<1>3. q = <<>> \/ Len(q) > 0
  OBVIOUS
<1> HIDE DEF r
<1>4. ASSUME NEW i \in 1..(Len(r) - 1) PROVE r[i] \in Data /\ r[i + 1] \in {Flip(r[i]), End}
  <2>1. CASE i < Len(q)
    <3>1. i \in 1..(Len(q) - 1) /\ r[i] = q[i] /\ r[i + 1] = q[i + 1]
      BY <1>1, <2>1
    <3> QED
      BY <3>1, Zenon DEF InSequence
  <2>2. CASE i = Len(q)
    <3>1. q # <<>> /\ r[i] = q[Len(q)] /\ r[i + 1] = m
      BY <1>1, <1>4, <2>2
    <3> QED
      BY <3>1, Zenon
  <2> QED
    BY <1>1, <2>1, <2>2
<1>5. InSequence(r)
  BY <1>4, Zenon DEF InSequence
<1> QED
  BY <1>2, <1>5, Zenon DEF r

\* A sequence stays one when its first item is taken.
LEMMA SequenceTail ==
    ASSUME NEW q \in Seq(Received), q # <<>>, InSequence(q)
    PROVE  /\ InSequence(Tail(q))
           /\ Tail(q) # <<>> => Tail(q)[Len(Tail(q))] = q[Len(q)]
<1> DEFINE r == Tail(q)
<1>1. /\ Len(q) \in Nat /\ Len(r) = Len(q) - 1 /\ \A i \in 1..Len(r) : r[i] = q[i + 1]
      /\ r = <<>> \/ Len(r) > 0
  OBVIOUS
<1> HIDE DEF r
<1>2. InSequence(r)
  <2> SUFFICES ASSUME NEW i \in 1..(Len(r) - 1)
               PROVE  r[i] \in Data /\ r[i + 1] \in {Flip(r[i]), End}
    BY Zenon DEF InSequence
  <2>1. i + 1 \in 1..(Len(q) - 1) /\ r[i] = q[i + 1] /\ r[i + 1] = q[(i + 1) + 1]
    BY <1>1, SMTT(30)
  <2> QED
    BY <2>1, Zenon DEF InSequence
<1>3. r # <<>> => r[Len(r)] = q[Len(q)]
  BY <1>1
<1> QED
  BY <1>2, <1>3, Zenon DEF r

\* The types of what is under way, and the alternation of the items.
LEMMA UnderWayTypes ==
    ASSUME OrderInv, NEW s \in Side
    PROVE  /\ UnderWay(s) \in Seq(Received)
           /\ inbox[s] \in Seq(Received) /\ outbox[Other(s)] \in Seq(Received)
           /\ next[s] \in Data /\ Flip(next[s]) \in Data /\ Flip(Flip(next[s])) = next[s]
<1>1. inbox[s] \in Seq(Received) /\ outbox[Other(s)] \in Seq(Received) /\ next[s] \in Data
  BY Sides, Zenon DEF OrderInv
<1>2. UnderWay(s) \in Seq(Received)
  BY <1>1 DEF UnderWay
<1> QED
  BY <1>1, <1>2, Zenon DEF Flip, Data

\* A direction nothing happens to stays in order.
LEMMA OrderRests ==
    ASSUME NEW s \in Side, Rests(s), next'[s] = next[s], InOrder(s) PROVE InOrder(s)'
  BY Zenon DEF Rests, InOrder, LastSent

\* A direction whose peer receives its first item stays in order.
LEMMA OrderReceives ==
    ASSUME OrderInv, NEW s \in Side, Receives(s), next'[s] = next[s], InOrder(s)
    PROVE  InOrder(s)'
<1>1. UnderWay(s) \in Seq(Received)
  BY UnderWayTypes, Zenon
<1>2. /\ InSequence(Tail(UnderWay(s)))
      /\ Tail(UnderWay(s)) # <<>> =>
             Tail(UnderWay(s))[Len(Tail(UnderWay(s)))] = UnderWay(s)[Len(UnderWay(s))]
  BY <1>1, SequenceTail, Zenon DEF Receives, InOrder
<1> QED
  BY <1>2, Zenon DEF Receives, InOrder, LastSent

\* A direction whose peer sends the next item, or ends its stream, stays in
\* order.
LEMMA OrderSends ==
    ASSUME OrderInv, NEW s \in Side, NEW m, m \in {next[s], End}, ~fin[s], InOrder(s),
           UnderWay(s)' = Append(UnderWay(s), m),
           m = End => fin'[s],
           m # End => ~fin'[s] /\ next'[s] = Flip(m)
    PROVE  InOrder(s)'
<1>1. /\ UnderWay(s) \in Seq(Received) /\ m \in Data \cup {End}
      /\ next[s] \in Data /\ Flip(next[s]) \in Data /\ Flip(Flip(next[s])) = next[s]
  BY UnderWayTypes, Zenon
<1>2. UnderWay(s) # <<>> =>
        UnderWay(s)[Len(UnderWay(s))] \in Data /\ m \in {Flip(UnderWay(s)[Len(UnderWay(s))]), End}
  BY <1>1, Zenon DEF InOrder, LastSent
<1>3. /\ InSequence(UnderWay(s)')
      /\ UnderWay(s)'[Len(UnderWay(s)')] = m
  BY <1>1, <1>2, SequenceAppend, Zenon DEF InOrder
<1>4. m # End => m = Flip(next'[s])
  BY <1>1, Zenon
<1> QED
  BY <1>3, <1>4, Zenon DEF InOrder, LastSent

\* Where the packets of a socket go.
LEMMA Verdicts ==
    ASSUME Entries, KeysDiffer, NEW s \in Side
    PROVE  StreamVerdict(s) = IF Redirected(s) THEN {Other(s)} ELSE {}
<1> USE Sides DEF Entries, StreamVerdict, Redirected, Range
<1>0. /\ PacketKey("client") # SocketKey("backend") /\ PacketKey("backend") # SocketKey("client")
      /\ SocketKey("client") # SocketKey("backend") /\ (s = "client" \/ s = "backend")
  BY Zenon DEF KeysDiffer, Side
<1>1. CASE pc = "insert"
  BY <1>0, <1>1, Zenon
<1>2. CASE pc # "insert" /\ s = "client"
  BY <1>0, <1>2, Zenon
<1>3. CASE pc # "insert" /\ s = "backend"
  BY <1>0, <1>3, Zenon
<1> QED
  BY <1>0, <1>1, <1>2, <1>3, Zenon

\* A step that leaves the map alone and what is under way in order.
LEMMA SockmapKeep ==
    ASSUME SockmapInv, mode = "sockmap", KeysDiffer, pc # "ended", pc' # "ended",
           UNCHANGED <<mode, pair, sockmap, early>>, pc = "insert" <=> pc' = "insert",
           \A s \in Side : pc = "insert" => outbox'[s] = <<>>,
           \A s \in Side : Redirected(s) /\ ~early[s] =>
               \A i \in 1..Len(inbox'[s]) : inbox'[s][i] = End,
           \A s \in Side : ~(Redirected(s) /\ early[s]) => InOrder(s)'
    PROVE  SockmapInv'
<1>1. /\ SocketKey("client")' = SocketKey("client") /\ SocketKey("backend")' = SocketKey("backend")
      /\ sockmap' = sockmap /\ early' = early
  BY Zenon DEF SocketKey
<1>2. ASSUME NEW s \in Side PROVE Redirected(s)' <=> Redirected(s)
  <2>1. SocketKey(s)' = SocketKey(s) /\ PacketKey(s)' = PacketKey(s)
    BY Zenon DEF SocketKey, PacketKey
  <2> QED
    BY <2>1, Zenon DEF Redirected
<1>3. Entries'
  <2>1. Entries
    BY Zenon DEF SockmapInv
  <2>2. CASE pc = "insert"
    BY <1>1, <2>1, <2>2, Zenon DEF Entries
  <2>3. CASE pc # "insert"
    BY <1>1, <2>1, <2>3, Zenon DEF Entries
  <2> QED
    BY <2>2, <2>3, Zenon
<1>4. ASSUME NEW s \in Side PROVE Carries(s)'
  BY <1>1, <1>2, Zenon DEF Carries
<1> QED
  BY <1>3, <1>4, Zenon DEF SockmapInv

\* A step that leaves the data alone.
LEMMA SockmapQuiet ==
    ASSUME SockmapInv, mode = "sockmap", KeysDiffer, pc # "ended", pc' # "ended",
           UNCHANGED <<mode, pair, sockmap, early>>, pc = "insert" <=> pc' = "insert",
           UNCHANGED <<inbox, outbox, shut, next, fin>>
    PROVE  SockmapInv'
<1>1. \A s \in Side : Carries(s)
  BY Zenon DEF SockmapInv
<1>2. ASSUME NEW s \in Side PROVE InOrder(s)' <=> InOrder(s)
  BY Zenon DEF InOrder, LastSent, UnderWay, InSequence
<1> QED
  BY <1>1, <1>2, SockmapKeep, Zenon DEF Carries

\* The task copies an item, or the end of a stream.
LEMMA SockmapCopies ==
    ASSUME SockmapInv, OrderInv, mode = "sockmap", KeysDiffer, NEW s \in Side,
           CopyItem(s) \/ CopyEnd(s)
    PROVE  SockmapInv'
<1>1. /\ pc = "copy" /\ pc' = pc /\ UNCHANGED <<mode, pair, sockmap, early, next>>
      /\ inbox[s] # <<>> /\ (inbox' = inbox \/ inbox' = [inbox EXCEPT ![s] = Tail(@)])
  BY Zenon DEF CopyItem, CopyEnd, Copying, Ready, fixedVars, mapVars, peerVars
<1>2. \A t \in Side : Rests(t) /\ Carries(t)
  BY <1>1, ForwardCopy, ForwardEnd, Zenon DEF SockmapInv
<1>3. \A t \in Side : ~(Redirected(t) /\ early[t]) => InOrder(t)'
  BY <1>1, <1>2, OrderRests, Zenon DEF Carries
<1>4. ASSUME NEW t \in Side, \A i \in 1..Len(inbox[t]) : inbox[t][i] = End
      PROVE  \A i \in 1..Len(inbox'[t]) : inbox'[t][i] = End
  <2>1. inbox[t] \in Seq(Received) /\ DOMAIN inbox = Side
    BY Zenon DEF OrderInv
  <2>2. CASE inbox'[t] = inbox[t]
    BY <1>4, <2>2, Zenon
  <2>3. CASE inbox'[t] = Tail(inbox[t]) /\ inbox[t] # <<>>
    BY <1>4, <2>1, <2>3
  <2> QED
    BY <1>1, <2>1, <2>2, <2>3, Zenon
<1>5. \A t \in Side : Redirected(t) /\ ~early[t] => \A i \in 1..Len(inbox'[t]) : inbox'[t][i] = End
  BY <1>2, <1>4, Zenon DEF Carries
<1> QED
  BY <1>1, <1>3, <1>5, SockmapKeep, Zenon

\* A peer takes what is under way to it.
LEMMA SockmapReads ==
    ASSUME SockmapInv, OrderInv, mode = "sockmap", KeysDiffer, pc # "ended", NEW s \in Side,
           PeerReads(s)
    PROVE  SockmapInv'
<1>1. /\ outbox[s] # <<>> /\ UNCHANGED <<mode, pair, sockmap, early, next, inbox, pc>>
  BY Zenon DEF PeerReads, taskVars, fixedVars, mapVars, peerVars
<1>2. \A t \in Side : (Receives(t) \/ Rests(t)) /\ Carries(t)
  BY ForwardRead, Zenon DEF SockmapInv
<1>3. pc # "insert"
  BY <1>1, <1>2, Zenon DEF Carries
<1>4. \A t \in Side : ~(Redirected(t) /\ early[t]) => InOrder(t)'
  BY <1>1, <1>2, OrderRests, OrderReceives, Zenon DEF Carries
<1>5. \A t \in Side : Redirected(t) /\ ~early[t] => \A i \in 1..Len(inbox'[t]) : inbox'[t][i] = End
  BY <1>1, <1>2, Zenon DEF Carries
<1> QED
  BY <1>1, <1>3, <1>4, <1>5, SockmapKeep, Zenon

\* A peer ends its stream: the end arrives, whether packets are redirected or
\* not.
LEMMA SockmapEnds ==
    ASSUME SockmapInv, OrderInv, mode = "sockmap", KeysDiffer, NEW s \in Side, PeerEnds(s)
    PROVE  SockmapInv'
<1>1. /\ pc # "ended" /\ ~fin[s] /\ Arrive(s, End) /\ fin' = [fin EXCEPT ![s] = TRUE]
      /\ UNCHANGED <<mode, pair, sockmap, early, next, pc, shut>>
  BY Zenon DEF PeerEnds, taskVars, fixedVars, mapVars
<1>2. fin'[s] /\ \A t \in Side : t # s => fin'[t] = fin[t]
  BY <1>1, Zenon DEF OrderInv
<1>3. \A t \in Side : Carries(t)
  BY <1>1, Zenon DEF SockmapInv
<1>4. ASSUME NEW t \in Side, InOrder(t) PROVE InOrder(t)'
  <2>1. CASE t # s
    BY <1>1, <1>2, <1>4, <2>1, ForwardOther, OrderRests, Zenon
  <2>2. CASE t = s
    <3>1. UnderWay(s)' = Append(UnderWay(s), End)
      BY <1>1, ForwardArrive, Zenon DEF Received
    <3> QED
      BY <1>1, <1>2, <1>4, <2>2, <3>1, OrderSends, Zenon
  <2> QED
    BY <2>1, <2>2, Zenon
<1>5. ASSUME NEW t \in Side, \A i \in 1..Len(inbox[t]) : inbox[t][i] = End
      PROVE  \A i \in 1..Len(inbox'[t]) : inbox'[t][i] = End
  <2>1. inbox[t] \in Seq(Received) /\ inbox' = [inbox EXCEPT ![s] = Append(@, End)]
        /\ DOMAIN inbox = Side
    BY <1>1, Zenon DEF OrderInv, Arrive
  <2>2. CASE inbox'[t] = inbox[t]
    BY <1>5, <2>2, Zenon
  <2>3. CASE inbox'[t] = Append(inbox[t], End)
    BY <1>5, <2>1, <2>3
  <2> QED
    BY <2>1, <2>2, <2>3, Zenon
<1>6. outbox' = outbox
  BY <1>1, Zenon DEF Arrive
<1> QED
  BY <1>1, <1>3, <1>4, <1>5, <1>6, SockmapKeep, Zenon DEF Carries

\* A redirected item follows what is under way, if nothing had been received
\* before.
LEMMA RedirectFollows ==
    ASSUME OrderInv, NEW s \in Side, ~fin[s], Redirect(Other(s), next[s]), UNCHANGED shut,
           \A i \in 1..Len(inbox[s]) : inbox[s][i] = End
    PROVE  UnderWay(s)' = Append(UnderWay(s), next[s])
<1>1. inbox[s] \in Seq(Received) /\ outbox[Other(s)] \in Seq(Received) /\ next[s] \in Received
  BY UnderWayTypes, Zenon DEF Received
<1>2. inbox[s] = <<>>
  <2>1. \A i \in 1..Len(inbox[s]) : inbox[s][i] # End
    BY Zenon DEF OrderInv, EndsLast
  <2>2. Len(inbox[s]) = 0
    BY <1>1, <2>1
  <2> QED
    BY <1>1, <2>2
<1>3. inbox' = inbox /\ outbox'[Other(s)] = Append(outbox[Other(s)], next[s])
  BY Sides, Zenon DEF Redirect, OrderInv
<1>4. /\ UnderWay(s) = outbox[Other(s)] \o <<>>
      /\ UnderWay(s)' = Append(outbox[Other(s)], next[s]) \o <<>>
  BY <1>2, <1>3, Zenon DEF UnderWay
<1>5. \A q \in Seq(Received) : q \o <<>> = q
  OBVIOUS
<1>6. Append(outbox[Other(s)], next[s]) \in Seq(Received)
  BY <1>1
<1> QED
  BY <1>1, <1>4, <1>5, <1>6, Zenon

\* A peer sends an item: it is received, or redirected to the other socket.
LEMMA SockmapSends ==
    ASSUME SockmapInv, OrderInv, mode = "sockmap", KeysDiffer, NEW s \in Side, PeerSends(s)
    PROVE  SockmapInv'
<1>1. /\ pc # "ended" /\ ~fin[s] /\ next' = [next EXCEPT ![s] = Flip(@)]
      /\ UNCHANGED <<mode, pair, sockmap, early, pc, shut, fin>>
  BY Zenon DEF PeerSends, taskVars, fixedVars, mapVars
<1>2. /\ next[s] \in Data /\ next[s] \in Received /\ next[s] # End
      /\ next'[s] = Flip(next[s]) /\ \A t \in Side : t # s => next'[t] = next[t]
  BY <1>1, Zenon DEF OrderInv, Data, End, Received
<1>3. Entries /\ \A t \in Side : Carries(t)
  BY <1>1, Zenon DEF SockmapInv
<1>4. CASE ~Redirected(s)
  <2>1. Arrive(s, next[s]) /\ outbox' = outbox
    BY <1>3, <1>4, Verdicts, Zenon DEF PeerSends, Arrive
  <2>2. \A t \in Side : t # s => inbox'[t] = inbox[t]
    BY <2>1, Zenon DEF Arrive, OrderInv
  <2>3. ASSUME NEW t \in Side, InOrder(t) PROVE InOrder(t)'
    <3>1. CASE t # s
      BY <1>1, <1>2, <2>1, <2>3, <3>1, ForwardOther, OrderRests, Zenon
    <3>2. CASE t = s
      <4>1. UnderWay(s)' = Append(UnderWay(s), next[s])
        BY <1>1, <1>2, <2>1, ForwardArrive, Zenon
      <4> QED
        BY <1>1, <1>2, <2>3, <3>2, <4>1, OrderSends, Zenon
    <3> QED
      BY <3>1, <3>2, Zenon
  <2> QED
    BY <1>1, <1>3, <1>4, <2>1, <2>2, <2>3, SockmapKeep, Zenon DEF Carries
<1>5. CASE Redirected(s)
  <2>1. Redirect(Other(s), next[s]) /\ inbox' = inbox
    BY <1>3, <1>5, Verdicts, Zenon DEF PeerSends, Redirect
  <2>2. pc # "insert"
    BY <1>5, Zenon DEF Redirected
  <2>3. ASSUME NEW t \in Side, InOrder(t), t = s => ~early[s] PROVE InOrder(t)'
    <3>1. CASE t # s
      <4>1. outbox'[Other(t)] = outbox[Other(t)]
        BY <2>1, <3>1, Sides, Zenon DEF Redirect, OrderInv
      <4>2. Rests(t)
        BY <1>1, <2>1, <4>1, ForwardRests, Zenon
      <4> QED
        BY <1>2, <2>3, <3>1, <4>2, OrderRests, Zenon
    <3>2. CASE t = s
      <4>1. UnderWay(s)' = Append(UnderWay(s), next[s])
        BY <1>1, <1>3, <1>5, <2>1, <2>3, <3>2, RedirectFollows, Zenon DEF Carries
      <4> QED
        BY <1>1, <1>2, <2>3, <3>2, <4>1, OrderSends, Zenon
    <3> QED
      BY <3>1, <3>2, Zenon
  <2> QED
    BY <1>1, <1>3, <1>5, <2>1, <2>2, <2>3, SockmapKeep, Zenon DEF Carries
<1> QED
  BY <1>4, <1>5, Zenon

\* The task inserts the sockets; nothing has been copied yet.
LEMMA SockmapInserts ==
    ASSUME SockmapInv, OrderInv, MapInv, mode = "sockmap", KeysDiffer, NEW s \in Side, Insert(s)
    PROVE  SockmapInv'
<1>1. /\ pc = "insert" /\ UNCHANGED <<mode, pair, inbox, outbox, shut, next, fin>>
      /\ Cardinality(DOMAIN sockmap) = IF s = "client" THEN 0 ELSE 1
      /\ sockmap' = [k \in DOMAIN sockmap \cup {SocketKey(s)} |->
                        IF k = SocketKey(s) THEN Other(s) ELSE sockmap[k]]
      /\ pc' = IF s = "client" THEN pc ELSE "copy"
      /\ early' = IF s = "client" THEN early ELSE [t \in Side |-> inbox[t] # <<>>]
  BY Zenon DEF Insert, fixedVars, dataVars, peerVars
<1>2. Entries /\ \A t \in Side : Carries(t) /\ ~Redirected(t) /\ InOrder(t) /\ outbox[t] = <<>>
  BY <1>1, Zenon DEF SockmapInv, Redirected, Carries
<1>3. \A t \in Side : InOrder(t)'
  BY <1>1, <1>2, Zenon DEF InOrder, LastSent, UnderWay, InSequence
<1>4. SocketKey("client")' = SocketKey("client") /\ SocketKey("backend")' = SocketKey("backend")
  BY <1>1, Zenon DEF SocketKey
<1>5. CASE s = "client"
  <2>1. DOMAIN sockmap = {}
    BY <1>1, <1>5, MapCases, Zenon
  <2>2. Entries'
    BY <1>1, <1>4, <1>5, <2>1, Sides, Zenon DEF Entries
  <2>3. \A t \in Side : Carries(t)'
    BY <1>1, <1>2, <1>3, <1>5, Zenon DEF Carries, Redirected
  <2> QED
    BY <2>2, <2>3, Zenon DEF SockmapInv
<1>6. CASE s = "backend"
  <2>1. DOMAIN sockmap = {SocketKey("client")} /\ sockmap[SocketKey("client")] = "backend"
    BY <1>1, <1>2, <1>6, MapCases, Zenon DEF Entries
  <2>2. Entries'
    <3> DEFINE a == SocketKey("client")
               b == SocketKey("backend")
    <3>1. a # b /\ pc' = "copy"
      BY <1>1, <1>6, Zenon DEF KeysDiffer
    <3>2. sockmap' = [k \in {a} \cup {b} |-> IF k = b THEN "client" ELSE sockmap[k]]
      BY <1>1, <1>6, <2>1, Sides, Zenon
    <3>3. sockmap[a] = "backend" /\ a' = a /\ b' = b
      BY <1>4, <2>1, Zenon
    <3> HIDE DEF a, b
    <3>4. DOMAIN sockmap' = {a, b} /\ sockmap'[a] = "backend" /\ sockmap'[b] = "client"
      BY <3>1, <3>2, <3>3, Zenon
    <3> QED
      BY <3>1, <3>3, <3>4, Zenon DEF a, b, Entries
  <2>3. ASSUME NEW t \in Side, ~early'[t] PROVE \A i \in 1..Len(inbox'[t]) : inbox'[t][i] = End
    <3>1. early' = [r \in Side |-> inbox[r] # <<>>] /\ inbox' = inbox
      BY <1>1, <1>6, Zenon
    <3>2. inbox'[t] = <<>>
      BY <2>3, <3>1, Zenon
    <3> QED
      BY <3>2
  <2>4. \A t \in Side : Carries(t)'
    BY <1>1, <1>3, <1>6, <2>3, Zenon DEF Carries
  <2> QED
    BY <2>2, <2>4, Zenon DEF SockmapInv
<1> QED
  BY <1>5, <1>6, Zenon DEF Side

\* Every step keeps the invariant.
LEMMA SockmapStep == SockmapInv /\ OrderInv /\ MapInv /\ [Next]_vars => SockmapInv'
<1> SUFFICES ASSUME SockmapInv, OrderInv, MapInv, [Next]_vars PROVE SockmapInv'
  BY Zenon
<1>1. mode' = mode /\ pair' = pair
  BY Zenon DEF Next, Task, Peers, Insert, CopyItem, CopyEnd, InsertFails, CopyControl, CopyFails,
         CopyDone, CopyPending, Timer, Wake, Close, ClientControl, PeerSends, PeerEnds,
         PeerReads, Elapse, vars, fixedVars
<1>2. KeysDiffer' <=> KeysDiffer
  BY <1>1, Zenon DEF KeysDiffer, SocketKey, PacketKey
<1>3. CASE mode # "sockmap" \/ ~KeysDiffer \/ pc' = "ended"
  BY <1>1, <1>2, <1>3, Zenon DEF SockmapInv
<1>4. CASE mode = "sockmap" /\ KeysDiffer /\ pc' # "ended"
  <2> USE <1>4
  <2>1. ASSUME NEW s \in Side, CopyItem(s) \/ CopyEnd(s) PROVE SockmapInv'
    BY <2>1, SockmapCopies, Zenon
  <2>2. ASSUME Close PROVE FALSE
    BY <2>2, Zenon DEF Close
  <2>3. CASE InsertFails \/ CopyControl \/ CopyFails
    BY <2>2, <2>3, Zenon DEF InsertFails, CopyControl, CopyFails
  <2>4. CASE CopyDone \/ CopyPending \/ Timer \/ Wake \/ Elapse \/ UNCHANGED vars
    <3>1. /\ UNCHANGED <<mode, pair, sockmap, early, inbox, outbox, shut, next, fin>>
          /\ pc # "ended" /\ (pc = "insert" <=> pc' = "insert")
      BY <2>2, <2>4, Zenon
         DEF CopyDone, CopyPending, Timer, Wake, Elapse, vars, taskVars, fixedVars, mapVars,
             peerVars, dataVars
    <3> QED
      BY <3>1, SockmapQuiet, Zenon
  <2>5. ASSUME NEW s \in Side, PeerSends(s) \/ PeerEnds(s) PROVE SockmapInv'
    BY <2>5, SockmapSends, SockmapEnds, Zenon
  <2>6. ASSUME NEW s \in Side, PeerReads(s) PROVE SockmapInv'
    <3>1. pc # "ended"
      BY <2>6, Zenon DEF PeerReads, taskVars
    <3> QED
      BY <2>6, <3>1, SockmapReads, Zenon
  <2>7. ASSUME NEW s \in Side, Insert(s) PROVE SockmapInv'
    BY <2>7, SockmapInserts, Zenon
  <2>8. ASSUME ClientControl PROVE FALSE
    BY <2>8, Zenon DEF ClientControl
  <2> QED
    BY <2>1, <2>3, <2>4, <2>5, <2>6, <2>7, <2>8, Zenon DEF Next, Task, Peers
<1> QED
  BY <1>3, <1>4, Zenon

\* The sockmap keeps the order of what a peer sends if nothing of it had been
\* received when the second insert was made and the keys do not collide, for all
\* addresses, capacities and interleavings of the peers with the inserts and the
\* copying.
THEOREM SockmapInOrder == Spec => []SockmapKeepsOrder
<1>1. Init => MapInv
  BY DEF Init, MapInv
<1>2. Init => SockmapInv
  <2> SUFFICES ASSUME Init, mode = "sockmap" PROVE Entries /\ \A s \in Side : Carries(s)
    BY Zenon DEF SockmapInv
  <2>1. Entries
    BY DEF Init, Entries
  <2>2. ASSUME NEW s \in Side PROVE UnderWay(s) = <<>> /\ outbox[s] = <<>> /\ inbox[s] = <<>>
    BY Sides DEF Init, UnderWay
  <2> QED
    BY <2>1, <2>2 DEF Init, Carries, Redirected, InOrder, LastSent, InSequence
<1>3. SockmapInv => SockmapKeepsOrder
  <2> SUFFICES ASSUME SockmapInv, mode = "sockmap", pc # "ended", KeysDiffer, NEW s \in Side,
                      ~(early[s] /\ StreamVerdict(s) # {})
               PROVE  InSequence(UnderWay(s))
    BY Zenon DEF SockmapKeepsOrder
  <2>1. Entries /\ Carries(s)
    BY Zenon DEF SockmapInv
  <2>2. ~(Redirected(s) /\ early[s])
    BY <2>1, Verdicts, Zenon
  <2> QED
    BY <2>1, <2>2, Zenon DEF Carries, InOrder
<1>4. Spec => [](OrderInv /\ MapInv /\ SockmapInv)
  BY <1>1, <1>2, OrderInit, OrderStep, MapStep, SockmapStep, PTL DEF Spec
<1> QED
  BY <1>3, <1>4, PTL
=============================================================================
