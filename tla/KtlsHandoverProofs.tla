------------------------- MODULE KtlsHandoverProofs -------------------------
(***************************************************************************)
(* The hand-over to the kernel is in step with the client's records, for   *)
(* every stream of records, every way the socket slices it, and every      *)
(* kernel.                                                                 *)
(***************************************************************************)
EXTENDS KtlsHandover, TLAPS

(***************************************************************************)
(* Part 1.  The probe.                                                     *)
(***************************************************************************)
\* is_compatible tells, for each suite, whether the kernel has TLS and takes the
\* suite for transmitting: the fields test_ciphers fills are the ones
\* is_compatible looks at.
LEMMA ProbeIsTx ==
    \A k, s : s \in Suite =>
        (IsCompatible(TestCiphers(k), s) <=> k.ulp /\ s \in k.takes["Tx"])
<1> SUFFICES ASSUME NEW k, NEW v \in Version, NEW b \in BulkAlgorithm
             PROVE  IsCompatible(TestCiphers(k), <<v, b>>) <=> k.ulp /\ <<v, b>> \in k.takes["Tx"]
  BY DEF Suite
<1>1. BulkField(b) \in Field /\ TestedSuite(v, BulkField(b)) = <<v, b>>
  BY Zenon DEF BulkField, TestedSuite, Field, BulkAlgorithm
<1>2. IsCompatible(TestCiphers(k), <<v, b>>) <=> SampleCipherSetup(k, TestedSuite(v, BulkField(b)))
  BY <1>1, Zenon DEF IsCompatible, TestCiphers
<1>3. SampleCipherSetup(k, <<v, b>>) <=> k.ulp /\ <<v, b>> \in k.takes["Tx"]
  BY Zenon DEF SampleCipherSetup, SetupTlsInfo, CryptoInfo
<1> QED
  BY <1>1, <1>2, <1>3, Zenon

(***************************************************************************)
(* Part 2.  The inductive invariant.  Until the transfer, what CorkStream  *)
(* believes of the framing is true; rustls has at most one data record to  *)
(* give, and then the socket is at a boundary, where a corked stream reads *)
(* no more.                                                                *)
(***************************************************************************)
Before == {"accept", "drain", "write"} \cup Setup

\* The start of the record CorkStream is in, or about to read.
Here == net.start[opened + 1]

Framing ==
    /\ state = "header" => fed = Here /\ pos = Here + offset /\ offset < HeaderLen
    /\ state = "payload" =>
          /\ opened < net.n
          /\ fed = pos /\ pos = Here + HeaderLen + offset
          /\ msg_size = net.start[opened + 2] - Here - HeaderLen
          /\ offset < msg_size
    /\ state = "passthrough" => pos = net.cut /\ fed = pos

Boundary == state = "header" /\ offset = 0

\* The data records rustls has given, and those it has given or is about to.
Given == {drained[a] : a \in 1..Len(drained)}
Held == plain \cup Given

HoldInv ==
    /\ Held = {i \in 1..opened : Data(i)}
    /\ Held # {} => Held = {opened} /\ Boundary
    /\ drained # <<>> => corked /\ plain = {}
    /\ eof \/ CloseNotified => pos = net.cut \/ Boundary

HandInv ==
    /\ TypeOK
    /\ phase \notin {"accept", "failed"} => suite \in Suites
    /\ phase \in Before => Framing /\ HoldInv
    /\ phase = "drain" => corked
    /\ phase \in Setup \cup {"write"} => plain = {} /\ (pos = net.cut \/ Boundary)
    /\ phase = "write" => kseq = opened
    /\ UpstreamIsComplete
    /\ phase = "transfer" => pos = net.cut \/ pos = net.start[kseq + 1]
    /\ DrainFits
    /\ phase = "refused" => suite \notin Kernel.takes["Tx"] \/ suite \notin Kernel.takes["Rx"]

\* Appending a larger number keeps a sequence increasing.
LEMMA AppendLarger ==
    ASSUME NEW n \in Nat, NEW q \in Seq(1..n), NEW x \in Nat, Increasing(q),
           \A a \in 1..Len(q) : q[a] < x
    PROVE  /\ Increasing(Append(q, x))
           /\ {Append(q, x)[a] : a \in 1..Len(Append(q, x))} = {q[a] : a \in 1..Len(q)} \cup {x}
<1> DEFINE s == Append(q, x)
           m == Len(q)
<1>1. m \in Nat /\ \A a \in 1..m : q[a] \in Nat
  OBVIOUS
<1>2. Len(s) = m + 1 /\ s[m + 1] = x /\ \A a \in 1..m : s[a] = q[a]
  OBVIOUS
<1> HIDE DEF s, m
<1>3. 1..Len(s) = 1..m \cup {m + 1}
  BY <1>1, <1>2
<1>4. {s[a] : a \in 1..Len(s)} = {q[a] : a \in 1..m} \cup {x}
  BY <1>2, <1>3, Zenon
<1>5. ASSUME NEW a \in 1..Len(s), NEW b \in 1..Len(s), a < b PROVE s[a] < s[b]
  <2>1. a \in 1..m /\ (b \in 1..m \/ b = m + 1)
    BY <1>1, <1>2, <1>5
  <2>2. \A c, d \in 1..m : c < d => q[c] < q[d]
    BY Zenon DEF Increasing, m
  <2>3. \A c \in 1..m : q[c] < x
    BY Zenon DEF m
  <2>4. CASE b \in 1..m
    BY <1>2, <1>5, <2>1, <2>2, <2>4, Zenon
  <2>5. CASE b = m + 1
    BY <1>2, <2>1, <2>3, <2>5, Zenon
  <2> QED
    BY <2>1, <2>4, <2>5, Zenon
<1> QED
  BY <1>4, <1>5, Zenon DEF Increasing, s, m

\* Nothing was drained exactly when the sequence is empty.
LEMMA GivenNone ==
    ASSUME drained \in Seq(1..net.n)
    PROVE  Given = {} <=> drained = <<>>
<1>1. Len(drained) \in Nat
  OBVIOUS
<1>2. Given = {} => Len(drained) = 0
  <2> SUFFICES ASSUME Len(drained) # 0 PROVE drained[1] \in Given
    BY Zenon
  <2>1. 1 \in 1..Len(drained)
    BY <1>1
  <2> QED
    BY <2>1, Zenon DEF Given
<1>3. Len(drained) = 0 => drained = <<>>
  OBVIOUS
<1>4. drained = <<>> => 1..Len(drained) = {}
  OBVIOUS
<1> QED
  BY <1>2, <1>3, <1>4, Zenon DEF Given

\* The positions of a stream's records.
LEMMA Positions ==
    ASSUME IsLayout(net), opened \in 0..net.n
    PROVE  /\ net.n \in Nat /\ Here \in Nat /\ net.cut \in Nat
           /\ net.cut <= net.start[net.n + 1]
           /\ \A i \in 1..(net.n + 1) : net.start[i] \in Nat
           /\ opened < net.n =>
                 /\ net.start[opened + 2] \in Nat
                 /\ net.start[opened + 2] - Here - HeaderLen \in 1..MaxLen
<1> USE LayoutAssumption
<1>1. net.n \in Nat \ {0} /\ \A i \in 1..(net.n + 1) : net.start[i] \in Nat
  BY Zenon DEF IsLayout
<1>2. net.cut \in Nat /\ net.cut <= net.start[net.n + 1]
  <2>1. net.start[net.n + 1] \in Nat
    BY <1>1
  <2> QED
    BY <2>1 DEF IsLayout
<1>3. Here \in Nat
  BY <1>1 DEF Here
<1>4. ASSUME opened < net.n
      PROVE  /\ net.start[opened + 2] \in Nat
             /\ net.start[opened + 2] - Here - HeaderLen \in 1..MaxLen
  <2>1. opened + 1 \in 1..net.n /\ (opened + 1) + 1 = opened + 2 /\ opened + 2 \in 1..(net.n + 1)
    BY <1>1, <1>4
  <2>2. net.start[(opened + 1) + 1] - net.start[opened + 1] - HeaderLen \in 1..MaxLen
    BY <2>1, Zenon DEF IsLayout
  <2> QED
    BY <1>1, <2>1, <2>2, Zenon DEF Here
<1> QED
  BY <1>1, <1>2, <1>3, <1>4, Zenon

\* The records follow one another.
LEMMA Ordered ==
    ASSUME IsLayout(net), NEW i \in 1..(net.n + 1), NEW j \in 1..(net.n + 1)
    PROVE  /\ net.start[i] \in Nat /\ net.start[j] \in Nat
           /\ i < j => net.start[i] < net.start[j]
           /\ i <= j => net.start[i] <= net.start[j]
<1>1. net.n \in Nat /\ net.start[i] \in Nat /\ net.start[j] \in Nat
  BY Zenon DEF IsLayout
<1>2. i < j => net.start[i] < net.start[j]
  BY Zenon DEF IsLayout
<1> QED
  BY <1>1, <1>2

\* Bytes that do not complete the record rustls is at open none.
LEMMA FeedPart ==
    ASSUME IsLayout(net), opened \in 0..net.n, NEW f \in Nat, Feed(f),
           Here <= f, opened < net.n => f < net.start[opened + 2]
    PROVE  fed' = f /\ opened' = opened /\ plain' = plain /\ phase' \in {phase, "failed"}
<1>1. PICK k \in opened..net.n :
        /\ net.start[k + 1] <= f
        /\ fed' = f /\ opened' = k
        /\ plain' = plain \cup {i \in (opened + 1)..k : Data(i)}
        /\ phase' \in {phase, "failed"}
  BY Zenon DEF Feed
<1>2. k = opened
  <2> SUFFICES ASSUME k # opened PROVE FALSE
    BY Zenon
  <2>0. net.n \in Nat
    BY Positions, Zenon
  <2>1. opened < net.n /\ opened + 2 \in 1..(net.n + 1) /\ k + 1 \in 1..(net.n + 1) /\ opened + 2 <= k + 1
    BY <2>0
  <2>2. net.start[opened + 2] <= net.start[k + 1]
    BY <2>1, Ordered, Zenon
  <2> QED
    BY <1>1, <2>1, <2>2, Ordered
<1>3. {i \in (opened + 1)..k : Data(i)} = {}
  BY <1>2
<1> QED
  BY <1>1, <1>2, <1>3, Zenon

\* The bytes up to the end of the record rustls is at open this one.
LEMMA FeedWhole ==
    ASSUME IsLayout(net), opened \in 0..net.n, opened < net.n, Feed(net.start[opened + 2])
    PROVE  /\ fed' = net.start[opened + 2] /\ opened' = opened + 1
           /\ plain' = plain \cup {i \in {opened + 1} : Data(i)}
           /\ phase' \in {phase, "failed"}
<1> DEFINE f == net.start[opened + 2]
<1>1. PICK k \in opened..net.n :
        /\ net.start[k + 1] <= f
        /\ k < net.n => f < net.start[k + 2]
        /\ fed' = f /\ opened' = k
        /\ plain' = plain \cup {i \in (opened + 1)..k : Data(i)}
        /\ phase' \in {phase, "failed"}
  BY Zenon DEF Feed
<1>2. k # opened
  BY <1>1, Positions
<1>3. k < opened + 2
  <2> SUFFICES ASSUME k >= opened + 2 PROVE FALSE
    BY DEF IsLayout
  <2>1. opened + 2 \in 1..(net.n + 1) /\ k + 1 \in 1..(net.n + 1) /\ opened + 2 < k + 1
    BY SMTT(30) DEF IsLayout
  <2>2. net.start[opened + 2] < net.start[k + 1]
    BY <2>1, Ordered, Zenon
  <2> QED
    BY <1>1, <2>1, <2>2, Ordered
<1>4. k = opened + 1
  BY <1>2, <1>3 DEF IsLayout
<1>5. (opened + 1)..k = {opened + 1}
  BY <1>4
<1> QED
  BY <1>1, <1>4, <1>5, Zenon

\* The initial states satisfy the invariant.
LEMMA HandInit == Init => HandInv
<1> SUFFICES ASSUME Init PROVE HandInv
  BY Zenon
<1> USE LayoutAssumption DEF Init
<1>1. IsLayout(net)
  BY Zenon
<1>2. TypeOK
  <2>1. net.n \in Nat /\ net.cut \in Nat
    BY <1>1, Positions DEF IsLayout
  <2>2. eof \in BOOLEAN /\ corked \in BOOLEAN
    BY Zenon
  <2> QED
    BY <1>1, <2>1, <2>2 DEF TypeOK
<1>3. Framing
  BY <1>1 DEF Framing, Here, IsLayout
<1>4. HoldInv
  <2>1. 1..opened = {}
    OBVIOUS
  <2>2. Given = {}
    BY <1>2, GivenNone, Zenon DEF TypeOK
  <2> QED
    BY <2>1, <2>2, Zenon DEF HoldInv, Held, Boundary, CloseNotified
<1>5. DrainFits
  BY DEF DrainFits
<1> QED
  BY <1>2, <1>3, <1>4, <1>5, Zenon DEF HandInv, Setup, UpstreamIsComplete

\* A read keeps the invariant if it keeps what holds before the transfer.
LEMMA HandReads ==
    ASSUME HandInv, Reading, phase' \in {phase, "failed"}, TypeOK',
           phase' = phase => Framing' /\ HoldInv', UNCHANGED <<suite, drained, corked>>
    PROVE  HandInv'
<1>1. phase \in {"accept", "drain"} /\ phase' \in {"accept", "drain", "failed"}
  BY Zenon DEF Reading
<1>2. DrainFits'
  BY Zenon DEF HandInv, DrainFits
<1> QED
  BY <1>1, <1>2, Zenon DEF HandInv, Before, Setup, UpstreamIsComplete

\* Away from a corked boundary a read finds that rustls holds no data record.
LEMMA NothingHeld ==
    ASSUME HandInv, Reading, state = "header" => ~AtBoundary
    PROVE  /\ phase \in Before /\ Framing /\ Held = {} /\ plain = {} /\ drained = <<>>
           /\ ~eof /\ ~CloseNotified /\ \A i \in 1..opened : ~Data(i)
           /\ IsLayout(net) /\ opened \in 0..net.n
<1>1. phase \in Before /\ Framing /\ HoldInv /\ IsLayout(net) /\ opened \in 0..net.n
  BY Zenon DEF HandInv, Reading, Before, TypeOK
<1>2. plain = {} /\ ~eof /\ ~CloseNotified
  BY Zenon DEF Reading
<1>3. drained = <<>> /\ Given = {}
  <2>1. Given = {} <=> drained = <<>>
    BY GivenNone, Zenon DEF HandInv, TypeOK
  <2> QED
    BY <1>1, <1>2, <2>1, Zenon DEF HoldInv, Held, Boundary, AtBoundary
<1>4. Held = {}
  BY <1>2, <1>3, Zenon DEF Held
<1>5. \A i \in 1..opened : ~Data(i)
  BY <1>1, <1>4, Zenon DEF HoldInv
<1> QED
  BY <1>1, <1>2, <1>3, <1>4, <1>5, Zenon

\* A read that opens no record keeps what rustls holds: nothing.
LEMMA HoldNothing ==
    ASSUME HandInv, Reading, state = "header" => ~AtBoundary,
           UNCHANGED <<net, opened, plain, drained>>, eof' => pos' = net.cut
    PROVE  HoldInv'
<1>1. /\ plain = {} /\ drained = <<>> /\ Held = {} /\ ~CloseNotified /\ \A i \in 1..opened : ~Data(i)
  BY NothingHeld, Zenon
<1>2. ~CloseNotified' /\ \A i \in 1..opened' : ~Data(i)'
  BY <1>1, Zenon DEF CloseNotified, Data
<1>3. Held' = {} /\ plain' = {} /\ drained' = <<>>
  <2>1. Given' = Given
    BY Zenon DEF Given
  <2> QED
    BY <1>1, <2>1, Zenon DEF Held
<1> QED
  BY <1>2, <1>3, Zenon DEF HoldInv

\* The header is read in parts.
LEMMA HandHeaderPart ==
    ASSUME HandInv, NEW n \in 1..HeaderLen, HeaderPart(n)
    PROVE  HandInv'
<1> USE LayoutAssumption DEF HeaderPart, corkVars, rustlsVars, afterVars
<1>1. HoldInv'
  <2>1. eof' => pos' = net.cut
    BY Zenon DEF Reading
  <2> QED
    BY <2>1, HoldNothing, Zenon
<1>2. IsLayout(net) /\ opened \in 0..net.n /\ Framing
  BY NothingHeld, Zenon
<1>3. TypeOK /\ Here \in Nat /\ net.cut \in Nat
  BY <1>2, Positions, Zenon DEF HandInv
<1>4. fed = Here /\ pos = Here + offset /\ offset < HeaderLen /\ offset \in Nat
  BY <1>2, <1>3, Zenon DEF Framing, TypeOK
<1>5. /\ pos' = Here + offset' /\ offset' < HeaderLen /\ offset' \in Nat
      /\ pos' \in 0..net.cut /\ fed \in 0..pos'
      /\ UNCHANGED <<state, fed, opened, net, phase, suite, drained, corked>>
  BY <1>3, <1>4
<1>6. Framing'
  BY <1>4, <1>5, Zenon DEF Framing, Here
<1>7. TypeOK'
  BY <1>3, <1>5, Zenon DEF TypeOK
<1> QED
  BY <1>1, <1>5, <1>6, <1>7, HandReads, Zenon

\* The header is complete: its length is that of the record, or rustls refuses.
LEMMA HandHeaderDone ==
    ASSUME HandInv, HeaderDone
    PROVE  HandInv'
<1> USE LayoutAssumption DEF HeaderDone, afterVars
<1>1. /\ IsLayout(net) /\ opened \in 0..net.n /\ Framing /\ plain = {} /\ ~eof
      /\ phase \in Before
  BY NothingHeld, Zenon
<1>2. TypeOK /\ Here \in Nat /\ net.cut \in Nat /\ net.cut <= net.start[net.n + 1] /\ net.n \in Nat
  BY <1>1, Positions, Zenon DEF HandInv
<1>3. fed = Here /\ pos = Here + offset /\ offset < HeaderLen /\ offset \in Nat
  BY <1>1, <1>2, Zenon DEF Framing, TypeOK
<1>4. /\ pos' = Here + HeaderLen /\ pos' <= net.cut /\ pos' \in Nat
      /\ state' = "payload" /\ offset' = 0 /\ msg_size' \in DecodeHeader(Here)
  BY <1>2, <1>3
<1>5. opened < net.n
  <2> SUFFICES ASSUME opened = net.n PROVE FALSE
    BY <1>1, <1>2
  <2> QED
    BY <1>2, <1>4 DEF Here
<1>6. /\ net.start[opened + 2] \in Nat
      /\ net.start[opened + 2] - Here - HeaderLen \in 1..MaxLen
  BY <1>1, <1>5, Positions, Zenon
<1>7. fed' = pos' /\ opened' = opened /\ plain' = plain /\ phase' \in {phase, "failed"}
  <2>1. Feed(pos')
    BY <1>3, <1>4, Zenon
  <2>2. Here <= pos' /\ pos' < net.start[opened + 2]
    BY <1>2, <1>4, <1>6
  <2> QED
    BY <1>1, <1>4, <2>1, <2>2, FeedPart, Zenon
<1>8. msg_size' \in 0..MaxLen
  BY <1>4, Zenon DEF DecodeHeader
<1>9. ASSUME phase' = phase PROVE msg_size' = net.start[opened + 2] - Here - HeaderLen
  <2>1. opened + 1 \in 1..net.n /\ (opened + 1) + 1 = opened + 2
    BY <1>1, <1>2, <1>5
  <2>2. net.kind[opened + 1] # "bad"
    <3> SUFFICES ASSUME net.kind[opened + 1] = "bad" PROVE FALSE
      BY Zenon
    <3>1. net.start[opened + 1] + HeaderLen <= fed + HeaderLen
      BY <1>2, <1>3 DEF Here
    <3>2. phase' = "failed"
      BY <2>1, <3>1, Zenon DEF Feed
    <3> QED
      BY <1>1, <1>9, <3>2, Zenon DEF Before, Setup
  <2> QED
    BY <1>4, <2>1, <2>2, Zenon DEF DecodeHeader, Here
<1>10. TypeOK'
  BY <1>2, <1>4, <1>7, <1>8, SMTT(30) DEF TypeOK
<1>11. ASSUME phase' = phase PROVE Framing'
  <2>1. Here' = Here /\ net.start[opened + 2] - Here - HeaderLen > 0
    BY <1>6, <1>7 DEF Here
  <2> QED
    BY <1>4, <1>5, <1>7, <1>9, <1>11, <2>1 DEF Framing
<1>12. HoldInv'
  BY <1>1, <1>7, HoldNothing, Zenon
<1> QED
  BY <1>7, <1>10, <1>11, <1>12, HandReads, Zenon

\* The stream ends in the header: rustls gets what there is of it.
LEMMA HandHeaderEof ==
    ASSUME HandInv, HeaderEof
    PROVE  HandInv'
<1> USE LayoutAssumption DEF HeaderEof, AtEof, afterVars
<1>1. IsLayout(net) /\ opened \in 0..net.n /\ Framing /\ plain = {} /\ ~eof
  BY NothingHeld, Zenon
<1>2. TypeOK /\ Here \in Nat /\ net.cut \in Nat
  BY <1>1, Positions, Zenon DEF HandInv
<1>3. fed = Here /\ pos = Here + offset /\ offset < HeaderLen /\ offset \in Nat
  BY <1>1, <1>2, Zenon DEF Framing, TypeOK
<1>4. fed' = pos /\ opened' = opened /\ plain' = plain /\ phase' \in {phase, "failed"}
  <2>1. Feed(pos) /\ pos \in Nat /\ Here <= pos
    BY <1>2, <1>3
  <2>2. opened < net.n => pos < net.start[opened + 2]
    BY <1>1, <1>2, <1>3, Positions
  <2> QED
    BY <1>1, <2>1, <2>2, FeedPart, Zenon
<1>5. eof' \in BOOLEAN
  BY Zenon
<1>6. TypeOK'
  BY <1>2, <1>3, <1>4, <1>5, Zenon DEF TypeOK
<1>7. Framing'
  BY <1>4, Zenon DEF Framing
<1>8. HoldInv'
  BY <1>4, HoldNothing, Zenon
<1> QED
  BY <1>4, <1>6, <1>7, <1>8, HandReads, Zenon

\* The payload is read in parts, the last of which opens the record.
LEMMA HandPayload ==
    ASSUME HandInv, NEW n \in 1..MaxLen, ReadPayload(n)
    PROVE  HandInv'
<1> USE LayoutAssumption DEF ReadPayload, afterVars
<1>1. /\ IsLayout(net) /\ opened \in 0..net.n /\ Framing /\ plain = {} /\ drained = <<>> /\ Held = {} /\ ~eof
      /\ \A i \in 1..opened : ~Data(i)
  BY NothingHeld, Zenon
<1>2. TypeOK /\ Here \in Nat /\ net.cut \in Nat /\ net.n \in Nat
  BY <1>1, Positions, Zenon DEF HandInv
<1>3. /\ opened < net.n /\ fed = pos /\ pos = Here + HeaderLen + offset
      /\ msg_size = net.start[opened + 2] - Here - HeaderLen
      /\ offset < msg_size /\ offset \in Nat
  BY <1>1, <1>2, Zenon DEF Framing, TypeOK
<1>4. /\ net.start[opened + 2] \in Nat
      /\ net.start[opened + 2] - Here - HeaderLen \in 1..MaxLen
  BY <1>1, <1>3, Positions, Zenon
<1>5. pos' = pos + n /\ pos' \in 0..net.cut /\ Feed(pos') /\ UNCHANGED <<net, suite, msg_size, corked, eof, drained>>
  BY <1>2, <1>3
<1>6. CASE offset + n # msg_size
  <2>1. /\ state' = state /\ offset' = offset + n /\ offset' < msg_size /\ offset' \in Nat
        /\ pos' = Here + HeaderLen + offset' /\ pos' < net.start[opened + 2] /\ Here <= pos'
    BY <1>2, <1>3, <1>4, <1>5, <1>6
  <2>2. fed' = pos' /\ opened' = opened /\ plain' = plain /\ phase' \in {phase, "failed"}
    BY <1>1, <1>3, <1>5, <2>1, FeedPart
  <2>3. TypeOK'
    BY <1>2, <1>5, <2>1, <2>2, SMTT(30) DEF TypeOK
  <2>4. Framing'
    BY <1>3, <1>5, <2>1, <2>2, Zenon DEF Framing, Here
  <2>5. HoldInv'
    BY <1>1, <1>5, <2>2, HoldNothing
  <2> QED
    BY <1>5, <2>2, <2>3, <2>4, <2>5, HandReads, Zenon
<1>7. CASE offset + n = msg_size
  <2>1. state' = "header" /\ offset' = 0 /\ pos' = net.start[opened + 2]
    BY <1>2, <1>3, <1>4, <1>5, <1>7
  <2>2. /\ fed' = pos' /\ opened' = opened + 1
        /\ plain' = {i \in {opened + 1} : Data(i)} /\ phase' \in {phase, "failed"}
    BY <1>1, <1>3, <1>5, <2>1, FeedWhole, Zenon
  <2>3. Here' = pos' /\ opened' \in 1..net.n
    <3>1. opened \in 0..net.n
      BY <1>1, Zenon
    <3> QED
      BY <1>2, <1>3, <1>5, <2>1, <2>2, <3>1 DEF Here
  <2>4. TypeOK'
    BY <1>2, <1>5, <2>1, <2>2, <2>3, SMTT(30) DEF TypeOK
  <2>5. Framing'
    BY <1>2, <1>5, <2>1, <2>2, <2>3 DEF Framing
  <2>6. HoldInv'
    <3>1. Held' = plain' /\ drained' = <<>> /\ Boundary'
      BY <1>1, <1>5, <2>1, Zenon DEF Held, Given, Boundary
    <3>2. \A i : Data(i)' = Data(i)
      BY <1>5, Zenon DEF Data
    <3>3. plain' = {i \in 1..opened' : Data(i)'}
      BY <1>1, <1>2, <2>2, <3>2
    <3>4. plain' # {} => plain' = {opened'}
      BY <2>2, Zenon
    <3> QED
      BY <3>1, <3>3, <3>4, Zenon DEF HoldInv
  <2> QED
    BY <1>5, <2>2, <2>4, <2>5, <2>6, HandReads, Zenon
<1> QED
  BY <1>6, <1>7, Zenon

\* A read that gives rustls nothing: at a corked boundary, or at the end of the
\* stream.
LEMMA HandEmpty ==
    ASSUME HandInv, EmptyRead \/ PayloadEof \/ Passthrough
    PROVE  HandInv'
<1> USE DEF EmptyRead, PayloadEof, Passthrough, AtEof, corkVars, afterVars
<1>1. Reading /\ eof' = TRUE /\ (pos = net.cut \/ Boundary)
  BY Zenon DEF AtBoundary, Boundary
<1>2. UNCHANGED <<net, suite, pos, state, offset, msg_size, corked, fed, opened, plain, phase, drained, kseq, upstream>>
  BY Zenon
<1> HIDE DEF EmptyRead, PayloadEof, Passthrough
<1>3. TypeOK /\ Framing /\ HoldInv
  BY <1>1, Zenon DEF HandInv, Reading, Before
<1>4. TypeOK'
  BY <1>1, <1>2, <1>3, Zenon DEF TypeOK
<1>5. Framing'
  BY <1>2, <1>3, Zenon DEF Framing, Here
<1>6. HoldInv'
  <2>1. Held' = Held /\ Boundary' = Boundary
    BY <1>2, Zenon DEF Held, Given, Boundary
  <2>2. \A i : Data(i)' = Data(i)
    BY <1>2, Zenon DEF Data
  <2> QED
    BY <1>1, <1>2, <1>3, <2>1, <2>2, Zenon DEF HoldInv
<1> QED
  BY <1>1, <1>2, <1>4, <1>5, <1>6, HandReads, Zenon

\* Every read preserves the invariant.
LEMMA HandRead == HandInv /\ ReadStep => HandInv'
BY HandEmpty, HandHeaderPart, HandHeaderDone, HandHeaderEof, HandPayload, Zenon DEF ReadStep

\* The steps up to the transfer that move no byte keep the framing and, but for
\* a read of drain, what is held.
LEMMA HandFrame ==
    ASSUME HandInv, phase \in Before, UNCHANGED <<net, pos, state, offset, msg_size, fed, opened>>
    PROVE  /\ Framing'
           /\ UNCHANGED <<plain, eof, drained>> /\ (corked => corked') => HoldInv'
           /\ Boundary' = Boundary
<1>1. Framing /\ HoldInv
  BY Zenon DEF HandInv
<1>2. Framing'
  BY <1>1, Zenon DEF Framing, Here
<1>3. UNCHANGED <<plain, eof, drained>> /\ (corked => corked') => HoldInv'
  BY <1>1 DEF HoldInv, Held, Given, Data, Boundary, CloseNotified
<1> QED
  BY <1>2, <1>3, Zenon DEF Boundary

\* accept ends.
LEMMA HandAccept == HandInv /\ (AcceptDone \/ AcceptFail) => HandInv'
<1> SUFFICES ASSUME HandInv, AcceptDone \/ AcceptFail PROVE HandInv'
  BY Zenon
<1> USE DEF AcceptDone, AcceptFail, corkVars, rustlsVars, afterVars
<1>1. phase \in Before /\ TypeOK /\ DrainFits
  BY Zenon DEF Before, HandInv
<1>2. Framing' /\ HoldInv'
  BY <1>1, HandFrame
<1>3. TypeOK' /\ DrainFits'
  BY <1>1, Zenon DEF TypeOK, DrainFits
<1> QED
  BY <1>2, <1>3, Zenon DEF HandInv, Before, Setup, UpstreamIsComplete

\* An error of a socket, or the deadline, ends the connection.
LEMMA HandEnds == HandInv /\ (ReadError \/ TransferEnds) => HandInv'
<1> SUFFICES ASSUME HandInv, ReadError \/ TransferEnds PROVE HandInv'
  BY Zenon
<1>1. /\ UNCHANGED <<net, suite, pos, state, offset, msg_size, corked, fed, opened, plain, eof,
                     drained, kseq, upstream>>
      /\ phase' = "failed" \/ (phase = "transfer" /\ phase' = "closed")
  BY Zenon DEF ReadError, TransferEnds, corkVars, rustlsVars, afterVars
<1>2. TypeOK' /\ DrainFits'
  BY <1>1, Zenon DEF HandInv, TypeOK, DrainFits
<1>3. UpstreamIsComplete'
  BY <1>1, Zenon DEF HandInv, UpstreamIsComplete, Increasing, Data
<1>4. phase' = "closed" => suite' \in Suites
  BY <1>1, Zenon DEF HandInv
<1> QED
  BY <1>1, <1>2, <1>3, <1>4, Zenon DEF HandInv, Before, Setup

\* drain reads what rustls holds, or finds that there is no more.
LEMMA HandDrain == HandInv /\ (DrainTake \/ DrainEnd) => HandInv'
<1> SUFFICES ASSUME HandInv, DrainTake \/ DrainEnd PROVE HandInv'
  BY Zenon
<1> USE DEF corkVars, rustlsVars, afterVars
<1>1. phase = "drain" /\ phase \in Before /\ TypeOK /\ HoldInv /\ DrainFits /\ corked
  BY Zenon DEF Before, HandInv, DrainTake, DrainEnd
<1>2. CASE DrainTake
  <2>1. PICK i \in plain : drained' = Append(drained, i) /\ plain' = plain \ {i}
    BY <1>2, Zenon DEF DrainTake
  <2>2. UNCHANGED <<net, suite, pos, state, offset, msg_size, corked, fed, opened, eof, phase, kseq, upstream>>
    BY <1>2, Zenon DEF DrainTake
  <2>3. Framing' /\ Boundary' = Boundary
    BY <1>1, <2>2, HandFrame, Zenon
  <2>4. i = opened /\ plain = {opened} /\ drained = <<>> /\ i \in 1..net.n /\ Held = {opened}
    BY <1>1, <2>1, Zenon DEF HoldInv, Held, TypeOK
  <2>5. drained' = <<opened>> /\ plain' = {} /\ Len(drained') = 1
    BY <2>1, <2>4
  <2>6. drained' \in Seq(1..net.n)
    BY <2>4, <2>5
  <2>7. TypeOK'
    BY <1>1, <2>2, <2>5, <2>6, Zenon DEF TypeOK
  <2>8. Given' = {opened}
    BY <2>5 DEF Given
  <2>9. HoldInv'
    BY <1>1, <2>2, <2>3, <2>4, <2>5, <2>8, Zenon DEF HoldInv, Held, Data, CloseNotified
  <2>10. DrainFits'
    BY <2>5 DEF DrainFits
  <2> QED
    BY <1>1, <2>2, <2>3, <2>7, <2>9, <2>10, Zenon DEF HandInv, Before, Setup, UpstreamIsComplete
<1>3. CASE DrainEnd
  <2> USE <1>3 DEF DrainEnd
  <2>1. Framing' /\ HoldInv' /\ Boundary' = Boundary
    BY <1>1, HandFrame, Zenon
  <2>2. TypeOK' /\ DrainFits'
    BY <1>1, Zenon DEF TypeOK, DrainFits, Setup
  <2>3. pos = net.cut \/ Boundary
    BY <1>1, Zenon DEF HoldInv
  <2> QED
    BY <1>1, <2>1, <2>2, <2>3, Zenon DEF HandInv, Before, Setup, UpstreamIsComplete
<1> QED
  BY <1>2, <1>3, Zenon

\* setup_inner: the kernel refuses a suite it does not take, or goes on with the
\* sequence number rustls has reached.
LEMMA HandSetup == HandInv /\ (SetupUlp \/ SetupTx \/ SetupRx) => HandInv'
<1> SUFFICES ASSUME HandInv, SetupUlp \/ SetupTx \/ SetupRx PROVE HandInv'
  BY Zenon
<1> USE DEF corkVars, rustlsVars, afterVars
<1>1. /\ phase \in Setup /\ phase \in Before /\ TypeOK /\ DrainFits /\ suite \in Suites
      /\ plain = {} /\ (pos = net.cut \/ Boundary)
  BY Zenon DEF Before, Setup, HandInv, SetupUlp, SetupTx, SetupRx
<1>2. UNCHANGED <<net, suite, pos, state, offset, msg_size, corked, fed, opened, plain, eof, drained, upstream>>
  BY Zenon DEF SetupUlp, SetupTx, SetupRx
<1>3. Framing' /\ HoldInv' /\ Boundary' = Boundary
  BY <1>1, <1>2, HandFrame, Zenon
<1>4. \A d \in {"Tx", "Rx"} : SetupTlsInfo(Kernel, d, CryptoInfo(suite)) <=> suite \in Kernel.takes[d]
  <2>1. suite = <<suite[1], suite[2]>>
    BY <1>1, KernelAssumption, SMTT(30) DEF Suite
  <2> QED
    BY <2>1, Zenon DEF SetupTlsInfo, CryptoInfo
<1>5. /\ phase' \in {"setup_tx", "setup_rx", "failed", "refused", "write"}
      /\ phase' = "write" => kseq' = opened'
      /\ kseq' \in {kseq, opened}
      /\ phase' = "refused" => suite \notin Kernel.takes["Tx"] \/ suite \notin Kernel.takes["Rx"]
  BY <1>2, <1>4, Zenon DEF SetupUlp, SetupTx, SetupRx
<1>6. TypeOK' /\ DrainFits'
  BY <1>1, <1>2, <1>5, Zenon DEF TypeOK, DrainFits, Setup
<1> QED
  BY <1>1, <1>2, <1>3, <1>5, <1>6, Zenon DEF HandInv, Before, Setup, UpstreamIsComplete

\* The drained bytes go to the backend before the first of the kernel's.
LEMMA HandWrite == HandInv /\ (WriteDrained \/ WriteFail) => HandInv'
<1> SUFFICES ASSUME HandInv, WriteDrained \/ WriteFail PROVE HandInv'
  BY Zenon
<1> USE DEF WriteDrained, WriteFail, corkVars, rustlsVars, afterVars
<1>1. /\ phase = "write" /\ phase \in Before /\ TypeOK /\ DrainFits /\ HoldInv /\ Framing
      /\ plain = {} /\ (pos = net.cut \/ Boundary) /\ kseq = opened /\ suite \in Suites
  BY Zenon DEF Before, HandInv
<1>2. TypeOK' /\ DrainFits'
  BY <1>1, Zenon DEF TypeOK, DrainFits
<1>3. IsLayout(net) /\ opened \in 0..net.n
  BY <1>1, Zenon DEF TypeOK
<1>4. pos = net.cut \/ pos = net.start[kseq + 1]
  BY <1>1, <1>3, Positions DEF Framing, Boundary, Here
<1>5. Given = {i \in 1..kseq : Data(i)}
  BY <1>1, Zenon DEF HoldInv, Held
<1>6. Increasing(drained)
  BY <1>1 DEF Increasing, DrainFits, TypeOK
<1>7. phase' \in {"transfer", "failed"} /\ (phase' = "transfer" => upstream' = drained)
  BY Zenon
<1>8. UpstreamIsComplete'
  BY <1>5, <1>6, <1>7, Zenon DEF UpstreamIsComplete, Increasing, Given, Data
<1> QED
  BY <1>1, <1>2, <1>4, <1>7, <1>8, Zenon DEF HandInv, Before, Setup

\* The kernel forwards the next record, or the transfer ends.
LEMMA HandKernel == HandInv /\ (KernelRead \/ KernelEof) => HandInv'
<1> SUFFICES ASSUME HandInv, KernelRead \/ KernelEof PROVE HandInv'
  BY Zenon
<1> USE DEF KernelRead, KernelEof, corkVars, rustlsVars, afterVars
<1>1. /\ phase = "transfer" /\ TypeOK /\ DrainFits /\ suite \in Suites
      /\ Increasing(upstream) /\ {upstream[a] : a \in 1..Len(upstream)} = {i \in 1..kseq : Data(i)}
      /\ IsLayout(net) /\ kseq \in Nat
  <2>1. phase = "transfer"
    BY Zenon
  <2>2. TypeOK /\ DrainFits /\ suite \in Suites /\ UpstreamIsComplete
    BY <2>1, Zenon DEF HandInv
  <2>3. kseq \in Nat
    BY <2>2, SMTT(30) DEF TypeOK, IsLayout
  <2> QED
    BY <2>1, <2>2, <2>3, Zenon DEF UpstreamIsComplete, TypeOK
<1>2. CASE phase' = "closed" /\ UNCHANGED <<net, pos, kseq, upstream, drained, suite>>
  <2>1. TypeOK' /\ DrainFits'
    BY <1>1, <1>2, Zenon DEF TypeOK, DrainFits
  <2>2. UpstreamIsComplete'
    BY <1>1, <1>2, Zenon DEF UpstreamIsComplete, Increasing, Data
  <2> QED
    BY <1>1, <1>2, <2>1, <2>2, Zenon DEF HandInv, Before, Setup
<1>3. CASE phase' = phase
  <2> DEFINE i == kseq + 1
  <2>1. /\ i <= net.n /\ Data(i) /\ pos' = net.start[i + 1] /\ pos' <= net.cut
        /\ kseq' = i /\ upstream' = Append(upstream, i)
        /\ pos < net.cut /\ pos = net.start[i]
        /\ UNCHANGED <<net, suite, drained>>
    BY <1>1, <1>3, ZenonT(30)
  <2>2. net.n \in Nat /\ i \in 1..net.n /\ i \in 1..(net.n + 1) /\ i + 1 \in 1..(net.n + 1) /\ net.cut \in Nat
    <3>1. net.n \in Nat /\ net.cut \in Nat
      <4>1. opened \in 0..net.n
        BY <1>1, SMTT(30) DEF TypeOK
      <4> QED
        BY <1>1, <4>1, Positions, Zenon
    <3> QED
      BY <1>1, <2>1, <3>1
  <2>3. pos' \in 0..net.cut /\ pos <= pos'
    BY <1>1, <2>1, <2>2, Ordered, SMTT(30)
  <2>4. upstream \in Seq(1..net.n)
    BY <1>1, Zenon DEF TypeOK
  <2>5. UpstreamIsComplete'
    <3> HIDE DEF KernelRead, KernelEof
    <3>1. \A a \in 1..Len(upstream) : upstream[a] < i
      <4>1. \A j \in 1..kseq : j < i
        BY <1>1
      <4> QED
        BY <1>1, <4>1, Zenon
    <3>2. i \in Nat
      BY <1>1
    <3>3. /\ Increasing(Append(upstream, i))
          /\ {Append(upstream, i)[a] : a \in 1..Len(Append(upstream, i))}
               = {upstream[a] : a \in 1..Len(upstream)} \cup {i}
      <4>1. net.n \in Nat /\ Increasing(upstream)
        BY <1>1, <2>2, Zenon
      <4> HIDE DEF i
      <4> QED
        BY <2>4, <3>1, <3>2, <4>1, AppendLarger, Zenon
    <3>4. 1..i = 1..kseq \cup {i}
      BY <1>1
    <3>5. {j \in 1..i : Data(j)} = {j \in 1..kseq : Data(j)} \cup {i}
      BY <2>1, <3>4, Zenon
    <3>6. UNCHANGED net
      BY <2>1, Zenon
    <3> HIDE DEF i
    <3>7. Increasing(upstream)' /\ {upstream'[a] : a \in 1..Len(upstream')} = {j \in 1..kseq' : Data(j)}
      BY <1>1, <2>1, <3>3, <3>5, Zenon DEF Increasing
    <3> QED
      BY <3>6, <3>7, Zenon DEF UpstreamIsComplete, Data
  <2>6. fed' = fed /\ fed \in 0..pos'
    BY <1>1, <1>3, <2>3 DEF TypeOK
  <2>7. TypeOK' /\ DrainFits'
    <3>1. UNCHANGED <<net, suite, state, offset, msg_size, corked, opened, plain, eof, drained>>
      BY <1>1, <1>3, Zenon
    <3>2. upstream' \in Seq(1..net.n) /\ kseq' \in 0..net.n
      BY <2>1, <2>2, <2>4, SMTT(30)
    <3> HIDE DEF KernelRead, KernelEof
    <3>3. DrainFits'
      BY <1>1, <3>1, Zenon DEF DrainFits
    <3> QED
      BY <1>1, <1>3, <2>3, <2>6, <3>1, <3>2, <3>3, Zenon DEF TypeOK
  <2>8. pos' = net'.start[kseq' + 1]
    BY <2>1, Zenon
  <2> QED
    BY <1>1, <1>3, <2>1, <2>7, <2>8, <2>5, Zenon DEF HandInv, Before, Setup
<1> QED
  BY <1>1, <1>2, <1>3, Zenon

\* Every step preserves the invariant.
LEMMA HandStep == HandInv /\ [Next]_vars => HandInv'
<1>1. HandInv /\ UNCHANGED vars => HandInv'
  <2> SUFFICES ASSUME HandInv, UNCHANGED vars PROVE HandInv'
    BY Zenon
  <2>1. UNCHANGED <<net, suite, pos, state, offset, msg_size, corked, fed, opened, plain, eof,
                    phase, drained, kseq, upstream>>
    BY Zenon DEF vars, corkVars, rustlsVars, afterVars
  <2>2. TypeOK' /\ DrainFits'
    BY <2>1, Zenon DEF HandInv, TypeOK, DrainFits
  <2>3. phase \in Before => Framing' /\ HoldInv'
    BY <2>1, HandFrame, Zenon
  <2>4. UpstreamIsComplete'
    BY <2>1, Zenon DEF HandInv, UpstreamIsComplete, Increasing, Data
  <2> QED
    BY <2>1, <2>2, <2>3, <2>4, Zenon DEF HandInv, Boundary
<1> QED
  BY <1>1, HandRead, HandAccept, HandEnds, HandDrain, HandSetup, HandWrite, HandKernel, Zenon
     DEF Next, ClientStep

\* The kernel takes over at the first byte of the record whose sequence number
\* it is given, or at the end of the stream.
THEOREM InSync == Spec => []KernelInSync
<1>1. HandInv => KernelInSync
  <2> SUFFICES ASSUME HandInv, phase \in Setup \cup {"write", "transfer"}, pos # net.cut
               PROVE  pos = net.start[(IF phase \in Setup THEN opened ELSE kseq) + 1]
    BY Zenon DEF KernelInSync
  <2>1. CASE phase = "transfer"
    BY <2>1, Zenon DEF HandInv, Setup
  <2>2. CASE phase \in Setup \cup {"write"}
    <3>1. Boundary /\ Framing /\ TypeOK /\ (phase = "write" => kseq = opened)
      BY <2>2, Zenon DEF HandInv, Before
    <3>2. pos = Here
      BY <3>1, Positions DEF Framing, Boundary, TypeOK
    <3> QED
      BY <2>2, <3>1, <3>2, Zenon DEF Here, Setup
  <2> QED
    BY <2>1, <2>2, Zenon
<1> QED
  BY <1>1, HandInit, HandStep, PTL DEF Spec

\* Every variable of the hand-over keeps its type: no offset, size or record
\* number leaves its range, however the stream is cut.
THEOREM HandoverTypes == Spec => []TypeOK
<1>1. HandInv => TypeOK
  BY Zenon DEF HandInv
<1> QED
  BY <1>1, HandInit, HandStep, PTL DEF Spec

\* The backend gets every data record across the hand-over, in order, none twice.
THEOREM NoGap == Spec => []UpstreamIsComplete
<1>1. HandInv => UpstreamIsComplete
  BY Zenon DEF HandInv
<1> QED
  BY <1>1, HandInit, HandStep, PTL DEF Spec

\* drain never reads more than one record.
THEOREM OneRecordDrained == Spec => []DrainFits
<1>1. HandInv => DrainFits
  BY Zenon DEF HandInv
<1> QED
  BY <1>1, HandInit, HandStep, PTL DEF Spec

\* A suite that the probe has found compatible is refused for receiving only.
THEOREM ProbeIsRight == Spec => []ProbeForetells
<1>1. HandInv => ProbeForetells
  <2> SUFFICES ASSUME HandInv, phase = "refused", IsCompatible(TestCiphers(Kernel), suite)
               PROVE  suite \notin Kernel.takes["Rx"]
    BY Zenon DEF ProbeForetells
  <2>1. suite \in Suite
    BY KernelAssumption, Zenon DEF HandInv
  <2>2. suite \in Kernel.takes["Tx"]
    BY <2>1, ProbeIsTx, Zenon
  <2> QED
    BY <2>2, Zenon DEF HandInv
<1> QED
  BY <1>1, HandInit, HandStep, PTL DEF Spec
=============================================================================
