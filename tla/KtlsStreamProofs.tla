-------------------------- MODULE KtlsStreamProofs --------------------------
(***************************************************************************)
(* What KtlsStream puts on the wire and gives its reader, for any sizes    *)
(* and bounds.                                                             *)
(***************************************************************************)
EXTENDS KtlsStream, SequenceTheorems, TLAPS

(***************************************************************************)
(* Part 1.  The wire.  That no data follows a close_notify is not          *)
(* inductive: it needs that write_closed is set no later than the first    *)
(* close_notify is sent, by whichever of poll_read, poll_shutdown and      *)
(* handle_msg sends it.                                                    *)
(***************************************************************************)
CloseInv ==
    /\ wire \in Seq({"data", "close_notify"})
    /\ ~write_closed => \A i \in 1..Len(wire) : wire[i] # "close_notify"
    /\ NoDataAfterCloseNotify

\* The initial state satisfies the invariant: the wire is empty.
LEMMA CloseInit == Init => CloseInv
BY DEF Init, CloseInv, NoDataAfterCloseNotify

\* Data goes out only while no close_notify is due.
LEMMA CloseData ==
    ASSUME CloseInv, ~write_closed, ~write_closed', wire' = Append(wire, "data")
    PROVE  CloseInv'
<1>1. /\ wire' \in Seq({"data", "close_notify"})
      /\ \A i \in 1..Len(wire') : wire'[i] # "close_notify"
  BY DEF CloseInv
<1> QED
  BY <1>1 DEF CloseInv, NoDataAfterCloseNotify

\* A close_notify goes out after, or with, the closing of the stream.
LEMMA CloseNotify ==
    ASSUME CloseInv, NEW ok \in BOOLEAN, SendCloseNotify(ok), write_closed'
    PROVE  CloseInv'
<1>1. CASE wire' = wire
  BY <1>1 DEF CloseInv, NoDataAfterCloseNotify
<1>2. CASE wire' = Append(wire, "close_notify")
  <2>1. /\ wire' \in Seq({"data", "close_notify"})
        /\ Len(wire') = Len(wire) + 1 /\ Len(wire) \in Nat
        /\ \A i \in 1..Len(wire) : wire'[i] = wire[i]
        /\ wire'[Len(wire) + 1] = "close_notify"
    BY <1>2 DEF CloseInv
  <2> QED
    BY <2>1 DEF CloseInv, NoDataAfterCloseNotify
<1> QED
  BY <1>1, <1>2 DEF SendCloseNotify

\* A step that sends nothing keeps the invariant, if it does not open the
\* stream again.
LEMMA CloseQuiet ==
    ASSUME CloseInv, wire' = wire, write_closed => write_closed'
    PROVE  CloseInv'
BY DEF CloseInv, NoDataAfterCloseNotify

\* Every step preserves the invariant.
LEMMA CloseStep == CloseInv /\ [Next]_vars => CloseInv'
<1> SUFFICES ASSUME CloseInv, [Next]_vars PROVE CloseInv'
  OBVIOUS
<1> USE DEF vars, closeVars, readVars, peerVars
<1>1. ASSUME NEW r, Arrive(r) PROVE CloseInv'
  BY <1>1, CloseQuiet DEF Arrive
<1>2. CASE ReadClosed \/ ReadPending \/ ReadEnd \/ ReadFails \/ ReadIgnored \/ ReadPanics \/ PeerEnds
  BY <1>2, CloseQuiet
     DEF ReadClosed, ReadPending, ReadEnd, ReadFails, ReadIgnored, ReadPanics, PeerEnds
<1>3. ASSUME NEW size, NEW n, ReadDrained(size) \/ ReadData(n) \/ ReadWarning(size)
      PROVE  CloseInv'
  BY <1>3, CloseQuiet DEF ReadDrained, ReadData, ReadWarning
<1>4. ASSUME NEW size, NEW ok \in BOOLEAN,
             ReadAlert(size, ok) \/ PollShutdown(ok) \/ HandleAlert(ok)
      PROVE  CloseInv'
  BY <1>4, CloseNotify DEF ReadAlert, PollShutdown, HandleAlert
<1>5. CASE PollWrite \/ SpliceWrite
  BY <1>5, CloseQuiet, CloseData DEF PollWrite, SpliceWrite, CloseInv
<1>6. CASE ReadAgain \/ ShutdownAgain \/ HandleIgnored \/ HandlePanics \/ HandleEnd \/ IntoRaw \/ Drop
  BY <1>6, CloseQuiet
     DEF ReadAgain, ShutdownAgain, HandleIgnored, HandlePanics, HandleEnd, IntoRaw, Drop
<1>7. CASE UNCHANGED vars
  BY <1>7, CloseQuiet
<1> QED
  BY <1>1, <1>2, <1>3, <1>4, <1>5, <1>6, <1>7 DEF Next, PollRead, Caller

\* No data follows a close_notify on the wire, for any bytes drained, sizes of
\* buffers and numbers of records and writes.
THEOREM NothingAfterTheEnd == Spec => []NoDataAfterCloseNotify
<1>1. CloseInv => NoDataAfterCloseNotify
  BY DEF CloseInv
<1> QED
  BY <1>1, CloseInit, CloseStep, PTL DEF Spec
----------------------------------------------------------------------------
(***************************************************************************)
(* Part 2.  The reader, for buffers of any size.  The invariant says of    *)
(* each place of what was read which byte it holds: the first drain_index  *)
(* places are drained bytes, the others come from the socket.  It numbers  *)
(* the records in the socket: f[k] is the last byte sent before the record *)
(* after the k-th.                                                         *)
(***************************************************************************)
IsData(k) == inbox[k][1] = "data"

\* The last byte the reader was given or that poll_read has passed over.
Seen == Drained + (Len(out) - drain_index)

Numbering(f) ==
    /\ f \in [0..Len(inbox) -> Nat]
    /\ f[0] = Seen
    /\ f[Len(inbox)] = bytes
    /\ \A k \in 1..Len(inbox) :
          IF IsData(k) THEN inbox[k][2] = f[k] /\ f[k] = f[k - 1] + 1 ELSE f[k] = f[k - 1]
    /\ \A i, j \in 0..Len(inbox) :
          i <= j /\ (\A k \in (i + 1)..j : IsData(k)) => f[j] = f[i] + (j - i)

Records == {"data", "close_notify", "fatal", "warning", "ticket", "change_cipher_spec"} \X Nat

\* The first d places of s hold the drained bytes from the first on, the others
\* those behind all the drained ones.
Ordered(s, d) ==
    /\ d <= Len(s)
    /\ \A k \in 1..Len(s) : s[k] = IF k <= d THEN k ELSE Drained + (k - d)

OutInv ==
    /\ out \in Seq(Nat) /\ drain_index \in 0..Drained /\ has_drained \in BOOLEAN
    /\ has_drained => drain_index < Drained
    /\ ~has_drained => 2 * drain_index >= Drained
    /\ ~has_drained \/ stream # "raw" => Ordered(out, drain_index)
    /\ has_drained /\ stream # "raw" => Len(out) = drain_index
    /\ has_drained /\ stream = "raw" => out = Bytes(1, drain_index) \o Bytes(1, Drained)

OrderInv ==
    /\ OutInv
    /\ bytes \in Nat /\ inbox \in Seq(Records)
    /\ stream = "open" => \E f : Numbering(f)

\* The bytes behind the d-th, up to the j-th.
LEMMA BytesAre ==
    ASSUME NEW d \in Nat, NEW j \in Nat, d <= j
    PROVE  /\ Bytes(d + 1, j) \in Seq(Nat) /\ Len(Bytes(d + 1, j)) = j - d
           /\ \A k \in 1..(j - d) : Bytes(d + 1, j)[k] = d + k
<1>1. /\ j - (d + 1) + 1 = j - d /\ j - d \in Nat
      /\ \A k \in 1..(j - d) : (d + 1) + k - 1 = d + k /\ d + k \in Nat
  OBVIOUS
<1> QED
  BY <1>1 DEF Bytes

\* The first bytes.
LEMMA FirstBytes ==
    ASSUME NEW j \in Nat
    PROVE  /\ Bytes(1, j) \in Seq(Nat) /\ Len(Bytes(1, j)) = j
           /\ \A k \in 1..j : Bytes(1, j)[k] = k
<1>1. j - 1 + 1 = j /\ \A k \in 1..j : 1 + k - 1 = k /\ k \in Nat
  OBVIOUS
<1> QED
  BY <1>1 DEF Bytes

\* A sequence in order is the drained bytes and then those of the socket.
LEMMA OrderedSplits ==
    ASSUME NEW s \in Seq(Nat), NEW d \in 0..Drained, Ordered(s, d)
    PROVE  /\ s = Bytes(1, d) \o Bytes(Drained + 1, Drained + Len(s) - d)
           /\ Len(s) = d => s = Bytes(1, d)
<1> USE SizesAssumption
<1> DEFINE n == Len(s)
           a == Bytes(1, d)
           b == Bytes(Drained + 1, Drained + n - d)
<1>1. n \in Nat /\ d \in Nat /\ d <= n /\ Drained + n - d \in Nat
  BY DEF Ordered
<1>2. a \in Seq(Nat) /\ Len(a) = d /\ \A k \in 1..d : a[k] = k
  BY <1>1, FirstBytes, Zenon
<1>3. b \in Seq(Nat) /\ Len(b) = n - d /\ \A k \in 1..(n - d) : b[k] = Drained + k
  <2> HIDE DEF n
  <2>1. Drained <= Drained + n - d /\ (Drained + n - d) - Drained = n - d
    BY <1>1
  <2>2. b \in Seq(Nat) /\ Len(b) = (Drained + n - d) - Drained
        /\ \A k \in 1..((Drained + n - d) - Drained) : b[k] = Drained + k
    BY <1>1, <2>1, BytesAre, Zenon
  <2> QED
    BY <2>1, <2>2, Zenon
<1>4. \A k \in 1..n : s[k] = IF k <= d THEN k ELSE Drained + (k - d)
  BY DEF Ordered
<1> HIDE DEF n, a, b
<1>5. s \in Seq(Nat) /\ Len(s) = n
  BY DEF n
<1>6. /\ a \o b \in Seq(Nat) /\ Len(a \o b) = Len(a) + Len(b)
      /\ \A k \in 1..(Len(a) + Len(b)) : (a \o b)[k] = IF k <= Len(a) THEN a[k] ELSE b[k - Len(a)]
  BY <1>2, <1>3, ConcatProperties, Zenon
<1>7. /\ Len(a \o b) = n
      /\ \A k \in 1..n : (a \o b)[k] = IF k <= d THEN a[k] ELSE b[k - d]
  <2>1. Len(a) + Len(b) = n
    BY <1>1, <1>2, <1>3
  <2> QED
    BY <1>2, <1>6, <2>1, Zenon
<1>8. \A k \in 1..n : s[k] = (a \o b)[k]
  <2>1. ASSUME NEW k \in 1..n PROVE s[k] = IF k <= d THEN a[k] ELSE b[k - d]
    BY <1>1, <1>2, <1>3, <1>4
  <2> QED
    BY <1>7, <2>1, Zenon
<1>9. s = a \o b
  BY <1>5, <1>6, <1>7, <1>8, SeqEqual, Zenon
<1>10. ASSUME n = d PROVE s = a
  <2>1. \A k \in 1..n : s[k] = a[k]
    BY <1>1, <1>2, <1>4, <1>10
  <2> QED
    BY <1>2, <1>5, <1>10, <2>1, SeqEqual, Zenon
<1> QED
  BY <1>9, <1>10 DEF n, a, b

\* The invariant says that the bytes are in order.
LEMMA OutIsOrdered == OutInv => ReadsInOrder
<1> SUFFICES ASSUME OutInv PROVE ReadsInOrder
  OBVIOUS
<1>1. out \in Seq(Nat) /\ drain_index \in 0..Drained
  BY Zenon DEF OutInv
<1>2. ASSUME Ordered(out, drain_index)
      PROVE  /\ out = Bytes(1, drain_index) \o Bytes(Drained + 1, Drained + Len(out) - drain_index)
             /\ Len(out) = drain_index => out = Bytes(1, drain_index)
  BY <1>1, <1>2, OrderedSplits, Zenon
<1> QED
  BY <1>2, Zenon DEF OutInv, ReadsInOrder

\* What the socket gives continues an order.
LEMMA OrderedFromSocket ==
    ASSUME NEW s \in Seq(Nat), NEW d \in 0..Drained, Ordered(s, d), NEW t \in Seq(Nat),
           \A k \in 1..Len(t) : t[k] = Drained + (Len(s) - d) + k
    PROVE  s \o t \in Seq(Nat) /\ Len(s \o t) = Len(s) + Len(t) /\ Ordered(s \o t, d)
<1> USE SizesAssumption
<1>1. s \o t \in Seq(Nat) /\ Len(s \o t) = Len(s) + Len(t) /\ Len(s) \in Nat /\ Len(t) \in Nat
  OBVIOUS
<1>2. d \in Nat /\ d <= Len(s) /\ \A k \in 1..Len(s) : s[k] = IF k <= d THEN k ELSE Drained + (k - d)
  BY DEF Ordered
<1>3. \A k \in 1..(Len(s) + Len(t)) : (s \o t)[k] = IF k <= Len(s) THEN s[k] ELSE t[k - Len(s)]
  BY ConcatProperties, Zenon
<1>4. ASSUME NEW k \in 1..(Len(s) + Len(t))
      PROVE  (s \o t)[k] = IF k <= d THEN k ELSE Drained + (k - d)
  <2>1. CASE k <= Len(s)
    BY <1>1, <1>2, <1>3, <2>1
  <2>2. CASE k > Len(s)
    <3>1. k - Len(s) \in 1..Len(t) /\ ~(k <= d) /\ ~(k <= Len(s))
      BY <1>1, <1>2, <2>2
    <3>2. t[k - Len(s)] = Drained + (Len(s) - d) + (k - Len(s))
      BY <3>1, Zenon
    <3>3. (s \o t)[k] = t[k - Len(s)]
      BY <1>3, <3>1, Zenon
    <3>4. Drained + (Len(s) - d) + (k - Len(s)) = Drained + (k - d)
      BY <1>1, <1>2
    <3> QED
      BY <3>1, <3>2, <3>3, <3>4, Zenon
  <2> QED
    BY <1>1, <2>1, <2>2
<1>5. d <= Len(s) + Len(t)
  BY <1>1, <1>2
<1> QED
  BY <1>1, <1>4, <1>5, Zenon DEF Ordered

\* So do the next drained bytes, as long as nothing else was read.
LEMMA OrderedFromDrained ==
    ASSUME NEW s \in Seq(Nat), NEW d \in Nat, Ordered(s, d), Len(s) = d, NEW e \in Nat, d <= e
    PROVE  /\ s \o Bytes(d + 1, e) \in Seq(Nat) /\ Len(s \o Bytes(d + 1, e)) = e
           /\ Ordered(s \o Bytes(d + 1, e), e)
<1> DEFINE t == Bytes(d + 1, e)
<1>1. t \in Seq(Nat) /\ Len(t) = e - d /\ \A k \in 1..(e - d) : t[k] = d + k
  BY BytesAre, Zenon
<1>2. \A k \in 1..d : s[k] = k
  BY DEF Ordered
<1> HIDE DEF t
<1>3. /\ s \o t \in Seq(Nat) /\ Len(s \o t) = Len(s) + Len(t) /\ Len(s) + Len(t) = e
      /\ \A k \in 1..(Len(s) + Len(t)) : (s \o t)[k] = IF k <= Len(s) THEN s[k] ELSE t[k - Len(s)]
  <2>1. Len(s) + Len(t) = e
    BY <1>1
  <2> QED
    BY <1>1, <2>1, ConcatProperties, Zenon
<1>4. \A k \in 1..e : (s \o t)[k] = k
  <2>1. \A k \in 1..e : (s \o t)[k] = IF k <= d THEN s[k] ELSE t[k - d]
    BY <1>3, Zenon
  <2>2. ASSUME NEW k \in 1..e PROVE (IF k <= d THEN s[k] ELSE t[k - d]) = k
    BY <1>1, <1>2
  <2> QED
    BY <2>1, <2>2, Zenon
<1>5. e <= e /\ \A k \in 1..e : k <= e
  OBVIOUS
<1>6. Ordered(s \o t, e)
  BY <1>3, <1>4, <1>5, Zenon DEF Ordered
<1> QED
  BY <1>3, <1>6 DEF t

\* Initially the socket is empty and the drained bytes are in front of it.
LEMMA OrderInit == Init => OrderInv
<1> SUFFICES ASSUME Init PROVE OrderInv
  OBVIOUS
<1> USE SizesAssumption
<1>1. out = <<>> /\ drain_index = 0 /\ bytes = Drained /\ inbox = <<>> /\ stream = "open"
  BY Zenon DEF Init
<1>2. has_drained \in BOOLEAN /\ (has_drained <=> Drained > 0)
  <2>1. (Drained > 0) \in BOOLEAN
    OBVIOUS
  <2> QED
    BY <2>1, Zenon DEF Init
<1>3. \E f : Numbering(f)
  <2>1. PICK f : f = [k \in 0..0 |-> Drained]
    BY Zenon
  <2>2. Len(inbox) = 0 /\ Seen = Drained
    BY <1>1 DEF Seen
  <2>3. f \in [0..0 -> Nat] /\ f[0] = Drained
    BY <2>1
  <2> QED
    BY <1>1, <2>2, <2>3 DEF Numbering
<1>4. Ordered(out, 0) /\ Len(out) = 0 /\ out \in Seq(Nat) /\ inbox \in Seq(Records)
  BY <1>1 DEF Ordered
<1>5. /\ 0 \in 0..Drained /\ (Drained > 0 => 0 < Drained) /\ (~(Drained > 0) => 2 * 0 >= Drained)
      /\ Drained \in Nat
  OBVIOUS
<1>6. OutInv
  <2>1. has_drained => drain_index < Drained
    BY <1>1, <1>2, <1>5, Zenon
  <2>2. ~has_drained => 2 * drain_index >= Drained
    <3>1. ~has_drained => ~(Drained > 0)
      BY <1>2, Zenon
    <3> QED
      BY <1>1, <1>5, <3>1
  <2> QED
    BY <1>1, <1>2, <1>4, <1>5, <2>1, <2>2, Zenon DEF OutInv
<1> QED
  BY <1>1, <1>3, <1>4, <1>5, <1>6, Zenon DEF OrderInv

\* A step that leaves the reader's data alone.
LEMMA OutQuiet ==
    ASSUME OutInv, UNCHANGED <<out, has_drained, drain_index>>, (stream' = "raw") <=> (stream = "raw")
    PROVE  OutInv'
BY Zenon DEF OutInv, Ordered, Bytes

\* And leaves the socket alone.
LEMMA OrderQuiet ==
    ASSUME OrderInv, UNCHANGED <<out, bytes, inbox, has_drained, drain_index>>,
           stream' = "open" => stream = "open", (stream' = "raw") <=> (stream = "raw")
    PROVE  OrderInv'
<1>1. \A f : Numbering(f) => Numbering(f)'
  BY DEF Numbering, Seen, IsData
<1>2. OutInv'
  BY OutQuiet, Zenon DEF OrderInv
<1> QED
  BY <1>1, <1>2 DEF OrderInv

\* A record that arrives has the next byte, if it has one.
LEMMA OrderArrive ==
    ASSUME OrderInv, NEW r \in Record(bytes + 1), Arrive(r)
    PROVE  OrderInv'
<1> USE DEF OrderInv, Arrive
<1>1. r \in Records /\ (r[1] = "data" => r[2] = bytes + 1)
  BY SMTT(30) DEF Record, Control, Records
<1>2. /\ inbox' \in Seq(Records) /\ Len(inbox') = Len(inbox) + 1 /\ Len(inbox) \in Nat
      /\ \A k \in 1..Len(inbox) : inbox'[k] = inbox[k]
      /\ inbox'[Len(inbox) + 1] = r
  BY <1>1
<1>3. bytes' \in Nat
  OBVIOUS
<1>5. OutInv'
  BY OutQuiet, Zenon
<1>4. ASSUME stream = "open" PROVE \E f : Numbering(f)'
  <2>1. PICK f : Numbering(f)
    BY <1>4
  <2> HIDE DEF OrderInv, Arrive
  <2>g. PICK g : g = [k \in 0..(Len(inbox) + 1) |-> IF k <= Len(inbox) THEN f[k] ELSE bytes']
    BY Zenon
  <2>2. g \in [0..Len(inbox') -> Nat] /\ g[0] = Seen' /\ g[Len(inbox')] = bytes'
    BY <1>2, <1>3, <2>1, <2>g DEF Numbering, Seen, Arrive
  <2>3. \A k \in 1..Len(inbox) : IsData(k)' <=> IsData(k)
    BY <1>2 DEF IsData
  <2>4. g[Len(inbox)] = bytes /\ \A k \in 0..Len(inbox) : g[k] = f[k]
    BY <1>2, <2>1, <2>g DEF Numbering
  <2>5. \A k \in 1..Len(inbox') :
           IF IsData(k)' THEN inbox'[k][2] = g[k] /\ g[k] = g[k - 1] + 1 ELSE g[k] = g[k - 1]
    <3> SUFFICES ASSUME NEW k \in 1..Len(inbox')
                 PROVE  IF IsData(k)' THEN inbox'[k][2] = g[k] /\ g[k] = g[k - 1] + 1
                                      ELSE g[k] = g[k - 1]
      OBVIOUS
    <3>1. CASE k \in 1..Len(inbox)
      BY <1>2, <2>1, <2>3, <2>4, <3>1, SMTT(30) DEF Numbering
    <3>2. CASE k = Len(inbox) + 1
      BY <1>1, <1>2, <1>3, <2>2, <2>4, <3>2 DEF IsData, Arrive
    <3> QED
      BY <1>2, <3>1, <3>2
  <2>6. \A i, j \in 0..Len(inbox') :
           i <= j /\ (\A k \in (i + 1)..j : IsData(k)') => g[j] = g[i] + (j - i)
    <3> SUFFICES ASSUME NEW i \in 0..Len(inbox'), NEW j \in 0..Len(inbox'), i <= j,
                        \A k \in (i + 1)..j : IsData(k)'
                 PROVE  g[j] = g[i] + (j - i)
      OBVIOUS
    <3>1. CASE j <= Len(inbox)
      <4>1. \A k \in (i + 1)..j : IsData(k)
        BY <1>2, <2>3, <3>1
      <4> QED
        BY <1>2, <2>1, <2>4, <3>1, <4>1 DEF Numbering
    <3>2. CASE i = j
      BY <1>2, <2>2, <3>2
    <3>3. CASE j = Len(inbox) + 1 /\ i < j
      <4>1. /\ i \in 0..Len(inbox) /\ Len(inbox) \in 0..Len(inbox) /\ i <= Len(inbox)
            /\ \A k \in (i + 1)..Len(inbox) : IsData(k)
        BY <1>2, <2>3, <3>3
      <4>2. f[Len(inbox)] = f[i] + (Len(inbox) - i) /\ f[i] \in Nat
        BY <2>1, <4>1 DEF Numbering
      <4>3. g[j] = g[Len(inbox)] + 1
        BY <1>2, <2>5, <3>3
      <4>4. g[i] = f[i] /\ g[Len(inbox)] = f[Len(inbox)]
        BY <2>4, <4>1
      <4> QED
        BY <1>2, <3>3, <4>2, <4>3, <4>4
    <3> QED
      BY <1>2, <3>1, <3>2, <3>3
  <2> QED
    BY <2>2, <2>5, <2>6 DEF Numbering
<1> QED
  BY <1>2, <1>3, <1>4, <1>5

\* A position behind the first n of a sequence, counted from there.
LEMMA ShiftBack ==
    ASSUME NEW n \in Nat, NEW len \in Nat, NEW i \in 0..len, NEW j \in 0..len,
           NEW k \in (n + i + 1)..(n + j)
    PROVE  k - n \in (i + 1)..j /\ k - n \in 1..len /\ n + (k - n) = k
OBVIOUS

\* Taking the first n records leaves the others numbered.
LEMMA NumberingShift ==
    ASSUME inbox \in Seq(Records), NEW f, Numbering(f), NEW n \in 0..Len(inbox),
           inbox' = SubSeq(inbox, n + 1, Len(inbox)), bytes' = bytes, f[n] = Seen'
    PROVE  inbox' \in Seq(Records) /\ \E g : Numbering(g)'
<1>1. /\ inbox' \in Seq(Records) /\ Len(inbox') = Len(inbox) - n /\ Len(inbox) \in Nat
      /\ \A k \in 1..Len(inbox') : inbox'[k] = inbox[n + k]
  <2>1. Len(inbox) \in Nat /\ n + 1 \in Int /\ \A i \in (n + 1)..Len(inbox) : inbox[i] \in Records
    OBVIOUS
  <2>2. /\ SubSeq(inbox, n + 1, Len(inbox)) \in Seq(Records)
        /\ Len(SubSeq(inbox, n + 1, Len(inbox))) =
             IF n + 1 <= Len(inbox) THEN Len(inbox) - (n + 1) + 1 ELSE 0
        /\ \A i \in 1..(Len(inbox) - (n + 1) + 1) :
             SubSeq(inbox, n + 1, Len(inbox))[i] = inbox[n + 1 + i - 1]
    BY <2>1, SubSeqProperties
  <2> QED
    BY <2>1, <2>2
<1>2. PICK g : g = [k \in 0..(Len(inbox) - n) |-> f[n + k]]
  BY Zenon
<1>3. /\ g \in [0..Len(inbox') -> Nat]
      /\ \A k \in 0..Len(inbox') : g[k] = f[n + k] /\ n + k \in 0..Len(inbox)
  BY <1>1, <1>2 DEF Numbering
<1>4. g[0] = Seen' /\ g[Len(inbox')] = bytes'
  BY <1>1, <1>3, SMTT(30) DEF Numbering
<1>5. \A k \in 1..Len(inbox') : IsData(k)' <=> IsData(n + k)
  BY <1>1, SMTT(30) DEF IsData
<1>6. ASSUME NEW k \in 1..Len(inbox')
      PROVE  IF IsData(k)' THEN inbox'[k][2] = g[k] /\ g[k] = g[k - 1] + 1 ELSE g[k] = g[k - 1]
  <2>1. /\ n + k \in 1..Len(inbox) /\ inbox'[k] = inbox[n + k]
        /\ g[k] = f[n + k] /\ g[k - 1] = f[n + k - 1]
    <3>1. /\ k \in 0..Len(inbox') /\ k - 1 \in 0..Len(inbox') /\ n + (k - 1) = n + k - 1
          /\ n + k \in 1..Len(inbox)
      BY <1>1, SMTT(30)
    <3>2. g[k - 1] = f[n + (k - 1)] /\ g[k] = f[n + k]
      BY <1>3, <3>1, Zenon
    <3> QED
      BY <1>1, <3>1, <3>2, Zenon
  <2> QED
    BY <1>5, <2>1, SMTT(30) DEF Numbering
<1>7. ASSUME NEW i \in 0..Len(inbox'), NEW j \in 0..Len(inbox'), i <= j,
             \A k \in (i + 1)..j : IsData(k)'
      PROVE  g[j] = g[i] + (j - i)
  <2>1. \A k \in (n + i + 1)..(n + j) : IsData(k)
    <3> SUFFICES ASSUME NEW k \in (n + i + 1)..(n + j) PROVE IsData(k)
      OBVIOUS
    <3>1. k - n \in (i + 1)..j /\ k - n \in 1..Len(inbox') /\ n + (k - n) = k
      <4>1. n \in Nat /\ Len(inbox') \in Nat
        BY <1>1
      <4> QED
        BY <4>1, ShiftBack
    <3> QED
      BY <1>5, <1>7, <3>1
  <2>2. n + i \in 0..Len(inbox) /\ n + j \in 0..Len(inbox) /\ n + i <= n + j
    BY <1>1, <1>7
  <2>3. f[n + j] = f[n + i] + ((n + j) - (n + i))
    BY <2>1, <2>2 DEF Numbering
  <2>4. g[i] = f[n + i] /\ g[j] = f[n + j] /\ g[i] \in Nat
    BY <1>3, Zenon
  <2> QED
    BY <1>1, <2>3, <2>4
<1>8. \A i, j \in 0..Len(inbox') :
        i <= j /\ (\A k \in (i + 1)..j : IsData(k)') => g[j] = g[i] + (j - i)
  BY <1>7
<1>9. Numbering(g)'
  BY <1>3, <1>4, <1>6, <1>8 DEF Numbering
<1> QED
  BY <1>1, <1>9

\* The socket gives the bytes after those that were read.
LEMMA OrderData ==
    ASSUME OrderInv, NEW n \in Nat, ReadData(n)
    PROVE  OrderInv'
<1> USE SizesAssumption
<1>1. /\ bytes \in Nat /\ inbox \in Seq(Records) /\ OutInv
      /\ ~has_drained /\ stream = "open"
  BY DEF OrderInv, ReadData, FromSocket, Polled
<1>2. PICK f : Numbering(f)
  BY <1>1 DEF OrderInv
<1>3. /\ n \in 0..Len(inbox) /\ \A k \in 1..n : IsData(k)
      /\ out' = out \o [k \in 1..n |-> inbox[k][2]]
      /\ inbox' = SubSeq(inbox, n + 1, Len(inbox))
      /\ UNCHANGED <<bytes, has_drained, drain_index, stream>>
  BY <1>1 DEF ReadData, IsData, peerVars
<1>4. /\ out \in Seq(Nat) /\ drain_index \in 0..Drained /\ Ordered(out, drain_index)
      /\ 2 * drain_index >= Drained
  BY <1>1, Zenon DEF OutInv
<1>5. /\ f[0] = Seen /\ Seen \in Nat /\ Len(inbox) \in Nat /\ Len(out) \in Nat
  BY <1>1, <1>2, <1>4 DEF Numbering, Seen, Ordered
<1>6. \A m \in 0..n : f[m] = Seen + m
  <2> SUFFICES ASSUME NEW m \in 0..n PROVE f[m] = Seen + m
    OBVIOUS
  <2>1. 0 \in 0..Len(inbox) /\ m \in 0..Len(inbox) /\ 0 <= m /\ \A k \in (0 + 1)..m : IsData(k)
    BY <1>3, <1>5
  <2>2. f[m] = f[0] + (m - 0)
    BY <1>2, <2>1, Zenon DEF Numbering
  <2> QED
    BY <1>5, <2>2
<1>7. PICK t : t = [k \in 1..n |-> inbox[k][2]]
  BY Zenon
<1>8. t \in Seq(Nat) /\ Len(t) = n /\ \A k \in 1..n : t[k] = Seen + k
  <2>1. \A k \in 1..n : inbox[k][2] = f[k] /\ inbox[k][2] \in Nat
    <3> SUFFICES ASSUME NEW k \in 1..n
                 PROVE  inbox[k][2] = f[k] /\ inbox[k][2] \in Nat
      BY Zenon
    <3>1. k \in 1..Len(inbox) /\ k \in 0..n /\ IsData(k) /\ Seen + k \in Nat
      BY <1>3, <1>5
    <3>2. inbox[k][2] = f[k]
      BY <1>2, <3>1, Zenon DEF Numbering
    <3> QED
      BY <1>6, <3>1, <3>2, Zenon
  <2> QED
    BY <1>5, <1>6, <1>7, <2>1
<1>9. out' \in Seq(Nat) /\ Len(out') = Len(out) + n /\ Ordered(out', drain_index)
  <2>1. \A k \in 1..Len(t) : t[k] = Drained + (Len(out) - drain_index) + k
    BY <1>8, Zenon DEF Seen
  <2>2. /\ out \o t \in Seq(Nat) /\ Len(out \o t) = Len(out) + Len(t)
        /\ Ordered(out \o t, drain_index)
    BY <1>4, <1>8, <2>1, OrderedFromSocket, Zenon
  <2> QED
    BY <1>3, <1>7, <1>8, <2>2, Zenon
<1>10. f[n] = Seen'
  <2>1. Seen' = Drained + ((Len(out) + n) - drain_index)
    BY <1>3, <1>9, Zenon DEF Seen
  <2>2. f[n] = Drained + (Len(out) - drain_index) + n
    BY <1>6 DEF Seen
  <2> QED
    BY <1>4, <1>5, <2>1, <2>2
<1>11. inbox' \in Seq(Records) /\ \E g : Numbering(g)'
  BY <1>1, <1>2, <1>3, <1>10, NumberingShift, Zenon
<1>12. OutInv'
  BY <1>1, <1>3, <1>4, <1>9, Zenon DEF OutInv, Ordered
<1> QED
  BY <1>1, <1>3, <1>11, <1>12, Zenon DEF OrderInv

\* Taking a record without a byte, or a record and the stream's life, leaves
\* the reader where it was.
LEMMA OrderControl ==
    ASSUME OrderInv, inbox # <<>>, inbox' = Tail(inbox),
           UNCHANGED <<out, bytes, has_drained, drain_index>>,
           stream' = "open" => Head(inbox)[1] # "data", stream = "open", stream' # "raw"
    PROVE  OrderInv'
<1>1. inbox \in Seq(Records)
  BY DEF OrderInv
<1>2. inbox' \in Seq(Records) /\ Len(inbox) \in Nat /\ 1 \in 0..Len(inbox) /\ Head(inbox) = inbox[1]
  BY <1>1
<1>3. ASSUME stream' = "open" PROVE \E g : Numbering(g)'
  <2>1. PICK f : Numbering(f)
    BY <1>3 DEF OrderInv
  <2>2. 1 \in 1..Len(inbox) /\ ~IsData(1)
    BY <1>2, <1>3 DEF IsData
  <2>3. f[1] = Seen'
    BY <2>1, <2>2 DEF Numbering, Seen
  <2>4. inbox' = SubSeq(inbox, 1 + 1, Len(inbox))
    BY <1>1, TailIsSubSeq
  <2> QED
    BY <1>1, <1>2, <2>1, <2>3, <2>4, NumberingShift
<1>4. OutInv'
  BY OutQuiet, Zenon DEF OrderInv
<1> QED
  BY <1>2, <1>3, <1>4 DEF OrderInv

\* A read takes the next drained bytes. It takes the rest for used up only if at
\* least half of them were read: its last byte is not before what was left.
LEMMA OrderDrained ==
    ASSUME OrderInv, NEW size \in BufSizes, ReadDrained(size)
    PROVE  OrderInv'
<1> DEFINE left == Drained - drain_index
           len == IF size < left THEN size ELSE left
           e == drain_index + len
<1>1. size \in Nat \ {0} /\ Drained \in Nat
  BY SizesAssumption
<1>2. /\ drain_index \in Nat /\ drain_index < Drained /\ out \in Seq(Nat) /\ stream = "open"
      /\ has_drained /\ Len(out) = drain_index /\ Ordered(out, drain_index)
  <2>1. /\ drain_index \in 0..Drained /\ has_drained /\ stream = "open" /\ stream # "raw"
        /\ drain_index < Drained /\ out \in Seq(Nat)
        /\ Len(out) = drain_index /\ Ordered(out, drain_index)
    BY Zenon DEF OrderInv, OutInv, ReadDrained, Polled
  <2> QED
    BY <1>1, <2>1
<1>3. e \in Nat /\ e \in 0..Drained /\ drain_index <= e
  BY <1>1, <1>2
<1>4. /\ ~UsedUp(e, left) => e < Drained
      /\ UsedUp(e, left) => 2 * e >= Drained
  BY <1>1, <1>2 DEF UsedUp
<1>5. /\ out' = out \o Bytes(drain_index + 1, e) /\ drain_index' = e
      /\ has_drained' = ~UsedUp(e, left)
      /\ UNCHANGED <<bytes, inbox, stream>>
  BY Zenon DEF ReadDrained, peerVars
<1> HIDE DEF left, len, e
<1>6. out' \in Seq(Nat) /\ Len(out') = e /\ Ordered(out', e)
  <2>1. /\ out \o Bytes(drain_index + 1, e) \in Seq(Nat)
        /\ Len(out \o Bytes(drain_index + 1, e)) = e
        /\ Ordered(out \o Bytes(drain_index + 1, e), e)
    BY <1>2, <1>3, OrderedFromDrained, Zenon
  <2> QED
    BY <1>5, <2>1, Zenon
<1>7. has_drained' \in BOOLEAN /\ (has_drained' <=> ~UsedUp(e, left))
  BY <1>5, Zenon
<1>8. OutInv'
  <2>1. stream' # "raw"
    BY <1>2, <1>5
  <2> QED
    BY <1>3, <1>4, <1>5, <1>6, <1>7, <2>1, Zenon DEF OutInv, Ordered
<1>9. Seen' = Seen
  <2>1. Seen' = Drained + (e - e) /\ Seen = Drained + (drain_index - drain_index)
    BY <1>2, <1>5, <1>6, Zenon DEF Seen
  <2> QED
    BY <1>1, <1>2, <1>3, <2>1
<1>10. \A f : Numbering(f) => Numbering(f)'
  BY <1>5, <1>9 DEF Numbering, IsData
<1> QED
  BY <1>2, <1>5, <1>8, <1>10, Zenon DEF OrderInv

\* The raw socket comes with all the drained bytes.
LEMMA OrderRaw == ASSUME OrderInv, IntoRaw PROVE OrderInv'
<1>1. /\ stream = "open" /\ stream' = "raw"
      /\ out' = IF has_drained THEN out \o Bytes(1, Drained) ELSE out
      /\ UNCHANGED <<drain_index, has_drained, inbox, bytes>>
  BY Zenon DEF IntoRaw, peerVars
<1>2. OutInv /\ ReadsInOrder /\ bytes \in Nat /\ inbox \in Seq(Records)
  BY OutIsOrdered, Zenon DEF OrderInv
<1>3. CASE ~has_drained
  <2>1. out' = out
    BY <1>1, <1>3
  <2>2. OutInv'
    BY <1>1, <1>2, <1>3, <2>1, Zenon DEF OutInv, Ordered
  <2> QED
    BY <1>1, <1>2, <2>2 DEF OrderInv
<1>4. CASE has_drained
  <2>1. out = Bytes(1, drain_index)
    <3>1. stream # "raw"
      BY <1>1
    <3> QED
      BY <1>2, <1>4, <3>1, Zenon DEF ReadsInOrder
  <2>2. out' = Bytes(1, drain_index) \o Bytes(1, Drained)
    BY <1>1, <1>4, <2>1, Zenon
  <2>3. out' \in Seq(Nat)
    <3>1. Bytes(1, Drained) \in Seq(Nat)
      BY SizesAssumption, FirstBytes, Zenon
    <3>2. out \in Seq(Nat)
      BY <1>2, Zenon DEF OutInv
    <3> QED
      BY <1>1, <1>4, <3>1, <3>2
  <2>4. OutInv'
    BY <1>1, <1>2, <1>4, <2>2, <2>3, Zenon DEF OutInv, Bytes
  <2> QED
    BY <1>1, <1>2, <2>4 DEF OrderInv
<1> QED
  BY <1>3, <1>4

\* Every step preserves the invariant.
LEMMA OrderStep == OrderInv /\ [Next]_vars => OrderInv'
<1> SUFFICES ASSUME OrderInv, [Next]_vars PROVE OrderInv'
  OBVIOUS
<1> USE DEF vars, closeVars, readVars, peerVars
<1>1. ASSUME NEW r \in Record(bytes + 1), Arrive(r) PROVE OrderInv'
  BY <1>1, OrderArrive
<1>2. CASE \/ ReadClosed \/ ReadPending \/ ReadEnd \/ ReadFails \/ ReadAgain
           \/ PollWrite \/ SpliceWrite \/ ShutdownAgain \/ PeerEnds
  BY <1>2, OrderQuiet, Zenon
     DEF ReadClosed, ReadPending, ReadEnd, ReadFails, ReadAgain, PollWrite, SpliceWrite,
         ShutdownAgain, PeerEnds
<1>3. ASSUME NEW ok \in BOOLEAN, PollShutdown(ok) \/ UNCHANGED vars PROVE OrderInv'
  BY <1>3, OrderQuiet, Zenon DEF PollShutdown
<1>4. CASE Drop \/ HandleEnd \/ (ReadPanics /\ UNCHANGED inbox)
  BY <1>4, OrderQuiet DEF Drop, HandleEnd, ReadPanics, TakeControl, FromSocket, Polled
<1>5. ASSUME NEW size \in BufSizes, NEW n \in 1..size, ReadData(n) PROVE OrderInv'
  <2>1. n \in Nat
    BY SizesAssumption
  <2> QED
    BY <1>5, <2>1, OrderData
<1>6. CASE \/ ReadIgnored \/ HandleIgnored \/ HandlePanics
           \/ ReadPanics /\ TakeControl({"change_cipher_spec"})
  BY <1>6, OrderControl, SMTT(30)
     DEF ReadIgnored, ReadPanics, HandleIgnored, HandlePanics, TakeControl, HandleMsg,
         FromSocket, Polled
<1>7. ASSUME NEW size \in BufSizes, NEW ok \in BOOLEAN,
             ReadAlert(size, ok) \/ ReadWarning(size)
      PROVE  OrderInv'
  <2>1. "data" \notin Closing(size)
    BY DEF Closing
  <2> QED
    BY <1>7, <2>1, OrderControl
       DEF ReadAlert, ReadWarning, TakeControl, FromSocket, Polled
<1>8. ASSUME NEW ok \in BOOLEAN, HandleAlert(ok) PROVE OrderInv'
  BY <1>8, OrderControl DEF HandleAlert, HandleMsg
<1>9. ReadPanics => UNCHANGED inbox \/ TakeControl({"change_cipher_spec"})
  BY Zenon DEF ReadPanics
<1> QED
  BY <1>1, <1>2, <1>3, <1>4, <1>5, <1>6, <1>7, <1>8, <1>9, OrderDrained, OrderRaw, Zenon
     DEF Next, PollRead, Caller

\* For buffers of any size the reader gets the client's bytes in order and none
\* twice, every one the socket holds and at least half of the drained ones; all of
\* these come with the raw socket.
THEOREM ReadsAll == Spec => []ReadsInOrder
<1>1. OrderInv => ReadsInOrder
  BY OutIsOrdered DEF OrderInv
<1> QED
  BY <1>1, OrderInit, OrderStep, PTL DEF Spec

(***************************************************************************)
(* Part 3.  The types, for buffers of any size.  A read of the drained     *)
(* bytes stays within them since has_drained is only kept while some are   *)
(* left, although `drained` is compared with the wrong length.             *)
(***************************************************************************)
\* The records the socket may hold once the client has sent n bytes.
UpTo(n) == (Control \X {0}) \cup ({"data"} \X (1..n))

Flags ==
    /\ read_closed \in BOOLEAN /\ write_closed \in BOOLEAN
    /\ arrived \in 0..MaxRecords /\ ended \in BOOLEAN
    /\ woken \in BOOLEAN
    /\ wire \in Seq({"data", "close_notify"})
    /\ tries \in Nat
    /\ shut \in BOOLEAN
    /\ result \in {"none", "data", "pending", "ignored", "eof", "error"}
    /\ stream \in {"open", "raw", "dropped", "panicked"}

Reading ==
    /\ drain_index \in 0..Drained
    /\ has_drained \in BOOLEAN /\ (has_drained => drain_index < Drained)
    /\ bytes \in Nat /\ Drained <= bytes
    /\ out \in Seq(1..bytes)

Receiving == inbox \in Seq(UpTo(bytes))

\* The invariant states the types.
LEMMA TypesFollow == Flags /\ Reading /\ Receiving => TypeOK
BY Zenon DEF Flags, Reading, Receiving, TypeOK, UpTo

\* The initial state satisfies the invariant.
LEMMA TypesInit == Init => Flags /\ Reading /\ Receiving
<1> SUFFICES ASSUME Init PROVE Flags /\ Reading /\ Receiving
  OBVIOUS
<1> USE SizesAssumption
<1>1. 0 \in 0..MaxRecords /\ 0 \in 0..Drained /\ 0 \in Nat /\ Drained <= Drained
  OBVIOUS
<1>2. \A S : <<>> \in Seq(S)
  OBVIOUS
<1>3. Drained > 0 => 0 < Drained
  OBVIOUS
<1>4. (Drained > 0) \in BOOLEAN
  OBVIOUS
<1>5. Flags
  BY <1>1, <1>2, Zenon DEF Init, Flags
<1>6. Reading
  BY <1>1, <1>2, <1>3, <1>4, Zenon DEF Init, Reading
<1>7. Receiving
  BY <1>2, Zenon DEF Init, Receiving
<1> QED
  BY <1>5, <1>6, <1>7

\* The flags, the wire and the counters keep their types.
LEMMA FlagsStep == Flags /\ [Next]_vars => Flags'
<1> SUFFICES ASSUME Flags, [Next]_vars PROVE Flags'
  OBVIOUS
<1> USE DEF closeVars, readVars, peerVars
<1>1. ASSUME NEW r, Arrive(r) PROVE Flags'
  <2>1. arrived' \in 0..MaxRecords
    BY <1>1, SizesAssumption DEF Arrive, Flags
  <2>2. woken' \in BOOLEAN
    BY <1>1, Zenon DEF Arrive, Flags
  <2> QED
    BY <1>1, <2>1, <2>2, Zenon DEF Arrive, Flags
<1>2. CASE ReadClosed \/ ReadPending \/ ReadIgnored \/ ReadPanics \/ ReadAgain
  BY <1>2, Zenon
     DEF ReadClosed, ReadPending, ReadIgnored, ReadPanics, ReadAgain, TakeControl, Flags
<1>0. CASE ReadEnd \/ ReadFails \/ HandleEnd \/ PeerEnds
  <2>1. woken' \in BOOLEAN
    BY <1>0, Zenon DEF ReadEnd, ReadFails, HandleEnd, PeerEnds, Flags
  <2> QED
    BY <1>0, <2>1, Zenon DEF ReadEnd, ReadFails, HandleEnd, PeerEnds, Flags
<1>3. ASSUME NEW size, NEW n, ReadDrained(size) \/ ReadData(n) \/ ReadWarning(size) PROVE Flags'
  BY <1>3, Zenon DEF ReadDrained, ReadData, ReadWarning, TakeControl, Flags
<1>4. ASSUME NEW ok \in BOOLEAN, SendCloseNotify(ok)
      PROVE  wire' \in Seq({"data", "close_notify"}) /\ tries' \in Nat
  <2>1. Append(wire, "close_notify") \in Seq({"data", "close_notify"}) /\ tries + 1 \in Nat
    BY DEF Flags
  <2> QED
    BY <1>4, <2>1, Zenon DEF Flags, SendCloseNotify
<1>5. ASSUME NEW size, NEW ok \in BOOLEAN, ReadAlert(size, ok) PROVE Flags'
  BY <1>4, <1>5, Zenon DEF ReadAlert, Flags
<1>6. ASSUME NEW ok \in BOOLEAN, PollShutdown(ok) PROVE Flags'
  <2>1. shut' \in BOOLEAN
    BY <1>6, Zenon DEF PollShutdown
  <2> QED
    BY <1>4, <1>6, <2>1, Zenon DEF PollShutdown, Flags
<1>7. ASSUME NEW ok \in BOOLEAN, HandleAlert(ok) PROVE Flags'
  BY <1>4, <1>7, Zenon DEF HandleAlert, HandleMsg, Flags
<1>8. CASE PollWrite \/ SpliceWrite
  <2>1. Append(wire, "data") \in Seq({"data", "close_notify"})
    BY DEF Flags
  <2>2. wire' \in Seq({"data", "close_notify"})
    BY <1>8, <2>1, Zenon DEF PollWrite, SpliceWrite, Flags
  <2> QED
    BY <1>8, <2>2, Zenon DEF PollWrite, SpliceWrite, Flags
<1>9. CASE ShutdownAgain \/ HandleIgnored \/ HandlePanics \/ IntoRaw \/ Drop
  BY <1>9, Zenon DEF ShutdownAgain, HandleIgnored, HandlePanics, HandleMsg, IntoRaw, Drop, Flags
<1>10. CASE UNCHANGED vars
  BY <1>10, Zenon DEF vars, Flags
<1> QED
  BY <1>0, <1>1, <1>2, <1>3, <1>5, <1>6, <1>7, <1>8, <1>9, <1>10, Zenon DEF Next, PollRead, Caller

\* A range of the client's bytes, appended to what the reader has.
LEMMA BytesAppend ==
    ASSUME NEW n \in Nat, NEW s \in Seq(1..n), NEW i \in Nat \ {0}, NEW j \in Nat, j <= n
    PROVE  s \o Bytes(i, j) \in Seq(1..n)
<1>1. Bytes(i, j) \in Seq(1..n)
  <2>1. CASE i <= j
    <3>1. j - i + 1 \in Nat /\ \A k \in 1..(j - i + 1) : i + k - 1 \in 1..n
      BY <2>1
    <3> QED
      BY <3>1 DEF Bytes
  <2>2. CASE i > j
    <3>1. 1..(j - i + 1) = 1..0
      BY <2>2
    <3> QED
      BY <3>1 DEF Bytes
  <2> QED
    BY <2>1, <2>2
<1> QED
  BY <1>1

\* The sequences over a set are sequences over a larger one.
LEMMA SequencesGrow ==
    ASSUME NEW S, NEW T, S \subseteq T, NEW s \in Seq(S)
    PROVE  s \in Seq(T)
OBVIOUS

\* What the socket may hold grows with the bytes sent.
LEMMA RecordsGrow ==
    ASSUME NEW n \in Nat
    PROVE  UpTo(n) \subseteq UpTo(n + 1) /\ Record(n + 1) \subseteq UpTo(n + 1)
BY DEF UpTo, Record

\* The number of a data record is that of a byte.
LEMMA RecordNumber ==
    ASSUME NEW n \in Nat, NEW r \in UpTo(n), r[1] = "data"
    PROVE  r[2] \in 1..n
BY DEF UpTo, Control

\* What arrives is a record of the next byte.
LEMMA ReadingArrives ==
    ASSUME Reading, Receiving, NEW r \in Record(bytes + 1), Arrive(r)
    PROVE  Reading' /\ Receiving'
<1>1. PICK n \in Nat : n = bytes
  BY Zenon DEF Reading
<1>2. UpTo(n) \subseteq UpTo(n + 1) /\ Record(n + 1) \subseteq UpTo(n + 1)
  BY RecordsGrow, Zenon
<1>3. CASE r[1] = "data"
  <2>1. bytes' = n + 1 /\ inbox' = Append(inbox, r)
    BY <1>1, <1>3, Zenon DEF Arrive
  <2>2. n + 1 \in Nat /\ Drained <= n + 1 /\ (1..n) \subseteq 1..(n + 1)
    BY <1>1, SizesAssumption DEF Reading
  <2>3. out \in Seq(1..(n + 1))
    <3>1. out \in Seq(1..n)
      BY <1>1, Zenon DEF Reading
    <3> QED
      BY <2>2, <3>1, SequencesGrow, Zenon
  <2>4. Reading'
    BY <2>1, <2>2, <2>3, Zenon DEF Reading, Arrive
  <2>5. inbox \in Seq(UpTo(n + 1)) /\ r \in UpTo(n + 1)
    BY <1>1, <1>2, SequencesGrow, Zenon DEF Receiving
  <2>6. Append(inbox, r) \in Seq(UpTo(n + 1))
    BY <2>5
  <2> QED
    BY <2>1, <2>4, <2>6, Zenon DEF Receiving
<1>4. CASE r[1] # "data"
  <2>1. bytes' = bytes /\ inbox' = Append(inbox, r)
    BY <1>4, Zenon DEF Arrive
  <2>2. Reading'
    BY <2>1, Zenon DEF Reading, Arrive
  <2>3. r \in UpTo(bytes)
    <3>1. r \in {"data"} \X {bytes + 1} => r[1] = "data"
      OBVIOUS
    <3>2. r \in Control \X {0}
      BY <1>4, <3>1, Zenon DEF Record
    <3> QED
      BY <3>2 DEF UpTo
  <2>4. Append(inbox, r) \in Seq(UpTo(bytes))
    BY <2>3 DEF Receiving
  <2> QED
    BY <2>1, <2>2, <2>4, Zenon DEF Receiving
<1> QED
  BY <1>3, <1>4

\* A read of the drained bytes takes no more than there are.
LEMMA ReadingDrained ==
    ASSUME Reading, NEW size \in BufSizes, ReadDrained(size)
    PROVE  Reading'
<1> DEFINE left == Drained - drain_index
           len == IF size < left THEN size ELSE left
<1>1. size \in Nat \ {0} /\ Drained \in Nat
  BY SizesAssumption
<1>2. drain_index \in Nat /\ drain_index < Drained /\ bytes \in Nat /\ Drained <= bytes
  BY <1>1 DEF Reading, ReadDrained
<1>3. len \in Nat \ {0} /\ drain_index + len \in 0..Drained
  BY <1>1, <1>2
<1>4. drain_index + 1 \in Nat \ {0} /\ drain_index + len \in Nat /\ drain_index + len <= bytes
  BY <1>1, <1>2, <1>3
<1>5. ~UsedUp(drain_index + len, left) => drain_index + len < Drained
  BY <1>1, <1>2, <1>3 DEF UsedUp
<1>6. /\ out' = out \o Bytes(drain_index + 1, drain_index + len)
      /\ drain_index' = drain_index + len
      /\ has_drained' = ~UsedUp(drain_index + len, left)
      /\ bytes' = bytes
  BY Zenon DEF ReadDrained, peerVars
<1> HIDE DEF len, left
<1>7. out' \in Seq(1..bytes)
  BY <1>2, <1>4, <1>6, BytesAppend, Zenon DEF Reading
<1>8. has_drained' \in BOOLEAN
  BY <1>6, Zenon
<1> QED
  BY <1>2, <1>3, <1>5, <1>6, <1>7, <1>8, Zenon DEF Reading

\* A read of the socket takes data records.
LEMMA ReadingData ==
    ASSUME Reading, Receiving, NEW n \in Nat, ReadData(n)
    PROVE  Reading' /\ Receiving'
<1>1. /\ n <= Len(inbox) /\ \A k \in 1..n : inbox[k][1] = "data"
      /\ out' = out \o [k \in 1..n |-> inbox[k][2]]
      /\ inbox' = SubSeq(inbox, n + 1, Len(inbox))
      /\ drain_index' = drain_index /\ has_drained' = has_drained /\ bytes' = bytes
  BY Zenon DEF ReadData, peerVars
<1>2. inbox \in Seq(UpTo(bytes)) /\ bytes \in Nat /\ out \in Seq(1..bytes)
  BY Zenon DEF Reading, Receiving
<1>3. \A k \in 1..n : inbox[k] \in UpTo(bytes)
  BY <1>1, <1>2
<1>4. \A k \in 1..n : inbox[k][2] \in 1..bytes
  BY <1>1, <1>2, <1>3, RecordNumber, Zenon
<1> DEFINE number(k) == inbox[k][2]
<1>5. [k \in 1..n |-> number(k)] \in Seq(1..bytes)
  <2>1. \A k \in 1..n : number(k) \in 1..bytes
    BY <1>4, Zenon
  <2> HIDE DEF number
  <2> QED
    BY <2>1
<1>6. out' \in Seq(1..bytes)
  BY <1>1, <1>2, <1>5
<1>7. inbox' \in Seq(UpTo(bytes))
  <2>1. n + 1 \in Int /\ Len(inbox) \in Int /\ \A k \in (n + 1)..Len(inbox) : inbox[k] \in UpTo(bytes)
    BY <1>2
  <2> QED
    BY <1>1, <2>1, SubSeqProperties, Zenon
<1> QED
  BY <1>1, <1>6, <1>7, Zenon DEF Reading, Receiving

\* Every other step takes at most a record, or gives the drained bytes back.
LEMMA ReadingStep == Reading /\ Receiving /\ [Next]_vars => Reading' /\ Receiving'
<1> SUFFICES ASSUME Reading, Receiving, [Next]_vars PROVE Reading' /\ Receiving'
  OBVIOUS
<1> USE DEF closeVars, readVars, peerVars
<1>1. ASSUME UNCHANGED <<drain_index, has_drained, bytes, out>> PROVE Reading'
  BY <1>1, Zenon DEF Reading
<1>2. ASSUME inbox # <<>>, inbox' = Tail(inbox), bytes' = bytes PROVE Receiving'
  <2>1. Tail(inbox) \in Seq(UpTo(bytes))
    BY <1>2 DEF Receiving
  <2> QED
    BY <1>2, <2>1, Zenon DEF Receiving
<1>3. ASSUME inbox' = inbox, bytes' = bytes PROVE Receiving'
  BY <1>3, Zenon DEF Receiving
<1>4. ASSUME NEW size \in BufSizes, ReadDrained(size) PROVE Reading' /\ Receiving'
  BY <1>3, <1>4, ReadingDrained, Zenon DEF ReadDrained
<1>5. ASSUME NEW size \in BufSizes, NEW n \in 1..size, ReadData(n) PROVE Reading' /\ Receiving'
  <2>1. n \in Nat
    BY SizesAssumption
  <2> QED
    BY <1>5, <2>1, ReadingData, Zenon
<1>6. ASSUME NEW size, NEW ok, ReadAlert(size, ok) \/ ReadWarning(size)
      PROVE  Reading' /\ Receiving'
  BY <1>1, <1>2, <1>6, Zenon DEF ReadAlert, ReadWarning, TakeControl
<1>7. CASE ReadIgnored \/ ReadPanics
  BY <1>1, <1>2, <1>3, <1>7, Zenon DEF ReadIgnored, ReadPanics, TakeControl
<1>8. ASSUME NEW ok, HandleAlert(ok) \/ HandleIgnored \/ HandlePanics
      PROVE  Reading' /\ Receiving'
  BY <1>1, <1>2, <1>8, Zenon DEF HandleAlert, HandleIgnored, HandlePanics, HandleMsg
<1>0. CASE ReadEnd \/ ReadFails \/ HandleEnd \/ PeerEnds
  BY <1>0, <1>1, <1>3, Zenon DEF ReadEnd, ReadFails, HandleEnd, PeerEnds
<1>9. ASSUME NEW ok, ReadClosed \/ ReadPending \/ ReadAgain \/ PollShutdown(ok)
      PROVE  Reading' /\ Receiving'
  BY <1>1, <1>3, <1>9, Zenon DEF ReadClosed, ReadPending, ReadAgain, PollShutdown
<1>10. CASE PollWrite \/ SpliceWrite \/ ShutdownAgain \/ Drop \/ UNCHANGED vars
  BY <1>1, <1>3, <1>10, Zenon DEF PollWrite, SpliceWrite, ShutdownAgain, Drop, vars
<1>11. CASE IntoRaw
  <2>1. bytes \in Nat /\ Drained \in Nat /\ Drained <= bytes /\ 1 \in Nat \ {0}
    BY SizesAssumption DEF Reading
  <2>2. out \o Bytes(1, Drained) \in Seq(1..bytes)
    BY <2>1, BytesAppend, Zenon DEF Reading
  <2>3. out' \in Seq(1..bytes)
    BY <1>11, <2>2, Zenon DEF IntoRaw, Reading
  <2> QED
    BY <1>3, <1>11, <2>3, Zenon DEF IntoRaw, Reading
<1> QED
  BY <1>0, <1>4, <1>5, <1>6, <1>7, <1>8, <1>9, <1>10, <1>11, ReadingArrives, Zenon DEF Next, PollRead, Caller

\* Every variable of a KtlsStream has its type: no read goes past the drained
\* bytes, and every byte given to the reader is one the client sent, for
\* buffers of any size, those the drained bytes do not fit in included.
THEOREM StreamTypes == Spec => []TypeOK
BY TypesInit, TypesFollow, FlagsStep, ReadingStep, PTL DEF Spec

(***************************************************************************)
(* Part 4.  The wake-ups.  What ArrivedIsRead rests on: it is inductive,   *)
(* since a record that arrives wakes a reader that got Pending, and only   *)
(* a read that found the socket empty lets the reader sleep on it.         *)
(***************************************************************************)
\* A step that does not let the reader sleep, nor leaves a record behind.
LEMMA WakeupKept ==
    ASSUME NoLostWakeup, UNCHANGED <<result, woken, inbox, ended>>, stream' = "open" => stream = "open"
    PROVE  NoLostWakeup'
BY Zenon DEF NoLostWakeup

\* Every step keeps a sleeping reader from missing a record.
LEMMA WakeupStep == NoLostWakeup /\ [Next]_vars => NoLostWakeup'
<1> SUFFICES ASSUME NoLostWakeup, [Next]_vars PROVE NoLostWakeup'
  OBVIOUS
<1> USE DEF closeVars, readVars, peerVars
<1>1. ASSUME NEW r, Arrive(r) \/ PeerEnds PROVE NoLostWakeup'
  <2>1. CASE woken \/ result = "pending"
    <3>1. woken'
      BY <1>1, <2>1, Zenon DEF Arrive, PeerEnds
    <3> QED
      BY <3>1, Zenon DEF NoLostWakeup
  <2>2. CASE ~woken /\ result # "pending"
    BY <1>1, <2>2, Zenon DEF Arrive, PeerEnds, NoLostWakeup
  <2> QED
    BY <2>1, <2>2, Zenon
<1>2. CASE ReadClosed \/ ReadPending \/ ReadEnd \/ ReadFails \/ ReadAgain
  BY <1>2, Zenon DEF ReadClosed, ReadPending, ReadEnd, ReadFails, ReadAgain, NoLostWakeup
<1>3. ASSUME NEW size, NEW n, NEW ok,
             ReadDrained(size) \/ ReadData(n) \/ ReadWarning(size) \/ ReadAlert(size, ok)
      PROVE  NoLostWakeup'
  <2>1. CASE ReadDrained(size) \/ ReadData(n)
    <3>1. woken /\ woken' = woken
      BY <2>1, Zenon DEF ReadDrained, ReadData, FromSocket, Polled
    <3> QED
      BY <3>1, Zenon DEF NoLostWakeup
  <2>2. CASE ReadWarning(size) \/ ReadAlert(size, ok)
    <3>1. result' \in {"eof", "error"}
      BY <2>2, Zenon DEF ReadWarning, ReadAlert
    <3> QED
      BY <3>1, Zenon DEF NoLostWakeup
  <2> QED
    BY <1>3, <2>1, <2>2
<1>4. CASE ReadIgnored \/ ReadPanics
  BY <1>4, Zenon DEF ReadIgnored, ReadPanics, TakeControl, FromSocket, Polled, NoLostWakeup
<1>5. ASSUME NEW ok, HandleAlert(ok) \/ HandleIgnored \/ HandlePanics PROVE NoLostWakeup'
  BY <1>5, Zenon DEF HandleAlert, HandleIgnored, HandlePanics, HandleMsg, NoLostWakeup
<1>6. ASSUME NEW ok, PollWrite \/ SpliceWrite \/ PollShutdown(ok) \/ ShutdownAgain
      PROVE  NoLostWakeup'
  BY <1>6, WakeupKept, Zenon DEF PollWrite, SpliceWrite, PollShutdown, ShutdownAgain
<1>7. CASE IntoRaw \/ Drop \/ HandleEnd \/ UNCHANGED vars
  BY <1>7, WakeupKept, Zenon DEF IntoRaw, Drop, HandleEnd, vars
<1> QED
  BY <1>1, <1>2, <1>3, <1>4, <1>5, <1>6, <1>7, Zenon DEF Next, PollRead, Caller

\* No wake-up is lost, whichever records arrive between the polls and whatever
\* handle_msg takes in between.
THEOREM WakeupsKept == Spec => []NoLostWakeup
<1>1. Init => NoLostWakeup
  BY Zenon DEF Init, NoLostWakeup
<1> QED
  BY <1>1, WakeupStep, PTL DEF Spec
=============================================================================
