--------------------------- MODULE TransferProofs ---------------------------
(***************************************************************************)
(* Each direction of a spliced connection implements a first-in, first-out *)
(* channel, for all capacities, budgets and addresses.  The invariant says *)
(* where the end of a stream may be: last in what was received, and alone  *)
(* there once it was forwarded.                                            *)
(***************************************************************************)
EXTENDS Transfer, SequenceTheorems, TLAPS

Received == Data \cup {"control", End}

\* The end of a stream is the last of what a socket receives, and once it was
\* forwarded all that is left there. A backend sends no TLS records.
EndsLast(s) ==
    /\ \A i \in 1..Len(inbox[s]) : inbox[s][i] = End => i = Len(inbox[s]) /\ fin[s]
    /\ shut[Other(s)] /\ pc # "ended" => inbox[s] = <<End>>
    /\ pc = "ended" => inbox[s] = <<>>

OrderInv ==
    /\ inbox \in [Side -> Seq(Received)] /\ outbox \in [Side -> Seq(Received)]
    /\ fin \in [Side -> BOOLEAN] /\ shut \in [Side -> BOOLEAN] /\ next \in [Side -> Data]
    /\ mode # "sockmap" => sockmap = <<>> /\ pc # "insert"
    /\ \A s \in Side : EndsLast(s)

\* The sides are each other's other.
LEMMA Sides ==
    /\ Other("client") = "backend" /\ Other("backend") = "client"
    /\ \A s \in Side : Other(s) \in Side /\ Other(s) # s /\ Other(Other(s)) = s
<1>1. \A s, t \in Side : t # s => Other(s) = t
  BY DEF Other, Side
<1> QED
  BY <1>1 DEF Side

\* Nothing is under way at first.
LEMMA OrderInit == Init => OrderInv
  BY Sides DEF Init, OrderInv, EndsLast, Side, Data

\* What a connection that closes leaves behind.
LEMMA OrderClose ==
    ASSUME OrderInv, Close PROVE OrderInv'
  BY Sides DEF OrderInv, EndsLast, Close, fixedVars, mapVars, peerVars

\* A step that leaves the data alone and does not end the connection.
LEMMA OrderQuiet ==
    ASSUME OrderInv, UNCHANGED <<mode, peerVars, dataVars>>, pc # "ended", pc' # "ended",
           mode # "sockmap" => sockmap' = sockmap /\ pc' # "insert"
    PROVE  OrderInv'
<1>1. mode' = mode /\ inbox' = inbox /\ outbox' = outbox /\ shut' = shut /\ next' = next /\ fin' = fin
  BY Zenon DEF peerVars, dataVars
<1>2. ASSUME NEW s \in Side, pc # "ended" PROVE EndsLast(s)'
  BY <1>1, <1>2 DEF OrderInv, EndsLast
<1> QED
  BY <1>1, <1>2, Zenon DEF OrderInv

\* Outside the sockmap no packet is redirected.
LEMMA NoVerdict ==
    ASSUME OrderInv, mode # "sockmap", NEW s \in Side PROVE StreamVerdict(s) = {}
<1>1. Range(sockmap) = {}
  BY DEF OrderInv, Range
<1> QED
  BY <1>1 DEF StreamVerdict

\* A socket receives an item, or the end of its peer's stream.
LEMMA OrderArrive ==
    ASSUME OrderInv, pc # "ended", NEW s \in Side, ~fin[s],
           NEW m \in Received, Arrive(s, m), m = End => fin'[s],
           \A t \in Side : t # s => fin'[t] = fin[t],
           fin' \in [Side -> BOOLEAN], next' \in [Side -> Data],
           UNCHANGED <<mode, sockmap, shut, pc>>
    PROVE  OrderInv'
<1> USE Sides DEF OrderInv
<1>1. /\ inbox' = [inbox EXCEPT ![s] = Append(@, m)] /\ UNCHANGED outbox
      /\ inbox' \in [Side -> Seq(Received)]
  BY DEF Arrive
<1>2. ASSUME NEW t \in Side PROVE EndsLast(t)'
  <2>1. CASE t # s
    BY <1>1, <2>1 DEF EndsLast
  <2>2. CASE t = s
    <3>1. inbox[s] \in Seq(Received) /\ EndsLast(s)
      OBVIOUS
    <3>2. \A i \in 1..Len(inbox[s]) : inbox[s][i] # End
      BY <3>1 DEF EndsLast
    <3>3. ~shut[Other(s)]
      <4>1. <<End>>[1] = End /\ Len(<<End>>) = 1
        OBVIOUS
      <4>2. ASSUME shut[Other(s)] PROVE FALSE
        <5>1. inbox[s] = <<End>>
          BY <3>1, <4>2 DEF EndsLast
        <5> QED
          BY <3>2, <4>1, <5>1
      <4> QED
        BY <4>2
    <3>4. /\ inbox'[s] = Append(inbox[s], m)
          /\ Len(inbox'[s]) = Len(inbox[s]) + 1
          /\ \A i \in 1..Len(inbox[s]) : inbox'[s][i] = inbox[s][i]
          /\ inbox'[s][Len(inbox[s]) + 1] = m
      BY <1>1, <3>1
    <3> QED
      BY <2>2, <3>1, <3>2, <3>3, <3>4 DEF EndsLast
  <2> QED
    BY <2>1, <2>2
<1> QED
  BY <1>1, <1>2

\* An item is copied from a socket that has something else than the end in front.
LEMMA OrderCopy ==
    ASSUME OrderInv, NEW s \in Side, CopyItem(s)
    PROVE  OrderInv'
<1> USE Sides DEF OrderInv
<1>1. /\ pc = "copy" /\ pc' = pc /\ inbox[s] # <<>> /\ Head(inbox[s]) \in Data
      /\ inbox' = [inbox EXCEPT ![s] = Tail(@)]
      /\ outbox' = [outbox EXCEPT ![Other(s)] = Append(@, Head(inbox[s]))]
      /\ UNCHANGED <<mode, sockmap, next, fin, shut>>
  BY DEF CopyItem, Copying, Ready, fixedVars, mapVars, peerVars
<1>2. inbox'[s] = Tail(inbox[s]) /\ inbox[s] \in Seq(Received) /\ Head(inbox[s]) # End
  BY <1>1 DEF Data, End
<1>3. inbox' \in [Side -> Seq(Received)] /\ outbox' \in [Side -> Seq(Received)]
  BY <1>1, <1>2 DEF Received
<1>4. ASSUME NEW t \in Side PROVE EndsLast(t)'
  <2>1. CASE t # s
    BY <1>1, <2>1 DEF EndsLast
  <2>2. CASE t = s
    <3>1. ~shut[Other(s)]
      BY <1>1, <1>2 DEF EndsLast
    <3>2. /\ Len(inbox'[s]) = Len(inbox[s]) - 1
          /\ \A i \in 1..Len(inbox'[s]) : inbox'[s][i] = inbox[s][i + 1] /\ i + 1 \in 1..Len(inbox[s])
      BY <1>1, <1>2
    <3>3. EndsLast(s)
      OBVIOUS
    <3>4. \A i \in 1..Len(inbox'[s]) : inbox'[s][i] = End => i = Len(inbox'[s]) /\ fin[s]
      <4> HIDE DEF OrderInv
      <4> QED
        BY <1>2, <3>2, <3>3 DEF EndsLast
    <3> QED
      BY <1>1, <2>2, <3>1, <3>4, Zenon DEF EndsLast
  <2> QED
    BY <2>1, <2>2
<1> QED
  BY <1>1, <1>3, <1>4

\* The end of a stream is forwarded when nothing is left before it.
LEMMA EndIsAlone ==
    ASSUME OrderInv, NEW s \in Side, inbox[s] # <<>>, Head(inbox[s]) = End
    PROVE  inbox[s] = <<End>> /\ fin[s]
<1>1. inbox[s] \in Seq(Received) /\ EndsLast(s) /\ Len(inbox[s]) > 0 /\ inbox[s][1] = End
  BY DEF OrderInv
<1>2. Len(inbox[s]) = 1 /\ fin[s]
  <2>1. 1 \in 1..Len(inbox[s])
    BY <1>1
  <2> QED
    BY <1>1, <2>1, Zenon DEF EndsLast
<1>3. <<End>> \in Seq(Received) /\ Len(<<End>>) = 1 /\ <<End>>[1] = End
  BY DEF Received
<1>4. \A i \in 1..Len(inbox[s]) : inbox[s][i] = <<End>>[i]
  BY <1>1, <1>2, <1>3
<1>5. Len(inbox[s]) = Len(<<End>>)
  BY <1>2, <1>3
<1>6. inbox[s] = <<End>>
  BY <1>1, <1>3, <1>4, <1>5, SeqEqual, Zenon
<1> QED
  BY <1>2, <1>6

\* A direction shuts its target down.
LEMMA OrderEnd ==
    ASSUME OrderInv, NEW s \in Side, CopyEnd(s)
    PROVE  OrderInv'
<1> USE Sides DEF OrderInv
<1>1. /\ pc = "copy" /\ pc' = pc /\ inbox[s] = <<End>>
      /\ shut' = [shut EXCEPT ![Other(s)] = TRUE]
      /\ UNCHANGED <<mode, sockmap, next, fin, inbox>>
  BY EndIsAlone DEF CopyEnd, Copying, Ready, fixedVars, mapVars, peerVars
<1>2. outbox' \in [Side -> Seq(Received)] /\ shut' \in [Side -> BOOLEAN]
  BY <1>1 DEF CopyEnd, PollShutdown, Received
<1>3. ASSUME NEW t \in Side PROVE EndsLast(t)'
  BY <1>1 DEF EndsLast
<1> QED
  BY <1>1, <1>2, <1>3

\* The way of transfer is fixed.
LEMMA SameMode == [Next]_vars => mode' = mode
  BY Zenon DEF Next, Task, Peers, Insert, CopyItem, CopyEnd, InsertFails, CopyControl, CopyFails,
         CopyDone, CopyPending, Timer, Wake, Close, ClientControl, PeerSends, PeerEnds,
         PeerReads, Elapse, vars, fixedVars

\* Every step keeps the ends last.
LEMMA OrderStep == OrderInv /\ [Next]_vars => OrderInv'
<1> SUFFICES ASSUME OrderInv, [Next]_vars PROVE OrderInv'
  OBVIOUS
<1>1. ASSUME NEW s \in Side, CopyItem(s) \/ CopyEnd(s) PROVE OrderInv'
  BY <1>1, OrderCopy, OrderEnd
<1>2. CASE InsertFails \/ CopyControl \/ CopyFails
  BY <1>2, OrderClose DEF InsertFails, CopyControl, CopyFails
<1>3. CASE CopyDone \/ CopyPending \/ Timer \/ Wake \/ Elapse
  BY <1>3, OrderClose, OrderQuiet
     DEF OrderInv, CopyDone, CopyPending, Timer, Wake, Elapse, taskVars, fixedVars, mapVars
<1>4. ASSUME NEW s \in Side, PeerSends(s) PROVE OrderInv'
  <2>1. next[s] \in Data /\ next' \in [Side -> Data] /\ next[s] # End
    BY <1>4 DEF OrderInv, PeerSends, Flip, Data, End
  <2>2. pc # "ended" /\ ~fin[s] /\ UNCHANGED <<mode, sockmap, pc, fin, shut>>
    BY <1>4, Zenon DEF PeerSends, taskVars, fixedVars, mapVars
  <2>3. CASE Arrive(s, next[s])
    BY <2>1, <2>2, <2>3, OrderArrive, Zenon DEF OrderInv, Received
  <2>4. ASSUME NEW t, Redirect(t, next[s]) PROVE OrderInv'
    <3>1. inbox' = inbox /\ outbox' = [outbox EXCEPT ![t] = Append(@, next[s])]
      BY <2>4 DEF Redirect
    <3>2. outbox' \in [Side -> Seq(Received)]
      <4>1. outbox \in [Side -> Seq(Received)] /\ next[s] \in Received
        BY <2>1 DEF OrderInv, Received
      <4>2. CASE t \in Side
        BY <3>1, <4>1, <4>2
      <4>3. CASE t \notin Side
        BY <3>1, <4>1, <4>3, Zenon
      <4> QED
        BY <4>2, <4>3
    <3>3. \A r \in Side : EndsLast(r)'
      BY <2>2, <3>1 DEF OrderInv, EndsLast
    <3> QED
      BY <2>1, <2>2, <3>1, <3>2, <3>3, Zenon DEF OrderInv
  <2> QED
    BY <1>4, <2>3, <2>4 DEF PeerSends
<1>5. ASSUME NEW s \in Side, PeerEnds(s) PROVE OrderInv'
  BY <1>5, OrderArrive, Zenon DEF PeerEnds, OrderInv, Received, taskVars, fixedVars, mapVars
<1>6. CASE ClientControl
  BY <1>6, OrderArrive
     DEF ClientControl, OrderInv, Received, Side, End, taskVars, fixedVars, mapVars, peerVars
<1>7. ASSUME NEW s \in Side, PeerReads(s) PROVE OrderInv'
  BY <1>7 DEF PeerReads, OrderInv, EndsLast, taskVars, fixedVars, mapVars, peerVars
<1>8. CASE UNCHANGED vars
  BY <1>8 DEF OrderInv, EndsLast, vars, taskVars, fixedVars, mapVars, peerVars, dataVars
<1>9. ASSUME NEW s \in Side, Insert(s) PROVE OrderInv'
  BY <1>9, OrderQuiet DEF Insert, OrderInv, fixedVars
<1> QED
  BY <1>1, <1>2, <1>3, <1>4, <1>5, <1>6, <1>7, <1>8, <1>9 DEF Next, Task, Peers

\* What one step does to one direction.
Sends(s, m) ==
    /\ pc # "ended" /\ pc' # "ended" /\ ~fin[s]
    /\ UnderWay(s)' = Append(UnderWay(s), m)
    /\ fin'[s] = (m = End)

Receives(s) ==
    /\ pc = "ended" <=> pc' = "ended"
    /\ UnderWay(s) # <<>> /\ UnderWay(s)' = Tail(UnderWay(s))
    /\ fin'[s] = fin[s]

Breaks(s) ==
    /\ pc # "ended" /\ pc' = "ended"
    /\ \E k \in 0..Len(UnderWay(s)) : UnderWay(s)' = SubSeq(UnderWay(s), 1, k)
    /\ fin'[s] = fin[s]

Rests(s) ==
    /\ pc = "ended" <=> pc' = "ended"
    /\ UnderWay(s)' = UnderWay(s)
    /\ fin'[s] = fin[s]

ItemOf(s) == IF s = "client" THEN Data \cup {"control"} ELSE Data

Forwards(s) ==
    \/ \E m \in ItemOf(s) \cup {End} : Sends(s, m)
    \/ Receives(s) \/ Breaks(s) \/ Rests(s)

\* Appending to the second of two sequences appends to both.
LEMMA AppendLast ==
    ASSUME NEW S, NEW q \in Seq(S), NEW r \in Seq(S), NEW m \in S
    PROVE  q \o Append(r, m) = Append(q \o r, m)
<1> DEFINE a == q \o Append(r, m)
           b == Append(q \o r, m)
<1>1. a \in Seq(S) /\ b \in Seq(S) /\ Len(a) = Len(q) + Len(r) + 1 /\ Len(b) = Len(a)
  OBVIOUS
<1>2. ASSUME NEW i \in 1..Len(a) PROVE a[i] = b[i]
  <2>1. CASE i <= Len(q)
    BY <1>1, <1>2, <2>1
  <2>2. CASE i > Len(q) /\ i < Len(a)
    BY <1>1, <1>2, <2>2
  <2>3. CASE i = Len(a)
    BY <1>1, <1>2, <2>3
  <2> QED
    BY <1>1, <1>2, <2>1, <2>2, <2>3
<1> QED
  BY <1>1, <1>2, SeqEqual, Zenon

\* What was received follows what is being sent on.
LEMMA ForwardArrive ==
    ASSUME OrderInv, pc # "ended", NEW s \in Side, ~fin[s],
           NEW m \in Received, Arrive(s, m), UNCHANGED shut
    PROVE  UnderWay(s)' = Append(UnderWay(s), m)
<1>1. inbox[s] \in Seq(Received) /\ outbox[Other(s)] \in Seq(Received)
  BY Sides DEF OrderInv
<1>2. inbox'[s] = Append(inbox[s], m) /\ outbox' = outbox
  BY DEF Arrive, OrderInv
<1>3. ~shut[Other(s)]
  <2>1. ASSUME shut[Other(s)] PROVE FALSE
    <3>1. inbox[s] = <<End>> /\ EndsLast(s)
      BY <2>1 DEF OrderInv, EndsLast
    <3>2. Len(<<End>>) = 1 /\ <<End>>[1] = End
      OBVIOUS
    <3> QED
      BY <3>1, <3>2 DEF EndsLast
  <2> QED
    BY <2>1
<1>4. /\ UnderWay(s) = outbox[Other(s)] \o inbox[s]
      /\ UnderWay(s)' = outbox[Other(s)] \o Append(inbox[s], m)
  BY <1>2, <1>3, Zenon DEF UnderWay
<1>5. outbox[Other(s)] \o Append(inbox[s], m) = Append(outbox[Other(s)] \o inbox[s], m)
  <2>1. \A q, r \in Seq(Received) : q \o Append(r, m) = Append(q \o r, m)
    BY AppendLast
  <2> QED
    BY <1>1, <2>1, Zenon
<1> QED
  BY <1>4, <1>5

\* Nothing changes in a direction whose queues are left alone.
LEMMA ForwardRests ==
    ASSUME OrderInv, NEW s \in Side, pc = "ended" <=> pc' = "ended",
           inbox'[s] = inbox[s], outbox'[Other(s)] = outbox[Other(s)],
           shut'[Other(s)] = shut[Other(s)], fin'[s] = fin[s]
    PROVE  Rests(s)
  BY DEF Rests, UnderWay

\* A connection that closes keeps what is being sent on.
LEMMA ForwardClose ==
    ASSUME OrderInv, NEW s \in Side, pc # "ended", Close
    PROVE  Breaks(s)
<1>1. inbox[s] \in Seq(Received) /\ outbox[Other(s)] \in Seq(Received)
  BY Sides DEF OrderInv
<1>2. pc' = "ended" /\ inbox'[s] = <<>> /\ UNCHANGED <<outbox, shut, fin>>
  BY DEF Close, peerVars
<1> DEFINE q == outbox[Other(s)]
           k == Len(q)
<1>3. UnderWay(s)' = q
  BY <1>1, <1>2 DEF UnderWay
<1>4. /\ UnderWay(s) = q \o (IF shut[Other(s)] THEN <<>> ELSE inbox[s])
      /\ (IF shut[Other(s)] THEN <<>> ELSE inbox[s]) \in Seq(Received)
  BY <1>1 DEF UnderWay
<1> HIDE DEF q
<1>5. ASSUME NEW r \in Seq(Received)
      PROVE  k \in 0..Len(q \o r) /\ SubSeq(q \o r, 1, k) = q
  <2>1. q \in Seq(Received) /\ Len(q \o r) = Len(q) + Len(r) /\ q \o r \in Seq(Received)
    BY <1>1 DEF q
  <2>2. /\ Len(SubSeq(q \o r, 1, k)) = Len(q) /\ SubSeq(q \o r, 1, k) \in Seq(Received)
        /\ \A i \in 1..Len(q) : SubSeq(q \o r, 1, k)[i] = q[i]
    BY <2>1
  <2>3. SubSeq(q \o r, 1, k) = q
    BY <2>1, <2>2, SeqEqual, Zenon
  <2> QED
    BY <2>1, <2>3
<1> QED
  BY <1>2, <1>3, <1>4, <1>5, Zenon DEF Breaks

\* Moving the head of one sequence to the end of another leaves their
\* concatenation as it was.
LEMMA MoveHead ==
    ASSUME NEW S, NEW q \in Seq(S), NEW r \in Seq(S), r # <<>>
    PROVE  Append(q, Head(r)) \o Tail(r) = q \o r
<1> DEFINE a == Append(q, Head(r)) \o Tail(r)
           b == q \o r
<1>1. Head(r) \in S /\ Tail(r) \in Seq(S) /\ Len(Tail(r)) = Len(r) - 1 /\ Len(r) > 0
  OBVIOUS
<1>2. a \in Seq(S) /\ b \in Seq(S) /\ Len(a) = Len(q) + Len(r) /\ Len(b) = Len(a)
  BY <1>1
<1>3. ASSUME NEW i \in 1..Len(a) PROVE a[i] = b[i]
  <2>1. CASE i <= Len(q)
    BY <1>1, <1>2, <2>1
  <2>2. CASE i = Len(q) + 1
    BY <1>1, <1>2, <2>2
  <2>3. CASE i > Len(q) + 1
    <3>1. /\ i - (Len(q) + 1) \in 1..Len(Tail(r)) /\ i - Len(q) \in 1..Len(r)
          /\ Len(Append(q, Head(r))) = Len(q) + 1
      BY <1>1, <1>2, <2>3
    <3>2. a[i] = Tail(r)[i - (Len(q) + 1)] /\ b[i] = r[i - Len(q)]
      BY <1>1, <1>2, <2>3, <3>1
    <3> QED
      BY <1>1, <3>1, <3>2
  <2> QED
    BY <1>2, <2>1, <2>2, <2>3
<1> QED
  BY <1>2, <1>3, SeqEqual, Zenon

\* The tail of a concatenation is that of its first part.
LEMMA TailOfBoth ==
    ASSUME NEW S, NEW q \in Seq(S), NEW r \in Seq(S), q # <<>>
    PROVE  q \o r # <<>> /\ Tail(q \o r) = Tail(q) \o r
<1> DEFINE a == Tail(q \o r)
           b == Tail(q) \o r
<1>1. q \o r \in Seq(S) /\ Len(q \o r) = Len(q) + Len(r) /\ Len(q) > 0 /\ q \o r # <<>>
  OBVIOUS
<1>2. Tail(q) \in Seq(S) /\ Len(Tail(q)) = Len(q) - 1
  BY <1>1
<1>3. a \in Seq(S) /\ b \in Seq(S) /\ Len(a) = Len(q) + Len(r) - 1 /\ Len(b) = Len(a)
  BY <1>1, <1>2
<1>4. ASSUME NEW i \in 1..Len(a) PROVE a[i] = b[i]
  <2>1. a[i] = (q \o r)[i + 1]
    BY <1>1, <1>3
  <2>2. CASE i < Len(q)
    <3>1. b[i] = Tail(q)[i] /\ Tail(q)[i] = q[i + 1] /\ (q \o r)[i + 1] = q[i + 1]
      BY <1>1, <1>2, <1>3, <2>2
    <3> QED
      BY <2>1, <3>1
  <2>3. CASE i >= Len(q)
    <3>1. b[i] = r[i - (Len(q) - 1)] /\ (q \o r)[i + 1] = r[i + 1 - Len(q)]
      BY <1>1, <1>2, <1>3, <2>3
    <3>2. i - (Len(q) - 1) = i + 1 - Len(q)
      BY <1>3
    <3> QED
      BY <2>1, <3>1, <3>2
  <2> QED
    BY <1>1, <1>3, <2>2, <2>3
<1>5. a = b
  BY <1>3, <1>4, SeqEqual, Zenon
<1> QED
  BY <1>1, <1>5

\* To copy an item changes nothing in what is under way.
LEMMA ForwardCopy ==
    ASSUME OrderInv, NEW s \in Side, NEW t \in Side, CopyItem(s)
    PROVE  Rests(t)
<1>1. /\ pc' = pc /\ inbox[s] # <<>> /\ Head(inbox[s]) \in Data
      /\ inbox' = [inbox EXCEPT ![s] = Tail(@)]
      /\ outbox' = [outbox EXCEPT ![Other(s)] = Append(@, Head(inbox[s]))]
      /\ UNCHANGED <<fin, shut>>
  BY DEF CopyItem, Copying, Ready, peerVars
<1>2. CASE t # s
  <2>1. Other(t) # Other(s) /\ Other(t) \in Side
    BY <1>2, Sides
  <2>2. inbox'[t] = inbox[t] /\ outbox'[Other(t)] = outbox[Other(t)]
    BY <1>1, <1>2, <2>1 DEF OrderInv
  <2> QED
    BY <1>1, <2>2, ForwardRests
<1>3. CASE t = s
  <2>1. inbox[s] \in Seq(Received) /\ outbox[Other(s)] \in Seq(Received)
    BY Sides DEF OrderInv
  <2>2. ~shut[Other(s)]
    BY <1>1 DEF OrderInv, EndsLast, CopyItem, Copying, Data, End
  <2>3. /\ inbox'[s] = Tail(inbox[s])
        /\ outbox'[Other(s)] = Append(outbox[Other(s)], Head(inbox[s]))
    BY <1>1, Sides DEF OrderInv
  <2>4. outbox'[Other(s)] \o inbox'[s] = outbox[Other(s)] \o inbox[s]
    BY <1>1, <2>1, <2>3, MoveHead, Zenon
  <2>5. UnderWay(s)' = UnderWay(s)
    BY <1>1, <2>2, <2>4, Zenon DEF UnderWay
  <2> QED
    BY <1>1, <1>3, <2>5 DEF Rests
<1> QED
  BY <1>2, <1>3

\* Nor does forwarding the end of a stream, once or again.
LEMMA ForwardEnd ==
    ASSUME OrderInv, NEW s \in Side, NEW t \in Side, CopyEnd(s)
    PROVE  Rests(t)
<1>1. /\ pc' = pc /\ inbox[s] = <<End>> /\ UNCHANGED <<fin, inbox>>
      /\ outbox' = IF shut[Other(s)] THEN outbox
                   ELSE [outbox EXCEPT ![Other(s)] = Append(@, End)]
      /\ shut' = [shut EXCEPT ![Other(s)] = TRUE]
  BY EndIsAlone DEF CopyEnd, Copying, Ready, PollShutdown, peerVars
<1>2. CASE t # s
  <2>1. Other(t) # Other(s) /\ Other(t) \in Side
    BY <1>2, Sides
  <2>2. shut'[Other(t)] = shut[Other(t)] /\ outbox'[Other(t)] = outbox[Other(t)]
    BY <1>1, <2>1 DEF OrderInv
  <2> QED
    BY <1>1, <2>2, ForwardRests, Zenon
<1>3. CASE t = s /\ shut[Other(s)]
  <2>1. shut'[Other(t)] = shut[Other(t)] /\ outbox' = outbox
    BY <1>1, <1>3, Sides, Zenon DEF OrderInv
  <2> QED
    BY <1>1, <2>1, ForwardRests, Zenon
<1>4. CASE t = s /\ ~shut[Other(s)]
  <2>1. outbox[Other(s)] \in Seq(Received) /\ End \in Received
    BY Sides DEF OrderInv, Received
  <2>2. outbox'[Other(s)] = Append(outbox[Other(s)], End) /\ shut'[Other(s)]
    BY <1>1, <1>4, Sides DEF OrderInv
  <2>3. UnderWay(s)' = Append(outbox[Other(s)], End) \o <<>>
    BY <2>2 DEF UnderWay
  <2>4. UnderWay(s) = outbox[Other(s)] \o <<End>>
    BY <1>1, <1>4 DEF UnderWay
  <2>5. <<End>> \in Seq(Received) /\ <<End>> # <<>> /\ Head(<<End>>) = End /\ Tail(<<End>>) = <<>>
    BY <2>1
  <2>6. UnderWay(s)' = UnderWay(s)
    BY <2>1, <2>3, <2>4, <2>5, MoveHead
  <2> QED
    BY <1>1, <1>4, <2>6 DEF Rests
<1> QED
  BY <1>2, <1>3, <1>4

\* A peer reads the first of what is under way to it.
LEMMA ForwardRead ==
    ASSUME OrderInv, NEW s \in Side, NEW t \in Side, PeerReads(s)
    PROVE  Receives(t) \/ Rests(t)
<1>1. /\ pc' = pc /\ outbox[s] # <<>> /\ outbox' = [outbox EXCEPT ![s] = Tail(@)]
      /\ UNCHANGED <<inbox, fin, shut>>
  BY DEF PeerReads, taskVars, peerVars
<1>2. CASE Other(t) # s
  <2>1. outbox'[Other(t)] = outbox[Other(t)]
    BY <1>1, <1>2, Sides DEF OrderInv
  <2> QED
    BY <1>1, <2>1, ForwardRests
<1>3. CASE Other(t) = s
  <2> DEFINE r == IF shut[s] THEN <<>> ELSE inbox[t]
  <2>1. outbox[s] \in Seq(Received) /\ r \in Seq(Received)
    BY DEF OrderInv
  <2>2. outbox'[s] = Tail(outbox[s])
    BY <1>1 DEF OrderInv
  <2>3. UnderWay(t) = outbox[s] \o r /\ UnderWay(t)' = Tail(outbox[s]) \o r
    BY <1>1, <1>3, <2>2, Zenon DEF UnderWay
  <2>4. outbox[s] \o r # <<>> /\ Tail(outbox[s] \o r) = Tail(outbox[s]) \o r
    BY <1>1, <2>1, TailOfBoth, Zenon
  <2> QED
    BY <1>1, <2>3, <2>4, Zenon DEF Receives
<1> QED
  BY <1>2, <1>3

\* What was received arrives on one socket only.
LEMMA ForwardOther ==
    ASSUME OrderInv, NEW s \in Side, NEW t \in Side, t # s,
           NEW m, Arrive(s, m), fin'[t] = fin[t], UNCHANGED <<pc, shut>>
    PROVE  Rests(t)
<1>1. inbox'[t] = inbox[t] /\ outbox' = outbox
  BY DEF Arrive, OrderInv
<1> QED
  BY <1>1, ForwardRests

\* Every step is a step, or none, of each of the two channels.
LEMMA ForwardStep ==
    ASSUME OrderInv, mode # "sockmap", NEW t \in Side, [Next]_vars
    PROVE  Forwards(t)
<1>1. ASSUME NEW s \in Side, CopyItem(s) \/ CopyEnd(s) \/ PeerReads(s) PROVE Forwards(t)
  BY <1>1, ForwardCopy, ForwardEnd, ForwardRead DEF Forwards
<1>2. CASE Close /\ pc # "ended"
  BY <1>2, ForwardClose DEF Forwards
<1>3. CASE InsertFails \/ CopyControl \/ CopyFails
  BY <1>2, <1>3 DEF InsertFails, CopyControl, CopyFails
<1>4. ASSUME UNCHANGED <<dataVars, fin>>, pc = "ended" <=> pc' = "ended" PROVE Forwards(t)
  BY <1>4, ForwardRests DEF Forwards, dataVars
<1>5. CASE CopyDone \/ CopyPending \/ Timer \/ Wake \/ Elapse \/ UNCHANGED vars
  BY <1>2, <1>4, <1>5
     DEF CopyDone, CopyPending, Timer, Wake, Elapse, vars, taskVars, peerVars, dataVars
<1>6. ASSUME NEW s \in Side, PeerSends(s) PROVE Forwards(t)
  <2>1. /\ Arrive(s, next[s]) /\ pc # "ended" /\ ~fin[s] /\ UNCHANGED <<pc, shut, fin>>
    BY <1>6, NoVerdict DEF PeerSends, taskVars
  <2>2. next[s] \in Data /\ next[s] \in Received /\ next[s] # End
    BY DEF OrderInv, Data, End, Received
  <2>3. CASE t # s
    BY <2>1, <2>3, ForwardOther DEF Forwards
  <2>4. CASE t = s
    <3>1. UnderWay(s)' = Append(UnderWay(s), next[s])
      BY <2>1, <2>2, ForwardArrive
    <3>2. fin'[s] = (next[s] = End)
      BY <2>1, <2>2 DEF OrderInv
    <3>3. Sends(s, next[s])
      BY <2>1, <3>1, <3>2 DEF Sends
    <3> QED
      BY <2>2, <2>4, <3>3 DEF Forwards, ItemOf
  <2> QED
    BY <2>3, <2>4
<1>7. ASSUME NEW s \in Side, PeerEnds(s) PROVE Forwards(t)
  <2>1. /\ Arrive(s, End) /\ pc # "ended" /\ ~fin[s] /\ UNCHANGED <<pc, shut>>
        /\ fin' = [fin EXCEPT ![s] = TRUE] /\ End \in Received
    BY <1>7 DEF PeerEnds, taskVars, Received
  <2>2. CASE t # s
    <3>1. fin'[t] = fin[t]
      BY <2>1, <2>2 DEF OrderInv
    <3> QED
      BY <2>1, <2>2, <3>1, ForwardOther, Zenon DEF Forwards
  <2>3. CASE t = s
    <3>1. UnderWay(s)' = Append(UnderWay(s), End)
      BY <2>1, ForwardArrive
    <3>2. fin'[s] = TRUE
      BY <2>1 DEF OrderInv
    <3>3. Sends(s, End)
      BY <2>1, <3>1, <3>2, Zenon DEF Sends
    <3> QED
      BY <2>3, <3>3 DEF Forwards
  <2> QED
    BY <2>2, <2>3
<1>8. CASE ClientControl
  <2>1. /\ Arrive("client", "control") /\ pc # "ended" /\ ~fin["client"]
        /\ UNCHANGED <<pc, shut, fin>> /\ "control" \in Received /\ "control" # End
        /\ "client" \in Side
    BY <1>8 DEF ClientControl, taskVars, peerVars, Received, End, Side
  <2>2. CASE t # "client"
    BY <2>1, <2>2, ForwardOther DEF Forwards
  <2>3. CASE t = "client"
    <3>1. UnderWay("client")' = Append(UnderWay("client"), "control")
      BY <2>1, ForwardArrive
    <3>2. fin'["client"] = ("control" = End)
      BY <2>1 DEF OrderInv
    <3>3. Sends("client", "control")
      BY <2>1, <3>1, <3>2 DEF Sends
    <3> QED
      BY <2>3, <3>3 DEF Forwards, ItemOf
  <2> QED
    BY <2>2, <2>3
<1>9. ASSUME NEW s \in Side, Insert(s) PROVE Forwards(t)
  BY <1>9 DEF Insert, OrderInv
<1> QED
  BY <1>1, <1>3, <1>5, <1>6, <1>7, <1>8, <1>9 DEF Next, Task, Peers

\* A step of the client's direction is a step of its channel.
LEMMA ClientChannel ==
    ASSUME OrderInv, [Next]_vars
    PROVE  [FromClient!Next]_<<Promised("client", UnderWay("client")), mode # "sockmap" /\ fin["client"],
                        mode = "sockmap" \/ pc # "ended">>
<1> USE DEF Promised
<1>0. mode' = mode
  BY SameMode
<1>1. CASE mode = "sockmap"
  BY <1>0, <1>1
<1>2. CASE mode # "sockmap"
  <2> USE <1>0, <1>2
  <2>1. Forwards("client") /\ fin["client"] \in BOOLEAN
    BY ForwardStep DEF Side, OrderInv
  <2>2. ASSUME NEW m \in ItemOf("client") \cup {End}, Sends("client", m) PROVE FromClient!Send(m)
    BY <2>2, Zenon DEF Sends, FromClient!Send
  <2>3. CASE Receives("client")
    <3>1. FromClient!Receive
      BY <2>3 DEF Receives, FromClient!Receive
    <3> QED
      BY <3>1 DEF FromClient!Next
  <2>4. CASE Breaks("client")
    <3>1. PICK k \in 0..Len(UnderWay("client")) :
              UnderWay("client")' = SubSeq(UnderWay("client"), 1, k)
      BY <2>4 DEF Breaks
    <3>2. FromClient!Close(k)
      BY <2>4, <3>1 DEF Breaks, FromClient!Close
    <3> QED
      BY <3>2 DEF FromClient!Next
  <2>5. CASE Rests("client")
    BY <2>5 DEF Rests
  <2>6. ASSUME NEW m \in ItemOf("client") \cup {End}, Sends("client", m) PROVE FromClient!Next
    BY <2>2, <2>6 DEF FromClient!Next, ItemOf
  <2> QED
    BY <2>1, <2>3, <2>4, <2>5, <2>6 DEF Forwards
<1> QED
  BY <1>1, <1>2

\* A step of the backend's direction is a step of its channel.
LEMMA BackendChannel ==
    ASSUME OrderInv, [Next]_vars
    PROVE  [FromBackend!Next]_<<Promised("backend", UnderWay("backend")), mode # "sockmap" /\ fin["backend"],
                        mode = "sockmap" \/ pc # "ended">>
<1> USE DEF Promised
<1>0. mode' = mode
  BY SameMode
<1>1. CASE mode = "sockmap"
  BY <1>0, <1>1
<1>2. CASE mode # "sockmap"
  <2> USE <1>0, <1>2
  <2>1. Forwards("backend") /\ fin["backend"] \in BOOLEAN
    BY ForwardStep DEF Side, OrderInv
  <2>2. ASSUME NEW m \in ItemOf("backend") \cup {End}, Sends("backend", m) PROVE FromBackend!Send(m)
    BY <2>2, Zenon DEF Sends, FromBackend!Send
  <2>3. CASE Receives("backend")
    <3>1. FromBackend!Receive
      BY <2>3 DEF Receives, FromBackend!Receive
    <3> QED
      BY <3>1 DEF FromBackend!Next
  <2>4. CASE Breaks("backend")
    <3>1. PICK k \in 0..Len(UnderWay("backend")) :
              UnderWay("backend")' = SubSeq(UnderWay("backend"), 1, k)
      BY <2>4 DEF Breaks
    <3>2. FromBackend!Close(k)
      BY <2>4, <3>1 DEF Breaks, FromBackend!Close
    <3> QED
      BY <3>2 DEF FromBackend!Next
  <2>5. CASE Rests("backend")
    BY <2>5 DEF Rests
  <2>6. ASSUME NEW m \in ItemOf("backend") \cup {End}, Sends("backend", m) PROVE FromBackend!Next
    BY <2>2, <2>6 DEF FromBackend!Next, ItemOf
  <2> QED
    BY <2>1, <2>3, <2>4, <2>5, <2>6 DEF Forwards
<1> QED
  BY <1>1, <1>2

\* Each direction of a spliced connection implements a first-in, first-out
\* channel, whatever the capacities and the budget.
THEOREM ImplementsChannels == Spec => ForwardsInOrder
<1>1. Init => FromClient!Init /\ FromBackend!Init
  BY Sides DEF Init, FromClient!Init, FromBackend!Init, Promised, UnderWay, Side
<1>2. Spec => []OrderInv
  BY OrderInit, OrderStep, PTL DEF Spec
<1> QED
  BY <1>1, <1>2, ClientChannel, BackendChannel, PTL
     DEF Spec, ForwardsInOrder, FromClient!Spec, FromBackend!Spec
-----------------------------------------------------------------------------
(***************************************************************************)
(* The types of the variables.  That a socket never holds more than one    *)
(* item above its capacity needs that it holds none above it before it is  *)
(* shut: the end of a stream is sent whether there is room or not, once.   *)
(***************************************************************************)
Fields ==
    /\ mode \in Modes /\ pair \in Sockets
    /\ pc \in {"insert", "copy", "timer", "parked", "ended"}
    /\ budget \in 0..Budget /\ elapsed \in BOOLEAN /\ running \subseteq Side
    /\ Range(sockmap) \subseteq Side /\ early \in [Side -> BOOLEAN]

Queues ==
    /\ outbox \in [Side -> Seq(Data \cup {End})]
    /\ \A s \in Side :
        /\ Len(inbox[s]) <= InCap
        /\ Len(outbox[s]) <= OutCap + (IF shut[s] THEN 1 ELSE 0)

\* The fields have their types at first, and the queues are empty.
LEMMA TypesInit == Init => Fields /\ Queues
<1> SUFFICES ASSUME Init PROVE Fields /\ Queues
  OBVIOUS
<1>1. Range(<<>>) = {}
  BY DEF Range
<1>2. Fields
  <2>1. Budget \in 0..Budget
    BY BoundsAssumption
  <2>2. pc = "insert" \/ pc = "copy"
    BY Zenon DEF Init
  <2> QED
    BY <1>1, <2>1, <2>2, Zenon DEF Init, Fields
<1>3. outbox \in [Side -> Seq(Data \cup {End})]
  BY DEF Init
<1>4. ASSUME NEW s \in Side PROVE inbox[s] = <<>> /\ outbox[s] = <<>>
  BY DEF Init
<1> QED
  BY <1>2, <1>3, <1>4, BoundsAssumption DEF Queues

\* Every step keeps the types of the fields.
LEMMA FieldsStep == Fields /\ [Next]_vars => Fields'
<1> SUFFICES ASSUME Fields, [Next]_vars PROVE Fields'
  OBVIOUS
<1> USE DEF Fields, taskVars, fixedVars, mapVars
<1>1. CASE Close
  BY <1>1, Zenon DEF Close
<1>2. CASE InsertFails \/ CopyControl \/ CopyFails
  BY <1>1, <1>2, Zenon DEF InsertFails, CopyControl, CopyFails
<1>3. CASE CopyDone \/ CopyPending \/ Timer \/ Elapse
  BY <1>1, <1>3, Zenon DEF CopyDone, CopyPending, Timer, Elapse
<1>4. CASE Wake
  BY <1>4, BoundsAssumption DEF Wake
<1>5. ASSUME NEW s \in Side, CopyItem(s) \/ CopyEnd(s) PROVE Fields'
  <2>1. budget' \in 0..Budget /\ running' \subseteq Side
    BY <1>5, BoundsAssumption DEF CopyItem, CopyEnd, Copying
  <2> QED
    BY <1>5, <2>1, Zenon DEF CopyItem, CopyEnd
<1>6. CASE UNCHANGED vars
  BY <1>6, Zenon DEF vars
<1>7. ASSUME NEW s \in Side, PeerSends(s) \/ PeerEnds(s) \/ PeerReads(s) \/ ClientControl
      PROVE  Fields'
  BY <1>7, Zenon DEF PeerSends, PeerEnds, PeerReads, ClientControl
<1>8. ASSUME NEW s \in Side, Insert(s) PROVE Fields'
  <2>1. Range(sockmap') \subseteq Side
    BY <1>8, Sides, Zenon DEF Insert, Range
  <2>2. early' \in [Side -> BOOLEAN]
    BY <1>8, Zenon DEF Insert
  <2> QED
    BY <1>8, <2>1, <2>2, Zenon DEF Insert
<1> QED
  BY <1>2, <1>3, <1>4, <1>5, <1>6, <1>7, <1>8, Zenon DEF Next, Task, Peers, Side

\* A step that takes from the queues at most.
LEMMA QueuesQuiet ==
    ASSUME Queues, UNCHANGED <<outbox, shut>>,
           inbox' = inbox \/ inbox' = [s \in Side |-> <<>>]
    PROVE  Queues'
<1>1. CASE inbox' = inbox
  BY <1>1, Zenon DEF Queues
<1>2. CASE inbox' = [s \in Side |-> <<>>]
  <2>1. \A s \in Side : Len(inbox'[s]) <= InCap
    BY <1>2, BoundsAssumption
  <2> QED
    BY <2>1, Zenon DEF Queues
<1> QED
  BY <1>1, <1>2

\* What arrives finds room.
LEMMA QueuesArrive ==
    ASSUME Queues, OrderInv, NEW s \in Side, NEW m \in Received, Arrive(s, m), UNCHANGED shut
    PROVE  Queues'
<1>1. \A t \in Side : Len(inbox'[t]) <= InCap
  BY BoundsAssumption DEF Arrive, OrderInv, Queues
<1> QED
  BY <1>1, Zenon DEF Queues, Arrive

\* What is sent on finds room.
LEMMA QueuesForward ==
    ASSUME Queues, NEW t \in Side, NEW m \in Data, Len(outbox[t]) < OutCap, UNCHANGED shut,
           outbox' = [outbox EXCEPT ![t] = Append(@, m)],
           \A s \in Side : Len(inbox'[s]) <= InCap
    PROVE  Queues'
<1>1. outbox' \in [Side -> Seq(Data \cup {End})]
  BY DEF Queues
<1>2. ASSUME NEW s \in Side PROVE Len(outbox'[s]) <= OutCap + (IF shut'[s] THEN 1 ELSE 0)
  BY BoundsAssumption DEF Queues
<1> QED
  BY <1>1, <1>2 DEF Queues

\* Every step keeps the bounds of the queues.
LEMMA QueuesStep == Queues /\ OrderInv /\ Fields /\ [Next]_vars => Queues'
<1> SUFFICES ASSUME Queues, OrderInv, Fields, [Next]_vars PROVE Queues'
  OBVIOUS
<1> USE DEF taskVars, fixedVars, mapVars, peerVars, dataVars
<1>1. CASE Close
  BY <1>1, QueuesQuiet, Zenon DEF Close
<1>2. CASE InsertFails \/ CopyControl \/ CopyFails
  BY <1>1, <1>2, Zenon DEF InsertFails, CopyControl, CopyFails
<1>3. CASE CopyDone \/ CopyPending \/ Timer \/ Wake \/ Elapse
  BY <1>1, <1>3, QueuesQuiet, Zenon DEF CopyDone, CopyPending, Timer, Wake, Elapse
<1>4. ASSUME NEW s \in Side, CopyItem(s) PROVE Queues'
  <2>1. /\ Other(s) \in Side /\ Head(inbox[s]) \in Data /\ Len(outbox[Other(s)]) < OutCap
        /\ inbox[s] # <<>> /\ inbox' = [inbox EXCEPT ![s] = Tail(@)] /\ UNCHANGED shut
        /\ outbox' = [outbox EXCEPT ![Other(s)] = Append(@, Head(inbox[s]))]
    BY <1>4, Sides, Zenon DEF CopyItem, Copying, Ready
  <2>2. ASSUME NEW t \in Side PROVE Len(inbox'[t]) <= InCap
    <3>1. inbox[t] \in Seq(Received) /\ Len(inbox[t]) <= InCap
      BY DEF OrderInv, Queues
    <3>2. inbox'[t] = IF t = s THEN Tail(inbox[t]) ELSE inbox[t]
      BY <2>1 DEF OrderInv
    <3> QED
      BY <2>1, <3>1, <3>2, BoundsAssumption
  <2> QED
    BY <2>1, <2>2, QueuesForward, Zenon
<1>5. ASSUME NEW s \in Side, CopyEnd(s) PROVE Queues'
  <2> DEFINE t == Other(s)
  <2>1. /\ t \in Side /\ inbox' = inbox /\ shut' = [shut EXCEPT ![t] = TRUE]
        /\ outbox' = IF shut[t] THEN outbox ELSE [outbox EXCEPT ![t] = Append(@, End)]
    BY <1>5, Sides, Zenon DEF CopyEnd, PollShutdown
  <2> HIDE DEF t
  <2>2. outbox \in [Side -> Seq(Data \cup {End})] /\ outbox' \in [Side -> Seq(Data \cup {End})]
    BY <2>1 DEF Queues
  <2>3. ASSUME NEW r \in Side PROVE Len(outbox'[r]) <= OutCap + (IF shut'[r] THEN 1 ELSE 0)
    <3>1. /\ outbox[r] \in Seq(Data \cup {End})
          /\ Len(outbox[r]) <= OutCap + (IF shut[r] THEN 1 ELSE 0)
      BY <2>2 DEF Queues
    <3>2. CASE r # t \/ shut[t]
      <4>1. outbox'[r] = outbox[r] /\ shut'[r] = shut[r]
        BY <2>1, <2>2, <3>2, Zenon DEF OrderInv
      <4> QED
        BY <3>1, <4>1
    <3>3. CASE r = t /\ ~shut[t]
      <4>1. outbox'[r] = Append(outbox[r], End) /\ shut'[r]
        BY <2>1, <2>2, <3>3 DEF OrderInv
      <4> QED
        BY <3>1, <3>3, <4>1, BoundsAssumption
    <3> QED
      BY <3>2, <3>3
  <2> QED
    BY <2>1, <2>2, <2>3 DEF Queues
<1>6. ASSUME NEW s \in Side, PeerSends(s) PROVE Queues'
  <2>1. next[s] \in Data /\ next[s] \in Received
    BY DEF OrderInv, Received
  <2>2. CASE Arrive(s, next[s])
    BY <1>6, <2>1, <2>2, QueuesArrive, Zenon DEF PeerSends
  <2>3. ASSUME NEW t \in StreamVerdict(s), Redirect(t, next[s]) PROVE Queues'
    <3>1. t \in Side
      BY <2>3 DEF StreamVerdict, Fields, Range
    <3>2. UNCHANGED <<shut, inbox>>
      BY <1>6, <2>3, Zenon DEF PeerSends, Redirect
    <3> QED
      BY <2>1, <2>3, <3>1, <3>2, QueuesForward, Zenon DEF Redirect, Queues
  <2> QED
    BY <1>6, <2>2, <2>3, Zenon DEF PeerSends
<1>7. ASSUME NEW s \in Side, PeerEnds(s) PROVE Queues'
  BY <1>7, QueuesArrive, Zenon DEF PeerEnds, Received
<1>8. CASE ClientControl
  <2>1. "client" \in Side /\ "control" \in Received
    BY DEF Side, Received
  <2> QED
    BY <1>8, <2>1, QueuesArrive, Zenon DEF ClientControl
<1>9. ASSUME NEW s \in Side, PeerReads(s) PROVE Queues'
  <2>1. /\ UNCHANGED <<inbox, shut>> /\ outbox[s] # <<>>
        /\ outbox' = [outbox EXCEPT ![s] = Tail(@)]
    BY <1>9, Zenon DEF PeerReads
  <2>2. outbox' \in [Side -> Seq(Data \cup {End})]
    BY <2>1 DEF Queues
  <2>3. ASSUME NEW r \in Side PROVE Len(outbox'[r]) <= OutCap + (IF shut'[r] THEN 1 ELSE 0)
    <3>1. /\ outbox[r] \in Seq(Data \cup {End})
          /\ Len(outbox[r]) <= OutCap + (IF shut[r] THEN 1 ELSE 0)
      BY DEF Queues
    <3>2. outbox'[r] = IF r = s THEN Tail(outbox[r]) ELSE outbox[r]
      BY <2>1 DEF Queues
    <3> QED
      BY <2>1, <3>1, <3>2, BoundsAssumption
  <2> QED
    BY <2>1, <2>2, <2>3, Zenon DEF Queues
<1>10. ASSUME NEW s \in Side, Insert(s) PROVE Queues'
  BY <1>10, QueuesQuiet, Zenon DEF Insert
<1>11. CASE UNCHANGED vars
  BY <1>11, QueuesQuiet, Zenon DEF vars
<1> QED
  BY <1>2, <1>3, <1>4, <1>5, <1>6, <1>7, <1>8, <1>9, <1>10, <1>11, Zenon DEF Next, Task, Peers

\* Every variable has its type, and no socket holds more than its capacity and
\* the end of a stream, whatever the capacities, the budget and the addresses.
THEOREM TransferTypes == Spec => []TypeOK
<1>1. Spec => [](OrderInv /\ Fields /\ Queues)
  BY OrderInit, OrderStep, TypesInit, FieldsStep, QueuesStep, PTL DEF Spec
<1>2. OrderInv /\ Fields /\ Queues => TypeOK
  <2> SUFFICES ASSUME OrderInv, Fields, Queues PROVE TypeOK
    OBVIOUS
  <2>1. \A f \in {fin, shut, early} : f \in [Side -> BOOLEAN]
    BY Zenon DEF OrderInv, Fields
  <2>2. ASSUME NEW s \in Side
        PROVE  /\ Len(inbox[s]) <= InCap /\ Range(inbox[s]) \subseteq Data \cup {End, "control"}
               /\ Len(outbox[s]) <= OutCap + 1 /\ Range(outbox[s]) \subseteq Data \cup {End}
    <3>1. inbox[s] \in Seq(Received) /\ outbox[s] \in Seq(Data \cup {End})
      BY DEF OrderInv, Queues
    <3>2. \A S, q : q \in Seq(S) => Range(q) \subseteq S
      BY DEF Range
    <3>3. Range(inbox[s]) \subseteq Data \cup {End, "control"} /\ Range(outbox[s]) \subseteq Data \cup {End}
      BY <3>1, <3>2, Zenon DEF Received
    <3> QED
      BY <3>1, <3>3, BoundsAssumption DEF Queues
  <2> QED
    BY <2>1, <2>2, Zenon DEF TypeOK, OrderInv, Fields
<1> QED
  BY <1>1, <1>2, PTL
=============================================================================
