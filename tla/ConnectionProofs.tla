-------------------------- MODULE ConnectionProofs --------------------------
(***************************************************************************)
(* What the backend of a connection is sent, and which connections are     *)
(* routed by name, for every rule, client and number of connections.       *)
(***************************************************************************)
EXTENDS Connection, SequenceTheorems, FiniteSetTheorems, TLAPS

\* The chunks from first on, n of them.
Run(first, n) == [k \in 1..n |-> first + k - 1]

\* Appending to the second of two sequences appends to both.
LEMMA AppendLast ==
    ASSUME NEW S, NEW q \in Seq(S), NEW r \in Seq(S), NEW m \in S
    PROVE  q \o Append(r, m) = Append(q \o r, m)
<1> DEFINE a == q \o Append(r, m)
           b == Append(q \o r, m)
<1>1. a \in Seq(S) /\ b \in Seq(S) /\ Len(a) = Len(q) + Len(r) + 1 /\ Len(b) = Len(a)
  OBVIOUS
<1>2. ASSUME NEW i \in 1..Len(a) PROVE a[i] = b[i]
  <2>1. CASE i <= Len(q)
    BY <1>1, <1>2, <2>1
  <2>2. CASE i > Len(q) /\ i < Len(a)
    BY <1>1, <1>2, <2>2
  <2>3. CASE i = Len(a)
    BY <1>1, <1>2, <2>3
  <2> QED
    BY <1>1, <1>2, <2>1, <2>2, <2>3
<1> QED
  BY <1>1, <1>2, SeqEqual, Zenon

\* A run is extended by the chunk that follows it.
LEMMA RunGrows ==
    ASSUME NEW h \in Seq(Nat), NEW first \in Nat, NEW n \in Nat
    PROVE  /\ h \o Run(first, n) \in Seq(Nat)
           /\ Append(h \o Run(first, n), first + n) = h \o Run(first, n + 1)
<1> DEFINE r == Run(first, n)
           e == first + n
<1>1. r \in Seq(Nat) /\ e \in Nat
  BY DEF Run
<1>2. Append(r, e) = Run(first, n + 1)
  <2>1. /\ Len(r) = n /\ \A k \in 1..n : r[k] = first + k - 1
        /\ Run(first, n + 1) \in Seq(Nat) /\ Len(Run(first, n + 1)) = n + 1
        /\ \A k \in 1..(n + 1) : Run(first, n + 1)[k] = first + k - 1
    BY DEF Run
  <2> HIDE DEF r
  <2>2. /\ Append(r, e) \in Seq(Nat) /\ Len(Append(r, e)) = Len(r) + 1
        /\ \A k \in 1..Len(r) : Append(r, e)[k] = r[k]
        /\ Append(r, e)[Len(r) + 1] = e
    <3> HIDE DEF e
    <3>1. \A q \in Seq(Nat), x \in Nat :
              /\ Append(q, x) \in Seq(Nat) /\ Len(Append(q, x)) = Len(q) + 1
              /\ \A k \in 1..Len(q) : Append(q, x)[k] = q[k]
              /\ Append(q, x)[Len(q) + 1] = x
      BY AppendProperties
    <3> QED
      BY <1>1, <3>1, Zenon
  <2>3. \A k \in 1..Len(Append(r, e)) : Append(r, e)[k] = Run(first, n + 1)[k]
    BY <2>1, <2>2, SMTT(30)
  <2>4. Len(Append(r, e)) = Len(Run(first, n + 1))
    BY <2>1, <2>2
  <2> QED
    BY <2>1, <2>2, <2>3, <2>4, SeqEqual, Zenon
<1> HIDE DEF r, e
<1>3. h \o r \in Seq(Nat)
  BY <1>1, ConcatProperties, Zenon
<1>4. \A q \in Seq(Nat), x \in Nat : h \o Append(q, x) = Append(h \o q, x)
  BY AppendLast, SMTT(30)
<1>6. Append(h \o r, e) = h \o Run(first, n + 1)
  BY <1>1, <1>2, <1>4, Zenon
<1> QED
  BY <1>3, <1>6, Zenon DEF r, e

\* An empty run adds nothing.
LEMMA RunEmpty ==
    ASSUME NEW h \in Seq(Nat), NEW first \in Nat PROVE h \o Run(first, 0) = h
<1>1. Run(first, 0) \in Seq(Nat) /\ Len(Run(first, 0)) = 0
  BY DEF Run
<1>2. Run(first, 0) = <<>>
  BY <1>1
<1> QED
  BY <1>2

HeadOf(up) == IF up.proxy_protocol THEN <<0>> ELSE <<>>

\* Nothing is taken before the backend is connected, and then what is taken
\* follows the header, but for the handshake.
StreamAt(s, up, h, t, g) ==
    /\ s \in {"new", "peek", "match", "connect", "connecting", "proxy"} => t = 0 /\ g = <<>>
    /\ s = "tls_accept" => up.tls /\ t = 0 /\ g = HeadOf(up)
    /\ s = "handover" => up.tls /\ t = h + 1 /\ g = HeadOf(up)
    /\ s = "splice" => ~up.tls /\ g = HeadOf(up) \o Run(1, t)
    /\ s = "transfer" => up.tls /\ t >= h + 1 /\ g = HeadOf(up) \o Run(h + 2, t - h - 1)

StreamInv(c) == StreamAt(stage[c], Up(c), hello[c], taken[c], got[c])

Stages == {"new", "peek", "match", "connect", "connecting", "proxy", "splice", "tls_accept",
           "handover", "transfer", "closed", "failed", "no_frame"}

Shapes ==
    /\ stage \in [Conn -> Stages] /\ hello \in [Conn -> Nat] /\ taken \in [Conn -> Nat]
    /\ upstream \in [Conn -> Nat]
    /\ DOMAIN got = Conn /\ got = [c \in Conn |-> got[c]]

ConnInv == Shapes /\ \A c \in Conn : StreamInv(c)

\* At first nothing is routed or taken.
LEMMA ConnInit == Init => ConnInv
<1> SUFFICES ASSUME Init PROVE ConnInv
  OBVIOUS
<1>1. hello \in [Conn -> Nat]
  BY DEF Init
<1>2. Shapes
  BY <1>1 DEF Init, Shapes, Stages
<1>3. ASSUME NEW c \in Conn PROVE StreamInv(c)
  <2>1. stage[c] = "new" /\ taken[c] = 0 /\ got[c] = <<>> /\ upstream[c] = 0
    BY DEF Init
  <2> QED
    BY <2>1 DEF StreamInv, StreamAt
<1> QED
  BY <1>2, <1>3 DEF ConnInv

\* What the invariant says after a step.
LEMMA StreamNext ==
    ASSUME NEW c
    PROVE  StreamInv(c)' <=> StreamAt(stage'[c], Up(c)', hello'[c], taken'[c], got'[c])
  BY DEF StreamInv, StreamAt, HeadOf, Run

\* A step that changes only the stage of one connection.
LEMMA ConnGoto ==
    ASSUME ConnInv, NEW c \in Conn, NEW s \in Stages, stage' = [stage EXCEPT ![c] = s],
           UNCHANGED <<taskVars, dataVars, clientVars>>,
           \/ s \in {"closed", "failed", "no_frame"}
           \/ /\ s \in {"peek", "match", "connecting", "proxy"}
              /\ stage[c] \in {"new", "peek", "connect", "connecting"}
    PROVE  ConnInv'
<1> USE DEF ConnInv, taskVars, dataVars, clientVars
<1>1. \A d \in Conn : stage'[d] = IF d = c THEN s ELSE stage[d]
  BY DEF Shapes
<1>2. Shapes'
  BY DEF Shapes
<1>3. ASSUME NEW d \in Conn PROVE StreamInv(d)'
  <2>2. /\ Up(d)' = Up(d) /\ taken'[d] = taken[d] /\ got'[d] = got[d]
        /\ hello'[d] = hello[d]
    BY DEF Up
  <2>3. CASE d = c
    <3>1. StreamAt(s, Up(c), hello[c], taken[c], got[c])
      BY DEF StreamInv, StreamAt
    <3>2. stage'[d] = s
      BY <1>1, <2>3
    <3> QED
      BY <2>2, <2>3, <3>1, <3>2, StreamNext, Zenon
  <2>4. CASE d # c
    <3>1. stage'[d] = stage[d]
      BY <1>1, <2>4
    <3>2. StreamAt(stage[d], Up(d), hello[d], taken[d], got[d])
      BY DEF StreamInv
    <3> QED
      BY <2>2, <3>1, <3>2, StreamNext, Zenon
  <2> QED
    BY <2>3, <2>4
<1> QED
  BY <1>2, <1>3

\* A step of one connection leaves the others as they are.
LEMMA ConnOne ==
    ASSUME ConnInv, Shapes', NEW c \in Conn, StreamInv(c)',
           \A d \in Conn : d # c =>
               /\ stage'[d] = stage[d] /\ upstream'[d] = upstream[d] /\ hello'[d] = hello[d]
               /\ taken'[d] = taken[d] /\ got'[d] = got[d] /\ context'[d] = context[d]
    PROVE  ConnInv'
<1> SUFFICES ASSUME NEW d \in Conn, d # c PROVE StreamInv(d)'
  BY DEF ConnInv
<1>1. /\ stage'[d] = stage[d] /\ upstream'[d] = upstream[d] /\ hello'[d] = hello[d]
      /\ taken'[d] = taken[d] /\ got'[d] = got[d] /\ context'[d] = context[d]
  OBVIOUS
<1>2. Up(d)' = Up(d)
  BY <1>1 DEF Up
<1>4. StreamAt(stage[d], Up(d), hello[d], taken[d], got[d])
  BY DEF StreamInv, ConnInv
<1>5. StreamInv(d)'
  BY <1>1, <1>2, <1>4, StreamNext, Zenon
<1> QED
  BY <1>5

\* Nothing is taken before a connection is routed.
LEMMA ConnRoute == ASSUME ConnInv, NEW c \in Conn, Route(c) PROVE ConnInv'
<1>1. /\ stage[c] = "match" /\ stage' = [stage EXCEPT ![c] = "connect"]
      /\ UNCHANGED <<taken, got, context, hello, sent>>
  BY DEF Route, Goto, dataVars, clientVars
<1>2. PICK u \in FindMatchingUpstream(c) : upstream' = [upstream EXCEPT ![c] = u]
  BY Zenon DEF Route
<1>3. u \in 1..Len(Upstreams) /\ u \in Nat
  BY DEF FindMatchingUpstream
<1>4. /\ upstream'[c] = u /\ stage'[c] = "connect" /\ Up(c)' = Upstreams[u]
      /\ \A d \in Conn : d # c => upstream'[d] = upstream[d] /\ stage'[d] = stage[d]
  BY <1>1, <1>2, <1>3 DEF ConnInv, Shapes, Up
<1>5. Shapes'
  BY <1>1, <1>2, <1>3 DEF ConnInv, Shapes, Stages
<1>7. StreamInv(c)'
  <2>1. taken[c] = 0 /\ got[c] = <<>>
    BY <1>1 DEF ConnInv, StreamInv, StreamAt
  <2> QED
    BY <1>1, <1>4, <2>1 DEF StreamInv, StreamAt
<1> QED
  BY <1>1, <1>4, <1>5, <1>7, ConnOne

\* The header goes first.
LEMMA ConnProxy == ASSUME ConnInv, NEW c \in Conn, SendProxy(c) PROVE ConnInv'
<1>1. /\ stage[c] = "proxy" /\ stage' = [stage EXCEPT ![c] = Mode(c)]
      /\ got' = [got EXCEPT ![c] = IF Up(c).proxy_protocol THEN Append(@, 0) ELSE @]
      /\ UNCHANGED <<upstream, taken, context, hello, sent>>
  BY DEF SendProxy, Goto, taskVars, clientVars
<1>2. taken[c] = 0 /\ got[c] = <<>>
  BY <1>1 DEF ConnInv, StreamInv, StreamAt
<1>3. got'[c] = HeadOf(Up(c)) /\ stage'[c] = Mode(c) /\ Up(c)' = Up(c)
  BY <1>1, <1>2 DEF ConnInv, Shapes, HeadOf, Up
<1>4. \A d \in Conn : d # c => got'[d] = got[d] /\ stage'[d] = stage[d]
  BY <1>1 DEF ConnInv, Shapes
<1>5. Shapes'
  BY <1>1, Zenon DEF ConnInv, Shapes, Stages, Mode
<1>7. HeadOf(Up(c)) \o Run(1, 0) = HeadOf(Up(c))
  <2>1. HeadOf(Up(c)) \in Seq(Nat)
    BY DEF HeadOf
  <2> QED
    BY <2>1, RunEmpty
<1>8. StreamAt(Mode(c), Up(c), hello[c], 0, HeadOf(Up(c)))
  BY <1>7 DEF StreamAt, Mode
<1>9. StreamInv(c)'
  <2>1. hello'[c] = hello[c] /\ taken'[c] = 0
    BY <1>1, <1>2
  <2> QED
    BY <1>3, <1>8, <2>1, StreamNext, Zenon
<1> QED
  BY <1>1, <1>4, <1>5, <1>9, ConnOne

\* What is appended does not matter for the shape of got.
LEMMA GotShape ==
    ASSUME Shapes, NEW c \in Conn, \E x : got' = [got EXCEPT ![c] = x]
    PROVE  DOMAIN got' = Conn /\ got' = [d \in Conn |-> got'[d]]
  BY DEF Shapes

\* The chunk that follows those of a connection is appended to them.
LEMMA ConnAppend ==
    ASSUME NEW up, NEW first \in Nat, NEW n \in Nat
    PROVE  Append(HeadOf(up) \o Run(first, n), first + n) = HeadOf(up) \o Run(first, n + 1)
<1>1. HeadOf(up) \in Seq(Nat)
  BY DEF HeadOf
<1> QED
  BY <1>1, RunGrows, Zenon

\* The handshake is not for the backend.
LEMMA ConnAccept == ASSUME ConnInv, NEW c \in Conn, TlsAccept(c) PROVE ConnInv'
<1>1. /\ stage[c] = "tls_accept" /\ stage' = [stage EXCEPT ![c] = "handover"]
      /\ taken' = [taken EXCEPT ![c] = hello[c] + 1]
      /\ UNCHANGED <<upstream, got, context, hello, sent>>
  BY DEF TlsAccept, Goto, taskVars, clientVars
<1>2. Up(c).tls /\ got[c] = HeadOf(Up(c)) /\ hello[c] \in Nat
  BY <1>1 DEF ConnInv, Shapes, StreamInv, StreamAt
<1>3. /\ stage'[c] = "handover" /\ taken'[c] = hello[c] + 1 /\ Up(c)' = Up(c)
      /\ got'[c] = got[c] /\ hello'[c] = hello[c]
      /\ \A d \in Conn : d # c => taken'[d] = taken[d] /\ stage'[d] = stage[d]
  BY <1>1 DEF ConnInv, Shapes, Up
<1>4. Shapes'
  BY <1>1, <1>2 DEF ConnInv, Shapes, Stages
<1>6. StreamAt("handover", Up(c), hello[c], hello[c] + 1, got[c])
  BY <1>2 DEF StreamAt
<1>7. StreamInv(c)'
  BY <1>3, <1>6, StreamNext, Zenon
<1> QED
  BY <1>1, <1>3, <1>4, <1>7, ConnOne

\* The drained chunk, if there is one, is the first after the handshake.
LEMMA ConnHandover == ASSUME ConnInv, NEW c \in Conn, Handover(c) PROVE ConnInv'
<1>1. /\ stage[c] = "handover" /\ stage' = [stage EXCEPT ![c] = "transfer"]
      /\ UNCHANGED <<upstream, context, hello, sent>>
  BY DEF Handover, Goto, taskVars, clientVars
<1>2. PICK t \in {taken[c], taken[c] + 1} :
         /\ taken' = [taken EXCEPT ![c] = t]
         /\ got' = [got EXCEPT ![c] = IF t = taken[c] THEN @ ELSE Append(@, t)]
  BY Zenon DEF Handover
<1> DEFINE h == hello[c]
           head == HeadOf(Up(c))
<1>3. Up(c).tls /\ taken[c] = h + 1 /\ got[c] = head /\ h \in Nat
  BY <1>1 DEF ConnInv, Shapes, StreamInv, StreamAt
<1>4. /\ stage'[c] = "transfer" /\ taken'[c] = t /\ Up(c)' = Up(c) /\ hello'[c] = h
      /\ got'[c] = IF t = taken[c] THEN head ELSE Append(head, t)
      /\ \A d \in Conn : d # c => taken'[d] = taken[d] /\ stage'[d] = stage[d] /\ got'[d] = got[d]
  BY <1>1, <1>2, <1>3 DEF ConnInv, Shapes, Up
<1>5. Shapes'
  <2>1. DOMAIN got' = Conn /\ got' = [d \in Conn |-> got'[d]]
    BY <1>2, GotShape, Zenon DEF ConnInv
  <2>2. taken' \in [Conn -> Nat]
    BY <1>2, <1>3 DEF ConnInv, Shapes
  <2> QED
    BY <1>1, <2>1, <2>2, Zenon DEF ConnInv, Shapes, Stages
<1> HIDE DEF h, head
<1>7. head \o Run(h + 2, 0) = head /\ Append(head, h + 2) = head \o Run(h + 2, 1)
  <2>1. head \in Seq(Nat)
    BY DEF HeadOf, head
  <2>2. head \o Run(h + 2, 0) = head
    BY <1>3, <2>1, RunEmpty, SMTT(30)
  <2>3. h + 2 \in Nat /\ 0 \in Nat /\ (h + 2) + 0 = h + 2 /\ 0 + 1 = 1
    BY <1>3
  <2>4. Append(head \o Run(h + 2, 0), (h + 2) + 0) = head \o Run(h + 2, 0 + 1)
    BY <2>1, <2>3, RunGrows, Zenon
  <2> QED
    BY <2>2, <2>3, <2>4
<1>8. StreamAt("transfer", Up(c), h, t, got'[c])
  <2>1. CASE t = taken[c]
    <3>1. t >= h + 1 /\ t - h - 1 = 0 /\ got'[c] = head
      BY <1>3, <1>4, <2>1
    <3> QED
      BY <1>3, <1>7, <3>1 DEF StreamAt, head
  <2>2. CASE t # taken[c]
    <3>1. t >= h + 1 /\ t - h - 1 = 1 /\ t = h + 2 /\ got'[c] = Append(head, h + 2)
      BY <1>2, <1>3, <1>4, <2>2
    <3> QED
      BY <1>3, <1>7, <3>1, Zenon DEF StreamAt, head
  <2> QED
    BY <2>1, <2>2
<1>9. StreamInv(c)'
  BY <1>4, <1>8, StreamNext, Zenon
<1> QED
  BY <1>1, <1>4, <1>5, <1>9, ConnOne

\* The next chunk is forwarded.
LEMMA ConnForward == ASSUME ConnInv, NEW c \in Conn, Forward(c) PROVE ConnInv'
<1> DEFINE h == hello[c]
           t == taken[c]
           head == HeadOf(Up(c))
<1>1. /\ stage[c] \in {"splice", "transfer"}
      /\ taken' = [taken EXCEPT ![c] = t + 1]
      /\ got' = [got EXCEPT ![c] = Append(@, t + 1)]
      /\ UNCHANGED <<stage, upstream, context, hello, sent>>
  BY DEF Forward, taskVars, clientVars
<1>2. h \in Nat /\ t \in Nat
  BY DEF ConnInv, Shapes
<1>3. /\ taken'[c] = t + 1 /\ got'[c] = Append(got[c], t + 1) /\ Up(c)' = Up(c)
      /\ hello'[c] = h /\ stage'[c] = stage[c]
      /\ \A d \in Conn : d # c => taken'[d] = taken[d] /\ got'[d] = got[d]
  BY <1>1 DEF ConnInv, Shapes, Up
<1>4. Shapes'
  <2>1. DOMAIN got' = Conn /\ got' = [d \in Conn |-> got'[d]]
    BY <1>1, GotShape, Zenon DEF ConnInv
  <2>2. taken' \in [Conn -> Nat]
    BY <1>1, <1>2 DEF ConnInv, Shapes
  <2> QED
    BY <1>1, <2>1, <2>2 DEF ConnInv, Shapes
<1>6. StreamAt(stage[c], Up(c), h, t, got[c])
  BY DEF ConnInv, StreamInv
<1> HIDE DEF h, t, head
<1>7. StreamAt(stage[c], Up(c), h, t + 1, Append(got[c], t + 1))
  <2>1. CASE stage[c] = "splice"
    <3>1. ~Up(c).tls /\ got[c] = head \o Run(1, t)
      BY <1>6, <2>1 DEF StreamAt, head
    <3>2. 1 + t = t + 1
      BY <1>2
    <3>3. Append(head \o Run(1, t), 1 + t) = head \o Run(1, t + 1)
      BY <1>2, ConnAppend, Zenon DEF head
    <3> QED
      BY <2>1, <3>1, <3>2, <3>3, Zenon DEF StreamAt, head
  <2>2. CASE stage[c] = "transfer"
    <3>1. Up(c).tls /\ t >= h + 1 /\ got[c] = head \o Run(h + 2, t - h - 1)
      BY <1>6, <2>2 DEF StreamAt, head
    <3>2. PICK n \in Nat : n = t - h - 1
      BY <1>2, <3>1
    <3>3. /\ (h + 2) + n = t + 1 /\ (t + 1) - h - 1 = n + 1 /\ t + 1 >= h + 1 /\ h + 2 \in Nat
      BY <1>2, <3>1, <3>2
    <3>4. Append(head \o Run(h + 2, n), (h + 2) + n) = head \o Run(h + 2, n + 1)
      BY <3>3, ConnAppend, Zenon DEF head
    <3>5. Append(got[c], t + 1) = head \o Run(h + 2, (t + 1) - h - 1)
      BY <3>1, <3>2, <3>3, <3>4, Zenon
    <3> QED
      BY <2>2, <3>1, <3>3, <3>5, Zenon DEF StreamAt, head
  <2> QED
    BY <1>1, <2>1, <2>2
<1>8. StreamInv(c)'
  BY <1>3, <1>7, StreamNext, Zenon
<1> QED
  BY <1>1, <1>3, <1>4, <1>8, ConnOne

\* Every step keeps the invariant.
LEMMA ConnStep == ConnInv /\ [Next]_vars => ConnInv'
<1> SUFFICES ASSUME ConnInv, [Next]_vars PROVE ConnInv'
  OBVIOUS
<1>1. ASSUME NEW c \in Conn,
             Route(c) \/ SendProxy(c) \/ TlsAccept(c) \/ Handover(c) \/ Forward(c)
      PROVE  ConnInv'
  BY <1>1, ConnRoute, ConnProxy, ConnAccept, ConnHandover, ConnForward
<1>2. ASSUME NEW c \in Conn,
             \/ Start(c) \/ Peek(c) \/ NoMatch(c) \/ Connect(c) \/ Connected(c)
             \/ ConnectTimeout(c) \/ Fail(c) \/ Finish(c) \/ MaxDuration(c)
      PROVE  ConnInv'
  BY <1>2, ConnGoto
     DEF Start, Peek, NoMatch, Connect, Connected, ConnectTimeout, Fail, Finish, MaxDuration,
         Goto, Stages
<1>3. CASE UNCHANGED vars \/ \E c \in Conn : ClientSends(c)
  <2>1. UNCHANGED <<stage, upstream, hello, taken, got, context>>
    BY <1>3 DEF vars, ClientSends, taskVars, dataVars, clientVars
  <2>2. Shapes'
    BY <2>1 DEF ConnInv, Shapes
  <2>4. ASSUME NEW c \in Conn PROVE StreamInv(c)'
    BY <2>1, ZenonT(30) DEF ConnInv, StreamInv, StreamAt, Up, HeadOf, Run
  <2> QED
    BY <2>2, <2>4 DEF ConnInv
<1> QED
  BY <1>1, <1>2, <1>3 DEF Next, TaskStep

\* The backend is sent the header and then the client's stream without a gap.
THEOREM WholeStream == Spec => []BackendSeesWholeStream
<1>1. ConnInv => BackendSeesWholeStream
  <2> SUFFICES ASSUME ConnInv, NEW c \in Conn, stage[c] \in {"splice", "transfer"}
               PROVE  LET first == IF Up(c).tls THEN hello[c] + 2 ELSE 1
                          head == IF Up(c).proxy_protocol THEN <<0>> ELSE <<>>
                      IN got[c] = head \o [k \in 1..(taken[c] - first + 1) |-> first + k - 1]
    BY Zenon DEF BackendSeesWholeStream
  <2>1. StreamAt(stage[c], Up(c), hello[c], taken[c], got[c]) /\ taken[c] \in Nat /\ hello[c] \in Nat
    BY DEF ConnInv, StreamInv, Shapes
  <2>2. CASE stage[c] = "splice"
    <3>1. ~Up(c).tls /\ got[c] = HeadOf(Up(c)) \o Run(1, taken[c])
      BY <2>1, <2>2 DEF StreamAt
    <3>2. taken[c] - 1 + 1 = taken[c]
      BY <2>1
    <3> QED
      BY <3>1, <3>2, Zenon DEF HeadOf, Run
  <2>3. CASE stage[c] = "transfer"
    <3>1. Up(c).tls /\ got[c] = HeadOf(Up(c)) \o Run(hello[c] + 2, taken[c] - hello[c] - 1)
      BY <2>1, <2>3 DEF StreamAt
    <3>2. taken[c] - (hello[c] + 2) + 1 = taken[c] - hello[c] - 1
      BY <2>1
    <3> QED
      BY <3>1, <3>2, Zenon DEF HeadOf, Run
  <2> QED
    BY <2>2, <2>3, Zenon
<1> QED
  BY <1>1, ConnInit, ConnStep, PTL DEF Spec
-----------------------------------------------------------------------------
(***************************************************************************)
(* The types of the variables.  A connection has no upstream before it is  *)
(* routed.                                                                 *)
(***************************************************************************)
TypeInv ==
    /\ TypeOK
    /\ \A c \in Conn : stage[c] \in {"new", "peek", "match"} => upstream[c] = 0

\* The types hold at first.
LEMMA TypeInit == Init => TypeInv
<1> SUFFICES ASSUME Init PROVE TypeInv
  OBVIOUS
<1> USE RuleAssumption DEF Init
<1>1. hello \in [Conn -> 0..(PeekSize + 1)]
  <2>1. (IF Tls THEN 1..(PeekSize + 1) ELSE {0}) \subseteq 0..(PeekSize + 1)
    OBVIOUS
  <2> QED
    BY <2>1, Zenon
<1>2. 0 \in 0..MaxChunks /\ 0 \in 0..Len(Upstreams) /\ 0 \in 0..(Modulus - 1) /\ 0 \in Nat /\ 0 <= 0
  OBVIOUS
<1>3. <<>> \in Seq(0..MaxChunks)
  OBVIOUS
<1> QED
  BY <1>1, <1>2, <1>3, Zenon DEF TypeInv, TypeOK

\* A remainder is less than its divisor.
LEMMA Remainder == \A n \in Nat, m \in Nat \ {0} : n % m \in 0..(m - 1)
  OBVIOUS

\* A connection is given a backend of its upstream, and the counter advances.
LEMMA TypeRoute == ASSUME TypeInv, NEW c \in Conn, Route(c) PROVE TypeInv'
<1> USE RuleAssumption DEF TypeInv, TypeOK
<1>1. /\ stage' = [stage EXCEPT ![c] = "connect"]
      /\ UNCHANGED <<taken, got, context, hello, sent>>
  BY Zenon DEF Route, Goto, dataVars, clientVars
<1>2. PICK u \in FindMatchingUpstream(c) :
         /\ upstream' = [upstream EXCEPT ![c] = u]
         /\ \E b \in PickBackend(u) : backend' = [backend EXCEPT ![c] = b + 1]
         /\ FetchAdd(u)
  BY Zenon DEF Route
<1>3. PICK b \in PickBackend(u) : backend' = [backend EXCEPT ![c] = b + 1]
  BY <1>2, Zenon
<1>4. u \in 1..Len(Upstreams) /\ u \in 0..Len(Upstreams) /\ Upstreams[u].backends \in Nat \ {0}
  BY DEF FindMatchingUpstream, UpstreamConfig
<1>5. ix[u] \in 0..(Modulus - 1)
  BY <1>4, Zenon
<1>6. ix[u] \in Nat /\ ix[u] + 1 \in Nat
  <2> HIDE DEF TypeInv
  <2> QED
    BY <1>5
<1>7. b \in 0..(Upstreams[u].backends - 1)
  <2>1. ix[u] % Upstreams[u].backends \in 0..(Upstreams[u].backends - 1)
    BY <1>4, <1>6, Remainder, Zenon
  <2> QED
    BY <1>3, <2>1, Zenon DEF PickBackend
<1>8. b + 1 \in 1..Upstreams[u].backends /\ b + 1 \in Nat
  BY <1>4, <1>7
<1>9. upstream' \in [Conn -> 0..Len(Upstreams)] /\ backend' \in [Conn -> Nat]
  BY <1>3, <1>2, <1>4, <1>8, Zenon
<1>10. ix' \in [1..Len(Upstreams) -> 0..(Modulus - 1)]
  <2>1. (ix[u] + 1) % Modulus \in 0..(Modulus - 1)
    BY <1>6, Remainder, Zenon
  <2> QED
    BY <1>2, <2>1, Zenon DEF FetchAdd
<1>11. ASSUME NEW d \in Conn, upstream'[d] # 0 PROVE backend'[d] \in 1..(Up(d)').backends
  <2>1. CASE d = c
    BY <1>3, <1>2, <1>8, <2>1, Zenon DEF Up
  <2>2. CASE d # c
    <3>1. upstream'[d] = upstream[d] /\ backend'[d] = backend[d]
      BY <1>3, <1>2, <2>2, Zenon
    <3> QED
      BY <1>11, <3>1, Zenon DEF Up
  <2> QED
    BY <2>1, <2>2
<1>12. /\ \A d \in Conn : stage'[d] = IF d = c THEN "connect" ELSE stage[d]
      /\ \A d \in Conn : d # c => upstream'[d] = upstream[d]
  BY <1>1, <1>2, Zenon
<1>13. \A d \in Conn : stage'[d] \in {"new", "peek", "match"} => upstream'[d] = 0
  BY <1>12, Zenon
<1>14. stage' \in [Conn -> {"new", "peek", "match", "connect", "connecting", "proxy",
                           "splice", "tls_accept", "handover", "transfer", "closed", "failed", "no_frame"}]
  BY <1>1, Zenon
<1> QED
  BY <1>1, <1>9, <1>10, <1>11, <1>13, <1>14, Zenon

\* A step of one connection that is not routed.
LEMMA TypeOther ==
    ASSUME TypeInv, NEW c \in Conn, NEW s \in Stages, stage' = [stage EXCEPT ![c] = s],
           s \in {"new", "peek", "match"} => upstream[c] = 0,
           NEW t \in Nat, taken' = [taken EXCEPT ![c] = t],
           NEW n \in 0..MaxChunks, sent' = [sent EXCEPT ![c] = n], t <= n,
           NEW g \in Seq(0..MaxChunks), got' = [got EXCEPT ![c] = g],
           UNCHANGED <<context, hello, upstream, backend, ix>>
    PROVE  TypeInv'
<1> USE RuleAssumption DEF TypeInv, TypeOK
<1>1. t \in 0..MaxChunks
  OBVIOUS
<1>2. /\ taken' \in [Conn -> 0..MaxChunks] /\ sent' \in [Conn -> 0..MaxChunks]
      /\ got' \in [Conn -> Seq(0..MaxChunks)]
  BY <1>1, Zenon
<1>3. stage' \in [Conn -> {"new", "peek", "match", "connect", "connecting", "proxy",
                           "splice", "tls_accept", "handover", "transfer", "closed", "failed", "no_frame"}]
  BY Zenon DEF Stages
<1>4. \A d \in Conn : taken'[d] <= sent'[d]
  BY Zenon
<1>5. \A d \in Conn : stage'[d] \in {"new", "peek", "match"} => upstream'[d] = 0
  BY Zenon
<1>6. \A d \in Conn : upstream'[d] # 0 => backend'[d] \in 1..(Up(d)').backends
  BY Zenon DEF Up
<1> QED
  BY <1>2, <1>3, <1>4, <1>5, <1>6, Zenon

\* The same when only the stage changes.
LEMMA TypeGoto ==
    ASSUME TypeInv, NEW c \in Conn, NEW s \in Stages, stage' = [stage EXCEPT ![c] = s],
           s \in {"new", "peek", "match"} => upstream[c] = 0,
           UNCHANGED <<taskVars, dataVars, clientVars>>
    PROVE  TypeInv'
<1>1. /\ taken[c] \in Nat /\ taken[c] <= sent[c] /\ sent[c] \in 0..MaxChunks
      /\ got[c] \in Seq(0..MaxChunks)
  BY DEF TypeInv, TypeOK
<1>2. /\ taken' = [taken EXCEPT ![c] = taken[c]] /\ sent' = [sent EXCEPT ![c] = sent[c]]
      /\ got' = [got EXCEPT ![c] = got[c]] /\ UNCHANGED <<context, hello, upstream, backend, ix>>
  BY Zenon DEF TypeInv, TypeOK, taskVars, dataVars, clientVars
<1> QED
  BY <1>1, <1>2, TypeOther, Zenon

\* What a connection takes or is sent stays within the bound.
LEMMA TypeData ==
    ASSUME TypeInv, NEW c \in Conn,
           SendProxy(c) \/ TlsAccept(c) \/ Handover(c) \/ Forward(c) \/ ClientSends(c)
    PROVE  TypeInv'
<1> USE RuleAssumption
<1>1. /\ taken[c] \in Nat /\ taken[c] <= sent[c] /\ sent[c] \in 0..MaxChunks /\ hello[c] \in Nat
      /\ got[c] \in Seq(0..MaxChunks) /\ stage[c] \in Stages
      /\ stage[c] \in {"new", "peek", "match"} => upstream[c] = 0
  <2>1. /\ taken[c] \in 0..MaxChunks /\ taken[c] <= sent[c] /\ sent[c] \in 0..MaxChunks
        /\ hello[c] \in 0..(PeekSize + 1) /\ got[c] \in Seq(0..MaxChunks) /\ stage[c] \in Stages
        /\ stage[c] \in {"new", "peek", "match"} => upstream[c] = 0
    BY Zenon DEF TypeInv, TypeOK, Stages
  <2>2. taken[c] \in Nat /\ hello[c] \in Nat
    BY <2>1
  <2> QED
    BY <2>1, <2>2, Zenon
<1>2. /\ stage = [stage EXCEPT ![c] = stage[c]] /\ taken = [taken EXCEPT ![c] = taken[c]]
      /\ sent = [sent EXCEPT ![c] = sent[c]] /\ got = [got EXCEPT ![c] = got[c]]
  BY Zenon DEF TypeInv, TypeOK
<1> USE DEF taskVars, dataVars, clientVars, Goto
<1>3. CASE SendProxy(c)
  <2>1. PICK g \in Seq(0..MaxChunks) : got' = [got EXCEPT ![c] = g]
    <3>1. Append(got[c], 0) \in Seq(0..MaxChunks)
      BY <1>1
    <3> QED
      BY <1>1, <1>3, <3>1, Zenon DEF SendProxy
  <2>2. Mode(c) \in Stages /\ Mode(c) \notin {"new", "peek", "match"}
    BY Zenon DEF Mode, Stages
  <2> QED
    BY <1>1, <1>2, <1>3, <2>1, <2>2, TypeOther, Zenon DEF SendProxy
<1>4. CASE TlsAccept(c)
  <2>1. hello[c] + 1 \in Nat /\ hello[c] + 1 <= sent[c]
    BY <1>1, <1>4 DEF TlsAccept
  <2> QED
    BY <1>1, <1>2, <1>4, <2>1, TypeOther, Zenon DEF TlsAccept, Stages
<1>5. CASE Handover(c)
  <2>1. PICK t \in {taken[c], taken[c] + 1} :
           /\ t <= sent[c] /\ taken' = [taken EXCEPT ![c] = t]
           /\ got' = [got EXCEPT ![c] = IF t = taken[c] THEN @ ELSE Append(@, t)]
    BY <1>5, Zenon DEF Handover
  <2>2. t \in Nat /\ t \in 0..MaxChunks
    <3>1. taken[c] \in Nat /\ sent[c] \in 0..MaxChunks
      BY <1>1, Zenon
    <3>2. (t = taken[c] \/ t = taken[c] + 1) /\ t <= sent[c]
      BY <2>1, Zenon
    <3> QED
      BY <3>1, <3>2
  <2>3. Append(got[c], t) \in Seq(0..MaxChunks)
    BY <1>1, <2>2
  <2>4. PICK g \in Seq(0..MaxChunks) : got' = [got EXCEPT ![c] = g]
    BY <1>1, <2>1, <2>3, Zenon
  <2> QED
    BY <1>1, <1>2, <1>5, <2>1, <2>2, <2>4, TypeOther, Zenon DEF Handover, Stages
<1>6. CASE Forward(c)
  <2>1. taken[c] + 1 \in Nat /\ taken[c] + 1 <= sent[c] /\ taken[c] + 1 \in 0..MaxChunks
    BY <1>1, <1>6 DEF Forward
  <2>2. Append(got[c], taken[c] + 1) \in Seq(0..MaxChunks)
    BY <1>1, <2>1
  <2> QED
    BY <1>1, <1>2, <1>6, <2>1, <2>2, TypeOther, Zenon DEF Forward
<1>7. CASE ClientSends(c)
  <2>1. sent[c] + 1 \in 0..MaxChunks /\ taken[c] <= sent[c] + 1
    BY <1>1, <1>7 DEF ClientSends
  <2> QED
    BY <1>1, <1>2, <1>7, <2>1, TypeOther, Zenon DEF ClientSends
<1> QED
  BY <1>3, <1>4, <1>5, <1>6, <1>7

\* Every step keeps the types.
LEMMA TypeStep == TypeInv /\ [Next]_vars => TypeInv'
<1> SUFFICES ASSUME TypeInv, [Next]_vars PROVE TypeInv'
  OBVIOUS
<1>1. ASSUME NEW c \in Conn, Start(c) \/ Peek(c) PROVE TypeInv'
  <2>1. upstream[c] = 0
    BY <1>1, Zenon DEF TypeInv, Start, Peek
  <2> QED
    BY <1>1, <2>1, TypeGoto, Zenon DEF Start, Peek, Goto, Stages
<1>2. ASSUME NEW c \in Conn,
             \/ NoMatch(c) \/ Connect(c) \/ Connected(c)
             \/ ConnectTimeout(c) \/ Fail(c) \/ Finish(c) \/ MaxDuration(c)
      PROVE  TypeInv'
  BY <1>2, TypeGoto
     DEF NoMatch, Connect, Connected, ConnectTimeout, Fail, Finish, MaxDuration, Goto, Stages
<1>3. CASE UNCHANGED vars
  <2>1. UNCHANGED <<stage, context, hello, sent, taken, upstream, backend, ix, got>>
    BY <1>3, Zenon DEF vars, taskVars, dataVars, clientVars
  <2> QED
    BY <2>1, Zenon DEF TypeInv, TypeOK, Up
<1> QED
  BY <1>1, <1>2, <1>3, TypeRoute, TypeData, Zenon DEF Next, TaskStep

\* Every variable has its type: no more is taken than was sent, the backend chosen
\* is one of the upstream's, and the counters stay within their width, for every rule and any connections.
THEOREM ConnectionTypes == Spec => []TypeOK
<1>1. TypeInv => TypeOK
  BY Zenon DEF TypeInv
<1> QED
  BY <1>1, TypeInit, TypeStep, PTL DEF Spec
-----------------------------------------------------------------------------
(***************************************************************************)
(* The round robin.  The n-th connection of an upstream is given the       *)
(* backend n % m of m; with n connections the first n % m backends have    *)
(* one connection more than the others, and the counter is n, until it     *)
(* wraps.                                                                  *)
(***************************************************************************)
\* Two numbers that differ by a multiple of m and are less than m are equal.
LEMMA RemainderUnique ==
    ASSUME NEW m \in Nat \ {0}, NEW a \in Int, NEW b \in Int, NEW r \in 0..(m-1), NEW s \in 0..(m-1),
           m * a + r = m * b + s
    PROVE  r = s
<1>1. m * (a - b) = s - r
  OBVIOUS
<1>2. CASE a = b
  BY <1>2
<1>3. CASE a - b >= 1
  <2>1. m * (a - b) >= m * 1
    BY <1>3
  <2> QED
    BY <1>1, <2>1
<1>4. CASE a - b <= -1
  <2>1. m * (a - b) <= m * (-1)
    BY <1>4
  <2> QED
    BY <1>1, <2>1
<1> QED
  BY <1>2, <1>3, <1>4

\* The remainders go up by one, and start over.
LEMMA NextRemainder ==
    ASSUME NEW n \in Nat, NEW m \in Nat \ {0}
    PROVE  (n + 1) % m = IF n % m = m - 1 THEN 0 ELSE (n % m) + 1
<1>1. PICK q \in Int, r \in 0..(m - 1) : n = m * q + r /\ r = n % m
  OBVIOUS
<1>2. PICK p \in Int, s \in 0..(m - 1) : n + 1 = m * p + s /\ s = (n + 1) % m
  <2>1. \A k \in Nat : \E p \in Int, s \in 0..(m - 1) : k = m * p + s /\ s = k % m
    OBVIOUS
  <2>2. n + 1 \in Nat
    OBVIOUS
  <2> QED
    BY <2>1, <2>2, Zenon
<1>3. CASE r = m - 1
  <2>1. m * (q + 1) = m * q + m
    OBVIOUS
  <2>2. m * (q + 1) + 0 = m * p + s
    <3>1. n = m * q + r /\ n + 1 = m * p + s
      BY <1>1, <1>2, Zenon
    <3>2. m * q \in Int /\ m * p \in Int
      OBVIOUS
    <3> QED
      BY <1>3, <2>1, <3>1, <3>2
  <2>3. s = 0
    BY <2>2, RemainderUnique
  <2> QED
    BY <1>1, <1>2, <1>3, <2>3
<1>4. CASE r # m - 1
  <2>1. m * q + (r + 1) = m * p + s /\ r + 1 \in 0..(m - 1)
    BY <1>1, <1>2, <1>4
  <2>2. s = r + 1
    BY <2>1, RemainderUnique
  <2> QED
    BY <1>1, <1>2, <1>4, <2>2
<1> QED
  BY <1>3, <1>4

\* A number is its own remainder by a greater one.
LEMMA SmallRemainder == ASSUME NEW m \in Nat \ {0}, NEW n \in 0..(m - 1) PROVE n % m = n
  OBVIOUS

\* How n connections, with the counter at i, spread over m backends.
EvenAt(n, i, m, p) ==
    /\ n < Modulus => i = n
    /\ n <= Modulus => \E q \in Nat : \A b \in 1..m : p[b] = IF b <= n % m THEN q + 1 ELSE q

\* One more connection is given the backend the counter points at.
LEMMA EvenNext ==
    ASSUME NEW n \in Nat, NEW i \in Nat, NEW m \in Nat \ {0}, NEW p \in [1..m -> Nat],
           EvenAt(n, i, m, p)
    PROVE  EvenAt(n + 1, (i + 1) % Modulus, m, [p EXCEPT ![(i % m) + 1] = @ + 1])
<1> USE RuleAssumption
<1> DEFINE r == [p EXCEPT ![(i % m) + 1] = @ + 1]
<1>1. ASSUME n + 1 < Modulus PROVE (i + 1) % Modulus = n + 1
  <2>1. i = n /\ n + 1 \in 0..(Modulus - 1)
    BY <1>1 DEF EvenAt
  <2> QED
    BY <2>1, SmallRemainder, Zenon
<1>2. ASSUME n + 1 <= Modulus
      PROVE  \E q \in Nat : \A b \in 1..m : r[b] = IF b <= (n + 1) % m THEN q + 1 ELSE q
  <2>1. i = n
    BY <1>2 DEF EvenAt
  <2>2. PICK q \in Nat : \A b \in 1..m : p[b] = IF b <= n % m THEN q + 1 ELSE q
    BY <1>2 DEF EvenAt
  <2>3. PICK k \in 0..(m - 1) : k = n % m
    BY Remainder
  <2>4. (n + 1) % m = IF k = m - 1 THEN 0 ELSE k + 1
    BY <2>3, NextRemainder
  <2>5. \A b \in 1..m : r[b] = IF b = k + 1 THEN p[b] + 1 ELSE p[b]
    BY <2>1, <2>3
  <2>6. \A b \in 1..m : p[b] = IF b <= k THEN q + 1 ELSE q
    BY <2>2, <2>3
  <2> HIDE DEF r
  <2>7. CASE k = m - 1
    <3>1. \A b \in 1..m : r[b] = q + 1
      BY <2>5, <2>6, <2>7
    <3>2. (n + 1) % m = 0
      BY <2>4, <2>7
    <3>3. q + 1 \in Nat /\ \A b \in 1..m : ~(b <= 0)
      OBVIOUS
    <3>4. \A b \in 1..m : r[b] = IF b <= 0 THEN (q + 1) + 1 ELSE q + 1
      BY <3>1, <3>3, Zenon
    <3> QED
      BY <3>2, <3>3, <3>4, Zenon
  <2>8. CASE k # m - 1
    <3>1. \A b \in 1..m : r[b] = IF b <= k + 1 THEN q + 1 ELSE q
      BY <2>5, <2>6, <2>8
    <3>2. (n + 1) % m = k + 1
      BY <2>4, <2>8
    <3> QED
      BY <3>1, <3>2, Zenon
  <2> QED
    BY <2>7, <2>8
<1> QED
  BY <1>1, <1>2 DEF EvenAt

\* How the connections of an upstream are spread over its backends.
PickedOf(u, b) == {c \in Routed(u) : backend[c] = b}
PicksOf(u) == [b \in 1..Upstreams[u].backends |-> Cardinality(PickedOf(u, b))]

EvenInv ==
    \A u \in 1..Len(Upstreams) : Upstreams[u].lb = "RoundRobin" =>
        EvenAt(Cardinality(Routed(u)), ix[u], Upstreams[u].backends, PicksOf(u))

\* Counts of connections are numbers.
LEMMA Counts ==
    ASSUME NEW S \in SUBSET Conn
    PROVE  /\ Cardinality(S) \in Nat
           /\ \A c \in Conn \ S : Cardinality(S \cup {c}) = Cardinality(S) + 1
<1>1. IsFiniteSet(S)
  BY ConnAssumption, FS_Subset, Zenon
<1>2. Cardinality(S) \in Nat
  BY <1>1, FS_CardinalityType, Zenon
<1>3. ASSUME NEW c \in Conn \ S PROVE Cardinality(S \cup {c}) = Cardinality(S) + 1
  BY <1>1, <1>3, FS_AddElement, Zenon
<1> QED
  BY <1>2, <1>3, Zenon

\* No connection has a backend at first.
LEMMA EvenInit == Init => EvenInv
<1> SUFFICES ASSUME Init, NEW u \in 1..Len(Upstreams)
             PROVE  EvenAt(Cardinality(Routed(u)), ix[u], Upstreams[u].backends, PicksOf(u))
  BY Zenon DEF EvenInv
<1> USE RuleAssumption
<1>1. Upstreams[u].backends \in Nat \ {0}
  BY DEF UpstreamConfig
<1>2. Routed(u) = {}
  <2>1. u # 0
    OBVIOUS
  <2> QED
    BY <2>1, Zenon DEF Init, Routed
<1>3. Cardinality({}) = 0
  BY FS_EmptySet, Zenon
<1>4. \A b : PickedOf(u, b) = {}
  BY <1>2, Zenon DEF PickedOf
<1>5. \A b \in 1..Upstreams[u].backends : PicksOf(u)[b] = 0
  BY <1>3, <1>4, Zenon DEF PicksOf
<1>6. 0 % Upstreams[u].backends = 0
  BY <1>1, SmallRemainder
<1>7. ix[u] = 0
  BY Zenon DEF Init
<1>8. \A b \in 1..Upstreams[u].backends : ~(b <= 0)
  BY <1>1
<1>9. \A b \in 1..Upstreams[u].backends :
         PicksOf(u)[b] = IF b <= 0 % Upstreams[u].backends THEN 0 + 1 ELSE 0
  BY <1>5, <1>6, <1>8, Zenon
<1>10. 0 \in Nat
  OBVIOUS
<1> QED
  BY <1>2, <1>3, <1>7, <1>9, <1>10, Zenon DEF EvenAt

\* A step that leaves the routes and the counters alone leaves the spread.
LEMMA EvenSame == EvenInv /\ UNCHANGED <<upstream, backend, ix>> => EvenInv'
<1> SUFFICES ASSUME EvenInv, upstream' = upstream, backend' = backend, ix' = ix PROVE EvenInv'
  BY Zenon
<1>1. \A u : Routed(u)' = Routed(u)
  BY Zenon DEF Routed
<1>2. \A u, b : PickedOf(u, b)' = PickedOf(u, b)
  BY <1>1, Zenon DEF PickedOf
<1>3. \A u : PicksOf(u)' = PicksOf(u)
  BY <1>2, Zenon DEF PicksOf
<1> QED
  BY <1>1, <1>3, Zenon DEF EvenInv

\* Route gives one connection to the backend the counter of its upstream points at.
LEMMA EvenRoute ==
    ASSUME TypeInv, EvenInv, NEW c \in Conn, Route(c)
    PROVE  EvenInv'
<1> USE RuleAssumption
<1>1. PICK u \in FindMatchingUpstream(c) :
        /\ upstream' = [upstream EXCEPT ![c] = u]
        /\ \E b \in PickBackend(u) : backend' = [backend EXCEPT ![c] = b + 1]
        /\ FetchAdd(u)
  BY Zenon DEF Route
<1>2. PICK b0 \in PickBackend(u) : backend' = [backend EXCEPT ![c] = b0 + 1]
  BY <1>1, Zenon
<1>3. u \in 1..Len(Upstreams)
  BY Zenon DEF FindMatchingUpstream
<1>4. upstream[c] = 0 /\ upstream \in [Conn -> 0..Len(Upstreams)] /\ backend \in [Conn -> Nat]
  BY Zenon DEF Route, TypeInv, TypeOK
<1>5. ix \in [1..Len(Upstreams) -> 0..(Modulus - 1)]
  BY Zenon DEF TypeInv, TypeOK
<1>6. \A d \in Conn : /\ upstream'[d] = IF d = c THEN u ELSE upstream[d]
                      /\ backend'[d] = IF d = c THEN b0 + 1 ELSE backend[d]
  BY <1>1, <1>2, <1>4, Zenon
<1> SUFFICES ASSUME NEW v \in 1..Len(Upstreams), Upstreams[v].lb = "RoundRobin"
             PROVE  EvenAt(Cardinality(Routed(v)'), ix'[v], Upstreams[v].backends, PicksOf(v)')
  BY Zenon DEF EvenInv
<1>7. v # 0
  OBVIOUS
<1>8. c \notin Routed(v) /\ Routed(v) \in SUBSET Conn
  BY <1>4, <1>7, Zenon DEF Routed
<1>9. EvenAt(Cardinality(Routed(v)), ix[v], Upstreams[v].backends, PicksOf(v))
  BY Zenon DEF EvenInv
<1>10. CASE v # u
  <2>1. Routed(v)' = Routed(v)
    BY <1>4, <1>6, <1>7, <1>10, Zenon DEF Routed
  <2>2. \A b : PickedOf(v, b)' = PickedOf(v, b)
    BY <1>6, <1>8, <2>1, Zenon DEF PickedOf
  <2>3. PicksOf(v)' = PicksOf(v)
    BY <2>2, Zenon DEF PicksOf
  <2>4. ix'[v] = ix[v]
    BY <1>1, <1>3, <1>5, <1>10, Zenon DEF FetchAdd
  <2> QED
    BY <1>9, <2>1, <2>3, <2>4, Zenon
<1>11. CASE v = u
  <2> DEFINE m == Upstreams[v].backends
             i == ix[v]
             n == Cardinality(Routed(v))
             p == PicksOf(v)
  <2>1. m \in Nat \ {0}
    BY DEF UpstreamConfig
  <2>2. i \in Nat
    BY <1>5
  <2>3. ix'[v] = (i + 1) % Modulus
    BY <1>1, <1>3, <1>5, <1>11, Zenon DEF FetchAdd
  <2>4. b0 = i % m
    BY <1>11, Zenon DEF PickBackend
  <2>5. n \in Nat
    BY <1>8, Counts, Zenon
  <2>6. \A b : PickedOf(v, b) \in SUBSET Conn /\ c \notin PickedOf(v, b)
    BY <1>8, Zenon DEF PickedOf
  <2>7. p \in [1..m -> Nat]
    BY <2>6, Counts, Zenon DEF PicksOf
  <2>8. Routed(v)' = Routed(v) \cup {c}
    BY <1>4, <1>6, <1>11, Zenon DEF Routed
  <2>9. Cardinality(Routed(v)') = n + 1
    BY <1>8, <2>8, Counts, Zenon
  <2>10. ASSUME NEW b \in 1..m
         PROVE  PicksOf(v)'[b] = IF b = (i % m) + 1 THEN p[b] + 1 ELSE p[b]
    <3>1. PicksOf(v)'[b] = Cardinality(PickedOf(v, b)') /\ p[b] = Cardinality(PickedOf(v, b))
      BY Zenon DEF PicksOf
    <3>2. CASE b = b0 + 1
      <4>1. PickedOf(v, b)' = PickedOf(v, b) \cup {c}
        BY <1>6, <1>8, <2>8, <3>2, Zenon DEF PickedOf
      <4> QED
        <5>1. Cardinality(PickedOf(v, b) \cup {c}) = Cardinality(PickedOf(v, b)) + 1
          BY <2>6, Counts, Zenon
        <5>2. b = (i % m) + 1
          BY <2>4, <3>2, Zenon
        <5> QED
          BY <3>1, <4>1, <5>1, <5>2, Zenon
    <3>3. CASE b # b0 + 1
      <4>1. PickedOf(v, b)' = PickedOf(v, b)
        BY <1>6, <1>8, <2>8, <3>3, Zenon DEF PickedOf
      <4> QED
        BY <2>4, <3>1, <3>3, <4>1, Zenon
    <3> QED
      BY <3>2, <3>3, Zenon
  <2>11. PicksOf(v)' = [b \in 1..m |-> PicksOf(v)'[b]]
    BY Zenon DEF PicksOf
  <2>12. [p EXCEPT ![(i % m) + 1] = @ + 1] = [b \in 1..m |-> IF b = (i % m) + 1 THEN p[b] + 1 ELSE p[b]]
    BY <2>7, Zenon
  <2>13. PicksOf(v)' = [p EXCEPT ![(i % m) + 1] = @ + 1]
    BY <2>10, <2>11, <2>12, Zenon
  <2> HIDE DEF m, i, n, p
  <2>14. EvenAt(n + 1, (i + 1) % Modulus, m, [p EXCEPT ![(i % m) + 1] = @ + 1])
    <3>1. EvenAt(n, i, m, p)
      BY <1>9, Zenon DEF m, i, n, p
    <3> QED
      BY <2>1, <2>2, <2>5, <2>7, <3>1, EvenNext, Zenon
  <2> QED
    BY <2>3, <2>9, <2>13, <2>14, Zenon DEF m
<1> QED
  BY <1>10, <1>11, Zenon

\* Every step keeps the spread.
LEMMA EvenStep == TypeInv /\ EvenInv /\ [Next]_vars => EvenInv'
<1> SUFFICES ASSUME TypeInv, EvenInv, [Next]_vars PROVE EvenInv'
  OBVIOUS
<1>1. CASE \E c \in Conn : Route(c)
  BY <1>1, EvenRoute, Zenon
<1>2. CASE ~\E c \in Conn : Route(c)
  <2>1. UNCHANGED taskVars
    BY <1>2, Zenon DEF Next, TaskStep, vars, ClientSends, Start, Peek, NoMatch, Connect, Connected,
       ConnectTimeout, SendProxy, TlsAccept, Handover, Fail, Forward, Finish, MaxDuration
  <2> QED
    BY <2>1, EvenSame, Zenon DEF taskVars
<1> QED
  BY <1>1, <1>2, Zenon

\* The backends of a round robin get the same number of connections, but for
\* one, for any number of connections up to the width of the counter.
THEOREM RoundRobinBalances == Spec => []BalancedPicks
<1>1. TypeInv /\ EvenInv => BalancedPicks
  <2> SUFFICES ASSUME TypeInv, EvenInv, NEW u \in 1..Len(Upstreams), Upstreams[u].lb = "RoundRobin",
                      Cardinality(Routed(u)) <= Modulus,
                      NEW a \in 1..Upstreams[u].backends, NEW b \in 1..Upstreams[u].backends
               PROVE  Cardinality(PickedOf(u, a)) <= Cardinality(PickedOf(u, b)) + 1
    BY Zenon DEF BalancedPicks, PickedOf
  <2>1. PICK q \in Nat : \A d \in 1..Upstreams[u].backends :
           PicksOf(u)[d] = IF d <= Cardinality(Routed(u)) % Upstreams[u].backends THEN q + 1 ELSE q
    BY Zenon DEF EvenInv, EvenAt
  <2>2. \A d \in 1..Upstreams[u].backends : PicksOf(u)[d] = q + 1 \/ PicksOf(u)[d] = q
    BY <2>1, Zenon
  <2>3. \A d \in 1..Upstreams[u].backends :
           Cardinality(PickedOf(u, d)) = q + 1 \/ Cardinality(PickedOf(u, d)) = q
    BY <2>2, Zenon DEF PicksOf
  <2> QED
    BY <2>3
<1> QED
  BY <1>1, TypeInit, TypeStep, EvenInit, EvenStep, PTL DEF Spec
=============================================================================
