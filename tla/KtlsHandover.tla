---------------------------- MODULE KtlsHandover ----------------------------
(***************************************************************************)
(* How a TLS connection passes from rustls to the kernel: CorkStream under *)
(* rustls (ktls/src/cork_stream.rs), config_ktls_server with its drain     *)
(* (ktls/src/lib.rs), and the part of handle_client that forwards what was *)
(* drained before the kernel's records (turbine/src/main.rs).              *)
(*                                                                         *)
(* The bytes the client sends are positions 0, 1, ... of a stream cut into *)
(* records; the socket returns as many of them as it likes per read. What  *)
(* CorkStream believes about the framing is its own state, and is compared *)
(* with the layout of the stream by the properties only. rustls, the       *)
(* socket and the kernel's TLS layer are external.                         *)
(***************************************************************************)
EXTENDS Integers, Sequences, KtlsSetup

CONSTANTS HeaderLen, \* the length of header_buf
          MaxLen,    \* the longest payload of a record
          Layouts,   \* the streams the client may send
          Suites,    \* the suites the handshake may choose
          Kernel     \* the kernel

Kind == {"handshake", "data", "close_notify", "bad"}

\* start[i] is the position of record i and start[n + 1] the end of the last
\* one; record 1 ends the handshake.  The client sends the bytes up to position
\* cut, and then its FIN or, unless fin, nothing more.
IsLayout(s) ==
    /\ s.n \in Nat \ {0}
    /\ s.start \in [1..(s.n + 1) -> Nat]
    /\ s.start[1] = 0
    /\ \A i \in 1..s.n : s.start[i + 1] - s.start[i] - HeaderLen \in 1..MaxLen
    /\ \A i, j \in 1..(s.n + 1) : i < j => s.start[i] < s.start[j]
    /\ s.kind \in [1..s.n -> Kind]
    /\ \A i \in 1..s.n : s.kind[i] = "handshake" <=> i = 1
    /\ s.cut \in 0..s.start[s.n + 1]
    /\ s.fin \in BOOLEAN

ASSUME LayoutAssumption ==
    /\ HeaderLen \in Nat \ {0}
    /\ MaxLen \in Nat \ {0}
    /\ \A s \in Layouts : IsLayout(s)

ASSUME KernelAssumption == Suites \subseteq Suite /\ IsKernel(Kernel)

VARIABLES
    net,      \* the stream of this behaviour
    pos,      \* the bytes taken from the socket
    state,    \* CorkStream::state, its offset and its msg_size
    offset,
    msg_size,
    corked,   \* CorkStream::corked
    fed,      \* the bytes rustls was given
    opened,   \* the records rustls has decrypted
    plain,    \* the data records whose plaintext waits in rustls
    eof,      \* rustls was given an empty read
    phase,    \* where handle_client is
    suite,    \* the negotiated cipher suite, <<>> before
    drained,  \* the data records drain has read, in order
    kseq,     \* the records decrypted when the kernel reads
    upstream  \* the data records written to the backend, in order

corkVars == <<pos, state, offset, msg_size>>
rustlsVars == <<fed, opened, plain, eof>>
afterVars == <<drained, kseq, upstream>>
vars == <<net, corkVars, corked, rustlsVars, phase, suite, afterVars>>

Data(i) == net.kind[i] = "data"

\* The steps of setup_inner.
Setup == {"setup", "setup_tx", "setup_rx"}

Init ==
    /\ net \in Layouts
    /\ pos = 0
    /\ state = "header"
    /\ offset = 0
    /\ msg_size = 0
    /\ corked = FALSE
    /\ fed = 0
    /\ opened = 0
    /\ plain = {}
    /\ eof = FALSE
    /\ phase = "accept"
    /\ suite = <<>>
    /\ drained = <<>>
    /\ kseq = 0
    /\ upstream = <<>>

-----------------------------------------------------------------------------
\* rustls: it asks for more bytes until it has plaintext to give or has read
\* the client's close_notify.
CloseNotified == \E i \in 1..opened : net.kind[i] = "close_notify"

Reading ==
    /\ phase \in {"accept", "drain"}
    /\ plain = {}
    /\ ~CloseNotified
    /\ ~eof

\* rustls has received the first f bytes: it opens the records that are
\* complete, and refuses an invalid header as soon as it has it.
Feed(f) ==
    \E k \in opened..net.n :
        /\ net.start[k + 1] <= f
        /\ k < net.n => f < net.start[k + 2]
        /\ fed' = f
        /\ opened' = k
        /\ plain' = plain \cup {i \in (opened + 1)..k : Data(i)}
        /\ phase' = IF \E i \in 1..net.n : net.kind[i] = "bad" /\ net.start[i] + HeaderLen <= f
                    THEN "failed" ELSE phase

-----------------------------------------------------------------------------
\* CorkStream::poll_read, one outcome per action; a Pending read of the socket
\* changes nothing.  The buffer rustls reads into has room for a header.
BoundaryAlways == corked
BoundaryNever == FALSE

\* Whether a read is to be answered with nothing.
AtBoundary == offset = 0 /\ corked

EmptyReadPending ==
    /\ Reading /\ state = "header" /\ AtBoundary
    /\ UNCHANGED vars

EmptyRead ==
    /\ Reading
    /\ state = "header"
    /\ AtBoundary
    /\ eof' = TRUE
    /\ UNCHANGED <<net, suite, corkVars, corked, fed, opened, plain, phase, afterVars>>

\* The lengths decode_header may find in the five bytes at position p: those of
\* the record, or anything when they are not its header or not a valid one.
DecodeHeader(p) ==
    {len \in 0..MaxLen : \A i \in 1..net.n :
        net.start[i] = p /\ net.kind[i] # "bad" => len = net.start[i + 1] - p - HeaderLen}

\* The socket gives n bytes of the header, not all of it.
HeaderPart(n) ==
    /\ Reading
    /\ state = "header"
    /\ ~AtBoundary
    /\ pos + n <= net.cut
    /\ offset + n < HeaderLen
    /\ pos' = pos + n
    /\ offset' = offset + n
    /\ UNCHANGED <<net, suite, state, msg_size, corked, rustlsVars, phase, afterVars>>

\* The header is complete: rustls gets it and its length sizes the payload.
HeaderDone ==
    LET n == HeaderLen - offset IN
    /\ Reading
    /\ state = "header"
    /\ ~AtBoundary
    /\ pos + n <= net.cut
    /\ pos' = pos + n
    /\ state' = "payload"
    /\ offset' = 0
    /\ msg_size' \in DecodeHeader(pos' - HeaderLen)
    /\ Feed(fed + HeaderLen)
    /\ UNCHANGED <<net, suite, corked, eof, afterVars>>

\* The socket has no more, and says so.
AtEof == pos = net.cut /\ net.fin

\* The stream ends in the header: rustls gets what there is of it.
HeaderEof ==
    /\ Reading
    /\ state = "header"
    /\ ~AtBoundary
    /\ AtEof
    /\ state' = "passthrough"
    /\ eof' = (offset = 0)
    /\ Feed(fed + offset)
    /\ UNCHANGED <<net, suite, pos, offset, msg_size, corked, afterVars>>

ReadPayload(n) ==
    /\ Reading
    /\ state = "payload"
    /\ pos + n <= net.cut
    /\ offset + n <= msg_size
    /\ pos' = pos + n
    /\ IF offset + n = msg_size
       THEN state' = "header" /\ offset' = 0
       ELSE state' = state /\ offset' = offset + n
    /\ Feed(fed + n)
    /\ UNCHANGED <<net, suite, msg_size, corked, eof, afterVars>>

PayloadEof ==
    /\ Reading
    /\ state = "payload"
    /\ AtEof
    /\ eof' = TRUE
    /\ UNCHANGED <<net, suite, corkVars, corked, fed, opened, plain, phase, afterVars>>

\* Passthrough is entered at the end of the stream only: the socket has no more.
Passthrough ==
    /\ Reading
    /\ state = "passthrough"
    /\ AtEof
    /\ eof' = TRUE
    /\ UNCHANGED <<net, suite, corkVars, corked, fed, opened, plain, phase, afterVars>>

\* The socket's error goes through rustls to accept, or to drain, which returns it.
ReadError ==
    /\ Reading
    /\ state = "header" => ~AtBoundary
    /\ phase' = "failed"
    /\ UNCHANGED <<net, suite, corkVars, corked, rustlsVars, afterVars>>

-----------------------------------------------------------------------------
\* TlsAcceptor::accept returns once the handshake is over and the socket has
\* nothing more or rustls wants nothing more; config_ktls_server then corks.
AcceptDone ==
    /\ phase = "accept"
    /\ opened >= 1
    /\ corked' = TRUE
    /\ phase' = "drain"
    /\ suite' \in Suites
    /\ UNCHANGED <<net, corkVars, rustlsVars, afterVars>>

AcceptFail ==
    /\ phase = "accept"
    /\ eof
    /\ opened < 1
    /\ phase' = "failed"
    /\ UNCHANGED <<net, suite, corkVars, corked, rustlsVars, afterVars>>

\* A read of drain: the first of the plaintext rustls holds.
DrainTake ==
    /\ phase = "drain"
    /\ \E i \in plain :
          /\ \A j \in plain : i <= j
          /\ drained' = Append(drained, i)
          /\ plain' = plain \ {i}
    /\ UNCHANGED <<net, suite, corkVars, corked, fed, opened, eof, phase, kseq, upstream>>

\* A read of drain that returns 0, or the UnexpectedEof it expects.
DrainEnd ==
    /\ phase = "drain"
    /\ plain = {}
    /\ eof \/ CloseNotified
    /\ phase' = "setup"
    /\ UNCHANGED <<net, suite, corkVars, corked, rustlsVars, afterVars>>

\* setup_inner gives the socket the upper level protocol, which the kernel
\* refuses once the client has ended its stream.
SetupUlp ==
    /\ phase = "setup"
    /\ \/ Kernel.ulp /\ phase' = "setup_tx"
       \/ phase' = "failed"
    /\ UNCHANGED <<net, suite, corkVars, corked, rustlsVars, afterVars>>

SetupTx ==
    /\ phase = "setup_tx"
    /\ phase' = IF SetupTlsInfo(Kernel, "Tx", CryptoInfo(suite)) THEN "setup_rx" ELSE "refused"
    /\ UNCHANGED <<net, suite, corkVars, corked, rustlsVars, afterVars>>

SetupRxNext ==
    /\ phase = "setup_rx"
    /\ phase' = "write"
    /\ kseq' = opened + 1
    /\ UNCHANGED <<net, suite, corkVars, corked, rustlsVars, drained, upstream>>

\* The kernel goes on with the sequence number rustls has reached, at the
\* position the socket is at.
SetupRx ==
    /\ phase = "setup_rx"
    /\ IF SetupTlsInfo(Kernel, "Rx", CryptoInfo(suite))
       THEN phase' = "write" /\ kseq' = opened
       ELSE phase' = "refused" /\ UNCHANGED kseq
    /\ UNCHANGED <<net, suite, corkVars, corked, rustlsVars, drained, upstream>>

WriteNothing ==
    /\ phase = "write"
    /\ phase' = "transfer"
    /\ UNCHANGED <<net, suite, corkVars, corked, rustlsVars, afterVars>>

\* handle_client takes the drained bytes back and writes them to the backend.
WriteDrained ==
    /\ phase = "write"
    /\ phase' = "transfer"
    /\ upstream' = drained
    /\ UNCHANGED <<net, suite, corkVars, corked, rustlsVars, drained, kseq>>

WriteFail ==
    /\ phase = "write"
    /\ phase' = "failed"
    /\ UNCHANGED <<net, suite, corkVars, corked, rustlsVars, afterVars>>

\* The transfer loop: the kernel decrypts the next record if the socket is at
\* its first byte and the sequence number is its own. Anything but data ends
\* the loop.
KernelRead ==
    LET i == kseq + 1
        forwards == i <= net.n /\ pos = net.start[i] /\ Data(i)
    IN /\ phase = "transfer"
       /\ pos < net.cut
       /\ IF forwards /\ net.start[i + 1] <= net.cut
          THEN /\ pos' = net.start[i + 1]
               /\ kseq' = i
               /\ upstream' = Append(upstream, i)
               /\ phase' = phase
          ELSE phase' = "closed" /\ UNCHANGED <<pos, kseq, upstream>>
       /\ UNCHANGED <<net, suite, state, offset, msg_size, corked, rustlsVars, drained>>

KernelEof ==
    /\ phase = "transfer"
    /\ AtEof
    /\ phase' = "closed"
    /\ UNCHANGED <<net, suite, corkVars, corked, rustlsVars, afterVars>>

\* A socket fails, the backend ends, or the deadline passes.
TransferEnds ==
    /\ phase = "transfer"
    /\ phase' = "closed"
    /\ UNCHANGED <<net, suite, corkVars, corked, rustlsVars, afterVars>>

-----------------------------------------------------------------------------
ReadStep ==
    \/ EmptyRead
    \/ \E n \in 1..HeaderLen : HeaderPart(n)
    \/ HeaderDone
    \/ HeaderEof
    \/ \E n \in 1..MaxLen : ReadPayload(n)
    \/ PayloadEof
    \/ Passthrough

ClientStep ==
    \/ AcceptDone \/ AcceptFail
    \/ DrainTake \/ DrainEnd
    \/ SetupUlp \/ SetupTx \/ SetupRx
    \/ WriteDrained \/ WriteFail
    \/ KernelRead \/ KernelEof

Next == ReadStep \/ ClientStep \/ ReadError \/ TransferEnds

Spec == Init /\ [][Next]_vars

\* The bytes the client sent arrive, and tokio polls the task that waits for
\* them. Nothing is assumed of the client, nor of errors, and whether the set-up
\* succeeds is left open.
Fairness == WF_vars(ReadStep) /\ WF_vars(ClientStep)

FairSpec == Spec /\ Fairness

-----------------------------------------------------------------------------
\* The types of the variables.
TypeOK ==
    /\ IsLayout(net)
    /\ pos \in 0..net.cut
    /\ state \in {"header", "payload", "passthrough"}
    /\ offset \in Nat
    /\ msg_size \in 0..MaxLen
    /\ corked \in BOOLEAN
    /\ fed \in 0..pos
    /\ opened \in 0..net.n
    /\ plain \subseteq 1..net.n
    /\ eof \in BOOLEAN
    /\ phase \in {"accept", "drain", "write", "transfer", "closed", "failed"} \cup Setup
                 \cup {"refused"}
    /\ suite \in Suites \cup {<<>>}
    /\ drained \in Seq(1..net.n)
    /\ kseq \in 0..net.n
    /\ upstream \in Seq(1..net.n)

\* The kernel takes over at the first byte of the record whose sequence number
\* it is given, however the socket sliced the reads before; only a stream that
\* ended inside a record is left elsewhere, at its end (config_ktls_server).
KernelInSync ==
    phase \in Setup \cup {"write", "transfer"} =>
        \/ pos = net.cut
        \/ pos = net.start[(IF phase \in Setup THEN opened ELSE kseq) + 1]

\* is_compatible: a suite that the probe has found compatible is not refused. The
\* probe tries to transmit only; of receiving it says nothing.
ProbeForetells ==
    phase = "refused" /\ IsCompatible(TestCiphers(Kernel), suite) =>
        suite \notin Kernel.takes["Rx"]

Increasing(q) == \A a, b \in 1..Len(q) : a < b => q[a] < q[b]

\* The backend gets the client's data without gap, repetition or reordering
\* across the hand-over: in the transfer loop and when it has ended, every data
\* record rustls or the kernel has decrypted, and no other, in the order the
\* client sent them (handle_client, drain).
UpstreamIsComplete ==
    phase \in {"transfer", "closed"} =>
        /\ Increasing(upstream)
        /\ {upstream[a] : a \in 1..Len(upstream)} = {i \in 1..kseq : Data(i)}

\* drain never reads more than one record, so that its buffer of 128 KiB, which
\* it does not grow, cannot fill up and end the drain early.
DrainFits == Len(drained) <= 1

\* The client has stopped sending between a record's first byte and its last.
SilentInRecord ==
    ~net.fin /\ pos = net.cut /\ \A i \in 1..(net.n + 1) : net.start[i] # net.cut

\* Once the connection is corked, drain ends: what is left of a record that
\* rustls holds in part is read, and no more is waited for.  A client that is
\* silent between records does not hold it up; only one that leaves a record
\* unfinished and keeps the connection open does, as nothing limits the time of
\* accept and drain.
DrainFinishes == phase = "drain" ~> phase # "drain" \/ SilentInRecord

\* The comment on CorkStream: a header of unknown type or nonsensical size puts
\* it in passthrough mode.
InvalidHeaderPassesThrough ==
    [][\A i \in 1..net.n :
         net.kind[i] = "bad" /\ net.start[i] + HeaderLen = fed' /\ fed # fed'
             => state' = "passthrough"]_vars
=============================================================================
