----------------------------- MODULE KtlsStream -----------------------------
(****************************************************************************)
(* KtlsStream (ktls/src/ktls_stream.rs): a stream over a socket whose TLS   *)
(* records the kernel encrypts and decrypts, with the bytes that were       *)
(* drained from rustls in front.                                            *)
(*                                                                          *)
(* The bytes the client sent are numbered 1, 2, ...: the drained ones, then *)
(* those of the records in the socket, one byte each. A task reads and      *)
(* writes the stream; it polls a read when it was woken. The socket, the    *)
(* peer and the caller are external.                                        *)
(****************************************************************************)
EXTENDS Integers, Sequences

CONSTANTS Drained,    \* how many bytes were drained
          BufSizes,   \* the sizes of the buffers given to poll_read
          MaxRecords, \* bound: the records the peer sends
          MaxWrites   \* bound: the records written

ASSUME SizesAssumption ==
    /\ Drained \in Nat /\ MaxRecords \in Nat /\ MaxWrites \in Nat
    /\ BufSizes \subseteq Nat \ {0}

\* What the kernel hands over apart from data: a close_notify, a fatal alert, a
\* warning, the handshake messages and unknown types that are ignored, and a
\* change_cipher_spec.
Control == {"close_notify", "fatal", "warning", "ticket", "change_cipher_spec"}

\* A record in the socket: its kind, and the number of its byte if it has one.
Record(byte) == (Control \X {0}) \cup ({"data"} \X {byte})

VARIABLES
    drain_index,  \* KtlsStream::drained: its index, and whether it is Some
    has_drained,
    read_closed,
    write_closed,
    inbox,        \* the records in the socket
    arrived,      \* how many records have arrived
    bytes,        \* how many bytes the client has sent
    ended,        \* the peer has closed its side of the socket
    woken,        \* the reading task is to be polled
    out,          \* the bytes the reader was given, the raw ones included
    wire,         \* the records sent to the peer
    tries,        \* how often a close_notify was tried
    shut,         \* the socket is shut for writing
    result,       \* what the last read returned
    stream        \* "open", "raw" (into_raw), "dropped" or "panicked"

closeVars == <<write_closed, wire, tries, shut>>
readVars == <<drain_index, has_drained, read_closed, inbox, woken, out, result>>
peerVars == <<arrived, bytes, ended>>
vars == <<closeVars, readVars, peerVars, stream>>

\* KtlsStream::new, for the bytes drain returned.
Init ==
    /\ drain_index = 0
    /\ has_drained = (Drained > 0)
    /\ read_closed = FALSE
    /\ write_closed = FALSE
    /\ inbox = <<>>
    /\ arrived = 0
    /\ bytes = Drained
    /\ ended = FALSE
    /\ woken = TRUE
    /\ out = <<>>
    /\ wire = <<>>
    /\ tries = 0
    /\ shut = FALSE
    /\ result = "none"
    /\ stream = "open"

\* A record arrives and wakes the reader that waits for it.
Arrive(r) ==
    /\ arrived < MaxRecords /\ ~ended
    /\ arrived' = arrived + 1
    /\ bytes' = IF r[1] = "data" THEN bytes + 1 ELSE bytes
    /\ inbox' = Append(inbox, r)
    /\ woken' = (woken \/ result = "pending")
    /\ UNCHANGED <<closeVars, drain_index, has_drained, read_closed, out, result, stream, ended>>

\* The peer closes its side of the socket, with a close_notify before or without.
PeerEnds ==
    /\ ~ended
    /\ ended' = TRUE
    /\ woken' = (woken \/ result = "pending")
    /\ UNCHANGED <<closeVars, drain_index, has_drained, read_closed, inbox, out, result, stream,
                   arrived, bytes>>

-----------------------------------------------------------------------------
\* The bytes from i to j in order.
Bytes(i, j) == [k \in 1..(j - i + 1) |-> i + k - 1]

\* send_close_notify: the record leaves, or the system call fails: always once
\* the socket is shut, otherwise when it has no room.
SendCloseNotify(ok) ==
    /\ ok => ~shut
    /\ tries' = tries + 1
    /\ wire' = IF ok THEN Append(wire, "close_notify") ELSE wire

Polled == stream = "open" /\ woken

ReadClosed ==
    /\ Polled
    /\ read_closed
    /\ result' = "eof"
    /\ woken' = FALSE
    /\ UNCHANGED <<closeVars, peerVars, drain_index, has_drained, read_closed, inbox, out, stream>>

\* Whether the drained bytes count as used up when the last read went up to
\* index: `drained` is what was left before that read, not the whole vector.
UsedUp(index, left) == index >= left

ReadDrainedUncapped(size) ==
    /\ Polled /\ ~read_closed /\ has_drained
    /\ out' = out \o Bytes(drain_index + 1, drain_index + size)
    /\ drain_index' = drain_index + size
    /\ has_drained' = (drain_index + size < Drained)
    /\ result' = "data"
    /\ UNCHANGED <<closeVars, peerVars, read_closed, inbox, woken, stream>>

\* A read takes from the drained bytes first.
ReadDrained(size) ==
    LET left == Drained - drain_index
        len == IF size < left THEN size ELSE left
    IN /\ Polled
       /\ ~read_closed
       /\ has_drained
       /\ out' = out \o Bytes(drain_index + 1, drain_index + len)
       /\ drain_index' = drain_index + len
       /\ has_drained' = ~UsedUp(drain_index + len, left)
       /\ result' = "data"
       /\ UNCHANGED <<closeVars, peerVars, read_closed, inbox, woken, stream>>

FromSocketFirst == Polled /\ ~read_closed

FromSocket == Polled /\ ~read_closed /\ ~has_drained

\* The socket's own answer is passed on: Pending when it is empty, no byte at its
\* end, or an error other than EIO. The error of recvmsg after EIO is passed on too.
ReadPending ==
    /\ FromSocket
    /\ inbox = <<>> /\ ~ended
    /\ result' = "pending"
    /\ woken' = FALSE
    /\ UNCHANGED <<closeVars, peerVars, drain_index, has_drained, read_closed, inbox, out, stream>>

ReadEnd ==
    /\ FromSocket
    /\ inbox = <<>> /\ ended
    /\ result' = "eof"
    /\ woken' = FALSE
    /\ UNCHANGED <<closeVars, peerVars, drain_index, has_drained, read_closed, inbox, out, stream>>

ReadFails ==
    /\ FromSocket
    /\ result' = "error"
    /\ woken' = FALSE
    /\ UNCHANGED <<closeVars, peerVars, drain_index, has_drained, read_closed, inbox, out, stream>>

\* The socket gives data up to the next control message.
ReadData(n) ==
    /\ FromSocket
    /\ n <= Len(inbox)
    /\ \A k \in 1..n : inbox[k][1] = "data"
    /\ out' = out \o [k \in 1..n |-> inbox[k][2]]
    /\ inbox' = SubSeq(inbox, n + 1, Len(inbox))
    /\ result' = "data"
    /\ UNCHANGED <<closeVars, peerVars, drain_index, has_drained, read_closed, woken, stream>>

\* The read fails with EIO and recvmsg takes the control message. Half an alert
\* counts as a close_notify.
TakeControl(kinds) ==
    /\ FromSocket
    /\ inbox # <<>>
    /\ Head(inbox)[1] \in kinds
    /\ inbox' = Tail(inbox)

Closing(size) == {"close_notify", "fatal"} \cup (IF size = 1 THEN {"warning"} ELSE {})

\* A close_notify or a fatal alert closes both directions and is answered.
ReadAlert(size, ok) ==
    /\ TakeControl(Closing(size))
    /\ read_closed' = TRUE
    /\ write_closed' = TRUE
    /\ SendCloseNotify(ok)
    /\ result' = IF ok THEN "eof" ELSE "error"
    /\ woken' = FALSE
    /\ UNCHANGED <<shut, peerVars, drain_index, has_drained, out, stream>>

\* Any other alert: Ready without a byte, which a reader takes for the end.
ReadWarning(size) ==
    /\ TakeControl({"warning"} \ Closing(size))
    /\ result' = "eof"
    /\ woken' = FALSE
    /\ UNCHANGED <<closeVars, peerVars, drain_index, has_drained, read_closed, out, stream>>

IgnoreAsleep ==
    /\ TakeControl({"ticket"})
    /\ result' = "ignored"
    /\ woken' = FALSE
    /\ UNCHANGED <<closeVars, peerVars, drain_index, has_drained, read_closed, out, stream>>

\* A ticket or an unknown record: Pending, after waking the task, since the
\* socket may hold more and will not say so again.
ReadIgnored ==
    /\ TakeControl({"ticket"})
    /\ result' = "ignored"
    /\ UNCHANGED <<closeVars, peerVars, drain_index, has_drained, read_closed, woken, out, stream>>

\* The caller reads again after an end or an error.
ReadAgain ==
    /\ stream = "open"
    /\ result \in {"eof", "error"}
    /\ woken' = TRUE
    /\ UNCHANGED <<closeVars, peerVars, drain_index, has_drained, read_closed, inbox, out, result, stream>>

\* A change_cipher_spec panics, and so does an EIO behind which recvmsg finds no
\* control message: the task ends with the stream.
ReadPanics ==
    /\ TakeControl({"change_cipher_spec"}) \/ (FromSocket /\ UNCHANGED inbox)
    /\ stream' = "panicked"
    /\ UNCHANGED <<closeVars, peerVars, drain_index, has_drained, read_closed, woken, out, result>>

-----------------------------------------------------------------------------
\* poll_write: Ok(0) when closed, else the socket's write, which fails once the
\* socket is shut.
PollWrite ==
    /\ stream = "open"
    /\ Len(wire) < MaxWrites
    /\ wire' = IF write_closed \/ shut THEN wire ELSE Append(wire, "data")
    /\ UNCHANGED <<write_closed, tries, shut, readVars, peerVars, stream>>

\* poll_shutdown: a close_notify unless one was due before; if it cannot be sent
\* the socket stays open for writing.
PollShutdown(ok) ==
    /\ stream = "open"
    /\ ~write_closed
    /\ write_closed' = TRUE
    /\ SendCloseNotify(ok)
    /\ shut' = (shut \/ ok)
    /\ UNCHANGED <<readVars, peerVars, stream>>

ShutdownAgain ==
    /\ stream = "open"
    /\ write_closed
    /\ shut' = TRUE
    /\ UNCHANGED <<write_closed, wire, tries, readVars, peerVars, stream>>

SpliceUnchecked ==
    /\ stream = "open"
    /\ Len(wire) < MaxWrites
    /\ wire' = IF shut THEN wire ELSE Append(wire, "data")
    /\ UNCHANGED <<write_closed, tries, shut, readVars, peerVars, stream>>

\* poll_write_ready, then a splice into the socket through try_io: the flag is
\* looked at by the first only.
SpliceWrite ==
    /\ stream = "open"
    /\ ~write_closed
    /\ Len(wire) < MaxWrites
    /\ wire' = IF shut THEN wire ELSE Append(wire, "data")
    /\ UNCHANGED <<write_closed, tries, shut, readVars, peerVars, stream>>

\* handle_msg takes the next record with recvmsg, whatever read_closed and the
\* drained bytes; without a record, or when recvmsg fails, it returns.
HandleMsg(kinds) ==
    /\ stream = "open"
    /\ inbox # <<>>
    /\ Head(inbox)[1] \in kinds
    /\ inbox' = Tail(inbox)
    /\ UNCHANGED <<peerVars, drain_index, has_drained, woken, out, result>>

\* An alert that closes is answered, and a failure to answer ignored.
HandleAlert(ok) ==
    /\ HandleMsg({"close_notify", "fatal"})
    /\ read_closed' = TRUE
    /\ write_closed' = TRUE
    /\ SendCloseNotify(ok)
    /\ UNCHANGED <<shut, stream>>

HandleIgnored == HandleMsg({"warning", "ticket"}) /\ UNCHANGED <<closeVars, read_closed, stream>>

\* A change_cipher_spec, or data, panics.
HandlePanics ==
    /\ HandleMsg({"change_cipher_spec", "data"})
    /\ stream' = "panicked"
    /\ UNCHANGED <<closeVars, read_closed>>

\* At its end the socket gives recvmsg no control message, which panics.
HandleEnd ==
    /\ stream = "open"
    /\ inbox = <<>> /\ ended
    /\ stream' = "panicked"
    /\ UNCHANGED <<closeVars, readVars, peerVars>>

\* into_raw gives the drained vector back, all of it.
IntoRaw ==
    /\ stream = "open"
    /\ stream' = "raw"
    /\ out' = IF has_drained THEN out \o Bytes(1, Drained) ELSE out
    /\ UNCHANGED <<closeVars, drain_index, has_drained, read_closed, inbox, woken, result, peerVars>>

\* The stream is dropped: the socket is closed.
Drop ==
    /\ stream = "open"
    /\ stream' = "dropped"
    /\ UNCHANGED <<closeVars, readVars, peerVars>>

-----------------------------------------------------------------------------
PollRead ==
    \/ ReadClosed \/ ReadPending \/ ReadEnd \/ ReadFails
    \/ \E size \in BufSizes :
         \/ ReadDrained(size)
         \/ \E n \in 1..size : ReadData(n)
         \/ \E ok \in BOOLEAN : ReadAlert(size, ok)
         \/ ReadWarning(size)
    \/ ReadIgnored
    \/ ReadPanics

Caller ==
    \/ ReadAgain \/ PollWrite \/ SpliceWrite
    \/ \E ok \in BOOLEAN : PollShutdown(ok) \/ HandleAlert(ok)
    \/ ShutdownAgain \/ HandleIgnored \/ HandlePanics \/ HandleEnd \/ IntoRaw \/ Drop

Next == (\E r \in Record(bytes + 1) : Arrive(r)) \/ PeerEnds \/ PollRead \/ Caller

Spec == Init /\ [][Next]_vars

\* A woken task is polled. Nothing else is owed: the peer may fall silent and
\* the caller may keep the stream.
FairSpec == Spec /\ WF_vars(PollRead)

-----------------------------------------------------------------------------
\* The types of the variables.
TypeOK ==
    /\ drain_index \in 0..Drained
    /\ has_drained \in BOOLEAN
    /\ read_closed \in BOOLEAN
    /\ write_closed \in BOOLEAN
    /\ arrived \in 0..MaxRecords
    /\ bytes \in Nat
    /\ ended \in BOOLEAN
    /\ inbox \in Seq((Control \X {0}) \cup ({"data"} \X (1..bytes)))
    /\ woken \in BOOLEAN
    /\ out \in Seq(1..bytes)
    /\ wire \in Seq({"data", "close_notify"})
    /\ tries \in Nat
    /\ shut \in BOOLEAN
    /\ result \in {"none", "data", "pending", "ignored", "eof", "error"}
    /\ stream \in {"open", "raw", "dropped", "panicked"}

\* The reader gets the client's bytes in the order sent, whatever its buffers: first
\* drained ones from the first on, then every byte of the socket, none missing and
\* none twice. poll_read may give up drained bytes before their end, but never more
\* than half of them. into_raw gives all of them back, the ones read included.
ReadsInOrder ==
    /\ ~has_drained =>
        /\ out = Bytes(1, drain_index) \o Bytes(Drained + 1, Drained + Len(out) - drain_index)
        /\ 2 * drain_index >= Drained
    /\ has_drained /\ stream # "raw" => out = Bytes(1, drain_index)
    /\ has_drained /\ stream = "raw" => out = Bytes(1, drain_index) \o Bytes(1, Drained)

\* On the wire no data follows a close_notify, whichever of the peer's alert,
\* poll_shutdown, handle_msg, a failed send, poll_write and a splice came first.
NoDataAfterCloseNotify ==
    \A i, j \in 1..Len(wire) : wire[i] = "close_notify" /\ i < j => wire[j] # "data"

\* A reader that nobody will wake was told of an end or an error, or it waits at
\* an empty socket, whose next record or end wakes it: a branch of poll_read that takes
\* a message and returns Pending leaves no record behind unseen.
NoLostWakeup ==
    stream = "open" /\ ~woken =>
        result \in {"eof", "error"} \/ (result = "pending" /\ inbox = <<>> /\ ~ended)

\* A record that has arrived is read, control messages before it or not, unless
\* the reading ended: no wake-up is lost.
ArrivedIsRead ==
    inbox # <<>> ~> (inbox = <<>> \/ stream # "open" \/ result \in {"eof", "error"})

\* poll_read gives the client's bytes without a gap; the integration test of ktls
\* reads what was drained and asserts that it is what the client wrote.
PollReadsInOrder == stream = "open" => out = Bytes(1, Len(out))

\* The comment above KtlsStream: it sends a close_notify when it is dropped.
DroppedNotifies == stream = "dropped" => tries > 0

\* The comment in poll_read: write_closed protects against writes after a
\* close_notify. It does not keep poll_read and handle_msg from another one.
NotifiesOnce == tries <= 1
=============================================================================
