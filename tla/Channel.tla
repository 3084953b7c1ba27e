------------------------------ MODULE Channel ------------------------------
(***************************************************************************)
(* What a proxied connection promises one of its peers about the other: a  *)
(* first-in, first-out channel.  Nothing is lost, repeated or reordered,   *)
(* the end of the stream comes after everything sent before it, and a      *)
(* connection that breaks off leaves a prefix of what was under way.       *)
(***************************************************************************)
EXTENDS Naturals, Sequences

CONSTANTS Item,  \* what is sent
          End    \* the end of the stream

VARIABLES queue,  \* what is under way
          ended,  \* the sender has ended its stream
          open    \* the connection has not been closed

Init == queue = <<>> /\ ended = FALSE /\ open = TRUE

Send(m) ==
    /\ open /\ ~ended
    /\ queue' = Append(queue, m)
    /\ ended' = (m = End)
    /\ UNCHANGED open

Receive ==
    /\ queue # <<>>
    /\ queue' = Tail(queue)
    /\ UNCHANGED <<ended, open>>

\* The connection is closed with the first k items on their way.
Close(k) ==
    /\ open
    /\ open' = FALSE
    /\ queue' = SubSeq(queue, 1, k)
    /\ UNCHANGED ended

Next ==
    \/ \E m \in Item \cup {End} : Send(m)
    \/ Receive
    \/ \E k \in 0..Len(queue) : Close(k)

Spec == Init /\ [][Next]_<<queue, ended, open>>
=============================================================================
