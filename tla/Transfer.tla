------------------------------ MODULE Transfer ------------------------------
(***************************************************************************)
(* The transfer of data between the client and the backend of a connection *)
(* (the end of handle_client and splice_strategy), both ways, under the    *)
(* deadline cnx_max_duration:                                              *)
(*                                                                         *)
(*   "splice"   passthrough, the splice system call under a tokio timeout; *)
(*   "tls"      terminated TLS, the select! loop around the same calls;    *)
(*   "sockmap"  the eBPF strategy in the place of the splice system call.  *)
(*                                                                         *)
(* The task copies while its sockets are ready and tokio's cooperative     *)
(* budget lasts, then polls the timer, then parks.  The items a peer sends *)
(* are numbered modulo two, so that traffic may go on for ever.  tokio,    *)
(* tokio_splice, the kernel and the peers are external.                    *)
(***************************************************************************)
EXTENDS SocketHash, FiniteSets

CONSTANTS Modes,    \* the ways of transfer considered
          Sockets,  \* sets of addresses: a function of the side, see Pair
          InCap,    \* what a socket holds of its peer's items
          OutCap,   \* what it holds for its peer
          Budget    \* tokio's cooperative budget

Side == {"client", "backend"}
Other(s) == CHOOSE t \in Side : t # s

\* The local and the remote address of each of the two sockets.
ASSUME SocketsAssumption ==
    \A pair \in Sockets : \A s \in Side :
        /\ DOMAIN pair = Side
        /\ DOMAIN pair[s] = {"local", "peer"}
ASSUME BoundsAssumption == InCap \in Nat \ {0} /\ OutCap \in Nat \ {0} /\ Budget \in Nat \ {0}

Data == {"even", "odd"}
End == "end"
Flip(m) == IF m = "even" THEN "odd" ELSE "even"

VARIABLES
    mode,      \* the way of transfer
    pair,      \* the addresses of the sockets
    pc,        \* the task: "insert", "copy", "timer", "parked" or "ended"
    budget,    \* what is left of its budget in this poll
    elapsed,   \* cnx_max_duration has passed
    running,   \* the directions, named by their source, not yet shut down
    sockmap,   \* INGRESS: a socket for some keys
    next,      \* next[s]: the next item of peer s
    fin,       \* peer s has ended its stream
    inbox,     \* inbox[s]: what socket s has received, not yet read
    outbox,    \* outbox[s]: what socket s is sending to its peer
    shut,      \* socket s is shut for writing
    early      \* history: inbox[s] was not empty when redirection began

taskVars == <<pc, budget, running>>
peerVars == <<next, fin>>
fixedVars == <<mode, pair>>
dataVars == <<inbox, outbox, shut>>
mapVars == <<sockmap, early>>
vars == <<taskVars, peerVars, fixedVars, dataVars, mapVars, elapsed>>

Init ==
    /\ mode \in Modes
    /\ pair \in Sockets
    /\ pc = IF mode = "sockmap" THEN "insert" ELSE "copy"
    /\ budget = Budget
    /\ elapsed = FALSE
    /\ running = Side
    /\ sockmap = <<>>
    /\ next = [s \in Side |-> "even"]
    /\ fin = [s \in Side |-> FALSE]
    /\ inbox = [s \in Side |-> <<>>]
    /\ outbox = [s \in Side |-> <<>>]
    /\ shut = [s \in Side |-> FALSE]
    /\ early = [s \in Side |-> FALSE]
-----------------------------------------------------------------------------
(* The peers, the kernel and the clock. *)

\* The key a socket is inserted with, and the one its packets are looked up by.
SocketKeys == [p \in Sockets |-> [s \in Side |-> socket_hash(p[s].local, p[s].peer)]]
PacketKeys == [p \in Sockets |-> [s \in Side |-> VerdictKey(SkBuff(p[s].local, p[s].peer))]]
SocketKey(s) == SocketKeys[pair][s]
PacketKey(s) == PacketKeys[pair][s]

LookupIfRoom(s) ==
    IF /\ s \in Range(sockmap) /\ PacketKey(s) \in DOMAIN sockmap
       /\ Len(outbox[Other(s)]) < OutCap
    THEN {sockmap[PacketKey(s)]} ELSE {}

\* stream_verdict, for a socket that is in the map: the socket a packet is
\* redirected to.  A packet whose key is not there passes to user space.
StreamVerdict(s) ==
    IF s \in Range(sockmap) /\ PacketKey(s) \in DOMAIN sockmap
    THEN {sockmap[PacketKey(s)]} ELSE {}

Arrive(s, m) ==
    /\ Len(inbox[s]) < InCap
    /\ inbox' = [inbox EXCEPT ![s] = Append(@, m)]
    /\ UNCHANGED outbox

Redirect(t, m) ==
    /\ Len(outbox[t]) < OutCap
    /\ outbox' = [outbox EXCEPT ![t] = Append(@, m)]
    /\ UNCHANGED inbox

PeerSends(s) ==
    /\ pc # "ended" /\ ~fin[s]
    /\ \/ StreamVerdict(s) = {} /\ Arrive(s, next[s])
       \/ \E t \in StreamVerdict(s) : Redirect(t, next[s])
    /\ next' = [next EXCEPT ![s] = Flip(@)]
    /\ UNCHANGED <<taskVars, fixedVars, mapVars, fin, shut, elapsed>>

PeerEnds(s) ==
    /\ pc # "ended" /\ ~fin[s]
    /\ Arrive(s, End)
    /\ fin' = [fin EXCEPT ![s] = TRUE]
    /\ UNCHANGED <<taskVars, fixedVars, mapVars, next, shut, elapsed>>

\* A TLS client sends a record that is not data, such as a close_notify.
ClientControl ==
    /\ pc # "ended" /\ mode = "tls" /\ ~fin["client"]
    /\ Arrive("client", "control")
    /\ UNCHANGED <<taskVars, fixedVars, mapVars, peerVars, shut, elapsed>>

PeerReads(s) ==
    /\ outbox[s] # <<>>
    /\ outbox' = [outbox EXCEPT ![s] = Tail(@)]
    /\ UNCHANGED <<taskVars, fixedVars, mapVars, peerVars, inbox, shut, elapsed>>

Elapse ==
    /\ ~elapsed /\ pc # "ended"
    /\ elapsed' = TRUE
    /\ UNCHANGED <<taskVars, fixedVars, mapVars, peerVars, dataVars>>
-----------------------------------------------------------------------------
(* The task. *)

\* Both sockets are closed: what they have received is lost.
Close ==
    /\ pc' = "ended"
    /\ inbox' = [s \in Side |-> <<>>]
    /\ UNCHANGED <<budget, running, fixedVars, mapVars, peerVars, outbox, shut, elapsed>>

\* The two inserts of SockMapSplice::splice: a packet on the one socket is to
\* find the other.
Insert(s) ==
    /\ pc = "insert"
    /\ Cardinality(DOMAIN sockmap) = IF s = "client" THEN 0 ELSE 1
    /\ sockmap' = [k \in DOMAIN sockmap \cup {SocketKey(s)} |->
                      IF k = SocketKey(s) THEN Other(s) ELSE sockmap[k]]
    /\ pc' = IF s = "client" THEN pc ELSE "copy"
    /\ early' = IF s = "client" THEN early ELSE [t \in Side |-> inbox[t] # <<>>]
    /\ UNCHANGED <<budget, running, fixedVars, dataVars, peerVars, elapsed>>

\* The map is full: splice returns Ok and the connection is closed.
InsertFails == pc = "insert" /\ Close

\* A direction can go on: there is something to read and room for it.
Ready(s) ==
    /\ s \in running
    /\ inbox[s] # <<>>
    /\ Head(inbox[s]) \in Data => Len(outbox[Other(s)]) < OutCap

Copying(s) ==
    /\ pc = "copy" /\ budget > 0
    /\ Ready(s)
    /\ budget' = budget - 1

CopyItem(s) ==
    /\ Copying(s)
    /\ Head(inbox[s]) \in Data
    /\ inbox' = [inbox EXCEPT ![s] = Tail(@)]
    /\ outbox' = [outbox EXCEPT ![Other(s)] = Append(@, Head(inbox[s]))]
    /\ UNCHANGED <<pc, running, fixedVars, mapVars, peerVars, shut, elapsed>>

ShutdownRepeats(t) == outbox' = [outbox EXCEPT ![t] = Append(@, End)]

\* poll_shutdown of a socket: the end of the stream, for a TLS client with a
\* close_notify in front, goes out once.
PollShutdown(t) ==
    outbox' = IF shut[t] THEN outbox ELSE [outbox EXCEPT ![t] = Append(@, End)]

\* A direction whose source has ended shuts its target down.  The end stays
\* readable: a later call finds it again.
CopyEnd(s) ==
    /\ Copying(s)
    /\ Head(inbox[s]) = End
    /\ PollShutdown(Other(s))
    /\ shut' = [shut EXCEPT ![Other(s)] = TRUE]
    /\ running' = running \ {s}
    /\ UNCHANGED <<pc, inbox, fixedVars, mapVars, peerVars, elapsed>>

\* Mutation: handle_msg and continue, as in the lines commented out.
SkipControl ==
    /\ Copying("client")
    /\ Head(inbox["client"]) = "control"
    /\ inbox' = [inbox EXCEPT !["client"] = Tail(@)]
    /\ UNCHANGED <<pc, running, outbox, fixedVars, mapVars, peerVars, shut, elapsed>>

\* splice fails with EINVAL at a record that is not data: the loop breaks.
CopyControl ==
    /\ pc = "copy" /\ budget > 0
    /\ Ready("client")
    /\ Head(inbox["client"]) = "control"
    /\ Close

\* A system call fails, the sending of the close_notify included.
CopyFails == pc = "copy" /\ running # {} /\ Close

\* Both directions are done.  Passthrough returns; the TLS loop calls again.
CopyDone ==
    /\ pc = "copy" /\ running = {}
    /\ \/ /\ mode # "tls"
          /\ Close
       \/ /\ mode = "tls"
          /\ running' = Side
          /\ UNCHANGED <<pc, budget, fixedVars, mapVars, peerVars, dataVars, elapsed>>

\* No direction can go on, or the budget is spent: the timer is polled.
CopyPending ==
    /\ pc = "copy" /\ running # {}
    /\ budget = 0 \/ \A s \in Side : ~Ready(s)
    /\ pc' = "timer"
    /\ UNCHANGED <<budget, running, fixedVars, mapVars, peerVars, dataVars, elapsed>>

\* Mutation: passthrough polls its timer as select! does.
TimerFiresInBudget == elapsed /\ budget > 0

\* A Sleep is pending without budget; the timeout around the passthrough polls
\* its delay regardless.
TimerFires == elapsed /\ (mode = "tls" => budget > 0)

Timer ==
    /\ pc = "timer"
    /\ \/ TimerFires /\ Close
       \/ /\ ~TimerFires
          /\ pc' = "parked"
          /\ UNCHANGED <<budget, running, fixedVars, mapVars, peerVars, dataVars, elapsed>>

\* The task is polled again: it gave way for want of budget, its timer has
\* fired, or a socket is ready.
Wake ==
    /\ pc = "parked"
    /\ budget = 0 \/ elapsed \/ \E s \in Side : Ready(s)
    /\ pc' = "copy"
    /\ budget' = Budget
    /\ UNCHANGED <<running, fixedVars, mapVars, peerVars, dataVars, elapsed>>

Task ==
    \/ \E s \in Side : Insert(s) \/ CopyItem(s) \/ CopyEnd(s)
    \/ InsertFails \/ CopyControl \/ CopyFails \/ CopyDone \/ CopyPending \/ Timer \/ Wake

Peers == ClientControl \/ \E s \in Side : PeerSends(s) \/ PeerEnds(s) \/ PeerReads(s)

Next == Task \/ Peers \/ Elapse

Spec == Init /\ [][Next]_vars

\* The runtime polls a task that is to be polled, and time passes. The peers
\* owe nothing.
FairSpec == Spec /\ WF_vars(Task) /\ WF_vars(Elapse)
-----------------------------------------------------------------------------
\* The types of the variables, and the bounds of the queues.
TypeOK ==
    /\ mode \in Modes /\ pair \in Sockets
    /\ pc \in {"insert", "copy", "timer", "parked", "ended"}
    /\ budget \in 0..Budget /\ elapsed \in BOOLEAN /\ running \subseteq Side
    /\ Range(sockmap) \subseteq Side
    /\ next \in [Side -> Data]
    /\ \A f \in {fin, shut, early} : f \in [Side -> BOOLEAN]
    /\ \A s \in Side :
        /\ Len(inbox[s]) <= InCap /\ Range(inbox[s]) \subseteq Data \cup {End, "control"}
        /\ Len(outbox[s]) <= OutCap + 1 /\ Range(outbox[s]) \subseteq Data \cup {End}

\* What is on its way from peer s: an end that was forwarded is not read again.
UnderWay(s) ==
    outbox[Other(s)] \o IF shut[Other(s)] THEN <<>> ELSE inbox[s]

\* The sockmap makes no such promise: what was received before the sockets were
\* in the map may be overtaken.
Promised(s, queue) == IF mode = "sockmap" THEN <<>> ELSE queue

FromClient == INSTANCE Channel WITH
    Item <- Data \cup {"control"}, End <- End,
    queue <- Promised("client", UnderWay("client")),
    ended <- mode # "sockmap" /\ fin["client"],
    open <- mode = "sockmap" \/ pc # "ended"

FromBackend == INSTANCE Channel WITH
    Item <- Data, End <- End,
    queue <- Promised("backend", UnderWay("backend")),
    ended <- mode # "sockmap" /\ fin["backend"],
    open <- mode = "sockmap" \/ pc # "ended"

\* Each direction of a spliced connection, with TLS terminated or not, is a
\* first-in, first-out channel: the end of a stream is forwarded once and after
\* all of its data, whatever the other direction, the budget and the deadline
\* do, and whatever ends the transfer leaves no gap.
ForwardsInOrder == FromClient!Spec /\ FromBackend!Spec

\* Alternating items, the end only last.
InSequence(q) == \A i \in 1..(Len(q) - 1) : q[i] \in Data /\ q[i + 1] \in {Flip(q[i]), End}

\* The hash tells the sockets apart: no packet is found under the key of the
\* other one.
KeysDiffer ==
    /\ SocketKey("client") # SocketKey("backend")
    /\ \A s \in Side : PacketKey(s) # SocketKey(Other(s))

\* The sockmap keeps the order of what a peer sends if nothing of it had been
\* received when the second insert was made, and the keys do not collide.
SockmapKeepsOrder ==
    mode = "sockmap" /\ pc # "ended" /\ KeysDiffer =>
        \A s \in Side : ~(early[s] /\ StreamVerdict(s) # {}) => InSequence(UnderWay(s))

\* The key computed in user space is the one stream_verdict computes: with both
\* inserts made, a packet on an IPv6 socket is redirected to the other one.
RedirectsToOther ==
    Cardinality(DOMAIN sockmap) = 2 =>
        \A s \in Side : pair[s].local.family = "v6" => StreamVerdict(s) = {Other(s)}

\* cnx_max_duration ends a passthrough however much its peers send; it ends a
\* TLS connection that runs out of data again and again.
DeadlineEnds ==
    (mode # "tls" \/ []<>(pc = "timer" /\ budget > 0)) => <>(pc = "ended")

\* The same of every TLS connection. It does not hold: traffic that spends the
\* budget in each poll, and two ended streams, keep select! from its timer.
TransferEnds == <>(pc = "ended")
=============================================================================
