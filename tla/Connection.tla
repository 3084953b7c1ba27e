----------------------------- MODULE Connection -----------------------------
(***************************************************************************)
(* handle_client (turbine/src/main.rs) for the connections of one rule,    *)
(* with extract_tls_info, find_matching_upstream (match.rs) and            *)
(* pick_backend (load_balancing_strategy.rs). The tasks share the rule and *)
(* its round-robin counters.                                               *)
(*                                                                         *)
(* What a client sends is cut into chunks 1, 2, ... by the network. In a   *)
(* TLS rule the first hello[c] of them are its hello and the next one the  *)
(* end of its handshake. The network, the backends and rustls are external.*)
(***************************************************************************)
EXTENDS Integers, Sequences, FiniteSets

CONSTANTS Conn,
          Tls,        \* the rule's protocol is Tls, not Tcp
          Upstreams,  \* the rule's upstreams, in order
          Contexts,   \* what a client may ask for: [sni, alpns, port]
          NoName,     \* the sni of a hello without one
          PeekSize,   \* how many chunks of a hello one read of the deframer sees
          Modulus,    \* 2^w for the width w of the round-robin counter
          MaxChunks   \* bound: the chunks a client sends

MatchConfig == {"Any", "None", "Sni", "SniRegex", "SniRegexNot", "Alpn", "DestinationPort"}

\* An upstream of the configuration. The addresses of its backends are the
\* numbers up to backends; its durations are the timers' business.
UpstreamConfig(u) ==
    /\ DOMAIN u = {"match", "backends", "lb", "proxy_protocol", "tls"}
    /\ u.match.kind \in MatchConfig
    /\ u.backends \in Nat \ {0}
    /\ u.lb \in {"RoundRobin", "Random"}
    /\ u.proxy_protocol \in BOOLEAN /\ u.tls \in BOOLEAN

ASSUME RuleAssumption ==
    /\ Len(Upstreams) \in Nat \ {0}
    /\ \A i \in 1..Len(Upstreams) : UpstreamConfig(Upstreams[i])
    /\ PeekSize \in Nat \ {0} /\ Modulus \in Nat \ {0} /\ MaxChunks \in Nat
ASSUME ConnAssumption == IsFiniteSet(Conn)

VARIABLES
    stage,     \* where the task is
    context,   \* what the client asks for
    hello,     \* in how many chunks its hello comes
    sent,      \* how many chunks it has sent
    taken,     \* how many chunks were read from its socket
    upstream,  \* the index of the upstream chosen, 0 for none
    backend,   \* the index of the backend chosen
    ix,        \* LoadBalancingStrategy::RoundRobin::ix of each upstream
    got        \* what the backend was sent: 0 for the proxy header, or chunks

taskVars == <<upstream, backend, ix>>
dataVars == <<taken, got>>
clientVars == <<context, hello, sent>>
vars == <<stage, taskVars, dataVars, clientVars>>

Up(c) == Upstreams[upstream[c]]

Goto(c, s) == stage' = [stage EXCEPT ![c] = s]

Init ==
    /\ stage = [c \in Conn |-> "new"]
    /\ context \in [Conn -> Contexts]
    /\ hello \in [Conn -> IF Tls THEN 1..(PeekSize + 1) ELSE {0}]
    /\ sent = [c \in Conn |-> 0]
    /\ taken = [c \in Conn |-> 0]
    /\ upstream = [c \in Conn |-> 0]
    /\ backend = [c \in Conn |-> 0]
    /\ ix = [u \in 1..Len(Upstreams) |-> 0]
    /\ got = [c \in Conn |-> <<>>]

\* What comes after the task has closed the socket is of no consequence.
ClientSends(c) ==
    /\ sent[c] < MaxChunks /\ stage[c] \notin {"closed", "failed"}
    /\ sent' = [sent EXCEPT ![c] = @ + 1]
    /\ UNCHANGED <<stage, taskVars, dataVars, context, hello>>

-----------------------------------------------------------------------------
\* The socket options are set.
Start(c) ==
    /\ stage[c] = "new"
    /\ Goto(c, IF Tls THEN "peek" ELSE "match")
    /\ UNCHANGED <<taskVars, dataVars, clientVars>>

PeekReads(c) ==
    /\ stage[c] = "peek"
    /\ sent[c] >= hello[c]
    /\ taken' = [taken EXCEPT ![c] = hello[c]]
    /\ Goto(c, "match")
    /\ UNCHANGED <<taskVars, got, clientVars>>

\* extract_tls_info: once the socket is readable it looks, once, at what there
\* is without taking it, and no further than the buffer of the deframer reaches;
\* a hello that is not complete in it is an error.
Peek(c) ==
    /\ stage[c] = "peek"
    /\ sent[c] >= 1
    /\ Goto(c, IF sent[c] >= hello[c] /\ PeekSize >= hello[c] THEN "match" ELSE "no_frame")
    /\ UNCHANGED <<taskVars, dataVars, clientVars>>

\* The name and protocols of the hello; a Tcp rule does not look for them.
Sni(c) == IF Tls THEN context[c].sni ELSE NoName
Alpns(c) == IF Tls THEN context[c].alpns ELSE {}

\* The condition of an upstream; a regular expression is the set of names that
\* it matches.
Matches(m, c) ==
    \/ m.kind = "Any"
    \/ m.kind = "Sni" /\ Sni(c) # NoName /\ Sni(c) = m.arg
    \/ m.kind = "SniRegex" /\ Sni(c) # NoName /\ Sni(c) \in m.arg
    \/ m.kind = "SniRegexNot" /\ Sni(c) # NoName /\ Sni(c) \notin m.arg
    \/ m.kind = "DestinationPort" /\ context[c].port = m.arg
    \/ m.kind = "Alpn" /\ m.arg \in Alpns(c)

\* find_matching_upstream: the first upstream whose condition holds.
FindMatchingUpstream(c) ==
    {u \in 1..Len(Upstreams) :
        /\ Matches(Upstreams[u].match, c)
        /\ \A v \in 1..(u - 1) : ~Matches(Upstreams[v].match, c)}

NoMatch(c) ==
    /\ stage[c] = "match"
    /\ FindMatchingUpstream(c) = {}
    /\ Goto(c, "closed")
    /\ UNCHANGED <<taskVars, dataVars, clientVars>>

PickAhead(u) == {(ix[u] + 1) % (Upstreams[u].backends + 1)}

\* pick_backend: the counter before its fetch_add, or the clock, modulo the
\* number of backends.
PickBackend(u) ==
    IF Upstreams[u].lb = "RoundRobin" THEN {ix[u] % Upstreams[u].backends}
                                      ELSE 0..(Upstreams[u].backends - 1)

FetchAddLost(u) == ix' = ix

\* The counter of a round robin advances, and wraps at its width.
FetchAdd(u) ==
    ix' = [ix EXCEPT ![u] = IF Upstreams[u].lb = "RoundRobin" THEN (@ + 1) % Modulus ELSE @]

Route(c) ==
    /\ stage[c] = "match"
    /\ \E u \in FindMatchingUpstream(c) :
        /\ upstream' = [upstream EXCEPT ![c] = u]
        /\ \E b \in PickBackend(u) : backend' = [backend EXCEPT ![c] = b + 1]
        /\ FetchAdd(u)
    /\ Goto(c, "connect")
    /\ UNCHANGED <<dataVars, clientVars>>

-----------------------------------------------------------------------------
\* connect succeeds at once, goes on in the background (EINPROGRESS), or fails.
Connect(c) ==
    /\ stage[c] = "connect"
    /\ \E s \in {"proxy", "connecting", "failed"} : Goto(c, s)
    /\ UNCHANGED <<taskVars, dataVars, clientVars>>

\* The socket is writable: SO_ERROR tells whether it is connected.
Connected(c) ==
    /\ stage[c] = "connecting"
    /\ \E s \in {"proxy", "failed"} : Goto(c, s)
    /\ UNCHANGED <<taskVars, dataVars, clientVars>>

ConnectTimeout(c) ==
    /\ stage[c] = "connecting"
    /\ Goto(c, "failed")
    /\ UNCHANGED <<taskVars, dataVars, clientVars>>

\* Where the connection goes on once the backend is connected.
Mode(c) == IF Up(c).tls THEN "tls_accept" ELSE "splice"

\* The proxy protocol header, if the upstream wants it.
SendProxy(c) ==
    /\ stage[c] = "proxy"
    /\ got' = [got EXCEPT ![c] = IF Up(c).proxy_protocol THEN Append(@, 0) ELSE @]
    /\ Goto(c, Mode(c))
    /\ UNCHANGED <<taskVars, taken, clientVars>>

\* tls_acceptor.accept reads the hello and the end of the handshake, and maybe
\* more, which config_ktls_server drains.
TlsAccept(c) ==
    /\ stage[c] = "tls_accept"
    /\ sent[c] > hello[c]
    /\ taken' = [taken EXCEPT ![c] = hello[c] + 1]
    /\ Goto(c, "handover")
    /\ UNCHANGED <<taskVars, got, clientVars>>

\* config_ktls_server and the write of the drained chunk, if there is one.
Handover(c) ==
    /\ stage[c] = "handover"
    /\ \E t \in {taken[c], taken[c] + 1} :
        /\ t <= sent[c]
        /\ taken' = [taken EXCEPT ![c] = t]
        /\ got' = [got EXCEPT ![c] = IF t = taken[c] THEN @ ELSE Append(@, t)]
    /\ Goto(c, "transfer")
    /\ UNCHANGED <<taskVars, clientVars>>

\* A step returns an error: a socket option, the peek, the handshake, the
\* hand-over or a write.
Fail(c) ==
    /\ stage[c] \in {"new", "peek", "proxy", "tls_accept", "handover"}
    /\ Goto(c, "failed")
    /\ UNCHANGED <<taskVars, dataVars, clientVars>>

\* splice_bidirectional, zero_copy_bidirectional: the client's next chunk. The
\* two directions of the transfer are in module Transfer.
Forward(c) ==
    /\ stage[c] \in {"splice", "transfer"}
    /\ taken[c] < sent[c]
    /\ taken' = [taken EXCEPT ![c] = @ + 1]
    /\ got' = [got EXCEPT ![c] = Append(@, taken[c] + 1)]
    /\ UNCHANGED <<stage, taskVars, clientVars>>

\* Both directions ended, or one failed. The loop of the TLS branch leaves on an
\* error only, and calls zero_copy_bidirectional again after an end.
Finish(c) ==
    /\ stage[c] \in {"splice", "transfer"}
    /\ Goto(c, "closed")
    /\ UNCHANGED <<taskVars, dataVars, clientVars>>

NoDeadline(c) ==
    /\ stage[c] = "transfer"
    /\ Goto(c, "closed")
    /\ UNCHANGED <<taskVars, dataVars, clientVars>>

\* cnx_max_duration has elapsed since the transfer began.
MaxDuration(c) ==
    /\ stage[c] \in {"splice", "transfer"}
    /\ Goto(c, "closed")
    /\ UNCHANGED <<taskVars, dataVars, clientVars>>

-----------------------------------------------------------------------------
\* handle_client has returned.
Ended(c) == stage[c] \in {"closed", "failed", "no_frame"}

TaskStep(c) ==
    \/ Start(c) \/ NoMatch(c) \/ Route(c) \/ Connect(c) \/ SendProxy(c)

Next == \E c \in Conn :
    \/ ClientSends(c)
    \/ TaskStep(c)
    \/ Peek(c) \/ Connected(c) \/ ConnectTimeout(c)
    \/ TlsAccept(c) \/ Handover(c) \/ Fail(c)
    \/ Forward(c) \/ Finish(c) \/ MaxDuration(c)

Spec == Init /\ [][Next]_vars

\* A step that waits for nobody is taken, a readable socket is looked at and a
\* timer fires, but for the one of the TLS loop, which traffic can keep from
\* being polled (module Transfer). Nothing is owed by the client or by the
\* backend.
Fairness ==
    \A c \in Conn :
        /\ WF_vars(TaskStep(c))
        /\ WF_vars(Peek(c))
        /\ WF_vars(ConnectTimeout(c))
        /\ WF_vars(stage[c] = "splice" /\ MaxDuration(c))

FairSpec == Spec /\ Fairness

-----------------------------------------------------------------------------
\* The types of the variables; no more is taken than was sent, and the backend is
\* one of the upstream's.
TypeOK ==
    /\ stage \in [Conn -> {"new", "peek", "match", "connect", "connecting", "proxy",
                           "splice", "tls_accept", "handover", "transfer", "closed", "failed", "no_frame"}]
    /\ context \in [Conn -> Contexts]
    /\ hello \in [Conn -> 0..(PeekSize + 1)]
    /\ sent \in [Conn -> 0..MaxChunks]
    /\ taken \in [Conn -> 0..MaxChunks]
    /\ \A c \in Conn : taken[c] <= sent[c]
    /\ upstream \in [Conn -> 0..Len(Upstreams)]
    /\ backend \in [Conn -> Nat]
    /\ \A c \in Conn : upstream[c] # 0 => backend[c] \in 1..Up(c).backends
    /\ ix \in [1..Len(Upstreams) -> 0..(Modulus - 1)]
    /\ got \in [Conn -> Seq(0..MaxChunks)]

\* The backend is sent the proxy header first, when its upstream wants one, and
\* then everything the client sent, from its first byte (or, where TLS ends
\* here, from the first after its handshake), without gap or repetition,
\* whatever was looked at for routing or drained on the way.
BackendSeesWholeStream ==
    \A c \in Conn : stage[c] \in {"splice", "transfer"} =>
        LET first == IF Up(c).tls THEN hello[c] + 2 ELSE 1
            head == IF Up(c).proxy_protocol THEN <<0>> ELSE <<>>
        IN got[c] = head \o [k \in 1..(taken[c] - first + 1) |-> first + k - 1]

\* The connections that were given an upstream.
Routed(u) == {c \in Conn : upstream[c] = u}

\* Connections routed at once by several tasks share the backends evenly: the
\* numbers of connections of any two backends of an upstream differ by one at
\* most, as long as the counter has not wrapped.
BalancedPicks ==
    \A u \in 1..Len(Upstreams) :
        Upstreams[u].lb = "RoundRobin" /\ Cardinality(Routed(u)) <= Modulus =>
            LET picks(b) == Cardinality({c \in Routed(u) : backend[c] = b})
            IN \A a, b \in 1..Upstreams[u].backends : picks(a) <= picks(b) + 1

\* A connection that was given an upstream which does not end TLS is closed at
\* last, even if neither the client nor the backend ever does anything more.
PassthroughEnds ==
    \A c \in Conn : (upstream[c] # 0 /\ ~Up(c).tls) ~> Ended(c)

\* config.yaml gives every upstream a cnx_max_duration: no connection it serves
\* lasts for ever.
ServedEnds == \A c \in Conn : upstream[c] # 0 ~> Ended(c)

\* README: the name in the hello is inspected for routing. A connection given up
\* for want of a hello (extract_tls_info) is never one that sends it.
HelloIsRouted == \A c \in Conn : stage[c] = "no_frame" => sent[c] < hello[c]
=============================================================================
