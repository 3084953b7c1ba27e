# Verification of turbine

Turbine is a level-4 TCP/TLS load balancer (`src/turbine`) that terminates TLS
with kernel TLS (`src/ktls`). This directory holds TLA+ models of its parts,
the TLC configurations that check them on small instances, and TLAPS proofs of
the main safety properties for every instance.

## The system and its parts

| Part | Code | Modules | State |
|---|---|---|---|
| Event loop: listeners, accepts, reload of rules | `turbine/src/event_loop.rs` | `LoadBalancer`, `Service`, `LoadBalancerProofs`, `ServiceProofs` | modelled, proved |
| Start-up, signals, shutdown | `main` in `turbine/src/main.rs` | `LoadBalancer`, `ConfigWatcher` | modelled |
| Configuration reload | `turbine/src/config/mod.rs`, `tls.rs` | `ConfigWatcher`, `ConfigWatcherProofs` | modelled, proved |
| Configuration format | `turbine/src/config/types.rs` | `Connection`, `ConfigWatcher` | what reloading and routing depend on |
| Connection handling | `handle_client`, `extract_tls_info` in `main.rs` | `Connection`, `KtlsHandover`, `Transfer`, `ConnectionProofs` | modelled, proved |
| Routing, choice of a backend | `match.rs`, `load_balancing_strategy.rs` | `Connection`, `ConnectionProofs` | modelled, proved |
| Hand-over to kernel TLS | `ktls/src/cork_stream.rs`, `lib.rs`, `ffi.rs` | `KtlsHandover`, `KtlsSetup`, `KtlsHandoverProofs` | modelled, proved |
| Kernel TLS stream | `ktls/src/ktls_stream.rs`, `ffi.rs` | `KtlsStream`, `KtlsStreamProofs` | modelled, proved |
| Splicing | `splice_strategy/splice.rs`, `naive.rs` | `Transfer`, `Channel`, `TransferProofs` | the strategy in use, proved |
| eBPF sockmap | `splice_strategy/ebpf_sockmap.rs`, `splice-ebpf` | `SocketHash`, `Transfer`, `SockmapProofs` | for one connection, proved |
| Build tooling | `xtask` | - | left out: no behaviour at run time |

`main` parses the configuration, starts a `ConfigWatcher` and the event loop.
The watcher's threads poll files, parse them and send whole configurations over
a bounded channel. The event loop (`listen_config_change`) keeps one watch
channel per listening address; a runner task per address accepts connections
and spawns one task per connection, with the rule it holds at that moment. On a
signal `main` sends a shutdown, waits a grace period and then returns when the
counter of running tasks reads zero.

A connection task runs `handle_client` (`Connection`): it looks at the hello,
chooses an upstream and a backend, connects, and then either splices the two
sockets or ends TLS, hands the session to the kernel (`KtlsHandover`,
`KtlsStream`) and splices the kernel's plaintext. The splice itself, both ways
and under the deadline, is `Transfer`.

Two modules are abstract. `Service` says what a connection may see of the whole
process; `LoadBalancer` is shown to implement it. `Channel` says what one peer
of a spliced connection may see of the other; `Transfer` is shown to implement
it once for each direction.

## LoadBalancer

One variable per shared object or task of the code:

* `main` - where `main` is between start-up and its return; `shutdown` - the
  value of the shutdown watch channel; `tasks_running` - the counter;
* `configs`, `sent` - the configurations in the order the watcher sends them
  (a configuration is the set of addresses it lists; its number stands for its
  rules), `applied`, `loop`, `todo` - the event loop, and the addresses the
  reload in progress has still to go through;
* `listeners` - the map of watch senders; `watched` - the value of each watch
  channel; a runner is named by its address and the configuration it was
  spawned for, so that an address removed and added again has two runners;
* `runner`, `rule`, `budget`, `ready` - the runner tasks: the state, the rule
  last taken from the channel, what is left of tokio's cooperative budget in
  this poll, and the readiness flag of the socket;
* `cnx`, `at`, `served` - each connection: its state, the runner whose queue it
  is in, the rule it was given; `promised` is auxiliary: the rule its runner
  had been sent when it was accepted.

Each `select!` branch, each early return and each `await` boundary is an
action: `LoopPollShutdown`, `LoopRecv`, `LoopPark`/`LoopWake`, and `LoopUpdate`
for each address of a configuration, since other threads see them one by one;
`RunnerStart`/`RunnerFail`, `PollChanged`, `Accept`, `AcceptErr`,
`AcceptPending`, `Park`/`Wake`, `DrainAccept`, `DrainErr`, `DrainEnd`;
`TaskStart`, `TaskEnd`; `Signal`, `SendShutdown`, `CheckDrained`, `CheckBusy`,
`Tick`, `Interrupt`, and `Exit`, the return of `main`: between the read of the
counter and the return other tasks go on. Tokio, the reactor and the kernel's accept queue are
external: `poll_accept` returns Pending when the queue is empty, when the
readiness flag is clear or when the budget is spent.

Bounds: `Addr`, `Conn`, `MaxGen` configurations, `ChanCap` places in the
configuration channel, `CoopBudget` operations per poll. Three configurations
are what it takes to keep, remove and add an address; two connections to have
one served and one queued; a budget of one to exhaust it. That listeners of
several addresses do not disturb each other is left to the proofs.

| Run | Checks |
|---|---|
| `reload` | One address, three configurations, two connections: the safety properties below and `KeepsPromise`. |
| `live` | The liveness properties under `FairSpec`. |
| `drain_all` | Violated: `DrainedDropsNone`. |
| `respawn` | Violated: `AbsentTaskIsSpawned`. |

Safety: `LeavesWithNoTask` (when `main` leaves its loop for a zero counter no
started task is running; one may start before `main` returns),
`ListenersMirrorConfig` (between reloads the senders are those of the last
configuration applied and each channel holds its rule; during one this is so of
the addresses it has gone through), `StopsOnlyWhenRemoved` (a listener
stops only when its sender is gone and its last rule taken),
`ServedWithCurrentRule` (a connection gets a rule at least as new as the one
its runner had been sent when it was last woken for an accept, and one that
lists its address), `ReloadKeepsRunner` (a reload leaves the runners of the
addresses that stay).

`KeepsPromise` is the refinement `Promise == INSTANCE Service WITH ...`: a
connection queued or spawned is *waiting*, one whose task runs is *served*, one
reset with its listener or dropped with the process is *lost*. `Service` allows
it to be served once, with one rule not older than the one in force on its
listener when it came and not newer than the last one published, and lets a
process leave of itself only if it serves none when it decides to (`Decide`). What
it cuts when it then leaves (`Leave`) it began to serve in between. That a waiting
connection may be lost is part of the promise: it is what the code does
(`drain_all`).

Liveness (`DrainTerminates`, `RemovedListenerEnds`, `QueueIsServed`,
`PublishedRuleIsTaken`) assumes weak fairness of the loop, of every runner, of
every connection task and of `main`: tokio polls a task that was woken. It is
not assumed that clients connect, that signals arrive or that an accept fails.

### Proofs

`LoadBalancerProofs` proves, for all sets of addresses, all finite sets of
connections and all bounds, the type invariant and the five safety properties of
run `reload`; `ServiceProofs`, which extends it, proves `ImplementsService`
(`Spec => KeepsPromise`). Two inductive invariants carry the argument. `CounterInv` says that the counter is
the number of connections being served (`CounterExact`): without it nothing
ties the zero that `main` reads to the tasks. `RuleInv` ties each runner to its
channel: a live sender's channel holds the rule of the last configuration
applied, a runner's rule is never newer than its channel, and only a runner
with a dropped sender and nothing unseen is draining or ended. The
preservation of `RuleInv` goes by what an action does to a runner
(`RunnerEffect`: nothing, take the rule, close, spawn) rather than action by
action. For the refinement every action is a stutter of `Service` or one of its
actions; `RuleInv` gives the bounds of the rule a connection is served with,
`CounterInv` that a process that decides to leave serves none. Liveness is only
model-checked.

## ConfigWatcher

`disk` holds the version and content of the configuration, certificate and key
files. Each notify `PollWatcher` is a thread `w` with `base[w]` (what it last
saw), `left[w]` (changed paths of the current scan) and `stop[w]`; `pc[w]` is
where its handler is: `Detect`, `ParseConfig`, `LoadCertificate`, `LoadKey`
(one upstream after the other, `Drop` on an error), `WatchConfig`,
`WatchFiles`, `Lock`, `Send`, `Install`. A configuration is the set of upstreams
that loaded, each with the identities of its certificate and of its key: the code
does not compare the two, so that a pair replaced in part is loaded and sent.
A file that is missing when a watcher is given it is not watched, now or later;
`missed` records those. `NewWatch` and `NewInstall` are
`ConfigWatcher::new`, which runs beside the first watcher's thread. The channel
is a counter: only `last`, the configuration sent last, matters.

The writers of the files are the environment. `Writers` says which habits they
have: `racing` (write while a reload is in progress), `torn` (a certificate and
its key one after the other), `early` (a renewal before anything watches the
certificate), `loss` (a file is removed). `calm` is a history variable: every
write so far was to a watched file that stayed, and came when no handler stood
between reading a file and having it watched (`Settled`).

| Run | Checks |
|---|---|
| `watch_safety` | All habits, two writes, a channel of one place and an event loop that may leave: `NoOrphanWatcher` (a thread that is neither installed nor being installed has been told to stop), `WatcherMatchesConfig` (the installed watcher watches the files of the configuration sent last, but for those missing when it was built, and no others), `HandlersFinish` (no handler waits for ever on the mutex or the channel), `CalmReload` (if all writes were calm, the configuration sent last ends up being what is on disk; a certificate may be replaced before its key, and a write may come while a handler is about to read, or sends and installs what it read). |
| `watch_early` | Violated: `AutoReload`, one early renewal. |

Fairness: every thread, `new` and the event loop's `recv`. `MaxWrites` bounds
the environment. `MaxWatcher` must be large enough that no handler is stopped
by it, which is what `HandlersFinish` would show: four for two writes. The runs
do not check for deadlock: with nothing left to write the system rests.

### Proofs

`ConfigWatcherProofs` proves `NoOrphans` and `MatchesConfig` for any number of
watchers, upstreams and writes. The inductive invariant `WatchInv` says that
watchers are created in order (`Created`), that a handler has a child exactly
while it builds one (`Referred`), that the mutex is held exactly during the send
and the installation (`Locked`), and that the child watches the files of what is
about to be, or was, sent, but for those it missed (`Consistent`): without the last two a racing handler
could come between the send and the installation. `WatcherTypes` proves `TypeOK`
on top of it: what a handler loads is of the right kind because a certificate it
holds was read from a file that existed (`Files`, `Loaded`), a scan keeps to
watched paths because a watcher has no scan before it is created (`Scanned`), and
the channel keeps to its capacity, which is assumed not to be zero (`Sent`; it is
10 in `main`). The liveness properties are only model-checked.

## KtlsHandover

How a connection whose TLS ends here passes from rustls to the kernel. The
client's stream is a sequence of byte positions cut into records (`net`); the
client stops anywhere (`cut`), with a FIN (`fin`) or silent with the connection
open, and the socket may fail at any read (`ReadError`). `CorkStream` knows only its own `state`, `offset` and
`msg_size`; each outcome of its `poll_read` is an action (`HeaderPart`,
`HeaderDone`, `HeaderEof`, `ReadPayload`, `PayloadEof`, `Passthrough`,
`EmptyRead`), for every number of bytes the socket may return. rustls is
external: it asks for bytes until it holds plaintext or a close_notify
(`Reading`), and opens the records it has in full (`Feed`). `AcceptDone` corks
the stream, at any byte; `DrainTake`, `DrainEnd`, the three calls of
`setup_inner` (`SetupUlp`, `SetupTx`, `SetupRx`), `WriteDrained`,
`KernelRead` and `TransferEnds` follow `config_ktls_server` and `handle_client`.
`drained` and `upstream` are the sequences of the records read by the drain and
written to the backend, so that their order is checked too.

`KtlsSetup` holds the cipher suites: what `CompatibleCiphers` finds out about a
kernel by setting up sample sockets (`TestCiphers`), how `is_compatible` reads
it, and what the kernel takes for each direction. The probe is not called by
turbine; `ProbeForetells` says how far its answer goes for `setup_inner`.

| Run | Checks |
|---|---|
| `handover` | Up to four records of one or two bytes behind the real five-byte header, every slicing, every end: `KernelInSync`, `UpstreamIsComplete`, `DrainFits`, `ProbeForetells`, and under fairness `DrainFinishes`. |

Nothing limits the time of the handshake and the drain: `DrainFinishes` says that
the drain ends unless the client falls silent inside a record (`SilentInRecord`);
silence between records does not hold it up. A payload of one byte completes in one read and one of two can be split;
longer ones add nothing to the state machine. Fairness: bytes sent arrive, and
the task is polled. The kernel of the run lacks one suite for transmitting and
another for receiving. The runs do not check for deadlock: a connection ends.

### Proofs

`KtlsHandoverProofs` proves the five invariants for every set of streams (any
number and size of records, any header length), every slicing and every kernel.
`KernelInSync` is not inductive: it needs `HandInv`, which says that
until the transfer what `CorkStream` believes of the framing is true
(`Framing`), and that rustls never holds more than one data record, and then
with the socket at a boundary, where a corked stream reads no more (`HoldInv`).
That the probe's fields are the ones `is_compatible` reads is the lemma
`ProbeIsTx`. `DrainFinishes` is only model-checked.

## KtlsStream

`KtlsStream` with the bytes drained before it. Bytes are numbered, so that
order, loss and repetition show in `out`. Every branch of `poll_read` is an
action; `woken` is whether the reading task will be polled, since one branch
returns Pending after taking a message. The peer may end the stream (`PeerEnds`),
a read may fail, and where the code expects a control message and there is none it
panics (`ReadPanics`, `HandleEnd`). Sends of a close_notify may fail, and
do once the socket is shut. Data leaves by `poll_write` or by a splice through
`poll_write_ready` and `try_io` (`SpliceWrite`). `handle_msg`, which nobody
calls, is modelled too: it takes whatever record comes next.

| Run | Checks |
|---|---|
| `ktls_reads` | Three drained bytes, buffers of one and three, three records of any kind, the end of the stream, two writes: `ReadsInOrder` (the bytes come in order and none twice, all of the socket's and at least half of the drained ones; `into_raw` gives all of these), `NoDataAfterCloseNotify`, `NoLostWakeup` (a reader that nobody will wake was told of an end or waits at an empty socket), and `ArrivedIsRead` under fairness of the woken task alone. |
| `ktls_small_reads` | Violated: `PollReadsInOrder`. |

Three records are a control message between two pieces of data. Three drained
bytes are what it takes for `poll_read` to give one up. The runs do not
check for deadlock: a stream is dropped or has nothing left to read.

### Proofs

`KtlsStreamProofs` proves `NothingAfterTheEnd` with `CloseInv`: `write_closed`
is set no later than the first close_notify is sent, whichever operation sends
it. It proves `ReadsAll` (`ReadsInOrder`) for buffers of any size. That no drained
byte is lost is false (`ktls_small_reads`); what holds is that at least half are
read, since the index reaches the length of the rest before the vector is given up.
`OutInv` says which bytes the reader has, by place: drained ones up to
`drain_index`, then those of the socket. `OrderInv` numbers the records in the socket: each data record holds the byte
after the last one sent before it. The function that numbers them is chosen at
each step, since a count over a sequence would need induction. `StreamTypes`
(`TypeOK`) proves that whatever the size of the buffers no read
goes past the drained bytes, because `has_drained` is kept only while some are
left. `WakeupsKept` proves `NoLostWakeup`, the part of `ArrivedIsRead` that is not
liveness and is inductive as it stands. `ArrivedIsRead` is only model-checked.

## Connection

`handle_client` for the connections of one rule. `stage` follows its awaits and
early returns: peek, match, connect, proxy header, then the splice, or the TLS
handshake, the hand-over (in detail in `KtlsHandover`, here at most one chunk is
drained, which is `DrainFits`) and the transfer. `Matches` is the condition of
an upstream, `PickBackend` and `FetchAdd` the round robin with its shared
counter. The stream from the client is a sequence of chunks, of which the hello
takes the first. `extract_tls_info` looks once, at what has come and fits one read
of rustls' deframer (`PeekSize` chunks, 4096 bytes in the library); a hello may be
longer than that, and is then refused.

| Run | Checks |
|---|---|
| `serve` | Two connections, four chunks each, a rule with every kind of condition but `Any`: `BackendSeesWholeStream`, `BalancedPicks`, and `PassthroughEnds`, for which only the task's own steps and the timers are fair. |
| `hello` | Violated: `HelloIsRouted`. |

Connections share nothing but the counters, so that two are enough. Four chunks
are a hello, the end of a handshake, a drained chunk and a forwarded one.
`Modulus` stands for 2^64 and is not reached (`BalancedPicks` says nothing of a
counter that has wrapped). The runs do not check for
deadlock: a connection ends. The timer of the TLS loop is not assumed to fire
(see `Transfer`).

### Proofs

`ConnectionProofs` proves `WholeStream` for any list of
upstreams, set of clients and number of chunks. The invariant `ConnInv` says for
each stage what has been taken from the client and given to the backend
(`StreamInv`). `ConnectionTypes` proves `TypeOK`;
it needs that no more is taken than was sent, and that a connection has no
upstream before it is matched (`TypeInv`).

`RoundRobinBalances` proves `BalancedPicks` for any finite set of connections,
any numbers of backends and any width of the counter, as long as an upstream has
had no more connections than the counter has values. That the numbers of any two
backends differ by one at most is not inductive: `EvenInv` says which backends
are ahead. After n connections the counter is n, and the first n % m of m
backends have one connection more than the others (`EvenAt`). `EvenNext` is the
step, from the arithmetic of remainders (`NextRemainder`, from the uniqueness of
a remainder); `EvenRoute` shows that a route is such a step of one upstream and
none of the others, with the cardinality theorems for finite sets. No induction
over data is needed, because the invariant carries the count. `PassthroughEnds`
is liveness and only model-checked.

## Transfer, SocketHash

The two directions between a client and a backend. Each side has an `inbox`
(what its socket has received) and an `outbox` (what its socket is sending);
items alternate between `even` and `odd`, so that a lost, repeated or overtaken
one shows while traffic may go on for ever. The task copies while a direction is
ready and tokio's budget lasts (`CopyItem`, `CopyEnd`, `CopyControl`,
`CopyFails`, `CopyDone`), then polls its timer (`Timer`), then parks. There are
three modes:

* `splice`: passthrough, `tokio::time::timeout` around the copy. tokio polls that
  delay even without budget.
* `tls`: the `select!` loop. Its `Sleep` is pending without budget, and after two
  ended directions the loop copies again. A record that is not data makes the
  splice fail, which ends the loop.
* `sockmap`: `SockMapSplice`, with its two inserts (`Insert`, `InsertFails`), the
  verdict of the kernel for each packet (`StreamVerdict`), and the copy of what
  was received before. `handle_client` does not select it.

`SocketHash` computes the keys: `socket_hash` in user space, `VerdictKey` in the
eBPF program from `SkBuff`, what the kernel says of a packet. A byte has `Byte`
values, 256 in the code and 4 in the run, so that words and their overflow fit
TLC's integers; the proofs are for every `Byte`.

| Run | Checks |
|---|---|
| `transfer` | All modes, IPv4 sockets, IPv6 sockets and IPv6 sockets whose keys collide, two places to receive and one to send, a budget of two: `ForwardsInOrder` (each direction implements `Channel`, sockmap excepted), `SockmapKeepsOrder` (so does the sockmap for a peer of whom nothing had been received at the second insert, if the keys do not collide), `RedirectsToOther`, and under fairness `DeadlineEnds`. |

Two places are what it takes for an item to stand behind another and before the
end; a budget of two lets a poll end with and without budget left. Fairness: a
task that is to be polled is polled, and time passes; the peers owe nothing.
`DeadlineEnds` has a condition for `tls`: the connection runs out of data, with
budget left, again and again. Without it the property is false (`TransferEnds`):
traffic that spends the budget in every poll keeps `select!` from its timer, and
so do two ended streams. The run does not check for deadlock: a connection ends.

### Proofs

`TransferProofs` proves `ImplementsChannels` (`Spec => ForwardsInOrder`) for all
capacities and budgets. What is under way is the outbox of the one side followed
by the inbox of the other, unless the end was forwarded; the invariant
`OrderInv` says where an end may be (last, and alone once forwarded), so that a
copy is a stutter, and a close keeps a prefix. `SockmapProofs` proves
`KeysAgree`: for IPv6 sockets the key of user space is the key of the kernel,
from `ToBeReverses` (`to_be` of a big-endian read is a little-endian one) and the
placement of the ports; and `Redirects`, from `MapInv`, which lists what the map
may hold. Its assumption `V6Sockets` says that an IPv6 socket has IPv6 addresses
at both ends. For IPv4 sockets nothing is redirected: the kernel's IPv6 words
are zero, and the copy in user space carries the data.

`TransferTypes` proves `TypeOK` for all modes: the control part (`Fields`) and
the queues (`Queues`), which stay within their capacities whether an item comes
from the peer, the copy or the kernel. The exception is the end of a stream,
which is sent whether there is room or not: a queue may be one above its
capacity, but only once it is shut, and that is what makes the bound inductive.

`SockmapInOrder` proves `SockmapKeepsOrder` for every pair of sockets whose keys
differ (`KeysDiffer`). The condition is needed: with the colliding pair of the
run, TLC finds that after the first insert a packet of the backend is found under
the client's key and redirected to the backend itself. The inductive invariant `SockmapInv` follows the three phases of the
map (`Entries`): before the first insert and between the two everything goes
through user space, since the one entry is not found by the packets of the one
socket in the map; after both, what is under way to a peer is in order
(`InOrder`), and a side whose packets are redirected has nothing but the end of
its stream in user space, unless something of it had arrived early (`Carries`).
`Verdicts` lists what the kernel answers in each phase. Items are alternately
even and odd, so that `InOrder` compares neighbours, and appending or taking one
item is a lemma about sequences (`SequenceAppend`, `SequenceTail`) rather than an
induction. `DeadlineEnds` is only model-checked.

## Findings

* `drain_all`: `main` returns while a connection is queued, or accepted by a
  task not polled yet (the counter is bumped inside the task). One whose task
  starts between the read and the return is cut (`DrainedCutsNone`).
* `respawn`: a listener that failed to bind is never started again.
* `watch_early`: certificates are watched only after the first reload.
* `ktls_small_reads`: `poll_read` drops drained bytes when they are read in
  small pieces. turbine takes them with `into_raw` and is not affected.
* `hello`: a hello in two pieces is turned away.

Some statements are kept in the modules although the code does not have them and
no run lists them; TLC refutes each on instances of this size:

* `DrainEmptiesQueue` (`LoadBalancer`): the drain of a removed listener takes a
  spent budget, or a readiness not delivered yet, for an empty queue.
* `DrainedCutsNone` (`LoadBalancer`): see `drain_all`.
* `AutoReload` (`ConfigWatcher`) with the habit `racing` (a change between the
  parse and the new watcher's baseline is lost) or `loss` (a file that was missing
  during a reload is not watched again; when no upstream loads, the only polling
  thread panics).
* `PairsMatch` (`ConfigWatcher`): a certificate replaced before its key is sent
  with the old key, until the key's own change is reloaded.
* `InvalidHeaderPassesThrough` (`KtlsHandover`): `CorkStream` never falls back
  to passthrough for a header that is not one, contrary to its comment.
* `DroppedNotifies`, `NotifiesOnce` (`KtlsStream`): no close_notify is sent on
  drop, contrary to the comment; reading the peer's close_notify after a
  shutdown tries to send a second one and is an error.
* `ServedEnds` (`Connection`): the TLS handshake and the hand-over have no
  deadline.
* `TransferEnds` (`Transfer`): see above.

TLC also refutes `SockmapKeepsOrder` without either of its conditions: packets redirected in the kernel
overtake what user space has still to copy (`early`), or come back to the socket
they were received on (`KeysDiffer`).

## Out of the prover's reach

Liveness under fairness stays with TLC: `DrainTerminates`,
`RemovedListenerEnds`, `QueueIsServed`, `PublishedRuleIsTaken`, `HandlersFinish`,
`CalmReload`, `DrainFinishes`, `ArrivedIsRead`, `PassthroughEnds` and
`DeadlineEnds`. Every other property that a passing run checks is also proved,
`RedirectsToOther` under the assumption on addresses (`V6Sockets`) that its
theorem names.
Where an argument would need induction over data the invariants carry what the
induction would compute: a count (`EvenInv`), a numbering chosen anew at each
step (`KtlsStreamProofs`), or a relation between neighbours (`InOrder`).

## Not modelled

* Decoding of YAML and PEM, the durations, logging, the command line; the
  building tools in `xtask`.
* The counter's wrap at 2^64, which unbalances one pick.
* `NaiveSplice`, which turbine does not use: it calls `copy_bidirectional`, whose
  contract is that of the splice in `Transfer`. The `todo!()` for kernel TLS in
  the sockmap strategy.
* Loading the eBPF programs, which panics if it fails; the other connections in
  the same map. Nothing in the code keeps two connections with equal 32-bit keys
  apart.
* The kernel's own queue of redirected packets: `Redirect` puts a packet into the
  other socket at once, so that an end sent by user space does not overtake one
  that is still queued there.
* `config_ktls_client`, which takes the steps of `config_ktls_server` and is not
  called.
* What a reload does to the balance between backends: a rule brings new counters.
* A client that never sends its hello: the wait for it has no deadline, and no
  document promises one.
* The composition of `ConfigWatcher` with the event loop: the channel between
  them is in both, as the environment of each. `LoadBalancer` takes any sequence
  of configurations, `ConfigWatcher` a receiver that takes or leaves.
