--------------------------- MODULE ConfigWatcher ---------------------------
(***************************************************************************)
(* Reloading the configuration: ConfigWatcher::new, handle_event and       *)
(* parse_config, with the threads of notify's PollWatcher that call        *)
(* handle_event and the writers of the files it reads.                     *)
(*                                                                         *)
(* The configuration file lists upstreams of one rule.  A TLS upstream has *)
(* a certificate file and a private key file; it loads when both can be    *)
(* read, whether they belong together or not.  A parsed configuration is   *)
(* the set of <<upstream, identity of the certificate, identity of the     *)
(* key>> that loaded.  Every write of a file is stamped, which is what the *)
(* watcher's comparison of mtime and contents sees.                        *)
(***************************************************************************)
EXTENDS Integers, FiniteSets

CONSTANTS
    Tls,         \* upstreams that terminate TLS
    Plain,       \* upstreams that do not
    Identity,    \* identities a certificate and its key may have
    Absent,      \* what a file that cannot be opened holds
    Writers,     \* what writers of the files do, a subset of WriterKinds
    MaxWrites,   \* bound: writes in a behaviour
    MaxWatcher,  \* bound: watchers created in a behaviour
    ChanCap      \* capacity of the configuration channel

\* "racing": files change while they are being read.  "torn": a certificate and
\* its key are replaced one after the other.  "early": certificates change
\* before the configuration file does.  "loss": files disappear.
WriterKinds == {"racing", "torn", "early", "loss"}

ASSUME WritersAssumption == Writers \subseteq WriterKinds
ASSUME BoundAssumption == MaxWatcher \in Nat
ASSUME CapacityAssumption == MaxWrites \in Nat /\ ChanCap \in Nat \ {0}

Upstream == Tls \cup Plain
Watcher == 1..MaxWatcher
NoId == 0
Config == <<"config", "file">>
Cert(u) == <<u, "certificate">>
Key(u) == <<u, "private_key">>
Path == {Config} \cup {Cert(u) : u \in Tls} \cup {Key(u) : u \in Tls}

VARIABLES
    disk,      \* disk[p]: what path p holds and the stamp of that write
    writes,    \* writes so far
    calm,      \* history: all came when Settled, to watched files, none a loss
    main,      \* where ConfigWatcher::new stands
    pc,        \* where each watcher's thread stands in handle_event
    base,      \* base[w]: what w last saw of each path it watches
    missed,    \* history: the paths w was given that could not be watched
    left,      \* paths a thread has still to compare in its current scan
    stop,      \* the watcher has been dropped, its thread is asked to stop
    todo,      \* upstreams a handler has still to load
    good,      \* what it has loaded
    cert,      \* the upstream and identity of the certificate just read
    child,     \* the watcher it is building
    inner,     \* the watcher in ConfigWatcherInner
    lock,      \* the thread that holds its mutex
    created,   \* watchers created so far
    open,      \* the event loop still has the receiver
    chan,      \* configurations in the channel
    last       \* the last configuration sent

handlerVars == <<pc, base, missed, left, stop, todo, good, cert, child>>
innerVars == <<inner, lock, created, main>>
chanVars == <<open, chan, last>>
diskVars == <<disk, writes, calm>>
vars == <<handlerVars, innerVars, chanVars, diskVars>>

\* A PollWatcher's thread is outside handle_event.
Idle(w) == pc[w] = "idle"

\* A handler, or new, is between two of its steps.
Busy == main # "done" \/ \E w \in Watcher : pc[w] \notin {"none", "idle", "dead"}

\* No handler is between reading a file and giving it to a watcher, which sees
\* later changes, nor waits for the mutex with what it read.
Settled ==
    /\ main = "done"
    /\ \A w \in Watcher : pc[w] \in {"none", "idle", "dead", "open", "send", "install"}

\* What parsing the files in one go would yield; {} when it would fail.
Target ==
    IF disk[Config].is = Absent THEN {}
    ELSE {<<u, NoId, NoId>> : u \in disk[Config].is \cap Plain} \cup
         {<<u, disk[Cert(u)].is, disk[Key(u)].is>> :
             u \in {t \in disk[Config].is \cap Tls :
                      disk[Cert(t)].is # Absent /\ disk[Key(t)].is # Absent}}

\* The files an upstream of a parsed configuration was loaded from.
FilesToWatch(cfg) ==
    UNION {{Cert(u), Key(u)} : u \in {t \in Tls : \E c \in cfg : c[1] = t}}

\* watch(p) for each of these paths: what the watcher remembers of them.  A path
\* that is not there is not watched, now or later; the call returns Ok, and the
\* error goes to handle_event, which ignores it.
Baseline(paths) == [p \in {q \in paths : disk[q].is # Absent} |-> disk[p]]

\* main has parsed the files and sent the result; new is about to watch.
Init ==
    /\ \E ups \in (SUBSET Upstream) \ {{}}, i \in Identity :
          disk = [p \in Path |-> [n |-> 0, is |-> IF p = Config THEN ups ELSE i]]
    /\ writes = 0 /\ calm = TRUE /\ main = "watch"
    /\ pc = [w \in Watcher |-> "none"]
    /\ base = [w \in Watcher |-> <<>>]
    /\ missed = [w \in Watcher |-> {}]
    /\ left = [w \in Watcher |-> {}]
    /\ stop = [w \in Watcher |-> FALSE]
    /\ todo = [w \in Watcher |-> {}]
    /\ good = [w \in Watcher |-> {}]
    /\ cert = [w \in Watcher |-> <<>>]
    /\ child = [w \in Watcher |-> NoId]
    /\ inner = NoId /\ lock = NoId /\ created = 0
    /\ open = TRUE /\ chan = 1 /\ last = Target
----------------------------------------------------------------------------
(* The files and the event loop. *)

CanWrite == writes < MaxWrites /\ ("racing" \in Writers \/ ~Busy)

Put(paths, is, gently) ==
    /\ CanWrite
    /\ writes' = writes + 1
    /\ calm' = (calm /\ gently /\ Settled)
    /\ disk' = [p \in Path |->
                  IF p \in paths THEN [n |-> writes + 1, is |-> is] ELSE disk[p]]
    /\ UNCHANGED <<handlerVars, innerVars, chanVars>>

\* An empty list of upstreams does not parse (NonEmpty).
WriteConfig(ups) == Put({Config}, ups, TRUE)

Lose(p) == "loss" \in Writers /\ Put({p}, Absent, FALSE)

Watched(u) == \E w \in Watcher : Cert(u) \in DOMAIN base[w]

\* A certificate's files change before the first reload, or after it.
MayRotate(u) == "early" \in Writers \/ Watched(u)

Rotate(u, i) == MayRotate(u) /\ Put({Cert(u), Key(u)}, i, Watched(u))

RotateCert(u, i) == "torn" \in Writers /\ MayRotate(u) /\ Put({Cert(u)}, i, Watched(u))

RotateKey(u, i) == "torn" \in Writers /\ MayRotate(u) /\ Put({Key(u)}, i, Watched(u))

\* The event loop takes a configuration, or leaves and drops the receiver.
LoopRecv ==
    /\ open /\ chan > 0
    /\ chan' = chan - 1
    /\ UNCHANGED <<open, last, handlerVars, innerVars, diskVars>>

LoopStop ==
    /\ open
    /\ open' = FALSE /\ chan' = 0
    /\ UNCHANGED <<last, handlerVars, innerVars, diskVars>>
----------------------------------------------------------------------------
(* ConfigWatcher::new, on main's thread. *)

\* The watcher's thread runs from here on.
NewWatch ==
    /\ main = "watch" /\ created < MaxWatcher
    /\ main' = "install" /\ created' = created + 1
    /\ pc' = [pc EXCEPT ![created + 1] = "idle"]
    /\ base' = [base EXCEPT ![created + 1] = Baseline({Config})]
    /\ UNCHANGED <<missed, left, stop, todo, good, cert, child, inner, lock,
                   chanVars, diskVars>>

\* Mutations: the watcher replaced keeps running; the new one is dropped.
StopNone(w) == stop
StopNew(w) == [v \in Watcher |-> stop[v] \/ v = w]

\* Storing a watcher in inner drops the one it replaces.
StopOld(w) == [v \in Watcher |-> stop[v] \/ (v = inner /\ v # w)]

NewInstall ==
    /\ main = "install" /\ lock = NoId
    /\ main' = "done"
    /\ inner' = 1
    /\ stop' = StopOld(1)
    /\ UNCHANGED <<pc, base, missed, left, todo, good, cert, child, lock, created,
                   chanVars, diskVars>>
----------------------------------------------------------------------------
(* A PollWatcher's thread and the handler it runs. *)

\* A scan finds that p has changed.  A thread asked to stop begins no scan, but
\* ends the one it is in; rest is what it has still to compare.  A removal is
\* reported, and ignored by handle_event.
Detect(w, p, rest) ==
    /\ Idle(w) /\ p \in DOMAIN base[w] /\ disk[p] # base[w][p]
    /\ p \in left[w] \/ ~stop[w]
    /\ rest \subseteq (IF p \in left[w] THEN left[w] ELSE DOMAIN base[w]) \ {p}
    /\ left' = [left EXCEPT ![w] = rest]
    /\ base' = [base EXCEPT ![w] = [@ EXCEPT ![p] = disk[p]]]
    /\ pc' = [pc EXCEPT ![w] = IF disk[p].is = Absent THEN "idle" ELSE "open"]
    /\ UNCHANGED <<missed, stop, todo, good, cert, child, innerVars, chanVars, diskVars>>

\* Where a handler goes once it has loaded cfg and more upstreams remain: the
\* rule of a configuration without any upstream is a panic, which ends the
\* thread.
AfterLoad(more, cfg) ==
    CASE more # {} -> "certificate"
      [] more = {} /\ cfg # {} -> "watch"
      [] more = {} /\ cfg = {} -> "dead"

\* parse_config opens and reads the configuration file.
ParseConfig(w) ==
    /\ pc[w] = "open"
    /\ LET ups == disk[Config].is
           plain == {<<u, NoId, NoId>> : u \in ups \cap Plain}
       IN  IF ups \in {Absent, {}}
           THEN /\ pc' = [pc EXCEPT ![w] = "idle"]
                /\ UNCHANGED <<todo, good>>
           ELSE /\ pc' = [pc EXCEPT ![w] = AfterLoad(ups \cap Tls, plain)]
                /\ todo' = [todo EXCEPT ![w] = ups \cap Tls]
                /\ good' = [good EXCEPT ![w] = plain]
    /\ UNCHANGED <<base, missed, left, stop, cert, child, innerVars, chanVars, diskVars>>

\* The upstream is left out: flat_map drops an Err.
Drop(w, u) ==
    /\ todo' = [todo EXCEPT ![w] = @ \ {u}]
    /\ good' = good
    /\ pc' = [pc EXCEPT ![w] = AfterLoad(todo[w] \ {u}, good[w])]

\* load_certificates_from_pem
LoadCertificate(w, u) ==
    /\ pc[w] = "certificate" /\ u \in todo[w]
    /\ LET i == disk[Cert(u)].is
       IN  IF i = Absent
           THEN Drop(w, u) /\ cert' = cert
           ELSE /\ cert' = [cert EXCEPT ![w] = <<u, i>>]
                /\ pc' = [pc EXCEPT ![w] = "key"]
                /\ UNCHANGED <<todo, good>>
    /\ UNCHANGED <<base, missed, left, stop, child, innerVars, chanVars, diskVars>>

\* load_private_key_from_file and tls_acceptor, which does not compare the key
\* with the certificate.
LoadKey(w) ==
    /\ pc[w] = "key"
    /\ LET u == cert[w][1]
           i == disk[Key(u)].is
       IN  IF i = Absent
           THEN Drop(w, u)
           ELSE /\ todo' = [todo EXCEPT ![w] = @ \ {u}]
                /\ good' = [good EXCEPT ![w] = @ \cup {<<u, cert[w][2], i>>}]
                /\ pc' = [pc EXCEPT ![w] = AfterLoad(todo'[w], good'[w])]
    /\ cert' = [cert EXCEPT ![w] = <<>>]
    /\ UNCHANGED <<base, missed, left, stop, child, innerVars, chanVars, diskVars>>

\* A new watcher is created and watches the configuration file, if it can.
WatchConfig(w) ==
    /\ pc[w] = "watch" /\ created < MaxWatcher
    /\ LET v == created + 1
       IN  /\ created' = v
           /\ child' = [child EXCEPT ![w] = v]
           /\ base' = [base EXCEPT ![v] = Baseline({Config})]
           /\ pc' = [pc EXCEPT ![w] = "watch_files", ![v] = "idle"]
    /\ UNCHANGED <<missed, left, stop, todo, good, cert, inner, lock, main, chanVars, diskVars>>

\* It watches the files of the upstreams that loaded, as far as they are there.
\* The thread of the new watcher holds its list of paths while it runs a
\* handler, and a panic poisons it: then nothing is added.
WatchFiles(w) ==
    LET v == child[w]
        files == IF pc[v] = "dead" THEN {} ELSE FilesToWatch(good[w])
        old == base[v]
        seen == Baseline(files)
    IN  /\ pc[w] = "watch_files" /\ pc[v] \in {"idle", "dead"}
        /\ base' = [base EXCEPT ![v] = [p \in DOMAIN old \cup DOMAIN seen |->
                                       IF p \in DOMAIN old THEN old[p] ELSE seen[p]]]
        /\ missed' = [missed EXCEPT ![v] = files \ DOMAIN seen]
        /\ pc' = [pc EXCEPT ![w] = "lock"]
        /\ UNCHANGED <<left, stop, todo, good, cert, child, innerVars, chanVars, diskVars>>

\* Mutation: the mutex does not exclude.
LockShared(w) ==
    /\ pc[w] = "lock"
    /\ lock' = w
    /\ pc' = [pc EXCEPT ![w] = "send"]
    /\ UNCHANGED <<base, missed, left, stop, todo, good, cert, child, inner, created, main,
                   chanVars, diskVars>>

Lock(w) ==
    /\ pc[w] = "lock" /\ lock = NoId
    /\ lock' = w
    /\ pc' = [pc EXCEPT ![w] = "send"]
    /\ UNCHANGED <<base, missed, left, stop, todo, good, cert, child, inner, created, main,
                   chanVars, diskVars>>

\* Mutations: the channel has no bound; a send waits for room for ever.
CanSendAlways == TRUE
CanSendIfRoom == open /\ chan < ChanCap

\* blocking_send returns when there is room or nobody to receive.
CanSend == ~open \/ chan < ChanCap

\* The mutex is held throughout.
Send(w) ==
    /\ pc[w] = "send" /\ CanSend
    /\ chan' = IF open THEN chan + 1 ELSE chan
    /\ last' = IF open THEN good[w] ELSE last
    /\ pc' = [pc EXCEPT ![w] = "install"]
    /\ UNCHANGED <<base, missed, left, stop, todo, good, cert, child, innerVars, open, diskVars>>

\* The new watcher replaces the one in inner; the handler returns.
Install(w) ==
    /\ pc[w] = "install"
    /\ inner' = child[w]
    /\ stop' = StopOld(child[w])
    /\ lock' = NoId
    /\ pc' = [pc EXCEPT ![w] = "idle"]
    /\ child' = [child EXCEPT ![w] = NoId]
    /\ good' = [good EXCEPT ![w] = {}]
    /\ UNCHANGED <<base, missed, left, todo, cert, created, main, chanVars, diskVars>>
----------------------------------------------------------------------------
HandlerStep(w) ==
    \/ ParseConfig(w) \/ LoadKey(w) \/ WatchConfig(w) \/ WatchFiles(w)
    \/ Lock(w) \/ Send(w) \/ Install(w)
    \/ \E u \in Tls : LoadCertificate(w, u)

Scan(w) == \E p \in Path, rest \in SUBSET Path : Detect(w, p, rest)

NewStep == NewWatch \/ NewInstall

Write ==
    \/ \E ups \in SUBSET Upstream : WriteConfig(ups)
    \/ \E p \in Path : Lose(p)
    \/ \E u \in Tls, i \in Identity : Rotate(u, i) \/ RotateCert(u, i) \/ RotateKey(u, i)

Next ==
    \/ NewStep \/ LoopRecv \/ LoopStop \/ Write
    \/ \E w \in Watcher : HandlerStep(w) \/ Scan(w)

Spec == Init /\ [][Next]_vars

\* Threads that can run do, main's included, and the event loop receives while
\* it is there.  Nothing is assumed of the writers.
Fairness ==
    /\ WF_vars(NewStep) /\ WF_vars(LoopRecv)
    /\ \A w \in Watcher : WF_vars(HandlerStep(w)) /\ WF_vars(Scan(w))

FairSpec == Spec /\ Fairness
----------------------------------------------------------------------------
(* Properties. *)

PcState == {"none", "idle", "open", "certificate", "key", "watch", "watch_files",
            "lock", "send", "install", "dead"}

Entry == Upstream \X (Identity \cup {NoId}) \X (Identity \cup {NoId})

\* Every variable of the configuration watcher has its type.
TypeOK ==
    /\ \A p \in Path : disk[p].n \in 0..writes
    /\ calm \in BOOLEAN
    /\ writes \in 0..MaxWrites /\ main \in {"watch", "install", "done"}
    /\ pc \in [Watcher -> PcState] /\ stop \in [Watcher -> BOOLEAN]
    /\ left \in [Watcher -> SUBSET Path]
    /\ missed \in [Watcher -> SUBSET Path]
    /\ \A w \in Watcher : DOMAIN base[w] \subseteq Path /\ left[w] \subseteq DOMAIN base[w]
    /\ todo \in [Watcher -> SUBSET Tls]
    /\ good \in [Watcher -> SUBSET Entry]
    /\ child \in [Watcher -> Watcher \cup {NoId}]
    /\ inner \in Watcher \cup {NoId} /\ lock \in Watcher \cup {NoId}
    /\ created \in 0..MaxWatcher /\ open \in BOOLEAN /\ chan \in 0..ChanCap
    /\ last \in SUBSET Entry

\* No polling thread is left behind: every watcher that has not been told to
\* stop is the one in inner or is being built, by a handler that has not
\* returned or by new.  Reloads cannot pile up threads, whatever their order.
NoOrphanWatcher ==
    \A w \in Watcher : pc[w] # "none" /\ ~stop[w] =>
        \/ w = inner
        \/ w = 1 /\ main = "install"
        \/ \E v \in Watcher : child[v] = w

\* The watcher a reload installed is the one of the configuration sent last,
\* however many handlers raced: it watches the files of that configuration, but
\* for those that were gone when it was given them, and no file of another one.
\* The mutex covers the send and the installation together.  (Not of the watcher
\* new installs, nor of one whose thread has died.)
WatcherMatchesConfig ==
    open /\ lock = NoId /\ inner \notin {NoId, 1} /\ pc[inner] # "dead" =>
        /\ FilesToWatch(last) \subseteq DOMAIN base[inner] \cup missed[inner]
        /\ DOMAIN base[inner] \subseteq {Config} \cup FilesToWatch(last)

\* Handlers do not block each other: once the files stay as they are, every
\* handler returns, or its thread dies in the panic of an empty rule, and new
\* returns too.  blocking_send under the mutex blocks nobody for ever, even
\* when the event loop leaves with the channel full.
HandlersFinish == []<>~Busy

\* "auto reload config and certificate": once the files stay as they are, and
\* if they can be parsed, the last configuration sent is the one they hold.
\* It does not hold when a certificate changes before the first reload, when the
\* files change while they are read, and when a file was missing while others
\* were reloaded.
AutoReload == <>[](~open \/ Target = {} \/ last = Target)

\* Automatic reload when no write was of those kinds: a write may come while a
\* handler is about to read, or sends and installs what it read, and a
\* certificate and its key may be replaced one after the other.  No handler,
\* watcher or send that is under way makes such a change go missing.
CalmReload == <>[](~calm \/ ~open \/ Target = {} \/ last = Target)
----------------------------------------------------------------------------
(* What the code does not promise. *)

\* The key of every upstream sent belongs to its certificate.
PairsMatch == \A e \in last : e[2] = e[3]
=============================================================================
