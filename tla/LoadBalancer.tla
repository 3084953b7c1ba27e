--------------------------- MODULE LoadBalancer ---------------------------
(***************************************************************************)
(* The event loop of turbine: the task that applies configurations         *)
(* (LBAppContext::listen_config_change), one task per listener             *)
(* (LBRunner::run), one task per accepted connection, and the shutdown     *)
(* sequence of main.  Each `biased` select! is split into its polls, since *)
(* another task may act between two of them.                               *)
(*                                                                         *)
(* A configuration is known by its generation: the order in which it was   *)
(* sent on the mpsc channel.  The Arc<Rule> of an address in a             *)
(* configuration is known by that generation too.  A runner is known by    *)
(* its address and the generation that spawned it.                         *)
(***************************************************************************)
EXTENDS Integers, FiniteSets

CONSTANTS
    Addr,        \* listening addresses
    Conn,        \* connections clients may open, each once
    MaxGen,      \* bound: configurations sent in a behaviour
    ChanCap,     \* capacity of the configuration channel
    CoopBudget   \* operations a tokio task may do before it must yield

ASSUME ConnAssumption == IsFiniteSet(Conn)
ASSUME BoundAssumption ==
    MaxGen \in Nat \ {0} /\ ChanCap \in Nat \ {0} /\ CoopBudget \in Nat \ {0}

NoGen == 0
Gens == 1..MaxGen
Runner == Addr \X Gens
NoRunner == <<>>

VARIABLES
    main,          \* where main stands in its shutdown sequence
    shutdown,      \* the oneshot shutdown_tx has been sent
    tasks_running, \* the shared AtomicUsize
    configs,       \* configs[g]: the addresses configuration g lists
    sent,          \* generations put in the channel so far
    applied,       \* generations taken out of it so far
    loop,          \* where listen_config_change stands
    todo,          \* the addresses its reload has still to go through
    listeners,     \* its map: the generation whose runner an address's watch
                   \* sender belongs to, NoGen when the map has no entry
    watched,       \* the rule in each runner's watch channel
    runner,        \* where each runner stands
    rule,          \* the rule each runner holds, hence the version it has seen
    budget,        \* what is left of its coop budget
    ready,         \* tokio's readiness flag of its listening socket
    cnx,           \* the state of each connection
    at,            \* the runner in whose accept queue it was put
    served,        \* the rule its task was given
    promised       \* auxiliary: the oldest rule it may be served with

mainVars == <<main, shutdown>>
chanVars == <<configs, sent>>
loopVars == <<loop, todo, applied, listeners, watched>>
runVars == <<runner, rule, budget, ready>>
cnxVars == <<cnx, at, served, promised, tasks_running>>
vars == <<mainVars, chanVars, loopVars, runVars, cnxVars>>

MainState == {"serving", "grace", "check", "sleep", "returning", "aborting",
              "drained", "aborted"}
LoopState == {"poll_shutdown", "poll_recv", "update", "parked", "stopped"}
RunnerState == {"none", "spawned", "poll_changed", "poll_accept", "parked",
                "drain", "stopped", "failed"}
CnxState == {"new", "refused", "queued", "reset", "spawned", "running", "done",
             "dropped", "cut"}

\* The runtime is there: the other tasks run on, on their own threads, until
\* main has left its loop, has returned and the runtime is dropped.
Alive == main \notin {"drained", "aborted"}

\* A runner's socket is bound and listening.
Listening(r) == runner[r] \in {"poll_changed", "poll_accept", "parked", "drain"}

\* The watch sender of a runner has been dropped.
Closed(r) == listeners[r[1]] # r[2]

\* The accept queue of a runner's socket.
Queue(r) == {c \in Conn : cnx[c] = "queued" /\ at[c] = r}

Init ==
    /\ main = "serving" /\ shutdown = FALSE /\ tasks_running = 0
    /\ \E new \in SUBSET Addr :
          configs = [g \in Gens |-> IF g = 1 THEN new ELSE {}]
    /\ sent = 1 /\ applied = 0 /\ loop = "poll_shutdown" /\ todo = {}
    /\ listeners = [a \in Addr |-> NoGen]
    /\ watched = [r \in Runner |-> NoGen]
    /\ runner = [r \in Runner |-> "none"]
    /\ rule = [r \in Runner |-> NoGen]
    /\ budget = [r \in Runner |-> CoopBudget]
    /\ ready = [r \in Runner |-> FALSE]
    /\ cnx = [c \in Conn |-> "new"]
    /\ at = [c \in Conn |-> NoRunner]
    /\ served = [c \in Conn |-> NoGen]
    /\ promised = [c \in Conn |-> NoGen]
----------------------------------------------------------------------------
(* The configuration watcher and the event loop. *)

\* ConfigWatcher sends a parsed configuration: blocking_send waits for room.
SendConfig(new) ==
    /\ Alive /\ loop # "stopped" /\ sent < MaxGen
    /\ sent - applied < ChanCap
    /\ sent' = sent + 1
    /\ configs' = [configs EXCEPT ![sent + 1] = new]
    /\ UNCHANGED <<mainVars, loopVars, runVars, cnxVars>>

\* The shutdown branch of the select!: leaving the function drops the map,
\* with every watch sender, and the channel.
LoopPollShutdown ==
    /\ Alive /\ loop = "poll_shutdown"
    /\ loop' = IF shutdown THEN "stopped" ELSE "poll_recv"
    /\ listeners' = IF shutdown THEN [a \in Addr |-> NoGen] ELSE listeners
    /\ UNCHANGED <<todo, applied, watched, mainVars, chanVars, runVars, cnxVars>>

\* Mutations of retain: nothing is dropped, or everything is.
RetainAll(ls, new) == ls
RetainNone(ls, new) == [a \in Addr |-> NoGen]

\* listeners.retain
Retain(ls, new) == [a \in Addr |-> IF a \in new THEN ls[a] ELSE NoGen]

\* The for loop goes on while addresses are left, then back to the select!.
AfterUpdate(left) == IF left = {} THEN "poll_shutdown" ELSE "update"

\* The recv branch yields a configuration, and retain drops the senders of the
\* addresses it does not list.  The arm for None is not taken: a sender of the
\* channel lives in the ConfigWatcherInner, which the closures of its own
\* watcher keep alive as long as the process.
LoopRecv ==
    /\ Alive /\ loop = "poll_recv" /\ applied < sent
    /\ applied' = applied + 1
    /\ listeners' = Retain(listeners, configs[applied + 1])
    /\ todo' = configs[applied + 1]
    /\ loop' = AfterUpdate(todo')
    /\ UNCHANGED <<watched, mainVars, chanVars, runVars, cnxVars>>

\* The body of the for loop, in the order of the hash map: an address without a
\* sender gets a channel and a runner, the others send_replace.
LoopUpdate(a) ==
    /\ Alive /\ loop = "update" /\ a \in todo
    /\ todo' = todo \ {a}
    /\ loop' = AfterUpdate(todo')
    /\ LET g == IF listeners[a] = NoGen THEN applied ELSE listeners[a]
       IN  /\ listeners' = [listeners EXCEPT ![a] = g]
           /\ watched' = [watched EXCEPT ![<<a, g>>] = applied]
           /\ runner' = IF listeners[a] = NoGen
                         THEN [runner EXCEPT ![<<a, g>>] = "spawned"] ELSE runner
    /\ UNCHANGED <<applied, rule, budget, ready, mainVars, chanVars, cnxVars>>

\* Neither branch was ready: the task is parked until one of them is.
LoopPark ==
    /\ Alive /\ loop = "poll_recv" /\ applied = sent
    /\ loop' = "parked"
    /\ UNCHANGED <<todo, applied, listeners, watched, mainVars, chanVars, runVars, cnxVars>>

LoopWake ==
    /\ Alive /\ loop = "parked" /\ (shutdown \/ applied < sent)
    /\ loop' = "poll_shutdown"
    /\ UNCHANGED <<todo, applied, listeners, watched, mainVars, chanVars, runVars, cnxVars>>
----------------------------------------------------------------------------
(* A listener's task. *)

\* bind, listen and borrow_and_update.
RunnerStart(r) ==
    /\ Alive /\ runner[r] = "spawned"
    /\ runner' = [runner EXCEPT ![r] = "poll_changed"]
    /\ rule' = [rule EXCEPT ![r] = watched[r]]
    /\ UNCHANGED <<budget, ready, mainVars, chanVars, loopVars, cnxVars>>

\* create_socket, listen or from_std fails: the task ends, its sender stays.
RunnerFail(r) ==
    /\ Alive /\ runner[r] = "spawned"
    /\ runner' = [runner EXCEPT ![r] = "failed"]
    /\ UNCHANGED <<rule, budget, ready, mainVars, chanVars, loopVars, cnxVars>>

\* Mutation: the dropped sender is noticed before an unseen version.
PollChangedClosedFirst(r) ==
    /\ Alive /\ runner[r] = "poll_changed"
    /\ rule' = IF Closed(r) THEN rule ELSE [rule EXCEPT ![r] = watched[r]]
    /\ runner' = [runner EXCEPT ![r] =
                    IF Closed(r) THEN "drain"
                    ELSE IF rule[r] # watched[r] THEN "poll_changed" ELSE "poll_accept"]
    /\ UNCHANGED <<budget, ready, mainVars, chanVars, loopVars, cnxVars>>

\* Mutation: the dropped sender is ignored.
PollChangedNoClose(r) ==
    /\ Alive /\ runner[r] = "poll_changed"
    /\ rule' = [rule EXCEPT ![r] = watched[r]]
    /\ runner' = [runner EXCEPT ![r] =
                    IF rule[r] # watched[r] THEN "poll_changed" ELSE "poll_accept"]
    /\ UNCHANGED <<budget, ready, mainVars, chanVars, loopVars, cnxVars>>

\* config_rx.changed(): an unseen version first, then the dropped sender.
PollChanged(r) ==
    /\ Alive /\ runner[r] = "poll_changed"
    /\ rule' = [rule EXCEPT ![r] = watched[r]]
    /\ runner' = [runner EXCEPT ![r] =
                    IF rule[r] # watched[r] THEN "poll_changed"
                    ELSE IF Closed(r) THEN "drain" ELSE "poll_accept"]
    /\ UNCHANGED <<budget, ready, mainVars, chanVars, loopVars, cnxVars>>

\* poll_accept yields a connection: the task has budget left and the reactor
\* has reported the socket.
CanAccept(r, c) == budget[r] > 0 /\ ready[r] /\ c \in Queue(r)

\* The connection, with a clone of the runner's rule, is given to a new task.
Spawn(r, c) ==
    /\ CanAccept(r, c)
    /\ budget' = [budget EXCEPT ![r] = @ - 1]
    /\ cnx' = [cnx EXCEPT ![c] = "spawned"]
    /\ served' = [served EXCEPT ![c] = rule[r]]
    /\ runner' = [runner EXCEPT ![r] = "poll_changed"]
    /\ UNCHANGED <<rule, ready, at, promised, tasks_running,
                   mainVars, chanVars, loopVars>>

Accept(r, c) == Alive /\ runner[r] = "poll_accept" /\ Spawn(r, c)

DrainAccept(r, c) == Alive /\ runner[r] = "drain" /\ Spawn(r, c)

\* accept fails: logged, the loop goes on.
AcceptErr(r) ==
    /\ Alive /\ runner[r] = "poll_accept" /\ budget[r] > 0 /\ ready[r]
    /\ budget' = [budget EXCEPT ![r] = @ - 1]
    /\ runner' = [runner EXCEPT ![r] = "poll_changed"]
    /\ UNCHANGED <<rule, ready, mainVars, chanVars, loopVars, cnxVars>>

\* accept would block, or the budget is spent.
AcceptPending(r) == \A c \in Conn : ~CanAccept(r, c)

\* An accept that would block clears the readiness flag.
ReadyAfterPending(r) == IF budget[r] > 0 THEN FALSE ELSE ready[r]

Park(r) ==
    /\ Alive /\ runner[r] = "poll_accept" /\ AcceptPending(r)
    /\ runner' = [runner EXCEPT ![r] = "parked"]
    /\ ready' = [ready EXCEPT ![r] = ReadyAfterPending(r)]
    /\ UNCHANGED <<rule, budget, mainVars, chanVars, loopVars, cnxVars>>

\* Mutations: accept is polled before the watch channel; a publication does not
\* wake the task.
WakeUnbiased(r) ==
    /\ Alive /\ runner[r] = "parked"
    /\ rule[r] # watched[r] \/ Closed(r) \/ ready[r] \/ budget[r] = 0
    /\ runner' = [runner EXCEPT ![r] = "poll_accept"]
    /\ budget' = [budget EXCEPT ![r] = CoopBudget]
    /\ UNCHANGED <<rule, ready, mainVars, chanVars, loopVars, cnxVars>>

WakeNoWatch(r) ==
    /\ Alive /\ runner[r] = "parked"
    /\ Closed(r) \/ ready[r] \/ budget[r] = 0
    /\ runner' = [runner EXCEPT ![r] = "poll_changed"]
    /\ budget' = [budget EXCEPT ![r] = CoopBudget]
    /\ UNCHANGED <<rule, ready, mainVars, chanVars, loopVars, cnxVars>>

\* The scheduler polls the task again, with a new budget.
Wake(r) ==
    /\ Alive /\ runner[r] = "parked"
    /\ rule[r] # watched[r] \/ Closed(r) \/ ready[r] \/ budget[r] = 0
    /\ runner' = [runner EXCEPT ![r] = "poll_changed"]
    /\ budget' = [budget EXCEPT ![r] = CoopBudget]
    /\ UNCHANGED <<rule, ready, mainVars, chanVars, loopVars, cnxVars>>

\* Leaving run closes the socket: what is left in its queue is reset.
Close(r) ==
    /\ runner' = [runner EXCEPT ![r] = "stopped"]
    /\ cnx' = [c \in Conn |-> IF c \in Queue(r) THEN "reset" ELSE cnx[c]]
    /\ UNCHANGED <<rule, budget, ready, at, served, promised, tasks_running,
                   mainVars, chanVars, loopVars>>

\* Mutation: a pending accept goes round the loop again.
DrainEndContinue(r) ==
    /\ Alive /\ runner[r] = "drain" /\ AcceptPending(r)
    /\ runner' = [runner EXCEPT ![r] = "poll_changed"]
    /\ UNCHANGED <<rule, budget, ready, mainVars, chanVars, loopVars, cnxVars>>

\* The two breaks of the drain: nothing to accept, or accept failed.
DrainEnd(r) == Alive /\ runner[r] = "drain" /\ AcceptPending(r) /\ Close(r)

DrainErr(r) ==
    Alive /\ runner[r] = "drain" /\ budget[r] > 0 /\ ready[r] /\ Close(r)

\* The reactor reports a socket whose queue has become non-empty.
Reactor(r) ==
    /\ Alive /\ Listening(r) /\ ~ready[r] /\ Queue(r) # {}
    /\ ready' = [ready EXCEPT ![r] = TRUE]
    /\ UNCHANGED <<runner, rule, budget, mainVars, chanVars, loopVars, cnxVars>>
----------------------------------------------------------------------------
(* Connections. *)

\* A client connects: SO_REUSEPORT lets the kernel choose among the sockets
\* listening on the address.  promised records what the runner must know by
\* the time it accepts: what is published, unless it has already polled its
\* watch channel in this turn.
Connect(c, r) ==
    /\ Alive /\ cnx[c] = "new" /\ Listening(r)
    /\ cnx' = [cnx EXCEPT ![c] = "queued"]
    /\ at' = [at EXCEPT ![c] = r]
    /\ promised' = [promised EXCEPT ![c] =
                      IF runner[r] = "poll_accept" THEN rule[r] ELSE watched[r]]
    /\ UNCHANGED <<served, tasks_running, mainVars, chanVars, loopVars, runVars>>

Refuse(c, a) ==
    /\ Alive /\ cnx[c] = "new" /\ \A g \in Gens : ~Listening(<<a, g>>)
    /\ cnx' = [cnx EXCEPT ![c] = "refused"]
    /\ UNCHANGED <<at, served, promised, tasks_running,
                   mainVars, chanVars, loopVars, runVars>>

\* Mutation: the task is not counted.
TaskStartUncounted(c) ==
    /\ Alive /\ cnx[c] = "spawned"
    /\ cnx' = [cnx EXCEPT ![c] = "running"]
    /\ UNCHANGED <<tasks_running, at, served, promised,
                   mainVars, chanVars, loopVars, runVars>>

\* The first poll of a connection's task counts it.
TaskStart(c) ==
    /\ Alive /\ cnx[c] = "spawned"
    /\ cnx' = [cnx EXCEPT ![c] = "running"]
    /\ tasks_running' = tasks_running + 1
    /\ UNCHANGED <<at, served, promised, mainVars, chanVars, loopVars, runVars>>

\* handle_client returns, fails or panics: the scope guard uncounts the task.
TaskEnd(c) ==
    /\ Alive /\ cnx[c] = "running"
    /\ cnx' = [cnx EXCEPT ![c] = "done"]
    /\ tasks_running' = tasks_running - 1
    /\ UNCHANGED <<at, served, promised, mainVars, chanVars, loopVars, runVars>>
----------------------------------------------------------------------------
(* main. *)

\* The first SIGTERM or SIGINT.
Signal ==
    /\ main = "serving"
    /\ main' = "grace"
    /\ UNCHANGED <<shutdown, chanVars, loopVars, runVars, cnxVars>>

\* Fifteen seconds later, or at the second SIGINT.
SendShutdown ==
    /\ main = "grace"
    /\ main' = "check" /\ shutdown' = TRUE
    /\ UNCHANGED <<chanVars, loopVars, runVars, cnxVars>>

\* Mutation: off by one.
NoTaskOffByOne == tasks_running <= 1

\* nb_task == 0
NoTask == tasks_running = 0

\* The load reads zero: main leaves the loop, and is about to return.
CheckDrained ==
    /\ main = "check" /\ NoTask
    /\ main' = "returning"
    /\ UNCHANGED <<shutdown, chanVars, loopVars, runVars, cnxVars>>

CheckBusy ==
    /\ main = "check" /\ ~NoTask
    /\ main' = "sleep"
    /\ UNCHANGED <<shutdown, chanVars, loopVars, runVars, cnxVars>>

\* Mutation: the counter is not read again.
TickOnce == main = "sleep" /\ UNCHANGED vars

Tick ==
    /\ main = "sleep"
    /\ main' = "check"
    /\ UNCHANGED <<shutdown, chanVars, loopVars, runVars, cnxVars>>

\* A SIGINT while connections drain.
Interrupt ==
    /\ main = "sleep"
    /\ main' = "aborting"
    /\ UNCHANGED <<shutdown, chanVars, loopVars, runVars, cnxVars>>

\* main has returned: the runtime is dropped with its tasks and sockets.
Exit ==
    /\ main \in {"returning", "aborting"}
    /\ main' = IF main = "returning" THEN "drained" ELSE "aborted"
    /\ cnx' = [c \in Conn |->
                 CASE cnx[c] \in {"queued", "spawned"} -> "dropped"
                   [] cnx[c] = "running" -> "cut"
                   [] OTHER -> cnx[c]]
    /\ UNCHANGED <<shutdown, at, served, promised, tasks_running,
                   chanVars, loopVars, runVars>>

\* The process is gone.
Gone == ~Alive /\ UNCHANGED vars
----------------------------------------------------------------------------
LoopStep ==
    \/ LoopPollShutdown \/ LoopRecv \/ LoopPark \/ LoopWake
    \/ \E a \in Addr : LoopUpdate(a)

RunnerStep(r) ==
    \/ RunnerStart(r) \/ RunnerFail(r) \/ PollChanged(r) \/ AcceptErr(r)
    \/ Park(r) \/ Wake(r) \/ DrainEnd(r) \/ DrainErr(r)
    \/ \E c \in Conn : Accept(r, c) \/ DrainAccept(r, c)

MainStep == SendShutdown \/ CheckDrained \/ CheckBusy \/ Tick \/ Exit

Next ==
    \/ \E new \in SUBSET Addr : SendConfig(new)
    \/ LoopStep
    \/ \E r \in Runner : RunnerStep(r) \/ Reactor(r)
    \/ \E c \in Conn, r \in Runner : Connect(c, r)
    \/ \E c \in Conn, a \in Addr : Refuse(c, a)
    \/ \E c \in Conn : TaskStart(c) \/ TaskEnd(c)
    \/ Signal \/ MainStep \/ Interrupt \/ Gone

Spec == Init /\ [][Next]_vars

\* The scheduler runs every task that is ready, the timers of main expire and
\* accept does not fail for ever.  Nothing is assumed of the clients, of the
\* signals, of the configuration file or of how long a connection lasts.
Fairness ==
    /\ WF_vars(LoopStep)
    /\ WF_vars(MainStep)
    /\ \A r \in Runner :
          /\ WF_vars(RunnerStep(r))
          /\ WF_vars(Reactor(r))
          /\ SF_vars(\E c \in Conn : Accept(r, c))
    /\ \A c \in Conn : WF_vars(TaskStart(c))

FairSpec == Spec /\ Fairness
----------------------------------------------------------------------------
(* Properties. *)

\* Every variable of the event loop has its type; tasks_running, an unsigned
\* counter in the code, never goes below zero.
TypeOK ==
    /\ main \in MainState /\ shutdown \in BOOLEAN /\ tasks_running \in Nat
    /\ configs \in [Gens -> SUBSET Addr] /\ sent \in Gens
    /\ applied \in 0..MaxGen /\ loop \in LoopState /\ todo \in SUBSET Addr
    /\ listeners \in [Addr -> 0..MaxGen]
    /\ watched \in [Runner -> 0..MaxGen]
    /\ runner \in [Runner -> RunnerState]
    /\ rule \in [Runner -> 0..MaxGen]
    /\ budget \in [Runner -> 0..CoopBudget]
    /\ ready \in [Runner -> BOOLEAN]
    /\ cnx \in [Conn -> CnxState]
    /\ at \in [Conn -> Runner \cup {NoRunner}]
    /\ served \in [Conn -> 0..MaxGen]
    /\ promised \in [Conn -> 0..MaxGen]

\* When main leaves its drain loop because tasks_running reads zero, no task
\* that has started is still running: the counter that the tasks bump in their
\* first poll and their guards take back agrees with the tasks there are at
\* every interleaving, so that main never gives up a connection it waited for.
LeavesWithNoTask ==
    [][main = "check" /\ main' = "returning"
       => \A c \in Conn : cnx[c] # "running"]_vars

\* Between two reloads the map of watch senders lists exactly the addresses of
\* the last configuration applied, and every one of these channels holds that
\* configuration's rule: no sender is left over and none misses a reload.
\* During a reload this is so of the addresses it has gone through.
ListenersMirrorConfig ==
    loop # "stopped" /\ applied > 0 =>
        \A a \in Addr \ todo :
            /\ listeners[a] # NoGen <=> a \in configs[applied]
            /\ listeners[a] # NoGen => watched[<<a, listeners[a]>>] = applied

\* A runner drains or stops only once its sender is dropped, and by then it has
\* taken the last rule published to it: a listener of the current configuration
\* never ends in an orderly way, whatever accept returns, and an update sent
\* just before the removal is not skipped.
StopsOnlyWhenRemoved ==
    \A r \in Runner : runner[r] \in {"drain", "stopped"} =>
        Closed(r) /\ rule[r] = watched[r]

\* A connection is served with a rule at least as new as the one published on
\* its listener's channel when it arrived, unless it slipped in after the
\* listener had polled that channel in the same turn; the rule is one of a
\* configuration that lists the listener's address.  This is what `biased`
\* and the clone of the rule at accept time are for.
ServedWithCurrentRule ==
    \A c \in Conn : cnx[c] \in {"spawned", "running", "done"} =>
        /\ promised[c] <= served[c]
        /\ served[c] \in Gens
        /\ at[c][1] \in configs[served[c]]

\* A reload keeps the runner, hence the socket and its accept queue, of every
\* address it lists that had one: until the event loop ends, a sender goes only
\* with its address, and none is ever replaced.
ReloadKeepsRunner ==
    [][\A a \in Addr :
         listeners[a] # NoGen /\ listeners'[a] # listeners[a]
         => /\ listeners'[a] = NoGen
            /\ loop' = "stopped" \/ a \notin configs[applied']]_vars

\* What has become of a connection, as its client sees it.
Outcome(c) ==
    CASE cnx[c] \in {"new", "refused", "cut"} -> cnx[c]
      [] cnx[c] \in {"queued", "spawned"} -> "waiting"
      [] cnx[c] = "running" -> "served"
      [] cnx[c] = "done" -> "over"
      [] cnx[c] \in {"reset", "dropped"} -> "lost"

Promise == INSTANCE Service WITH
    exit <- CASE main = "returning" -> "leaving"
              [] main \in {"drained", "aborted"} -> main
              [] OTHER -> "up",
    current <- applied,
    state <- [c \in Conn |-> Outcome(c)],
    floor <- promised,
    given <- [c \in Conn |-> IF cnx[c] \in {"running", "done", "cut"} THEN served[c] ELSE 0]

\* The event loop, its listeners and main together implement Service: every
\* connection is served once, with one rule in force, or it is refused or lost
\* unserved, and a process that leaves of itself decides so when it serves none.
KeepsPromise == Promise!Spec

\* Once shutdown is sent and, from some point on, no task is running, main
\* returns: its wait loop reads the counter again after each sleep.
DrainTerminates ==
    <>shutdown /\ <>[](tasks_running = 0) => <>~Alive

\* A listener whose sender is dropped ends: it notices whatever it was doing,
\* and its drain loop comes to a Pending.
RemovedListenerEnds ==
    \A r \in Runner :
        (runner[r] # "none" /\ Closed(r)) ~>
            (runner[r] \in {"stopped", "failed"} \/ ~Alive)

\* No connection stays in an accept queue for ever: it is accepted, or reset
\* when the listener closes.
QueueIsServed == \A c \in Conn : (cnx[c] = "queued") ~> (cnx[c] # "queued")

\* Whatever is published to a live listener reaches its rule: no wake-up of
\* the watch channel is lost while the task is busy accepting.
PublishedRuleIsTaken ==
    \A r \in Runner, g \in Gens :
        (Listening(r) /\ watched[r] = g) ~>
            (rule[r] >= g \/ runner[r] = "stopped" \/ ~Alive)
----------------------------------------------------------------------------
(* What the comments of the code say and the code does not do. *)

\* main waits "to drain all the connections": when it returns because no task
\* is counted, no connection that was accepted or queued is lost.
DrainedDropsNone == main = "drained" => \A c \in Conn : cnx[c] # "dropped"

\* Nor is one cut whose task had started: it may have started after main read
\* zero.
DrainedCutsNone == main = "drained" => \A c \in Conn : cnx[c] # "cut"

\* A listener asked to shut down says it is "draining accept queue": unless
\* accept fails, it does not close its socket while the reactor has reported
\* connections that are still in the queue.
DrainEmptiesQueue ==
    [][\A r \in Runner :
         /\ runner[r] = "drain" /\ runner'[r] = "stopped"
         /\ ready[r] /\ AcceptPending(r)
         => Queue(r) = {}]_vars

\* The reload will "spawn the task, it is not present": once it has gone through
\* an address, that address is not left with a task that had already ended.
AbsentTaskIsSpawned ==
    [][\A a \in Addr :
         a \in todo /\ a \notin todo'
         => runner'[<<a, listeners'[a]>>] # "failed"]_vars
=============================================================================
