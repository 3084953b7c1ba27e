------------------------ MODULE LoadBalancerProofs ------------------------
(***************************************************************************)
(* Theorems about LoadBalancer, for any set of addresses, any finite set   *)
(* of connections and any bounds.                                          *)
(***************************************************************************)
EXTENDS LoadBalancer, FiniteSetTheorems, TLAPS

(***************************************************************************)
(* Part 1.  The types and the counter.  TypeOK is not inductive: that      *)
(* tasks_running - 1 is a natural number needs the counter to be exact.    *)
(***************************************************************************)
RunningTasks == {c \in Conn : cnx[c] = "running"}

\* While the process is there, tasks_running counts the tasks between their
\* first poll and the drop of their guard, and no task has been cut.
CounterExact ==
    Alive => /\ tasks_running = Cardinality(RunningTasks)
             /\ \A c \in Conn : cnx[c] # "cut"

CounterInv == TypeOK /\ CounterExact

\* The set of running tasks is finite, since Conn is.
LEMMA RunningFinite ==
    /\ IsFiniteSet(RunningTasks)
    /\ Cardinality(RunningTasks) \in Nat
<1>1. RunningTasks \in SUBSET Conn
  BY Zenon DEF RunningTasks
<1>2. IsFiniteSet(RunningTasks)
  BY <1>1, ConnAssumption, FS_Subset, Zenon
<1> QED
  BY <1>2, FS_CardinalityType, Zenon

\* The initial state satisfies the counter invariant.
LEMMA CounterInit == Init => CounterInv
<1> SUFFICES ASSUME Init PROVE CounterInv
  BY Zenon
<1> USE BoundAssumption DEF Init
<1>1. TypeOK
  <2>1. configs \in [Gens -> SUBSET Addr] /\ sent \in Gens
    BY DEF Gens
  <2>2. shutdown \in BOOLEAN /\ ready \in [Runner -> BOOLEAN]
    BY Zenon
  <2>3. /\ listeners \in [Addr -> 0..MaxGen] /\ watched \in [Runner -> 0..MaxGen]
        /\ rule \in [Runner -> 0..MaxGen] /\ budget \in [Runner -> 0..CoopBudget]
        /\ served \in [Conn -> 0..MaxGen] /\ promised \in [Conn -> 0..MaxGen]
    BY DEF NoGen
  <2>4. at \in [Conn -> Runner \cup {NoRunner}]
    BY Zenon
  <2> QED
    BY <2>1, <2>2, <2>3, <2>4
       DEF TypeOK, MainState, LoopState, RunnerState, CnxState
<1>2. CounterExact
  <2>1. RunningTasks = {}
    BY Zenon DEF RunningTasks
  <2> QED
    BY <2>1, FS_EmptySet, Zenon DEF CounterExact
<1> QED
  BY <1>1, <1>2, Zenon DEF CounterInv

\* A step that leaves main, tasks_running and the set of running tasks alone
\* and cuts nothing keeps the counter exact.
LEMMA CounterFrame ==
    ASSUME CounterInv, main' \notin {"drained", "aborted"}, Alive,
           tasks_running' = tasks_running,
           \A c \in Conn : (cnx'[c] = "running") <=> (cnx[c] = "running"),
           \A c \in Conn : cnx'[c] = "cut" => cnx[c] = "cut"
    PROVE  CounterExact'
<1>1. RunningTasks' = RunningTasks
  BY Zenon DEF RunningTasks
<1> QED
  BY <1>1, Zenon DEF CounterInv, CounterExact, Alive

\* Every step preserves the counter invariant.
LEMMA CounterStep == CounterInv /\ [Next]_vars => CounterInv'
<1> SUFFICES ASSUME CounterInv, [Next]_vars PROVE CounterInv'
  BY Zenon
<1> USE BoundAssumption DEF CounterInv
<1> USE DEF mainVars, chanVars, loopVars, runVars, cnxVars, vars
<1>1. ASSUME NEW new \in SUBSET Addr, SendConfig(new) PROVE CounterInv'
  <2>1. TypeOK'
    BY <1>1 DEF SendConfig, TypeOK, Gens
  <2> QED
    BY <1>1, <2>1, CounterFrame, Zenon DEF SendConfig, Alive
<1>2. CASE LoopStep
  <2>1. ASSUME LoopRecv PROVE TypeOK'
    <3> USE <2>1 DEF LoopRecv
    <3>1. applied + 1 \in Gens
      BY DEF TypeOK, Gens
    <3>2. applied' \in 0..MaxGen /\ todo' \in SUBSET Addr
      BY <3>1 DEF TypeOK, Gens
    <3>3. listeners' \in [Addr -> 0..MaxGen]
      BY DEF TypeOK, Retain, NoGen
    <3>4. loop' \in LoopState
      BY DEF AfterUpdate, LoopState
    <3> QED
      BY <3>2, <3>3, <3>4, Zenon DEF TypeOK
  <2>2. ASSUME NEW a \in Addr, LoopUpdate(a) PROVE TypeOK'
    <3> USE <2>2 DEF LoopUpdate
    <3>1. listeners' \in [Addr -> 0..MaxGen] /\ watched' \in [Runner -> 0..MaxGen]
      BY Zenon DEF TypeOK
    <3>2. runner' \in [Runner -> RunnerState]
      BY Zenon DEF TypeOK, RunnerState
    <3>3. loop' \in LoopState /\ todo' \in SUBSET Addr
      BY DEF AfterUpdate, LoopState, TypeOK
    <3> QED
      BY <3>1, <3>2, <3>3, Zenon DEF TypeOK
  <2> USE DEF LoopPollShutdown, LoopPark, LoopWake
  <2>3. ASSUME LoopPollShutdown PROVE TypeOK'
    BY <2>3 DEF TypeOK, LoopState, NoGen
  <2>4. ASSUME LoopPark \/ LoopWake PROVE TypeOK'
    BY <2>4, Zenon DEF TypeOK, LoopState
  <2>5. TypeOK'
    BY <1>2, <2>1, <2>2, <2>3, <2>4, Zenon DEF LoopStep
  <2>6. Alive /\ UNCHANGED <<main, tasks_running, cnx>>
    BY <1>2, Zenon DEF LoopStep, LoopRecv, LoopUpdate
  <2> QED
    BY <2>5, <2>6, CounterFrame, Zenon DEF Alive
<1>3. ASSUME NEW r \in Runner, RunnerStep(r) PROVE CounterInv'
  <2>1. CASE RunnerStart(r) \/ RunnerFail(r) \/ PollChanged(r) \/ AcceptErr(r)
             \/ Park(r) \/ Wake(r)
    <3> USE DEF RunnerStart, RunnerFail, PollChanged, AcceptErr, Park, Wake
    <3>1. TypeOK'
      <4>1. ready' \in [Runner -> BOOLEAN]
        BY <2>1, Zenon DEF TypeOK, ReadyAfterPending
      <4>2. runner' \in [Runner -> RunnerState]
        BY <2>1, Zenon DEF TypeOK, RunnerState
      <4>3. rule' \in [Runner -> 0..MaxGen]
        BY <2>1, Zenon DEF TypeOK
      <4>4. budget' \in [Runner -> 0..CoopBudget]
        BY <2>1 DEF TypeOK
      <4>5. UNCHANGED <<mainVars, chanVars, loopVars, cnxVars>>
        BY <2>1, Zenon
      <4> HIDE DEF RunnerStart, RunnerFail, PollChanged, AcceptErr, Park, Wake
      <4> QED
        BY <4>1, <4>2, <4>3, <4>4, <4>5, Zenon DEF TypeOK
    <3> QED
      BY <2>1, <3>1, CounterFrame, Zenon DEF Alive
  <2>2. CASE DrainEnd(r) \/ DrainErr(r)
    <3> USE DEF DrainEnd, DrainErr, Close, Queue
    <3>1. TypeOK'
      BY <2>2 DEF TypeOK, RunnerState, CnxState
    <3> QED
      BY <2>2, <3>1, CounterFrame, Zenon DEF Alive
  <2>3. ASSUME NEW c \in Conn, Accept(r, c) \/ DrainAccept(r, c)
        PROVE  CounterInv'
    <3> USE DEF Accept, DrainAccept, Spawn, CanAccept, Queue
    <3>1. TypeOK'
      BY <2>3, SMTT(30) DEF TypeOK, RunnerState, CnxState
    <3>2. Alive /\ main' = main /\ tasks_running' = tasks_running /\ cnx[c] = "queued"
          /\ cnx' = [cnx EXCEPT ![c] = "spawned"]
      BY <2>3, Zenon
    <3>3. \A d \in Conn : cnx'[d] = IF d = c THEN "spawned" ELSE cnx[d]
      BY <3>2, Zenon DEF TypeOK
    <3>4. main' \notin {"drained", "aborted"}
      BY <3>2, Zenon DEF Alive
    <3> HIDE DEF Accept, DrainAccept, Spawn, CanAccept, Queue
    <3>5. \A d \in Conn : /\ (cnx'[d] = "running") <=> (cnx[d] = "running")
                         /\ cnx'[d] = "cut" => cnx[d] = "cut"
      BY <3>2, <3>3
    <3> QED
      BY <3>1, <3>2, <3>4, <3>5, CounterFrame
  <2> QED
    BY <1>3, <2>1, <2>2, <2>3, Zenon DEF RunnerStep
<1>4. ASSUME NEW r \in Runner, Reactor(r) PROVE CounterInv'
  <2>1. TypeOK'
    BY <1>4, Zenon DEF Reactor, TypeOK
  <2> QED
    BY <1>4, <2>1, CounterFrame, Zenon DEF Reactor, Alive
<1>5. ASSUME NEW c \in Conn, NEW r \in Runner, Connect(c, r) PROVE CounterInv'
  <2>1. TypeOK'
    BY <1>5, Zenon DEF Connect, TypeOK, CnxState
  <2> QED
    BY <1>5, <2>1, CounterFrame, Zenon DEF Connect, Alive, TypeOK
<1>6. ASSUME NEW c \in Conn, NEW a \in Addr, Refuse(c, a) PROVE CounterInv'
  <2>1. TypeOK'
    BY <1>6, Zenon DEF Refuse, TypeOK, CnxState
  <2> QED
    BY <1>6, <2>1, CounterFrame, Zenon DEF Refuse, Alive, TypeOK
<1>7. ASSUME NEW c \in Conn, TaskStart(c) PROVE CounterInv'
  <2>1. RunningTasks' = RunningTasks \cup {c} /\ c \notin RunningTasks
    BY <1>7 DEF TaskStart, TypeOK, RunningTasks
  <2>2. Cardinality(RunningTasks') = Cardinality(RunningTasks) + 1
    BY <2>1, RunningFinite, FS_AddElement, Zenon
  <2>3. TypeOK'
    BY <1>7 DEF TaskStart, TypeOK, CnxState
  <2> QED
    BY <1>7, <2>2, <2>3, Zenon DEF TaskStart, CounterExact, Alive, TypeOK
<1>8. ASSUME NEW c \in Conn, TaskEnd(c) PROVE CounterInv'
  <2>1. RunningTasks' = RunningTasks \ {c} /\ c \in RunningTasks
    BY <1>8, Zenon DEF TaskEnd, TypeOK, RunningTasks
  <2>2. Cardinality(RunningTasks') = Cardinality(RunningTasks) - 1
    BY <2>1, RunningFinite, FS_RemoveElement, Zenon
  <2>3. Cardinality(RunningTasks') \in Nat
    <3>1. IsFiniteSet(RunningTasks')
      BY <2>1, RunningFinite, FS_RemoveElement, Zenon
    <3> QED
      BY <3>1, FS_CardinalityType, Zenon
  <2>4. tasks_running' = Cardinality(RunningTasks')
    BY <1>8, <2>2, Zenon DEF TaskEnd, CounterExact
  <2>5. TypeOK'
    BY <1>8, <2>3, <2>4, Zenon DEF TaskEnd, TypeOK, CnxState
  <2> QED
    BY <1>8, <2>4, <2>5, Zenon DEF TaskEnd, CounterExact, Alive, TypeOK
<1>9. CASE Signal \/ SendShutdown \/ CheckDrained \/ CheckBusy \/ Tick \/ Interrupt
  <2> USE DEF Signal, SendShutdown, CheckDrained, CheckBusy, Tick, Interrupt
  <2>1. TypeOK'
    BY <1>9, Zenon DEF TypeOK, MainState
  <2> QED
    BY <1>9, <2>1, CounterFrame, Zenon DEF Alive
<1>10. CASE Exit
  <2>1. TypeOK'
    BY <1>10, Zenon DEF Exit, TypeOK, MainState, CnxState
  <2> QED
    BY <1>10, <2>1, Zenon DEF Exit, CounterExact, Alive
<1>11. CASE Gone \/ UNCHANGED vars
  BY <1>11, Zenon DEF Gone, TypeOK, CounterExact, Alive, RunningTasks
<1> QED
  BY <1>1, <1>2, <1>3, <1>4, <1>5, <1>6, <1>7, <1>8, <1>9, <1>10, <1>11, Zenon
     DEF Next, MainStep

\* Every variable of the event loop keeps its type in every behaviour: in
\* particular fetch_sub never takes tasks_running below zero.
THEOREM TypeCorrect == Spec => []TypeOK
<1>1. CounterInv => TypeOK
  BY Zenon DEF CounterInv
<1> QED
  BY <1>1, CounterInit, CounterStep, PTL DEF Spec

\* main leaves its loop for a zero counter only when no task is running.
THEOREM DrainIsSafe == Spec => LeavesWithNoTask
<1> DEFINE Leaves == main = "check" /\ main' = "returning"
                     => \A c \in Conn : cnx[c] # "running"
<1>1. CounterInv /\ [Next]_vars => [Leaves]_vars
  <2> SUFFICES ASSUME CounterInv, Next, main = "check", main' = "returning",
                      NEW c \in Conn
               PROVE  cnx[c] # "running"
    BY Zenon
  <2> USE DEF mainVars, chanVars, loopVars, runVars, cnxVars, vars
  <2>1. CheckDrained
    <3>1. ASSUME NEW r \in Runner PROVE ~(RunnerStep(r) \/ Reactor(r))
      BY Zenon DEF RunnerStep, Reactor, RunnerStart, RunnerFail, PollChanged,
             AcceptErr, Park, Wake, DrainEnd, DrainErr, Close, Accept, DrainAccept,
             Spawn
    <3>2. ASSUME NEW d \in Conn
          PROVE  /\ \A r \in Runner : ~Connect(d, r)
                 /\ \A b \in Addr : ~Refuse(d, b)
                 /\ ~(TaskStart(d) \/ TaskEnd(d))
      BY Zenon DEF Connect, Refuse, TaskStart, TaskEnd
    <3>3. ~(Signal \/ SendShutdown \/ CheckBusy \/ Tick \/ Exit \/ Interrupt \/ Gone)
      BY Zenon DEF Signal, SendShutdown, CheckBusy, Tick, Exit, Interrupt, Gone
    <3>4. \A new \in SUBSET Addr : ~SendConfig(new)
      BY Zenon DEF SendConfig
    <3>5. ~LoopStep
      BY Zenon DEF LoopStep, LoopPollShutdown, LoopRecv, LoopUpdate, LoopPark, LoopWake
    <3> QED
      BY <3>1, <3>2, <3>3, <3>4, <3>5, Zenon DEF Next, MainStep
  <2>2. RunningTasks = {}
    BY <2>1, RunningFinite, FS_EmptySet, Zenon
       DEF CheckDrained, NoTask, CounterInv, CounterExact, Alive
  <2> QED
    BY <2>2, Zenon DEF RunningTasks
<1> QED
  BY <1>1, CounterInit, CounterStep, PTL DEF Spec, LeavesWithNoTask
----------------------------------------------------------------------------
(***************************************************************************)
(* Part 2.  Rules.  The invariants that matter follow from what is known   *)
(* of each sender, of each runner and of each connection.                  *)
(***************************************************************************)

\* The map of watch senders mirrors the last configuration applied, a sender's
\* runner was spawned at or before it, and a reload goes through its addresses.
SenderInv ==
    /\ applied <= sent
    /\ loop = "stopped" \/ applied = 0 => \A a \in Addr : listeners[a] = NoGen
    /\ \A a \in todo : applied # 0 /\ a \in configs[applied]
    /\ ListenersMirrorConfig
    /\ \A a \in Addr : listeners[a] # NoGen => listeners[a] <= applied

\* A runner exists from the reload of its own generation on; its channel holds
\* a rule of a configuration that lists its address, never older than the one
\* it has taken; it drains once its channel is closed and exhausted.
RunnerInv ==
    \A r \in Runner :
        /\ applied < r[2] \/ (applied = r[2] /\ r[1] \in todo) => runner[r] = "none"
        /\ runner[r] = "none" => watched[r] = NoGen /\ Closed(r)
        /\ runner[r] # "none" => watched[r] # NoGen
        /\ watched[r] <= applied
        /\ watched[r] # NoGen => r[1] \in configs[watched[r]]
        /\ rule[r] <= watched[r]
        /\ rule[r] # NoGen => r[1] \in configs[rule[r]]
        /\ Listening(r) => rule[r] # NoGen
        /\ runner[r] \in {"drain", "stopped"} => Closed(r) /\ rule[r] = watched[r]

\* A queued connection waits at a listening runner that will know at least the
\* promised rule when it accepts; an accepted one has been given such a rule.
CnxInv ==
    \A c \in Conn :
        /\ cnx[c] = "queued" =>
              /\ at[c] \in Runner
              /\ Listening(at[c])
              /\ promised[c] <= watched[at[c]]
              /\ runner[at[c]] = "poll_accept" => promised[c] <= rule[at[c]]
        /\ cnx[c] \in {"spawned", "running", "done"} =>
              /\ at[c] \in Runner
              /\ promised[c] <= served[c]
              /\ served[c] \in 1..applied
              /\ at[c][1] \in configs[served[c]]

\* A runner is named by its address and the configuration it was spawned for.
LEMMA RunnerPair ==
    \A r \in Runner : r[1] \in Addr /\ r[2] \in Gens /\ r = <<r[1], r[2]>>
BY DEF Runner

RuleInv == SenderInv /\ RunnerInv /\ CnxInv
\* The initial state satisfies the rule invariant.
LEMMA RuleInit == Init => RuleInv
<1> SUFFICES ASSUME Init PROVE RuleInv
  BY Zenon
<1> USE BoundAssumption DEF Init, NoGen
<1>1. SenderInv
  BY DEF SenderInv, ListenersMirrorConfig
<1>2. RunnerInv
  BY DEF RunnerInv, Runner, Gens, Closed, Listening
<1>3. CnxInv
  BY Zenon DEF CnxInv
<1> QED
  BY <1>1, <1>2, <1>3, Zenon DEF RuleInv

\* Sending a configuration writes a generation nobody has used.
LEMMA RuleSend ==
    ASSUME TypeOK, RuleInv, NEW new \in SUBSET Addr, SendConfig(new)
    PROVE  RuleInv'
<1> USE BoundAssumption DEF RuleInv, NoGen, Gens
<1> USE DEF SendConfig, mainVars, chanVars, loopVars, runVars, cnxVars
<1>1. \A g \in Gens : g <= applied => configs'[g] = configs[g]
  BY DEF TypeOK, SenderInv
<1>2. SenderInv'
  BY <1>1 DEF TypeOK, SenderInv, ListenersMirrorConfig
<1>3. RunnerInv'
  BY <1>1 DEF TypeOK, RunnerInv, Closed, Listening
<1>4. CnxInv'
  BY <1>1 DEF TypeOK, CnxInv, Listening
<1> QED
  BY <1>2, <1>3, <1>4, Zenon

\* The reload begins: the senders of removed addresses go, the others stay, and
\* the runners of the generation applied are not there yet.
LEMMA RuleRecv ==
    ASSUME TypeOK, RuleInv, LoopRecv
    PROVE  RuleInv'
<1> USE BoundAssumption DEF RuleInv
<1> DEFINE g == applied + 1
<1>1. /\ applied' = g /\ todo' = configs[g] /\ applied < sent /\ loop' # "stopped"
      /\ listeners' = Retain(listeners, configs[g])
      /\ UNCHANGED <<configs, sent, watched, runner, rule, cnx, at, served, promised>>
  BY DEF LoopRecv, AfterUpdate, mainVars, chanVars, runVars, cnxVars
<1>2. applied \in Nat /\ sent \in Nat /\ g \in Gens
  BY <1>1 DEF TypeOK, Gens
<1>3. \A a \in Addr : listeners'[a] = IF a \in configs[g] THEN listeners[a] ELSE NoGen
  BY <1>1, Zenon DEF Retain
<1>4. SenderInv'
  BY <1>1, <1>2, <1>3 DEF TypeOK, SenderInv, ListenersMirrorConfig, NoGen
<1>5. RunnerInv'
  <2> SUFFICES ASSUME NEW r \in Runner PROVE RunnerInv!(r)'
    BY Zenon DEF RunnerInv
  <2>1. /\ r[1] \in Addr /\ r[2] \in Nat /\ r[2] # NoGen
        /\ watched[r] \in Nat /\ rule[r] \in Nat
    BY RunnerPair DEF TypeOK, Gens, NoGen
  <2>2. RunnerInv!(r)
    BY Zenon DEF RunnerInv
  <2>3. (Closed(r) => Closed(r)') /\ (Listening(r)' <=> Listening(r))
    BY <1>1, <1>3, <2>1, Zenon DEF Closed, Listening
  <2> QED
    BY <1>1, <1>2, <2>1, <2>2, <2>3
<1>6. CnxInv'
  <2> SUFFICES ASSUME NEW c \in Conn PROVE CnxInv!(c)'
    BY Zenon DEF CnxInv
  <2>1. CnxInv!(c) /\ served[c] \in Nat
    BY DEF CnxInv, TypeOK
  <2> QED
    BY <1>1, <1>2, <2>1 DEF Listening
<1> QED
  BY <1>4, <1>5, <1>6, Zenon

\* The reload of one address: its sender publishes the new rule, or the runner
\* of the generation applied is spawned with it.
LEMMA RuleUpdate ==
    ASSUME TypeOK, TypeOK', RuleInv, NEW a \in Addr, LoopUpdate(a)
    PROVE  RuleInv'
<1> USE BoundAssumption DEF RuleInv
<1> DEFINE g == IF listeners[a] = NoGen THEN applied ELSE listeners[a]
           u == <<a, g>>
<1>1. /\ a \in todo /\ todo' = todo \ {a} /\ loop' # "stopped"
      /\ listeners' = [listeners EXCEPT ![a] = g]
      /\ watched' = [watched EXCEPT ![u] = applied]
      /\ runner' = IF listeners[a] = NoGen THEN [runner EXCEPT ![u] = "spawned"] ELSE runner
      /\ UNCHANGED <<configs, sent, applied, rule, cnx, at, served, promised>>
  BY DEF LoopUpdate, AfterUpdate, mainVars, chanVars, runVars, cnxVars
<1>2. applied \in Gens /\ applied # NoGen /\ a \in configs[applied] /\ g \in Gens /\ g <= applied
  BY <1>1 DEF TypeOK, SenderInv, Gens, NoGen
<1>3. u \in Runner /\ u[1] = a /\ u[2] = g
  BY <1>2, Zenon DEF Runner
<1> HIDE DEF g
<1>4. /\ listeners'[a] = g
      /\ \A b \in Addr : b # a => listeners'[b] = listeners[b]
  BY <1>1, Zenon DEF TypeOK
<1> HIDE DEF u
<1>5. /\ watched'[u] = applied
      /\ \A r \in Runner : r # u => watched'[r] = watched[r] /\ runner'[r] = runner[r]
  BY <1>1, <1>3, Zenon DEF TypeOK
<1>6. /\ listeners[a] = NoGen => runner[u] = "none" /\ runner'[u] = "spawned"
      /\ listeners[a] # NoGen => runner[u] # "none" /\ runner'[u] = runner[u] /\ listeners[a] = g
  <2>1. RunnerInv!(u)
    BY <1>3, Zenon DEF RunnerInv
  <2>2. CASE listeners[a] = NoGen
    BY <1>1, <1>3, <2>1, <2>2, Zenon DEF TypeOK, g
  <2>3. CASE listeners[a] # NoGen
    BY <1>1, <1>3, <2>1, <2>3, Zenon DEF Closed, g
  <2> QED
    BY <2>2, <2>3, Zenon
<1>7. SenderInv'
  <2>1. ListenersMirrorConfig'
    <3> SUFFICES ASSUME loop' # "stopped", NEW b \in Addr \ todo'
                 PROVE  /\ listeners'[b] # NoGen <=> b \in configs[applied]
                        /\ listeners'[b] # NoGen => watched'[<<b, listeners'[b]>>] = applied
      BY <1>1, Zenon DEF ListenersMirrorConfig
    <3>1. CASE b = a
      <4>1. listeners'[b] # NoGen
        BY <1>2, <1>4, <3>1 DEF Gens, NoGen
      <4>2. <<b, listeners'[b]>> = u
        BY <1>4, <3>1 DEF u
      <4> QED
        BY <1>2, <1>5, <3>1, <4>1, <4>2, Zenon
    <3>2. CASE b # a
      <4>1. b \in Addr \ todo /\ listeners'[b] = listeners[b]
        BY <1>1, <1>4, <3>2
      <4>2. loop # "stopped" /\ applied > 0
        BY <1>2 DEF LoopUpdate, Gens, NoGen
      <4>3. /\ listeners[b] # NoGen <=> b \in configs[applied]
            /\ listeners[b] # NoGen => watched[<<b, listeners[b]>>] = applied
        BY <4>1, <4>2, Zenon DEF SenderInv, ListenersMirrorConfig
      <4>4. listeners[b] # NoGen => <<b, listeners[b]>> \in Runner /\ <<b, listeners[b]>> # u
        BY <3>2 DEF TypeOK, Runner, Gens, NoGen, u
      <4> QED
        BY <1>5, <4>1, <4>3, <4>4, Zenon
    <3> QED
      BY <3>1, <3>2, Zenon
  <2>2. \A b \in Addr : listeners'[b] # NoGen => listeners'[b] <= applied
    BY <1>2, <1>4, Zenon DEF SenderInv
  <2> QED
    BY <1>1, <1>2, <2>1, <2>2 DEF SenderInv, NoGen
<1>8. RunnerInv'
  <2> SUFFICES ASSUME NEW r \in Runner PROVE RunnerInv!(r)'
    BY Zenon DEF RunnerInv
  <2>1. /\ r[1] \in Addr /\ r[2] \in Nat /\ r[2] # NoGen /\ r = <<r[1], r[2]>>
        /\ watched[r] \in Nat /\ rule[r] \in Nat /\ applied \in Nat
    <3>1. r[1] \in Addr /\ r[2] \in Gens /\ r = <<r[1], r[2]>>
      BY RunnerPair, Zenon
    <3>2. watched[r] \in Nat /\ rule[r] \in Nat /\ applied \in Nat
      BY DEF TypeOK
    <3> QED
      BY <3>1, <3>2 DEF Gens, NoGen
  <2>2. RunnerInv!(r)
    BY Zenon DEF RunnerInv
  <2>3. CASE r = u
    <3>1. r[1] = a /\ r[2] = g /\ ~Closed(r)' /\ a \notin todo'
      BY <1>1, <1>3, <1>4, <2>3, Zenon DEF Closed
    <3>2. watched'[r] = applied /\ rule'[r] = rule[r] /\ applied' = applied /\ configs' = configs
      BY <1>1, <1>5, <2>3, Zenon
    <3>3. CASE listeners[a] = NoGen
      <4>1. runner'[r] = "spawned" /\ runner[r] = "none"
        BY <1>6, <2>3, <3>3
      <4> QED
        BY <1>2, <2>1, <2>2, <3>1, <3>2, <4>1 DEF Listening
    <3>4. CASE listeners[a] # NoGen
      <4>1. runner'[r] = runner[r] /\ runner[r] # "none" /\ ~Closed(r)
        BY <1>6, <2>3, <3>1, <3>4, Zenon DEF Closed
      <4> QED
        BY <1>2, <2>1, <2>2, <3>1, <3>2, <4>1 DEF Listening
    <3> QED
      BY <3>3, <3>4, Zenon
  <2>4. CASE r # u
    <3>1. Closed(r) => Closed(r)'
      <4>1. CASE r[1] = a
        BY <1>4, <2>1, <2>4, <4>1, Zenon DEF Closed, u
      <4>2. CASE r[1] # a
        BY <1>4, <2>1, <4>2, Zenon DEF Closed
      <4> QED
        BY <4>1, <4>2, Zenon
    <3>2. /\ watched'[r] = watched[r] /\ runner'[r] = runner[r] /\ rule'[r] = rule[r]
          /\ applied' = applied /\ configs' = configs /\ (r[1] \in todo' => r[1] \in todo)
          /\ (Listening(r)' <=> Listening(r))
      BY <1>1, <1>5, <2>4 DEF Listening
    <3> QED
      BY <2>2, <3>1, <3>2, Zenon
  <2> QED
    BY <2>3, <2>4, Zenon
<1>9. CnxInv'
  <2>1. ASSUME NEW r \in Runner
        PROVE  /\ watched[r] <= watched'[r]
               /\ Listening(r) => runner'[r] = runner[r]
    <3>1. watched[r] \in Nat /\ watched[r] <= applied /\ applied \in Nat
      BY DEF TypeOK, RunnerInv
    <3>2. Listening(r) => runner[r] # "none"
      BY DEF Listening
    <3> QED
      BY <1>5, <1>6, <3>1, <3>2
  <2> SUFFICES ASSUME NEW c \in Conn PROVE CnxInv!(c)'
    BY Zenon DEF CnxInv
  <2>2. CnxInv!(c)
    BY DEF CnxInv
  <2>3. CASE cnx[c] = "queued"
    <3>1. promised[c] \in Nat /\ watched[at[c]] \in Nat /\ watched'[at[c]] \in Nat
      BY <2>2, <2>3 DEF TypeOK
    <3> QED
      BY <1>1, <2>1, <2>2, <2>3, <3>1 DEF Listening
  <2>4. CASE cnx[c] # "queued"
    BY <1>1, <2>2, <2>4
  <2> QED
    BY <2>3, <2>4, Zenon
<1> QED
  BY <1>7, <1>8, <1>9, Zenon

\* What a step of one runner may do to its own state, and that it leaves the
\* rest of the runners and the event loop alone.
RunnerEffect(r) ==
    /\ UNCHANGED <<configs, sent, loop, todo, applied, listeners, watched, at, promised>>
    /\ \A s \in Runner : s # r => runner'[s] = runner[s] /\ rule'[s] = rule[s]
    /\ runner[r] # "none" /\ runner'[r] # "none"
    /\ \/ /\ rule'[r] = rule[r]
          /\ Listening(r)' => Listening(r)
          /\ runner'[r] = "poll_accept" => runner[r] = "poll_accept"
          /\ runner'[r] \in {"drain", "stopped"} => runner[r] \in {"drain", "stopped"}
       \/ /\ rule'[r] = watched[r]
          /\ Listening(r)'
          /\ runner'[r] # "poll_changed" => rule[r] = watched[r]
          /\ runner'[r] = "drain" => Closed(r)
          /\ runner'[r] # "stopped"

\* A runner's step preserves what is known of senders and runners.
LEMMA EffectKeeps ==
    ASSUME TypeOK, SenderInv, RunnerInv, NEW r \in Runner, RunnerEffect(r)
    PROVE  SenderInv' /\ RunnerInv'
<1> USE DEF RunnerEffect
<1>1. SenderInv'
  BY Zenon DEF SenderInv, ListenersMirrorConfig
<1>2. RunnerInv!(r)
  BY Zenon DEF RunnerInv
<1>3. watched[r] \in Nat /\ rule[r] \in Nat /\ r[2] \in Nat /\ applied \in Nat
  BY BoundAssumption DEF TypeOK, Runner, Gens
<1>4. RunnerInv!(r)'
  BY <1>2, <1>3 DEF Closed, NoGen
<1>5. RunnerInv'
  BY <1>4 DEF RunnerInv, Closed, Listening
<1> QED
  BY <1>1, <1>5, Zenon

\* The steps of a runner that leave the connections alone.
LEMMA RuleQuiet ==
    ASSUME TypeOK, RuleInv, NEW r \in Runner,
           \/ RunnerStart(r) \/ RunnerFail(r) \/ PollChanged(r) \/ AcceptErr(r)
           \/ Park(r) \/ Wake(r) \/ Reactor(r)
    PROVE  RuleInv'
<1> USE DEF RuleInv, mainVars, chanVars, loopVars, runVars, cnxVars
<1>1. RunnerEffect(r) /\ UNCHANGED <<cnx, served>>
      /\ (Listening(r) => Listening(r)')
  <2>1. CASE RunnerStart(r)
    BY <2>1, Zenon DEF RunnerStart, RunnerEffect, TypeOK, Listening
  <2>2. CASE RunnerFail(r)
    BY <2>2, Zenon DEF RunnerFail, RunnerEffect, TypeOK, Listening
  <2>3. CASE PollChanged(r)
    BY <2>3, Zenon DEF PollChanged, RunnerEffect, TypeOK, Listening
  <2>4. CASE AcceptErr(r)
    BY <2>4, Zenon DEF AcceptErr, RunnerEffect, TypeOK, Listening
  <2>5. CASE Park(r)
    BY <2>5, Zenon DEF Park, RunnerEffect, TypeOK, Listening
  <2>6. CASE Wake(r)
    BY <2>6, Zenon DEF Wake, RunnerEffect, TypeOK, Listening
  <2>7. CASE Reactor(r)
    BY <2>7, Zenon DEF Reactor, RunnerEffect, TypeOK, Listening
  <2> QED
    BY <2>1, <2>2, <2>3, <2>4, <2>5, <2>6, <2>7, Zenon
<1>2. SenderInv' /\ RunnerInv'
  BY <1>1, EffectKeeps, Zenon
<1>3. CnxInv'
  <2> SUFFICES ASSUME NEW c \in Conn PROVE CnxInv!(c)'
    BY Zenon DEF CnxInv
  <2>1. /\ CnxInv!(c) /\ promised[c] \in Nat
        /\ watched[r] \in Nat /\ rule[r] \in Nat /\ rule[r] <= watched[r]
    BY DEF CnxInv, RunnerInv, TypeOK
  <2>2. CASE cnx[c] = "queued" /\ at[c] = r
    BY <1>1, <2>1, <2>2, Zenon DEF RunnerEffect
  <2>3. CASE ~(cnx[c] = "queued" /\ at[c] = r)
    BY <1>1, <2>1, <2>3, Zenon DEF RunnerEffect, Listening
  <2> QED
    BY <2>2, <2>3, Zenon
<1> QED
  BY <1>2, <1>3, Zenon

\* A runner that closes its socket empties its queue.
LEMMA RuleClose ==
    ASSUME TypeOK, RuleInv, NEW r \in Runner, DrainEnd(r) \/ DrainErr(r)
    PROVE  RuleInv'
<1> USE DEF RuleInv, mainVars, chanVars, loopVars
<1>1. RunnerEffect(r) /\ UNCHANGED served
  BY Zenon DEF DrainEnd, DrainErr, Close, RunnerEffect, TypeOK, Listening
<1>2. SenderInv' /\ RunnerInv'
  BY <1>1, EffectKeeps, Zenon
<1>3. \A c \in Conn : cnx'[c] = IF cnx[c] = "queued" /\ at[c] = r THEN "reset" ELSE cnx[c]
  BY Zenon DEF DrainEnd, DrainErr, Close, Queue
<1>4. /\ UNCHANGED <<configs, applied, watched, at, promised, served>>
      /\ \A s \in Runner : s # r => runner'[s] = runner[s] /\ rule'[s] = rule[s]
  BY <1>1, Zenon DEF RunnerEffect
<1>5. ASSUME NEW c \in Conn PROVE CnxInv!(c)'
  <2>1. CnxInv!(c)
    BY Zenon DEF CnxInv
  <2>2. CASE cnx[c] = "queued" /\ at[c] = r
    BY <1>3, <2>2, Zenon
  <2>3. CASE ~(cnx[c] = "queued" /\ at[c] = r)
    BY <1>3, <1>4, <2>1, <2>3, Zenon DEF Listening
  <2> QED
    BY <2>2, <2>3, Zenon
<1> QED
  BY <1>2, <1>5, Zenon DEF CnxInv

\* A connection accepted gets the rule its runner holds, which is the one it
\* was promised or a newer one.
LEMMA RuleSpawn ==
    ASSUME TypeOK, RuleInv, NEW r \in Runner, NEW c \in Conn,
           Accept(r, c) \/ DrainAccept(r, c)
    PROVE  RuleInv'
<1> USE DEF RuleInv, mainVars, chanVars, loopVars
<1>1. RunnerEffect(r)
  BY Zenon DEF Accept, DrainAccept, Spawn, RunnerEffect, TypeOK, Listening
<1>2. SenderInv' /\ RunnerInv'
  BY <1>1, EffectKeeps, Zenon
<1>3. /\ runner[r] \in {"poll_accept", "drain"} /\ runner'[r] = "poll_changed"
      /\ cnx[c] = "queued" /\ at[c] = r
      /\ cnx' = [cnx EXCEPT ![c] = "spawned"]
      /\ served' = [served EXCEPT ![c] = rule[r]]
  BY DEF Accept, DrainAccept, Spawn, CanAccept, Queue, TypeOK
<1>4. /\ promised[c] \in Nat /\ watched[r] \in Nat /\ rule[r] \in Nat
      /\ applied \in Nat /\ promised[c] <= watched[r]
      /\ runner[r] = "poll_accept" => promised[c] <= rule[r]
  BY <1>3 DEF TypeOK, CnxInv
<1>5. /\ watched[r] <= applied /\ rule[r] <= watched[r]
      /\ rule[r] # NoGen /\ r[1] \in configs[rule[r]]
      /\ runner[r] = "drain" => rule[r] = watched[r]
  BY <1>3, Zenon DEF RunnerInv, Listening
<1>6. /\ promised[c] <= rule[r] /\ rule[r] \in 1..applied
      /\ r[1] \in configs[rule[r]]
  <2> HIDE DEF RuleInv, mainVars, chanVars, loopVars
  <2> QED
    BY <1>3, <1>4, <1>5 DEF NoGen
<1>7. /\ UNCHANGED <<configs, applied, watched, at, promised>>
      /\ \A s \in Runner : s # r => runner'[s] = runner[s] /\ rule'[s] = rule[s]
  BY <1>1, Zenon DEF RunnerEffect
<1>8. ASSUME NEW d \in Conn PROVE CnxInv!(d)'
  <2>1. CASE d = c
    <3>1. cnx'[c] = "spawned" /\ served'[c] = rule[r]
      BY <1>3, Zenon DEF TypeOK
    <3> QED
      BY <1>3, <1>6, <1>7, <2>1, <3>1, Zenon
  <2>2. CASE d # c
    <3>1. cnx'[d] = cnx[d] /\ served'[d] = served[d] /\ CnxInv!(d)
      BY <1>3, <2>2, Zenon DEF TypeOK, CnxInv
    <3> QED
      BY <1>3, <1>7, <3>1, Zenon DEF Listening
  <2> QED
    BY <2>1, <2>2, Zenon
<1> QED
  BY <1>2, <1>8, Zenon DEF CnxInv

\* The other steps of the event loop, main and the tasks: rules and runners stay
\* as they are, senders may all be dropped, and no connection is put back in a
\* queue or given another rule.
LEMMA RuleFrame ==
    ASSUME TypeOK, RuleInv,
           UNCHANGED <<configs, sent, todo, applied, watched, runner, rule, at, served,
                       promised>>,
           \/ UNCHANGED <<loop, listeners>>
           \/ loop' # "stopped" /\ loop # "stopped" /\ UNCHANGED listeners
           \/ listeners' = [a \in Addr |-> NoGen] /\ loop' = "stopped",
           \A c \in Conn :
              \/ cnx'[c] = cnx[c]
              \/ cnx'[c] \notin {"queued", "spawned", "running", "done"}
              \/ cnx[c] = "spawned" /\ cnx'[c] = "running"
              \/ cnx[c] = "running" /\ cnx'[c] = "done"
    PROVE  RuleInv'
<1> USE BoundAssumption DEF RuleInv
<1>1. SenderInv'
  BY ZenonT(30) DEF SenderInv, ListenersMirrorConfig, NoGen
<1>2. RunnerInv'
  <2>1. \A r \in Runner : r[1] \in Addr /\ r[2] # NoGen
    BY DEF Runner, Gens, NoGen
  <2>2. \A r \in Runner : Closed(r) => Closed(r)'
    BY <2>1, Zenon DEF Closed
  <2>3. \A r \in Runner : Listening(r)' => Listening(r)
    BY Zenon DEF Listening
  <2> QED
    BY <2>2, <2>3, Zenon DEF RunnerInv
<1>3. CnxInv'
  BY ZenonT(30) DEF CnxInv, Listening
<1> QED
  BY <1>1, <1>2, <1>3, Zenon

\* A client that connects is promised what its runner already has or will have
\* taken before it polls accept.
LEMMA RuleConnect ==
    ASSUME TypeOK, RuleInv, NEW c \in Conn, NEW r \in Runner, Connect(c, r)
    PROVE  RuleInv'
<1> USE DEF RuleInv, Connect, mainVars, chanVars, loopVars, runVars
<1>1. SenderInv'
  BY Zenon DEF SenderInv, ListenersMirrorConfig
<1>2. RunnerInv'
  BY Zenon DEF RunnerInv, Closed, Listening
<1>3. CnxInv'
  <2> SUFFICES ASSUME NEW d \in Conn PROVE CnxInv!(d)'
    BY Zenon DEF CnxInv
  <2>1. CASE d = c
    <3>1. /\ cnx'[c] = "queued" /\ at'[c] = r
          /\ promised'[c] = IF runner[r] = "poll_accept" THEN rule[r] ELSE watched[r]
      BY Zenon DEF TypeOK
    <3>2. rule[r] <= watched[r] /\ rule[r] \in Nat /\ watched[r] \in Nat
      BY DEF RunnerInv, TypeOK
    <3>3. Listening(r) /\ UNCHANGED <<runner, rule, watched>>
      BY Zenon
    <3> HIDE DEF Connect, RuleInv, mainVars, chanVars, loopVars, runVars
    <3>4. promised'[c] <= watched[r]
          /\ (runner[r] = "poll_accept" => promised'[c] <= rule[r])
      <4>1. CASE runner[r] = "poll_accept"
        BY <3>1, <3>2, <4>1
      <4>2. CASE runner[r] # "poll_accept"
        BY <3>1, <3>2, <4>2
      <4> QED
        BY <4>1, <4>2, Zenon
    <3> QED
      BY <2>1, <3>1, <3>3, <3>4, Zenon DEF Listening
  <2>2. CASE d # c
    BY <2>2, Zenon DEF CnxInv, TypeOK, Listening
  <2> QED
    BY <2>1, <2>2, Zenon
<1> QED
  BY <1>1, <1>2, <1>3, Zenon

\* Every step preserves the rule invariant.
LEMMA RuleStep == TypeOK /\ TypeOK' /\ RuleInv /\ [Next]_vars => RuleInv'
<1> SUFFICES ASSUME TypeOK, TypeOK', RuleInv, [Next]_vars PROVE RuleInv'
  BY Zenon
<1> USE DEF mainVars, chanVars, loopVars, runVars, cnxVars, vars
<1>1. ASSUME NEW new \in SUBSET Addr, SendConfig(new) PROVE RuleInv'
  BY <1>1, RuleSend, Zenon
<1>2. ASSUME LoopRecv \/ \E a \in Addr : LoopUpdate(a) PROVE RuleInv'
  BY <1>2, RuleRecv, RuleUpdate, Zenon
<1>3. CASE LoopPollShutdown \/ LoopPark \/ LoopWake
  BY <1>3, RuleFrame, Zenon DEF LoopPollShutdown, LoopPark, LoopWake
<1>4. ASSUME NEW r \in Runner, RunnerStep(r) \/ Reactor(r) PROVE RuleInv'
  BY <1>4, RuleQuiet, RuleClose, RuleSpawn, Zenon DEF RunnerStep
<1>5. ASSUME NEW c \in Conn, NEW r \in Runner, Connect(c, r) PROVE RuleInv'
  BY <1>5, RuleConnect, Zenon
<1>6. ASSUME NEW c \in Conn, NEW a \in Addr, Refuse(c, a) PROVE RuleInv'
  BY <1>6, RuleFrame, Zenon DEF Refuse, TypeOK
<1>7. ASSUME NEW c \in Conn, TaskStart(c) \/ TaskEnd(c) PROVE RuleInv'
  BY <1>7, RuleFrame, Zenon DEF TaskStart, TaskEnd, TypeOK
<1>8. CASE Signal \/ SendShutdown \/ CheckDrained \/ CheckBusy \/ Tick \/ Interrupt
           \/ Gone \/ UNCHANGED vars
  BY <1>8, RuleFrame, Zenon
     DEF Signal, SendShutdown, CheckDrained, CheckBusy, Tick, Interrupt, Gone
<1>9. CASE Exit
  BY <1>9, RuleFrame, Zenon DEF Exit
<1> QED
  BY <1>1, <1>2, <1>3, <1>4, <1>5, <1>6, <1>7, <1>8, <1>9, Zenon
     DEF Next, LoopStep, MainStep

\* The rule invariant holds in every reachable state.
LEMMA RuleInvariant == Spec => [](TypeOK /\ RuleInv)
<1>1. TypeOK /\ RuleInv /\ TypeOK' /\ [Next]_vars => RuleInv'
  BY RuleStep, Zenon
<1> QED
  BY <1>1, TypeCorrect, RuleInit, PTL DEF Spec

\* The map of watch senders always mirrors the last configuration applied.
THEOREM SendersMirror == Spec => []ListenersMirrorConfig
<1>1. RuleInv => ListenersMirrorConfig
  BY Zenon DEF RuleInv, SenderInv
<1> QED
  BY <1>1, RuleInvariant, PTL

\* A listener drains or stops only after its address was removed or the event
\* loop was shut down, and with the last rule published to it.
THEOREM NoEarlyStop == Spec => []StopsOnlyWhenRemoved
<1>1. RuleInv => StopsOnlyWhenRemoved
  BY Zenon DEF RuleInv, RunnerInv, StopsOnlyWhenRemoved
<1> QED
  BY <1>1, RuleInvariant, PTL

\* Every connection is served with a rule that is current in the sense of
\* ServedWithCurrentRule.
THEOREM CurrentRule == Spec => []ServedWithCurrentRule
<1>1. TypeOK /\ RuleInv => ServedWithCurrentRule
  BY BoundAssumption DEF RuleInv, CnxInv, ServedWithCurrentRule, TypeOK, Gens
<1> QED
  BY <1>1, RuleInvariant, PTL

\* No reload drops or replaces the sender, hence the runner, of an address that
\* it lists.
THEOREM KeepsRunner == Spec => ReloadKeepsRunner
<1> DEFINE Keeps == \A a \in Addr :
                      listeners[a] # NoGen /\ listeners'[a] # listeners[a]
                      => /\ listeners'[a] = NoGen
                         /\ loop' = "stopped" \/ a \notin configs[applied']
<1>1. TypeOK /\ [Next]_vars => [Keeps]_vars
  <2> SUFFICES ASSUME TypeOK, Next, NEW a \in Addr,
                      listeners[a] # NoGen, listeners'[a] # listeners[a]
               PROVE  /\ listeners'[a] = NoGen
                      /\ loop' = "stopped" \/ a \notin configs[applied']
    BY Zenon
  <2> USE DEF mainVars, chanVars, loopVars, runVars, cnxVars, vars
  <2>1. LoopPollShutdown \/ LoopRecv \/ \E b \in Addr : LoopUpdate(b)
    <3>1. ASSUME NEW r \in Runner PROVE ~(RunnerStep(r) \/ Reactor(r))
      BY Zenon DEF RunnerStep, Reactor, RunnerStart, RunnerFail, PollChanged,
             AcceptErr, Park, Wake, DrainEnd, DrainErr, Close, Accept, DrainAccept,
             Spawn
    <3>2. ASSUME NEW c \in Conn
          PROVE  /\ \A r \in Runner : ~Connect(c, r)
                 /\ \A b \in Addr : ~Refuse(c, b)
                 /\ ~(TaskStart(c) \/ TaskEnd(c))
      BY Zenon DEF Connect, Refuse, TaskStart, TaskEnd
    <3>3. ~(Signal \/ MainStep \/ Interrupt \/ Gone)
      BY Zenon DEF Signal, MainStep, SendShutdown, CheckDrained, CheckBusy, Tick,
             Interrupt, Exit, Gone
    <3>4. ASSUME NEW new \in SUBSET Addr PROVE ~SendConfig(new)
      BY Zenon DEF SendConfig
    <3>5. ~(LoopPark \/ LoopWake)
      BY Zenon DEF LoopPark, LoopWake
    <3> QED
      BY <3>1, <3>2, <3>3, <3>4, <3>5, Zenon DEF Next, LoopStep
  <2>2. CASE LoopPollShutdown
    BY <2>2, Zenon DEF LoopPollShutdown
  <2>3. CASE LoopRecv
    BY <2>3, Zenon DEF LoopRecv, Retain
  <2>4. ASSUME NEW b \in Addr, LoopUpdate(b) PROVE FALSE
    BY <2>4, Zenon DEF LoopUpdate, TypeOK
  <2> QED
    BY <2>1, <2>2, <2>3, <2>4, Zenon
<1> QED
  BY <1>1, TypeCorrect, PTL DEF Spec, ReloadKeepsRunner
=============================================================================
