--------------------------- MODULE ServiceProofs ---------------------------
(***************************************************************************)
(* The event loop implements Service, for any set of addresses, any finite *)
(* set of connections and any bounds.  The rule invariant gives the bounds *)
(* of the rule a connection is served with, and the counter invariant that *)
(* a process that decides to leave serves none.                            *)
(***************************************************************************)
EXTENDS LoadBalancerProofs

\* The states and the rules of the connections, as Service has them.
States == [c \in Conn |-> Outcome(c)]
Given == [c \in Conn |-> IF cnx[c] \in {"running", "done", "cut"} THEN served[c] ELSE 0]

\* The initial states of the event loop are initial states of Service.
LEMMA PromiseInit == Init => Promise!Init
<1> SUFFICES ASSUME Init PROVE Promise!Init
  OBVIOUS
<1>1. Alive /\ \A c \in Conn : cnx[c] = "new"
  BY DEF Init, Alive
<1>2. \A c \in Conn : Outcome(c) = "new"
  BY <1>1 DEF Outcome
<1> QED
  BY <1>1, <1>2 DEF Init, Promise!Init, NoGen, Alive

\* How the process stands, as Service has it.
Leaving == CASE main = "returning" -> "leaving"
             [] main \in {"drained", "aborted"} -> main
             [] OTHER -> "up"

\* A process that is there is up or about to leave.
LEMMA AliveIs == Alive => Leaving \in {"up", "leaving"}
BY DEF Alive, Leaving

\* A step that does not change how far the process is, and that leaves the
\* connections and the generation applied alone, is a stutter.
LEMMA PromiseStutter ==
    ASSUME Leaving' = Leaving, UNCHANGED <<applied, cnx, served, promised>>
    PROVE  UNCHANGED Promise!svars
<1>1. \A c \in Conn : Outcome(c)' = Outcome(c)
  BY DEF Outcome
<1> QED
  BY <1>1 DEF Promise!svars, Leaving

\* A step that changes one connection, whose other parts are known.
LEMMA PromiseOne ==
    ASSUME TypeOK, NEW c \in Conn, NEW s, cnx' = [cnx EXCEPT ![c] = s]
    PROVE  /\ States' = [States EXCEPT ![c] = Outcome(c)']
           /\ cnx'[c] = s
           /\ \A d \in Conn : d # c => cnx'[d] = cnx[d]
<1>1. cnx'[c] = s /\ \A d \in Conn : d # c => cnx'[d] = cnx[d]
  BY DEF TypeOK
<1>2. \A d \in Conn : d # c => Outcome(d)' = Outcome(d)
  BY <1>1, Zenon DEF Outcome
<1> QED
  BY <1>1, <1>2, Zenon DEF States

\* The client sees these of the states of a connection.
LEMMA OutcomeIs ==
    \A c \in Conn :
        /\ cnx[c] = "new" => Outcome(c) = "new"
        /\ cnx[c] = "refused" => Outcome(c) = "refused"
        /\ cnx[c] \in {"queued", "spawned"} => Outcome(c) = "waiting"
        /\ cnx[c] = "running" => Outcome(c) = "served"
        /\ cnx[c] = "done" => Outcome(c) = "over"
        /\ cnx[c] \in {"reset", "dropped"} => Outcome(c) = "lost"
        /\ cnx[c] = "cut" => Outcome(c) = "cut"
BY DEF Outcome

\* A client that connects is promised a rule that has been published.
LEMMA PromiseArrive ==
    ASSUME TypeOK, RuleInv, NEW c \in Conn, NEW r \in Runner, Connect(c, r)
    PROVE  Promise!Arrive(c) /\ Alive
<1> USE DEF Connect, mainVars, chanVars, loopVars, runVars
<1>1. /\ States' = [States EXCEPT ![c] = Outcome(c)']
      /\ cnx'[c] = "queued"
      /\ \A d \in Conn : d # c => cnx'[d] = cnx[d]
  BY PromiseOne, Zenon
<1>2. Outcome(c) = "new" /\ Outcome(c)' = "waiting"
  BY <1>1, OutcomeIs DEF Outcome
<1>3. Given' = Given
  BY <1>1 DEF Given
<1>4. RunnerInv!(r) /\ watched[r] \in Nat /\ rule[r] \in Nat /\ applied \in Nat
  BY BoundAssumption DEF RuleInv, RunnerInv, TypeOK
<1>5. \E g \in 1..applied : promised' = [promised EXCEPT ![c] = g]
  <2> DEFINE g == IF runner[r] = "poll_accept" THEN rule[r] ELSE watched[r]
  <2>1. Listening(r) /\ promised' = [promised EXCEPT ![c] = g]
    BY Zenon
  <2>2. g \in 1..applied
    BY <1>4, <2>1 DEF NoGen, Listening
  <2> QED
    BY <2>1, <2>2, Zenon
<1>6. Alive /\ Alive'
  BY DEF Alive
<1> QED
  BY <1>1, <1>2, <1>3, <1>5, <1>6, Zenon DEF Promise!Arrive, States, Given

\* A connection that starts to be served has been given a rule that it was
\* promised or a newer one, and one that has been published.
LEMMA PromiseServe ==
    ASSUME TypeOK, RuleInv, NEW c \in Conn, TaskStart(c)
    PROVE  Promise!Serve(c) /\ Alive
<1> USE DEF TaskStart, mainVars, chanVars, loopVars, runVars
<1>1. /\ States' = [States EXCEPT ![c] = Outcome(c)']
      /\ cnx'[c] = "running"
      /\ \A d \in Conn : d # c => cnx'[d] = cnx[d]
  BY PromiseOne, Zenon
<1>2. Outcome(c) = "waiting" /\ Outcome(c)' = "served"
  BY <1>1, OutcomeIs DEF Outcome
<1>3. Given' = [Given EXCEPT ![c] = served[c]]
  BY <1>1, Zenon DEF Given
<1>4. served[c] \in promised[c]..applied
  BY BoundAssumption DEF RuleInv, CnxInv, TypeOK
<1>5. Alive /\ Alive'
  BY DEF Alive
<1> QED
  BY <1>1, <1>2, <1>3, <1>4, <1>5, Zenon DEF Promise!Serve, States, Given

\* The ends of a connection that was refused, or served.
LEMMA PromiseEnds ==
    ASSUME TypeOK, NEW c \in Conn
    PROVE  /\ \A a \in Addr : Refuse(c, a) => Promise!Refuse(c) /\ Alive
           /\ TaskEnd(c) => Promise!Finish(c) /\ Alive
<1> USE DEF mainVars, chanVars, loopVars, runVars
<1>1. ASSUME NEW a \in Addr, Refuse(c, a) PROVE Promise!Refuse(c) /\ Alive
  <2> USE <1>1 DEF Refuse
  <2>1. /\ States' = [States EXCEPT ![c] = Outcome(c)']
        /\ cnx'[c] = "refused"
        /\ \A d \in Conn : d # c => cnx'[d] = cnx[d]
    BY PromiseOne, Zenon
  <2>2. Outcome(c) = "new" /\ Outcome(c)' = "refused"
    BY <2>1, OutcomeIs DEF Outcome
  <2>3. Given' = Given
    BY <2>1 DEF Given
  <2>4. Alive /\ Alive'
    BY DEF Alive
  <2> QED
    BY <2>1, <2>2, <2>3, <2>4 DEF Promise!Refuse, States, Given
<1>2. ASSUME TaskEnd(c) PROVE Promise!Finish(c) /\ Alive
  <2> USE <1>2 DEF TaskEnd
  <2>1. /\ States' = [States EXCEPT ![c] = Outcome(c)']
        /\ cnx'[c] = "done"
        /\ \A d \in Conn : d # c => cnx'[d] = cnx[d]
    BY PromiseOne, Zenon
  <2>2. Outcome(c) = "served" /\ Outcome(c)' = "over"
    BY <2>1, OutcomeIs DEF Outcome
  <2>3. Given' = Given
    BY <2>1 DEF Given
  <2>4. Alive /\ Alive'
    BY DEF Alive
  <2> QED
    BY <2>1, <2>2, <2>3, <2>4 DEF Promise!Finish, States, Given
<1> QED
  BY <1>1, <1>2

\* A listener that closes loses its queue and nothing else.
LEMMA PromiseLose ==
    ASSUME TypeOK, NEW r \in Runner, DrainEnd(r) \/ DrainErr(r)
    PROVE  Promise!Lose(Queue(r)) /\ Alive
<1> USE DEF DrainEnd, DrainErr, Close, mainVars, chanVars, loopVars
<1>1. \A c \in Conn :
        IF c \in Queue(r) THEN cnx[c] = "queued" /\ cnx'[c] = "reset" ELSE cnx'[c] = cnx[c]
  BY DEF Queue
<1>2. \A c \in Queue(r) : c \in Conn /\ Outcome(c) = "waiting"
  BY <1>1, OutcomeIs DEF Queue
<1>3. States' = [c \in Conn |-> IF c \in Queue(r) THEN "lost" ELSE States[c]]
  <2>1. \A c \in Conn : Outcome(c)' = IF c \in Queue(r) THEN "lost" ELSE Outcome(c)
    <3> HIDE DEF DrainEnd, DrainErr, Close
    <3>1. ASSUME NEW c \in Conn, c \in Queue(r) PROVE Outcome(c)' = "lost"
      <4>1. cnx'[c] = "reset"
        BY <1>1, <3>1
      <4> QED
        BY <4>1 DEF Outcome
    <3>2. ASSUME NEW c \in Conn, c \notin Queue(r) PROVE Outcome(c)' = Outcome(c)
      <4>1. cnx'[c] = cnx[c]
        BY <1>1, <3>2
      <4> QED
        BY <4>1 DEF Outcome
    <3> QED
      BY <3>1, <3>2
  <2> QED
    BY <2>1 DEF States
<1>4. Given' = Given
  BY <1>1 DEF Given
<1>5. Alive /\ Alive'
  BY DEF Alive
<1> QED
  BY <1>2, <1>3, <1>4, <1>5 DEF Promise!Lose, States, Given

\* main leaves its loop for a zero counter: the process serves none.
LEMMA PromiseDecide == ASSUME CounterInv, CheckDrained PROVE Promise!Decide
<1> USE DEF CheckDrained, chanVars, loopVars, runVars, cnxVars
<1>1. \A c \in Conn : Outcome(c)' = Outcome(c)
  BY DEF Outcome
<1>2. ASSUME NEW c \in Conn PROVE Outcome(c) # "served"
  <2>1. RunningTasks = {}
    BY RunningFinite, FS_EmptySet, Zenon DEF CounterInv, CounterExact, NoTask, Alive
  <2>2. cnx[c] # "running" /\ cnx[c] \in CnxState
    BY <2>1 DEF RunningTasks, CounterInv, TypeOK
  <2> QED
    BY <2>2 DEF Outcome, CnxState
<1>3. main = "check" /\ main' = "returning" /\ UNCHANGED <<applied, cnx, served, promised>>
  BY Zenon
<1> HIDE DEF CheckDrained
<1> QED
  BY <1>1, <1>2, <1>3 DEF Promise!Decide

\* The process leaves with its connections.
LEMMA PromiseLeave == ASSUME CounterInv, Exit PROVE Promise!Leave /\ Alive
<1> USE DEF Exit, chanVars, loopVars, runVars
<1>1. \A c \in Conn :
        /\ cnx[c] \in {"queued", "spawned"} => cnx'[c] = "dropped"
        /\ cnx[c] = "running" => cnx'[c] = "cut"
        /\ cnx[c] \notin {"queued", "spawned", "running"} => cnx'[c] = cnx[c]
  OBVIOUS
<1>2. /\ Alive
      /\ \/ main = "returning" /\ main' = "drained"
         \/ main = "aborting" /\ main' = "aborted"
  BY DEF Alive
<1>3. UNCHANGED <<applied, promised, served>>
  OBVIOUS
<1> HIDE DEF Exit
<1>4. cnx \in [Conn -> CnxState]
  BY DEF CounterInv, TypeOK
<1>5. ASSUME NEW c \in Conn
      PROVE  Outcome(c)' = CASE Outcome(c) = "waiting" -> "lost"
                             [] Outcome(c) = "served" -> "cut"
                             [] OTHER -> Outcome(c)
  <2>1. CASE cnx[c] \in {"queued", "spawned"}
    BY <1>1, <2>1 DEF Outcome
  <2>2. CASE cnx[c] = "running"
    BY <1>1, <2>2 DEF Outcome
  <2>3. CASE cnx[c] \in {"new", "refused", "cut", "done", "reset", "dropped"}
    <3>1. cnx'[c] = cnx[c]
      BY <1>1, <2>3
    <3>2. Outcome(c)' = Outcome(c)
      BY <3>1 DEF Outcome
    <3>3. Outcome(c) # "waiting" /\ Outcome(c) # "served"
      BY <2>3, OutcomeIs
    <3> QED
      BY <3>2, <3>3
  <2> QED
    BY <1>4, <2>1, <2>2, <2>3 DEF CnxState
<1>6. Given' = Given
  <2>1. \A c \in Conn : cnx[c] # "cut"
    BY <1>2 DEF CounterInv, CounterExact
  <2> QED
    BY <1>1, <1>3, <2>1 DEF Given
<1> QED
  BY <1>2, <1>3, <1>5, <1>6 DEF Promise!Leave, Given

\* A reload publishes one more generation and touches no connection.
LEMMA PromisePublish == ASSUME LoopRecv PROVE Promise!Publish /\ Alive
<1> USE DEF LoopRecv, mainVars, cnxVars
<1>1. \A c \in Conn : Outcome(c)' = Outcome(c)
  <2>1. cnx' = cnx
    BY Zenon
  <2> QED
    BY <2>1 DEF Outcome
<1>2. UNCHANGED <<main, cnx, served, promised>> /\ Alive /\ applied' = applied + 1
  BY Zenon
<1> QED
  BY <1>1, <1>2 DEF Promise!Publish, Alive

\* For its client a connection that is accepted still waits: its task has been
\* given a rule, and has done nothing with it.
LEMMA PromiseAccept ==
    ASSUME TypeOK, NEW r \in Runner, NEW c \in Conn, Accept(r, c) \/ DrainAccept(r, c)
    PROVE  UNCHANGED Promise!svars
<1> USE DEF Accept, DrainAccept, Spawn, mainVars, loopVars
<1>1. /\ States' = [States EXCEPT ![c] = Outcome(c)']
      /\ cnx'[c] = "spawned"
      /\ \A d \in Conn : d # c => cnx'[d] = cnx[d]
  BY PromiseOne, Zenon
<1>2. cnx[c] = "queued"
  BY DEF CanAccept, Queue
<1>3. Outcome(c) = "waiting" /\ Outcome(c)' = "waiting"
  BY <1>1, <1>2, OutcomeIs DEF Outcome
<1>4. States' = States
  BY <1>1, <1>3, Zenon DEF States
<1>5. Given' = Given
  BY <1>1, <1>2 DEF Given, TypeOK
<1>6. UNCHANGED <<main, applied, promised>>
  OBVIOUS
<1> QED
  BY <1>4, <1>5, <1>6 DEF Promise!svars, States, Given, Alive

\* Every step of the event loop is a step of Service or a stutter.
LEMMA PromiseStep ==
    CounterInv /\ RuleInv /\ [Next]_vars => [Promise!Next]_(Promise!svars)
<1> SUFFICES ASSUME CounterInv, RuleInv, [Next]_vars
             PROVE  [Promise!Next]_(Promise!svars)
  OBVIOUS
<1> USE DEF mainVars, chanVars, loopVars, runVars, cnxVars, vars
<1>0. TypeOK
  BY DEF CounterInv
<1>1. ASSUME NEW new \in SUBSET Addr, SendConfig(new) PROVE UNCHANGED Promise!svars
  BY <1>1, PromiseStutter DEF SendConfig, Leaving
<1>2. CASE LoopRecv
  <2>1. Promise!Publish /\ Leaving \in {"up", "leaving"}
    BY <1>2, PromisePublish, AliveIs
  <2> QED
    BY <2>1 DEF Promise!Next, Leaving
<1>3. ASSUME LoopPollShutdown \/ LoopPark \/ LoopWake \/ \E a \in Addr : LoopUpdate(a)
      PROVE  UNCHANGED Promise!svars
  <2>1. UNCHANGED <<main, applied, cnx, served, promised>>
    BY <1>3, Zenon DEF LoopPollShutdown, LoopPark, LoopWake, LoopUpdate
  <2> QED
    BY <2>1, PromiseStutter DEF Leaving
<1>4. ASSUME NEW r \in Runner, RunnerStep(r) \/ Reactor(r)
      PROVE  [Promise!Next]_(Promise!svars)
  <2>1. CASE RunnerStart(r) \/ RunnerFail(r) \/ PollChanged(r) \/ AcceptErr(r)
             \/ Park(r) \/ Wake(r) \/ Reactor(r)
    <3>1. UNCHANGED <<main, applied, cnx, served, promised>>
      BY <2>1, Zenon
         DEF RunnerStart, RunnerFail, PollChanged, AcceptErr, Park, Wake, Reactor
    <3> QED
      BY <3>1, PromiseStutter DEF Leaving
  <2>2. CASE DrainEnd(r) \/ DrainErr(r)
    <3>1. Queue(r) \in SUBSET Conn
      BY DEF Queue
    <3>2. Promise!Lose(Queue(r)) /\ Leaving \in {"up", "leaving"}
      BY <1>0, <2>2, PromiseLose, AliveIs
    <3> QED
      BY <3>1, <3>2 DEF Promise!Next, Leaving
  <2>3. ASSUME NEW c \in Conn, Accept(r, c) \/ DrainAccept(r, c)
        PROVE  UNCHANGED Promise!svars
    BY <1>0, <2>3, PromiseAccept
  <2> QED
    BY <1>4, <2>1, <2>2, <2>3, SMTT(30) DEF RunnerStep
<1>5. ASSUME NEW c \in Conn, NEW r \in Runner, Connect(c, r) PROVE Promise!Next
  <2>1. Promise!Arrive(c) /\ Leaving \in {"up", "leaving"}
    BY <1>0, <1>5, PromiseArrive, AliveIs
  <2> QED
    BY <2>1 DEF Promise!Next, Leaving
<1>6. ASSUME NEW c \in Conn, NEW a \in Addr, Refuse(c, a) PROVE Promise!Next
  <2>1. Promise!Refuse(c) /\ Leaving \in {"up", "leaving"}
    BY <1>0, <1>6, PromiseEnds, AliveIs
  <2> QED
    BY <2>1 DEF Promise!Next, Leaving
<1>7. ASSUME NEW c \in Conn, TaskStart(c) \/ TaskEnd(c) PROVE Promise!Next
  <2>1. (Promise!Serve(c) \/ Promise!Finish(c)) /\ Leaving \in {"up", "leaving"}
    BY <1>0, <1>7, PromiseServe, PromiseEnds, AliveIs
  <2> QED
    BY <2>1 DEF Promise!Next, Leaving
<1>8. CASE Signal \/ SendShutdown \/ CheckBusy \/ Tick \/ Interrupt \/ Gone \/ UNCHANGED vars
  <2>1. UNCHANGED <<applied, cnx, served, promised>>
    BY <1>8, Zenon DEF Signal, SendShutdown, CheckBusy, Tick, Interrupt, Gone
  <2>2. Leaving' = Leaving
    BY <1>8 DEF Signal, SendShutdown, CheckBusy, Tick, Interrupt, Gone, Leaving
  <2> QED
    BY <2>1, <2>2, PromiseStutter
<1>9. CASE CheckDrained
  <2>1. Promise!Decide /\ Leaving = "up"
    BY <1>9, PromiseDecide DEF CheckDrained, Leaving
  <2> QED
    BY <2>1 DEF Promise!Next, Leaving
<1>10. CASE Exit
  <2>1. Promise!Leave /\ Leaving \in {"up", "leaving"}
    BY <1>10, PromiseLeave, AliveIs
  <2> QED
    BY <2>1 DEF Promise!Next, Leaving
<1> QED
  BY <1>1, <1>2, <1>3, <1>4, <1>5, <1>6, <1>7, <1>8, <1>9, <1>10
     DEF Next, LoopStep, MainStep

\* The event loop implements what Service promises a connection, for every
\* number of addresses, connections and reloads.
THEOREM ImplementsService == Spec => KeepsPromise
<1>1. CounterInv /\ RuleInv /\ [Next]_vars => [Promise!Next]_(Promise!svars)
  BY PromiseStep
<1> QED
  BY <1>1, PromiseInit, CounterInit, CounterStep, RuleInvariant, PTL
     DEF Spec, KeepsPromise, Promise!Spec
=============================================================================
