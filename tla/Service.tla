------------------------------ MODULE Service ------------------------------
(***************************************************************************)
(* What turbine promises a connection, whatever its tasks and channels do: *)
(* it is refused, or it waits until it is served once, with one rule that  *)
(* is neither older than the one in force on its listener when it came nor *)
(* one not yet in force, or until it is lost, unserved, with its listener  *)
(* or the process; and a process that leaves of itself serves none when it *)
(* decides to: it cuts at most what it began to serve afterwards.          *)
(***************************************************************************)
EXTENDS Integers

CONSTANT Conn

VARIABLES exit,     \* "up", "leaving", or how the process ended
          current,  \* the number of rules that have been in force
          state,    \* state[c]: what has become of connection c
          floor,    \* the oldest rule it may be served with
          given     \* the rule it was served with, 0 before

svars == <<exit, current, state, floor, given>>

Init ==
    /\ exit = "up"
    /\ current = 0
    /\ state = [c \in Conn |-> "new"]
    /\ floor = [c \in Conn |-> 0]
    /\ given = [c \in Conn |-> 0]

Publish ==
    /\ current' = current + 1
    /\ UNCHANGED <<exit, state, floor, given>>

Refuse(c) ==
    /\ state[c] = "new"
    /\ state' = [state EXCEPT ![c] = "refused"]
    /\ UNCHANGED <<exit, current, floor, given>>

Arrive(c) ==
    /\ state[c] = "new"
    /\ state' = [state EXCEPT ![c] = "waiting"]
    /\ \E g \in 1..current : floor' = [floor EXCEPT ![c] = g]
    /\ UNCHANGED <<exit, current, given>>

Serve(c) ==
    /\ state[c] = "waiting"
    /\ state' = [state EXCEPT ![c] = "served"]
    /\ \E g \in floor[c]..current : given' = [given EXCEPT ![c] = g]
    /\ UNCHANGED <<exit, current, floor>>

Finish(c) ==
    /\ state[c] = "served"
    /\ state' = [state EXCEPT ![c] = "over"]
    /\ UNCHANGED <<exit, current, floor, given>>

\* A listener is closed with the connections that wait in its queue.
Lose(lost) ==
    /\ \A c \in lost : state[c] = "waiting"
    /\ state' = [c \in Conn |-> IF c \in lost THEN "lost" ELSE state[c]]
    /\ UNCHANGED <<exit, current, floor, given>>

\* The process has nothing left to serve and is going to leave.
Decide ==
    /\ exit = "up"
    /\ exit' = "leaving"
    /\ \A c \in Conn : state[c] # "served"
    /\ UNCHANGED <<current, state, floor, given>>

\* It leaves, with its connections: as it had decided, or interrupted.
Leave ==
    /\ exit' = IF exit = "leaving" THEN "drained" ELSE "aborted"
    /\ state' = [c \in Conn |->
                   CASE state[c] = "waiting" -> "lost"
                     [] state[c] = "served" -> "cut"
                     [] OTHER -> state[c]]
    /\ UNCHANGED <<current, floor, given>>

Next ==
    /\ exit \in {"up", "leaving"}
    /\ \/ Publish \/ Decide \/ Leave
       \/ \E c \in Conn : Refuse(c) \/ Arrive(c) \/ Serve(c) \/ Finish(c)
       \/ \E lost \in SUBSET Conn : Lose(lost)

Spec == Init /\ [][Next]_svars
=============================================================================
