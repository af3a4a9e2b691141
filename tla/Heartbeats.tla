----------------------------- MODULE Heartbeats -----------------------------
(***************************************************************************)
(* What the heartbeat monitor promises its operator, with the network      *)
(* abstracted away: once listening, it hears only nodes that have sent a  *)
(* heartbeat, stamps each with the clock when heard, and prints every     *)
(* node heard so far by that time.  Monitor, where datagrams are queued,  *)
(* lost, duplicated and reordered, implements it (Monitor's                *)
(* RefinesHeartbeats).                                                     *)
(***************************************************************************)
EXTENDS MonitorTable

VARIABLES
    up,       \* the nodes that have sent a heartbeat
    pc,       \* "start", "loop", "exit" or "crash"
    clock,    \* the wall clock
    heard,    \* the last report time of each node
    table     \* the table last printed

vars == <<up, pc, clock, heard, table>>

Init ==
    /\ up = {}
    /\ pc = "start"
    /\ clock = 0
    /\ heard = [n \in Nodes |-> NoReport]
    /\ table = <<>>

\* A node starts sending heartbeats.
NodeUp(n) ==
    /\ n \notin up
    /\ up' = up \cup {n}
    /\ UNCHANGED <<pc, clock, heard, table>>

Tick ==
    /\ clock < MaxTime
    /\ clock' = clock + 1
    /\ UNCHANGED <<up, pc, heard, table>>

\* The monitor binds its socket, or fails to.
Start ==
    /\ pc = "start"
    /\ pc' \in {"loop", "crash"}
    /\ UNCHANGED <<up, clock, heard, table>>

\* A node that has sent is heard: stamped now, and the table reprinted.
Hear(n) ==
    /\ pc = "loop"
    /\ n \in up
    /\ heard' = [heard EXCEPT ![n] = clock]
    /\ table' \in Listings(heard')
    /\ UNCHANGED <<up, pc, clock>>

\* The operator stops the monitor.
Stop ==
    /\ pc \in {"start", "loop"}
    /\ pc' \in {"exit", "crash"}
    /\ UNCHANGED <<up, clock, heard, table>>

Next ==
    \/ \E n \in Nodes : NodeUp(n) \/ Hear(n)
    \/ Tick \/ Start \/ Stop

Spec == Init /\ [][Next]_vars

=============================================================================
