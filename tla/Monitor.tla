------------------------------- MODULE Monitor -------------------------------
(***************************************************************************)
(* The heartbeat listener scripts/monitor.py: it installs a SIGINT        *)
(* handler, binds a UDP socket, then forever receives a datagram, stamps  *)
(* its source address with time.time() in the dict nodes, and prints all  *)
(* addresses sorted by that time.                                          *)
(*                                                                         *)
(* The nodes that send heartbeats and the network are the environment: a  *)
(* datagram sent before the socket is bound is dropped, a queued one may  *)
(* be lost or duplicated, and queued datagrams are received in any order. *)
(* A datagram is abstracted to its source address (the monitor ignores    *)
(* the payload); the socket buffer counts the queued datagrams of each    *)
(* address.  Losses, duplicates and sends are bounded.                    *)
(***************************************************************************)
EXTENDS MonitorTable

CONSTANTS
    MaxSends,   \* heartbeats each node sends
    MaxLoss,    \* datagrams the network loses in all
    MaxDup      \* datagrams the network duplicates in all

ASSUME BoundsAssumption == {MaxSends, MaxLoss, MaxDup} \subseteq Nat

VARIABLES
    pc,       \* "start", "loop", "exit" (sys.exit(0)) or "crash"
    clock,    \* what time.time() returns
    sent,     \* heartbeats each node has sent
    net,      \* datagrams of each source queued at the bound socket
    lost,     \* datagrams lost so far
    dups,     \* datagrams duplicated so far
    nodes,    \* the dict nodes
    table     \* the table last printed

vars == <<pc, clock, sent, net, lost, dups, nodes, table>>

Init ==
    /\ pc = "start"
    /\ clock = 0
    /\ sent = [n \in Nodes |-> 0]
    /\ net = [n \in Nodes |-> 0]
    /\ lost = 0
    /\ dups = 0
    /\ nodes = [n \in Nodes |-> NoReport]
    /\ table = <<>>

(***************************************************************************)
(* The environment.                                                        *)
(***************************************************************************)

\* Node n sends a heartbeat; it is queued only once the socket is bound.
Send(n) ==
    /\ sent[n] < MaxSends
    /\ sent' = [sent EXCEPT ![n] = @ + 1]
    /\ net' = IF pc = "loop" THEN [net EXCEPT ![n] = @ + 1] ELSE net
    /\ UNCHANGED <<pc, clock, lost, dups, nodes, table>>

Lose(n) ==
    /\ net[n] > 0
    /\ lost < MaxLoss
    /\ net' = [net EXCEPT ![n] = @ - 1]
    /\ lost' = lost + 1
    /\ UNCHANGED <<pc, clock, sent, dups, nodes, table>>

Duplicate(n) ==
    /\ net[n] > 0
    /\ dups < MaxDup
    /\ net' = [net EXCEPT ![n] = @ + 1]
    /\ dups' = dups + 1
    /\ UNCHANGED <<pc, clock, sent, lost, nodes, table>>

Tick ==
    /\ clock < MaxTime
    /\ clock' = clock + 1
    /\ UNCHANGED <<pc, sent, net, lost, dups, nodes, table>>

Environment ==
    \/ \E n \in Nodes : Send(n) \/ Lose(n) \/ Duplicate(n)
    \/ Tick

(***************************************************************************)
(* The monitor.                                                            *)
(***************************************************************************)

\* signal.signal, gethostbyname and bind: socket.error when the name does
\* not resolve or the port is taken.
Start ==
    /\ pc = "start"
    /\ pc' \in {"loop", "crash"}
    /\ UNCHANGED <<clock, sent, net, lost, dups, nodes, table>>

\* Mutant of Receive: recvfrom does not wait for a datagram.
ReceiveNoWait(n) ==
    /\ pc = "loop"
    /\ net' = [net EXCEPT ![n] = @ - 1]
    /\ nodes' = [nodes EXCEPT ![n] = clock]
    /\ table' \in Listings(nodes')
    /\ UNCHANGED <<pc, clock, sent, lost, dups>>

\* Mutant of Receive: only the first report of an address is kept.
ReceiveKeepFirst(n) ==
    /\ pc = "loop"
    /\ net[n] > 0
    /\ net' = [net EXCEPT ![n] = @ - 1]
    /\ nodes' = IF nodes[n] = NoReport THEN [nodes EXCEPT ![n] = clock] ELSE nodes
    /\ table' \in Listings(nodes')
    /\ UNCHANGED <<pc, clock, sent, lost, dups>>

\* Mutant of Receive: the table is printed from the dict before the update.
ReceivePrintFirst(n) ==
    /\ pc = "loop"
    /\ net[n] > 0
    /\ net' = [net EXCEPT ![n] = @ - 1]
    /\ nodes' = [nodes EXCEPT ![n] = clock]
    /\ table' \in Listings(nodes)
    /\ UNCHANGED <<pc, clock, sent, lost, dups>>

\* One turn of the loop: recvfrom blocks until a datagram from n is
\* queued, nodes[ip] = time.time(), then the sorted table is printed.
Receive(n) ==
    /\ pc = "loop"
    /\ net[n] > 0
    /\ net' = [net EXCEPT ![n] = @ - 1]
    /\ nodes' = [nodes EXCEPT ![n] = clock]
    /\ table' \in Listings(nodes')
    /\ UNCHANGED <<pc, clock, sent, lost, dups>>

\* SIGINT: before signal.signal it raises KeyboardInterrupt; afterwards
\* signal_handler prints "Bye!" and calls sys.exit(0).
Interrupt ==
    /\ pc \in {"start", "loop"}
    /\ pc' = IF pc = "start" THEN "crash" ELSE "exit"
    /\ UNCHANGED <<clock, sent, net, lost, dups, nodes, table>>

Next ==
    \/ Start
    \/ \E n \in Nodes : Receive(n)
    \/ Interrupt
    \/ Environment

\* The monitor is one process blocked in recvfrom: it runs whenever a
\* datagram is queued, and sets up its socket once started.  SIGINT (the
\* operator) and the network get no fairness.
Spec ==
    /\ Init /\ [][Next]_vars
    /\ WF_vars(Start)
    /\ WF_vars(\E n \in Nodes : Receive(n))

(***************************************************************************)
(* Properties.                                                             *)
(***************************************************************************)

\* Type invariant.
TypeOK ==
    /\ pc \in {"start", "loop", "exit", "crash"}
    /\ clock \in Times
    /\ sent \in [Nodes -> 0..MaxSends]
    /\ net \in [Nodes -> Nat]
    /\ lost \in 0..MaxLoss
    /\ dups \in 0..MaxDup
    /\ nodes \in Reports
    /\ table \in Seq(Nodes \X Times)

\* Over a network that loses at most MaxLoss datagrams, a node with more
\* datagrams queued at time t than the network can still lose is listed
\* with a report of t or later while the monitor runs: the recvfrom loop
\* drains the socket and refreshes the report whatever the order, the
\* duplicates and the losses.
EventuallyRefreshed ==
    \A n \in Nodes, t \in Times :
        (pc = "loop" /\ clock = t /\ net[n] + lost > MaxLoss)
            ~> ((nodes[n] \in Times /\ nodes[n] >= t) \/ pc = "exit")

\* The abstract monitor: a node is up once it has sent a heartbeat.
Abs == INSTANCE Heartbeats WITH up <- {n \in Nodes : sent[n] > 0}, heard <- nodes

\* Lost, duplicated and reordered datagrams are invisible to the operator:
\* every table printed lists exactly the nodes heard so far, each heard only
\* after it sent, with the time of its latest receipt, sorted by that time.
RefinesHeartbeats == Abs!Spec

=============================================================================
