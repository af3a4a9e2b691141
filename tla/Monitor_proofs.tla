--------------------------- MODULE Monitor_proofs ---------------------------
(***************************************************************************)
(* Proofs about the heartbeat monitor, for every set of nodes and every   *)
(* bound on the clock, the sends, the losses and the duplicates: its type *)
(* invariant, and that it implements Heartbeats (the safety part of       *)
(* RefinesHeartbeats).                                                     *)
(***************************************************************************)
EXTENDS Monitor, FiniteSetTheorems, TLAPS

\* Every table the monitor may print is a sequence of rows of an address
\* and a time.
LEMMA ListingsType ==
    ASSUME NEW h \in Reports
    PROVE  Listings(h) \subseteq Seq(Nodes \X Times)
<1> SUFFICES ASSUME NEW f \in ByTime(h)
             PROVE  [i \in DOMAIN f |-> <<f[i], h[f[i]]>>] \in Seq(Nodes \X Times)
    BY DEF Listings
<1>1. Cardinality(Heard(h)) \in Nat
    <2>1. IsFiniteSet(Heard(h))
        BY NodesAssumption, FS_Subset DEF Heard
    <2>2. QED
        BY <2>1, FS_CardinalityType
<1>2. f \in [1..Cardinality(Heard(h)) -> Heard(h)]
    BY DEF ByTime, Bijection, Injection
<1> DEFINE k == Cardinality(Heard(h))
<1>3. \A i \in 1..k : <<f[i], h[f[i]]>> \in Nodes \X Times
    BY <1>2 DEF Heard, Reports
<1>4. [i \in DOMAIN f |-> <<f[i], h[f[i]]>>] \in [1..k -> Nodes \X Times]
    BY <1>2, <1>3
<1>5. QED
    BY <1>1, <1>4

(***************************************************************************)
(* The inductive invariant: the type, and every queued datagram comes from *)
(* a node that sent one (the network duplicates only what it holds).       *)
(***************************************************************************)
QueuedFromSenders == \A n \in Nodes : net[n] > 0 => sent[n] > 0

MInv == TypeOK /\ QueuedFromSenders

LEMMA MInvInit == Init => MInv
BY MaxTimeAssumption, BoundsAssumption
   DEF Init, MInv, TypeOK, QueuedFromSenders, Reports, Times

LEMMA MInvStep == MInv /\ [Next]_vars => MInv'
<1> SUFFICES ASSUME MInv, [Next]_vars PROVE MInv'
    OBVIOUS
<1> USE DEF MInv, TypeOK, QueuedFromSenders
<1>1. CASE Start
    BY <1>1 DEF Start
<1>2. ASSUME NEW n \in Nodes, Receive(n) PROVE MInv'
    <2>1. nodes' \in Reports
        BY <1>2, MaxTimeAssumption DEF Receive, Reports, Times
    <2>2. table' \in Seq(Nodes \X Times)
        BY <1>2, <2>1, ListingsType DEF Receive
    <2>3. QED
        BY <1>2, <2>1, <2>2 DEF Receive
<1>3. CASE Interrupt
    BY <1>3 DEF Interrupt
<1>4. ASSUME NEW n \in Nodes, Send(n) PROVE MInv'
    BY <1>4, BoundsAssumption DEF Send
<1>5. ASSUME NEW n \in Nodes, Lose(n) PROVE MInv'
    BY <1>5, BoundsAssumption DEF Lose
<1>6. ASSUME NEW n \in Nodes, Duplicate(n) PROVE MInv'
    BY <1>6, BoundsAssumption DEF Duplicate
<1>7. CASE Tick
    BY <1>7, MaxTimeAssumption DEF Tick, Times
<1>8. CASE UNCHANGED vars
    BY <1>8 DEF vars
<1>9. QED
    BY <1>1, <1>2, <1>3, <1>4, <1>5, <1>6, <1>7, <1>8 DEF Next, Environment

\* The monitor's state always has its type, whatever the network does.
THEOREM MonitorTypeCorrect == Spec => []TypeOK
<1>1. MInv => TypeOK
    BY DEF MInv
<1>2. QED
    BY <1>1, MInvInit, MInvStep, PTL DEF Spec

(***************************************************************************)
(* Refinement: receiving a datagram is Hear of its source, the first send *)
(* of a node is NodeUp, and every other step of the network is a stutter. *)
(***************************************************************************)
Up == {n \in Nodes : sent[n] > 0}

\* The abstract monitor prints the same tables.
LEMMA SameListings ==
    ASSUME NEW h PROVE Abs!Listings(h) = Listings(h)
<1>1. Abs!Heard(h) = Heard(h)
    BY DEF Abs!Heard, Heard
<1>2. ASSUME NEW S, NEW T PROVE Abs!Bijection(S, T) = Bijection(S, T)
    BY DEF Abs!Bijection, Bijection, Abs!Injection, Injection, Abs!Surjection,
           Surjection, Abs!IsInjective, IsInjective
<1>a. ASSUME NEW S PROVE Abs!Cardinality(S) = Cardinality(S)
    BY DEF Abs!Cardinality, Cardinality
<1>3. Abs!ByTime(h) = ByTime(h)
    BY <1>1, <1>2, <1>a DEF Abs!ByTime, ByTime
<1>4. QED
    BY <1>3 DEF Abs!Listings, Listings

LEMMA RefineInit == Init => Abs!Init
BY DEF Init, Abs!Init, Up

LEMMA RefineStep == MInv /\ [Next]_vars => [Abs!Next]_Abs!vars
<1> SUFFICES ASSUME MInv, [Next]_vars PROVE [Abs!Next]_Abs!vars
    OBVIOUS
<1> USE DEF MInv, TypeOK, QueuedFromSenders
<1>1. CASE Start
    BY <1>1 DEF Start, Abs!Next, Abs!Start
<1>2. ASSUME NEW n \in Nodes, Receive(n) PROVE [Abs!Next]_Abs!vars
    <2>1. n \in {m \in Nodes : sent[m] > 0}
        BY <1>2 DEF Receive
    <2>2. Abs!Hear(n)
        BY <1>2, <2>1, SameListings DEF Receive, Abs!Hear
    <2>3. QED
        BY <2>2 DEF Abs!Next
<1>3. CASE Interrupt
    BY <1>3 DEF Interrupt, Abs!Next, Abs!Stop
<1>4. ASSUME NEW n \in Nodes, Send(n) PROVE [Abs!Next]_Abs!vars
    <2>1. CASE sent[n] = 0
        <3>1. {m \in Nodes : sent'[m] > 0} = {m \in Nodes : sent[m] > 0} \cup {n}
            BY <1>4, <2>1 DEF Send
        <3>2. n \notin {m \in Nodes : sent[m] > 0}
            BY <2>1
        <3>3. Abs!NodeUp(n)
            BY <1>4, <3>1, <3>2 DEF Send, Abs!NodeUp
        <3>4. QED
            BY <3>3 DEF Abs!Next
    <2>4. CASE sent[n] # 0
        <3>1. {m \in Nodes : sent'[m] > 0} = {m \in Nodes : sent[m] > 0}
            BY <1>4, <2>4 DEF Send
        <3>2. QED
            BY <1>4, <3>1 DEF Send, Abs!vars
    <2>5. QED
        BY <2>1, <2>4
<1>5. ASSUME NEW n \in Nodes, Lose(n) PROVE [Abs!Next]_Abs!vars
    BY <1>5 DEF Lose, Abs!vars
<1>6. ASSUME NEW n \in Nodes, Duplicate(n) PROVE [Abs!Next]_Abs!vars
    BY <1>6 DEF Duplicate, Abs!vars
<1>7. CASE Tick
    BY <1>7 DEF Tick, Abs!Next, Abs!Tick
<1>8. CASE UNCHANGED vars
    BY <1>8 DEF vars, Abs!vars
<1>9. QED
    BY <1>1, <1>2, <1>3, <1>4, <1>5, <1>6, <1>7, <1>8 DEF Next, Environment

\* Whatever the network loses, duplicates or reorders, the monitor only
\* does what Heartbeats allows: it hears only nodes that have sent, stamps
\* each with the clock and prints every node heard, sorted by that time
\* (the safety part of RefinesHeartbeats).
THEOREM Refinement == Spec => Abs!Init /\ [][Abs!Next]_Abs!vars
<1>1. MInv /\ [Next]_vars => [Abs!Next]_Abs!vars
    BY RefineStep
<1>2. QED
    BY <1>1, RefineInit, MInvInit, MInvStep, PTL DEF Spec

=============================================================================
