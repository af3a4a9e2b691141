---------------------------- MODULE MonitorTable ----------------------------
(***************************************************************************)
(* The table scripts/monitor.py keeps and prints: the last report time of *)
(* each node heard from, and the listing sorted by that time.  Shared by   *)
(* the monitor (Monitor) and the specification of what it shows            *)
(* (Heartbeats).                                                           *)
(***************************************************************************)
EXTENDS Integers, Sequences, FiniteSets, Functions

CONSTANTS
    Nodes,      \* the source addresses heartbeats may come from
    MaxTime,    \* the last reading of the clock that time.time() returns
    NoReport    \* a node with no entry in the dict nodes

ASSUME NodesAssumption == IsFiniteSet(Nodes)
ASSUME MaxTimeAssumption == MaxTime \in Nat
ASSUME NoReportAssumption == NoReport \notin Int

Times == 0..MaxTime

\* The dict nodes: a time for each address heard from.
Reports == [Nodes -> Times \cup {NoReport}]

Heard(h) == {n \in Nodes : h[n] # NoReport}

\* sorted(nodes.items(), key=operator.itemgetter(1)): every address heard
\* from exactly once, in order of its time.  sorted is stable, but a
\* Python 2 dict yields its items in hash order, so equal times come out
\* in either order.
ByTime(h) ==
    {f \in Bijection(1..Cardinality(Heard(h)), Heard(h)) :
        \A i, j \in DOMAIN f : i < j => h[f[i]] <= h[f[j]]}

\* The rows printed: row i has ID i - 1, the address and its last report.
Listings(h) == {[i \in DOMAIN f |-> <<f[i], h[f[i]]>>] : f \in ByTime(h)}

=============================================================================
