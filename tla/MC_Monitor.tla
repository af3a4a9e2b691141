----------------------------- MODULE MC_Monitor -----------------------------
(* Instances of the heartbeat monitor for TLC.                             *)
EXTENDS Monitor

CONSTANTS a, b

\* Two nodes.
MC_Nodes == {a, b}

\* Three clock readings, so that two receipts can share a time and differ.
MC_MaxTime == 2

\* Two heartbeats per node: one more than the network may lose.
MC_MaxSends == 2

MC_MaxLoss == 1

MC_MaxDup == 1

=============================================================================
