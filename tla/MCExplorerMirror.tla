---------------------------- MODULE MCExplorerMirror ----------------------------
(* Instances of ExplorerMirror for TLC.                                       *)
EXTENDS ExplorerMirror

\* Bound: publishes overlap on the first vault, while the row is anchored and
\* names its attester.
Overlaps ==
  \/ Cardinality({i \in Publishes : ingest[i] # Idle}) < 2
  \/ vault = 1 /\ row.status = "anchored" /\ row.record = "stamped"
=============================================================================
