----------------------------- MODULE MCCluster -----------------------------
(* Values for model checking Cluster: two nodes of different versions.      *)
EXTENDS Cluster

CONSTANTS n1, n2, c1, c2
MCNodes   == {n1, n2}
MCColumns == {c1, c2}
MCKnows   == [n \in MCNodes |-> IF n = n1 THEN {c1} ELSE {c1, c2}]
=============================================================================
