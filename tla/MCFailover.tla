----------------------------- MODULE MCFailover -----------------------------
(* A two-node fleet with a pinned database that owns a volume and a flexible *)
(* web service that prefers node n1 and is reclaimed eagerly.                *)
EXTENDS Failover

CONSTANTS n1, n2, postgres, web

MCNodes == {n1, n2}
MCServices == {postgres, web}
MCPinned == {postgres}
MCEager == {web}
MCVolumes == {postgres}
MCHome == [s \in MCServices |-> n1]
MCSuits == MCServices \X MCNodes
MCSlots == [n \in MCNodes |-> IF n = n1 THEN 3 ELSE 2]

\* The one-node fleet of the comment on placeStranded.
SoloNodes == {n1}
SoloSuits == MCServices \X SoloNodes
SoloSlots == [n \in SoloNodes |-> 3]
=============================================================================
