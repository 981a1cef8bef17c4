----------------------------- MODULE MCServing -----------------------------
(* One web service on a fleet of equal nodes with room for two rows each,   *)
(* and a node more, whose database declares to be kept apart from it.       *)
EXTENDS Serving

MCService == [name |-> "web", policy |-> "flexible", pinned |-> NoNode, home |-> {},
              ram |-> 1, gpu |-> FALSE, tier |-> "opportunistic", arches |-> {"amd64"},
              affinity |-> {}, antiAffinity |-> {}, tags |-> {}]

MCNode == [status |-> "online", arch |-> "amd64", ram |-> 3, gpu |-> FALSE,
           tier |-> "standard", tags |-> {}, committed |-> 1, load |-> 0]

MCFleet == [n \in Nodes |-> MCNode]

MCOthers == [name \in {"db"} |-> CHOOSE n \in Nodes : TRUE]

MCShuns == [name \in {"db"} |-> {"web"}]

MCPosition == CHOOSE f \in [Nodes -> 1..Cardinality(Nodes)] :
                  \A a, b \in Nodes : f[a] = f[b] => a = b

MCBefore == {p \in Nodes \X Nodes : MCPosition[p[1]] < MCPosition[p[2]]}
=============================================================================
