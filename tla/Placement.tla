----------------------------- MODULE Placement -----------------------------
(***************************************************************************)
(* The placement decision (scheduler/placement.ts): hard constraints, a    *)
(* score, the best node.  Pure: a service, the nodes as a snapshot shows   *)
(* them, where services are and what they keep away from.                  *)
(*                                                                         *)
(* A service is [name, policy, pinned, home, ram, gpu, tier, arches,       *)
(* affinity, antiAffinity, tags]; home is the node its volume is on.       *)
(* placements gives each service that is somewhere its node, shuns what    *)
(* each of them declares.  Memory is in units, load a percentage, a score  *)
(* in millionths.                                                          *)
(***************************************************************************)
EXTENDS Integers

Tiers == {"opportunistic", "standard", "high"}

\* A node as the scheduler sees it.
NodeSnapshot == [status : STRING, arch : STRING, ram : Nat, gpu : BOOLEAN, tier : Tiers,
                 tags : SUBSET STRING, committed : Nat, load : 0..100]

TIER_RANK(tier) == CASE tier = "opportunistic" -> 0
                     [] tier = "standard" -> 1
                     [] tier = "high" -> 2

freeRam(node) == IF node.committed > node.ram THEN 0 ELSE node.ram - node.committed

\* seeded bug: only the service's own declaration counts
ConflictsOwn(service, placements, shuns) == {other \in DOMAIN placements : other \in service.antiAffinity}

\* What declares to be kept apart from this service, or this service from it: a
\* rule in either file binds whichever of the two is placed second.
Conflicts(service, placements, shuns) ==
    {other \in DOMAIN placements :
        other \in service.antiAffinity \/ service.name \in shuns[other]}

\* filterNodes: the checks a node fails.  It is refused for the first of them.
Rejections(service, id, node, placements, shuns) ==
    {code \in {"unavailable", "not_pinned_node", "volume_elsewhere", "arch_incompatible",
               "insufficient_ram", "no_gpu", "reliability_too_low", "missing_tag",
               "anti_affinity", "affinity_absent"} :
        CASE code = "unavailable" -> node.status # "online"
          [] code = "not_pinned_node" -> service.policy = "pinned" /\ service.pinned # id
          [] code = "volume_elsewhere" -> service.home # {} /\ id \notin service.home
          [] code = "arch_incompatible" ->
                service.arches # {} /\ node.arch \notin service.arches
          [] code = "insufficient_ram" -> freeRam(node) < service.ram
          [] code = "no_gpu" -> service.gpu /\ ~node.gpu
          [] code = "reliability_too_low" -> TIER_RANK(node.tier) < TIER_RANK(service.tier)
          [] code = "missing_tag" -> ~(service.tags \subseteq node.tags)
          [] code = "anti_affinity" ->
                \E other \in Conflicts(service, placements, shuns) : placements[other] = id
          [] code = "affinity_absent" ->
                \E other \in service.affinity \cap DOMAIN placements : placements[other] # id}

filterNodes(service, nodes, placements, shuns) ==
    {id \in DOMAIN nodes : Rejections(service, id, nodes[id], placements, shuns) = {}}

Round(a, b) == (2 * a + b) \div (2 * b)

\* Weights 0.5, 0.3 and 0.2: memory left over, tier, idleness.
score(service, node) ==
    (IF node.ram > 0 /\ freeRam(node) > service.ram
     THEN Round(500000 * (freeRam(node) - service.ram), node.ram) ELSE 0)
      + 150000 * TIER_RANK(node.tier) + 2000 * (100 - node.load)

\* rankNodes: the higher score first, ties by node id, which `before` orders.
Outranks(service, nodes, before, a, b) ==
    \/ score(service, nodes[a]) > score(service, nodes[b])
    \/ score(service, nodes[a]) = score(service, nodes[b]) /\ <<a, b>> \in before

\* place: the nodes that may be chosen; the ranking leaves one, or none.
place(service, nodes, placements, shuns, before) ==
    LET eligible == filterNodes(service, nodes, placements, shuns)
    IN  {a \in eligible :
            \A b \in eligible \ {a} : Outranks(service, nodes, before, a, b)}
=============================================================================
