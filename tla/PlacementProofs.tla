-------------------------- MODULE PlacementProofs --------------------------
(***************************************************************************)
(* What a placement decision is, for any fleet: one node at most.          *)
(***************************************************************************)
EXTENDS Placement, TLAPS

\* What the score reads of a node and of a service.
Measured(service, nodes) ==
    /\ service.ram \in Nat
    /\ \A id \in DOMAIN nodes : /\ nodes[id].ram \in Nat /\ nodes[id].committed \in Nat
                                /\ nodes[id].tier \in Tiers /\ nodes[id].load \in 0..100

\* A score is a number, also for a node without memory or over-committed.
LEMMA ScoreIsInt ==
  ASSUME NEW service, NEW nodes, Measured(service, nodes), NEW id \in DOMAIN nodes
  PROVE  score(service, nodes[id]) \in Int
<1> DEFINE node == nodes[id]
<1>1. /\ service.ram \in Nat /\ node.ram \in Nat /\ node.committed \in Nat
      /\ node.tier \in Tiers /\ node.load \in 0..100
  BY DEF Measured
<1>2. freeRam(node) \in Nat
  BY <1>1 DEF freeRam
<1>3. TIER_RANK(node.tier) \in Int
  BY <1>1 DEF TIER_RANK, Tiers
<1>4. ASSUME node.ram > 0, freeRam(node) > service.ram
      PROVE  Round(500000 * (freeRam(node) - service.ram), node.ram) \in Int
  <2>1. 2 * node.ram \in Nat /\ 2 * node.ram > 0
    BY <1>1, <1>4
  <2>2. 2 * (500000 * (freeRam(node) - service.ram)) + node.ram \in Int
    BY <1>1, <1>2
  <2>3. \A x \in Int, y \in Nat : y > 0 => x \div y \in Int
    OBVIOUS
  <2>4. QED
    BY <2>1, <2>2, <2>3 DEF Round
<1>5. (IF node.ram > 0 /\ freeRam(node) > service.ram
       THEN Round(500000 * (freeRam(node) - service.ram), node.ram) ELSE 0) \in Int
  BY <1>4
<1>6. 150000 * TIER_RANK(node.tier) + 2000 * (100 - node.load) \in Int
  BY <1>1, <1>3
<1>7. QED
  BY <1>5, <1>6, <1>1, <1>3 DEF score

\* Two nodes do not outrank each other: the score decides, and among equals the id.
LEMMA OutranksAsymmetric ==
  ASSUME NEW service, NEW nodes, Measured(service, nodes), NEW before,
         NEW a \in DOMAIN nodes, NEW b \in DOMAIN nodes,
         <<a, b>> \in before => <<b, a>> \notin before,
         Outranks(service, nodes, before, a, b)
  PROVE  ~Outranks(service, nodes, before, b, a)
<1>1. score(service, nodes[a]) \in Int /\ score(service, nodes[b]) \in Int
  BY ScoreIsInt
<1>2. QED
  BY <1>1 DEF Outranks

\* A decision is one node at most: on the same snapshot, whoever asks gets the same
\* answer (place returns the first of the ranking).
THEOREM OneDecision ==
  ASSUME NEW service, NEW nodes, Measured(service, nodes), NEW placements, NEW shuns, NEW before,
         \A a, b \in DOMAIN nodes : <<a, b>> \in before => <<b, a>> \notin before,
         NEW a \in place(service, nodes, placements, shuns, before),
         NEW b \in place(service, nodes, placements, shuns, before)
  PROVE  a = b
<1>1. a \in DOMAIN nodes /\ b \in DOMAIN nodes
  BY DEF place, filterNodes
<1>2. a # b => Outranks(service, nodes, before, a, b) /\ Outranks(service, nodes, before, b, a)
  BY DEF place
<1>3. QED
  BY <1>1, <1>2, OutranksAsymmetric
=============================================================================
