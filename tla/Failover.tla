------------------------------ MODULE Failover ------------------------------
(***************************************************************************)
(* Failure detection, failover and reclaim of the control plane: the part  *)
(* of heartbeat/sweeper.ts that acts on node liveness, the reschedule it   *)
(* and the node-removal route run (scheduler/reschedule.ts), the recovery  *)
(* half of the heartbeat route (api/agent.routes.ts) with the reclaim it   *)
(* runs (scheduler/reclaim.ts), cordon, removal, and the deploy handler as *)
(* far as it touches placement.                                            *)
(*                                                                         *)
(* Every handler is an async function over one Postgres database.  A step  *)
(* below is one statement or one transaction of it, and everything the     *)
(* handler has read and not yet used is kept in its record, so handlers    *)
(* interleave exactly where the code awaits.                               *)
(*                                                                         *)
(* No rollout outlasts its window here: failStalledRollouts, which settles *)
(* a row that stayed `deploying` for ten minutes, belongs to the rollout.  *)
(***************************************************************************)
EXTENDS Naturals, FiniteSets

CONSTANTS
    Nodes,      \* the nodes of one fleet
    Services,   \* its services
    Rows,       \* row identities of the deployments table
    NoNode, NoRow, NoService,   \* null references
    Pinned,     \* services with placementPolicy `pinned`
    Eager,      \* services whose reclaim policy is `eager`
    Volumes,    \* services with a persistent volume
    Home,       \* Home[s]: pinnedNodeId of service s, or NoNode
    Suits,      \* <<s, n>>: n's architecture, GPU, tier and tags suit s
    Slots,      \* Slots[n]: how many reservations the RAM of n holds
    Flaky,      \* the nodes that may fall silent, or be removed
    Allowed,    \* the kinds of disturbance a behaviour may contain
    Budget      \* and how many of them in all

Disturbances == {"silences", "drifts", "cordons", "removals", "deploys", "restarts"}

ASSUME FailoverAssumption ==
    /\ NoNode \notin Nodes /\ NoRow \notin Rows /\ NoService \notin Services
    /\ Pinned \subseteq Services /\ Eager \subseteq Services
    /\ Volumes \subseteq Services
    /\ Home \in [Services -> Nodes \cup {NoNode}]
    /\ Slots \in [Nodes -> Nat]
    /\ Flaky \subseteq Nodes /\ Allowed \subseteq Disturbances /\ Budget \in Nat

VARIABLES
    nodeStatus,   \* nodes.status, or "removed" once the row is deleted
    dep,          \* the deployments table
    fresh,        \* the node's heartbeat timestamp is inside the window
    reachable,    \* the agent is up and its heartbeats arrive
    sweep,        \* the sweeper's tick
    resch,        \* the running calls of rescheduleFromNode
    hb,           \* the heartbeat request each node has in flight
    deploy,       \* the deploy handler in flight
    used          \* how many disturbances have happened

vars == <<nodeStatus, dep, fresh, reachable, sweep, resch, hb, deploy, used>>
db == <<nodeStatus, dep>>
world == <<fresh, reachable>>

\* Who runs rescheduleFromNode: the sweeper, or the node-removal route.
Callers == {"sweeper", "removal"}

NodeStatus == {"online", "offline", "cordoned", "draining", "removed"}

\* "building" stands for the four phases before `deploying`; "stranded" is a
\* `failed` row whose reason starts with `no_eligible_node`, "failed" one with any
\* other; "absent" is no row at all.
RowStatus == {"absent", "building", "deploying", "running", "superseded",
              "failed", "stranded", "pinned_unavailable"}

Live == {"deploying", "running"}

Row == [svc : Services \cup {NoService}, node : Nodes \cup {NoNode},
        status : RowStatus]

\* A call of rescheduleFromNode: the node, the rows still to handle, and the row
\* decided on with its target, when there is one.
CallState == [node : Nodes \cup {NoNode}, rows : SUBSET Rows,
              row : Rows \cup {NoRow}, target : Nodes \cup {NoNode}]

BeatPhase == {"idle", "promote", "drift", "reclaim", "resume", "eager", "place"}

\* A heartbeat request: the rows still to handle, the services it reports as not
\* running or has still to place, and the stranded service decided on with its target,
\* when there is one.
BeatState == [pc : BeatPhase, rows : SUBSET Rows, svcs : SUBSET Services,
              svc : Services \cup {NoService}, target : Nodes \cup {NoNode}]

NoCall == [node |-> NoNode, rows |-> {}, row |-> NoRow, target |-> NoNode]

NoBeat == [pc |-> "idle", rows |-> {}, svcs |-> {}, svc |-> NoService,
           target |-> NoNode]

TypeOK ==
    /\ nodeStatus \in [Nodes -> NodeStatus]
    /\ dep \in [Rows -> Row]
    /\ fresh \in [Nodes -> BOOLEAN]
    /\ reachable \in [Nodes -> BOOLEAN]
    /\ sweep \in [pc : {"idle", "stale", "nodes"}, nodes : SUBSET Nodes]
    /\ resch \in [Callers -> CallState]
    /\ hb \in [Nodes -> BeatState]
    /\ deploy \in Rows \cup {NoRow}
    /\ used \in Nat

(***************************************************************************)
(* The deployments table                                                   *)
(***************************************************************************)

LiveOn(n) == {r \in Rows : dep[r].node = n /\ dep[r].status \in Live}

LiveRows(s) == {r \in Rows : dep[r].svc = s /\ dep[r].status \in Live}

\* Row identities some handler still holds; it will write to them by id.
Referenced ==
    {r \in Rows : \/ \E c \in Callers : r \in resch[c].rows \cup {resch[c].row}
                  \/ \E n \in Nodes : r \in hb[n].rows
                  \/ r = deploy}

\* placeStranded retries one strand of a service: the latest, or an older one if a
\* handler that still holds the latest overwrites its reason.
OldStrand(r) ==
    /\ dep[r].status = "stranded"
    /\ \E q \in Rows \ ({r} \cup Referenced) :
          dep[q].status = "stranded" /\ dep[q].svc = dep[r].svc

\* An identity a new row can take.  Finished rows nobody will read again are
\* forgotten, which keeps the table finite.
Unused ==
    {r \in Rows : dep[r].status \in {"absent", "superseded", "failed"} \/ OldStrand(r)}
      \ Referenced

NewRow(s, n, st) == [svc |-> s, node |-> n, status |-> st]

\* The identity an insert takes.
FreshRow == CHOOSE r \in Unused : TRUE

\* One transaction: `old` is superseded by id and a deploying row inserted.
Replace(old, s, n) ==
    /\ Unused # {}
    /\ dep' = [dep EXCEPT ![old].status = "superseded",
                          ![FreshRow] = NewRow(s, n, "deploying")]

(***************************************************************************)
(* Placement: the hard constraints of filterNodes that depend on the state.*)
(* Every check that compares a service with a node's fixed capabilities is *)
(* in Suits.  The score is abstracted: any eligible node may win.          *)
(***************************************************************************)
\* What the snapshot finds promised on a node: its live rows, read once.
Committed(n) == Cardinality(LiveOn(n))

EligibleAnywhere(s, volumeNode) ==   \* seeded bug: the pin is not looked at
    {n \in Nodes :
        /\ nodeStatus[n] = "online"
        /\ s \in Volumes /\ volumeNode # NoNode => volumeNode = n
        /\ <<s, n>> \in Suits
        /\ Committed(n) < Slots[n]}

Eligible(s, volumeNode) ==
    {n \in Nodes :
        /\ nodeStatus[n] = "online"
        /\ s \in Pinned => Home[s] = n
        /\ s \in Volumes /\ volumeNode # NoNode => volumeNode = n
        /\ <<s, n>> \in Suits
        /\ Committed(n) < Slots[n]}

\* The node `place` returns, or NoNode when nothing is eligible.
Placed(s, volumeNode) ==
    IF Eligible(s, volumeNode) = {} THEN {NoNode} ELSE Eligible(s, volumeNode)

(***************************************************************************)
(* The sweeper's tick: read the stale set, mark the transitions, then      *)
(* handle the nodes that transitioned one at a time.                       *)
(***************************************************************************)
Spend(d) ==
    /\ d \in Allowed /\ used < Budget
    /\ used' = used + 1

SweepRead ==
    /\ sweep.pc = "idle"
    /\ LET stale == {n \in Nodes : ~fresh[n] /\ nodeStatus[n] # "removed"}
       IN  /\ stale # {}
           /\ sweep' = [pc |-> "stale", nodes |-> stale]
    /\ UNCHANGED <<db, world, resch, hb, deploy, used>>

\* UPDATE ... WHERE status is neither offline nor cordoned, RETURNING.
SweepMark ==
    /\ sweep.pc = "stale"
    /\ LET transitioned ==
             {n \in sweep.nodes :
                 nodeStatus[n] \notin {"offline", "cordoned", "removed"}}
       IN  /\ nodeStatus' = [n \in Nodes |-> IF n \in transitioned
                                             THEN "offline" ELSE nodeStatus[n]]
           /\ sweep' = IF transitioned = {} THEN [pc |-> "idle", nodes |-> {}]
                       ELSE [pc |-> "nodes", nodes |-> transitioned]
    /\ UNCHANGED <<dep, world, resch, hb, deploy, used>>

CallDone(c) == resch[c].rows = {} /\ resch[c].row = NoRow

\* The call's SELECT: the rows that are live on the node.  Everything between
\* the mark and this read (the alert's delivery above all) is an await.
SweepNode(n) ==
    /\ sweep.pc = "nodes" /\ CallDone("sweeper") /\ n \in sweep.nodes
    /\ sweep' = [sweep EXCEPT !.nodes = @ \ {n}]
    /\ resch' = [resch EXCEPT !["sweeper"] =
                    [NoCall EXCEPT !.node = n, !.rows = LiveOn(n)]]
    /\ UNCHANGED <<db, world, hb, deploy, used>>

SweepDone ==
    /\ sweep.pc = "nodes" /\ sweep.nodes = {} /\ CallDone("sweeper")
    /\ sweep' = [pc |-> "idle", nodes |-> {}]
    /\ resch' = [resch EXCEPT !["sweeper"] = NoCall]
    /\ UNCHANGED <<db, world, hb, deploy, used>>

(***************************************************************************)
(* rescheduleFromNode, one affected row at a time                          *)
(***************************************************************************)

HoldPinnedReturns(c, r) ==   \* seeded bug: `return` for `continue`
    /\ resch[c].row = NoRow /\ r \in resch[c].rows
    /\ dep[r].svc \in Pinned
    /\ dep' = [dep EXCEPT ![r].status = "pinned_unavailable"]
    /\ resch' = [resch EXCEPT ![c].rows = {}]
    /\ UNCHANGED <<nodeStatus, world, sweep, hb, deploy, used>>

\* A pinned service is held; the write names the row by id only.
HoldPinned(c, r) ==
    /\ resch[c].row = NoRow /\ r \in resch[c].rows
    /\ dep[r].svc \in Pinned
    /\ dep' = [dep EXCEPT ![r].status = "pinned_unavailable"]
    /\ resch' = [resch EXCEPT ![c].rows = @ \ {r}]
    /\ UNCHANGED <<nodeStatus, world, sweep, hb, deploy, used>>

DecideAny(c, r) ==   \* seeded bug: a pinned service is placed like any other
    /\ resch[c].row = NoRow /\ r \in resch[c].rows
    /\ \E target \in Placed(dep[r].svc, resch[c].node) :
          resch' = [resch EXCEPT ![c].rows = @ \ {r}, ![c].row = r,
                                 ![c].target = target]
    /\ UNCHANGED <<db, world, sweep, hb, deploy, used>>

\* A fresh snapshot and the decision.  A volume keeps to the node it is on.
Decide(c, r) ==
    /\ resch[c].row = NoRow /\ r \in resch[c].rows
    /\ dep[r].svc \notin Pinned
    /\ \E target \in Placed(dep[r].svc, resch[c].node) :
          resch' = [resch EXCEPT ![c].rows = @ \ {r}, ![c].row = r,
                                 ![c].target = target]
    /\ UNCHANGED <<db, world, sweep, hb, deploy, used>>

StrandBare(c) ==   \* seeded bug: the failure carries no reason code
    /\ resch[c].row # NoRow /\ resch[c].target = NoNode
    /\ dep' = [dep EXCEPT ![resch[c].row].status = "failed"]
    /\ resch' = [resch EXCEPT ![c].row = NoRow]
    /\ UNCHANGED <<nodeStatus, world, sweep, hb, deploy, used>>

Strand(c) ==
    /\ resch[c].row # NoRow /\ resch[c].target = NoNode
    /\ dep' = [dep EXCEPT ![resch[c].row].status = "stranded"]
    /\ resch' = [resch EXCEPT ![c].row = NoRow]
    /\ UNCHANGED <<nodeStatus, world, sweep, hb, deploy, used>>

Move(c) ==
    /\ resch[c].row # NoRow /\ resch[c].target # NoNode
    /\ "removed" \notin {nodeStatus[resch[c].target], nodeStatus[resch[c].node]}
    /\ Replace(resch[c].row, dep[resch[c].row].svc, resch[c].target)
    /\ resch' = [resch EXCEPT ![c].row = NoRow, ![c].target = NoNode]
    /\ UNCHANGED <<nodeStatus, world, sweep, hb, deploy, used>>

\* deployments and placement_events reference nodes: the transaction fails
\* when either end of the move was removed meanwhile.  The call throws, and
\* the rows after this one are not looked at.
MoveFails(c) ==
    /\ resch[c].row # NoRow /\ resch[c].target # NoNode
    /\ "removed" \in {nodeStatus[resch[c].target], nodeStatus[resch[c].node]}
    /\ resch' = [resch EXCEPT ![c] = NoCall]
    /\ UNCHANGED <<db, world, sweep, hb, deploy, used>>

(***************************************************************************)
(* The heartbeat route.  One request per node is in flight: the agent      *)
(* waits for the answer before it beats again.                             *)
(***************************************************************************)

\* The beat is recorded, and the deploying rows it is evidence for are read.
\* What the node serves and which services it reports as `missing`, exited or
\* absent, is its own business.  A beat with nothing to do is not a step: it could
\* matter only if its request took longer than the whole silence window.
Heard(n, missing) ==
    /\ reachable[n] /\ hb[n].pc = "idle" /\ nodeStatus[n] # "removed"
    /\ fresh' = [fresh EXCEPT ![n] = TRUE]
    /\ \E serving \in SUBSET {r \in LiveOn(n) : dep[r].status = "deploying"} :
          /\ nodeStatus[n] = "offline" \/ ~fresh[n] \/ serving # {} \/ missing # {}
          /\ \A r \in serving : dep[r].svc \notin missing
          /\ hb' = [hb EXCEPT ![n] = [NoBeat EXCEPT !.pc = "promote", !.rows = serving,
                                                    !.svcs = missing]]
    /\ UNCHANGED <<db, reachable, sweep, resch, deploy>>

Beat(n) == Heard(n, {}) /\ UNCHANGED used

DriftBeat(n) ==
    /\ Spend("drifts")
    /\ \E missing \in SUBSET Services \ {{}} : Heard(n, missing)

PromoteHere(n, r) ==   \* seeded bug: only rows of the same node are superseded
    /\ hb[n].pc = "promote" /\ r \in hb[n].rows
    /\ dep' = [q \in Rows |->
                 IF q = r THEN [dep[q] EXCEPT !.status = "running"]
                 ELSE IF q \in LiveRows(dep[r].svc) \cap LiveOn(n)
                      THEN [dep[q] EXCEPT !.status = "superseded"]
                 ELSE dep[q]]
    /\ hb' = [hb EXCEPT ![n].rows = @ \ {r}]
    /\ UNCHANGED <<nodeStatus, world, sweep, resch, deploy, used>>

\* The cutover, one transaction: the row is running and every other live row
\* of its service is superseded.
Promote(n, r) ==
    /\ hb[n].pc = "promote" /\ r \in hb[n].rows
    /\ dep' = [q \in Rows |->
                 IF q = r THEN [dep[q] EXCEPT !.status = "running"]
                 ELSE IF q \in LiveRows(dep[r].svc)
                      THEN [dep[q] EXCEPT !.status = "superseded"]
                 ELSE dep[q]]
    /\ hb' = [hb EXCEPT ![n].rows = @ \ {r}]
    /\ UNCHANGED <<nodeStatus, world, sweep, resch, deploy, used>>

RecoverOnly(n) ==   \* seeded bug: the node recovers and nothing is reclaimed
    /\ hb[n].pc = "promote" /\ hb[n].rows = {}
    /\ nodeStatus' = [nodeStatus EXCEPT ![n] =
                          IF @ = "offline" THEN "online" ELSE @]
    /\ hb' = [hb EXCEPT ![n] = NoBeat]
    /\ UNCHANGED <<dep, world, sweep, resch, deploy, used>>

\* detectDrift: the rows that should be running and are not, by the report ...
ReadDrift(n) ==
    /\ hb[n].pc = "promote" /\ hb[n].rows = {} /\ hb[n].svcs # {}
    /\ hb' = [hb EXCEPT ![n].pc = "drift", ![n].svcs = {},
                        ![n].rows = {r \in Rows :
                            /\ dep[r].node = n /\ dep[r].status = "running"
                            /\ dep[r].svc \in hb[n].svcs}]
    /\ UNCHANGED <<db, world, sweep, resch, deploy, used>>

\* ... and, once the alerts are out, one update by id of their failureReason, which is
\* all that told a strand from any other failure.
WriteDrift(n) ==
    /\ hb[n].pc = "drift" /\ hb[n].rows # {}
    /\ dep' = [r \in Rows |-> IF r \in hb[n].rows /\ dep[r].status = "stranded"
                              THEN [dep[r] EXCEPT !.status = "failed"] ELSE dep[r]]
    /\ hb' = [hb EXCEPT ![n].rows = {}]
    /\ UNCHANGED <<nodeStatus, world, sweep, resch, deploy, used>>

\* UPDATE ... SET online WHERE offline; reclaim runs only if a row changed.
Recover(n) ==
    /\ hb[n].pc \in {"promote", "drift"} /\ hb[n].rows = {} /\ hb[n].svcs = {}
    /\ IF nodeStatus[n] = "offline"
       THEN /\ nodeStatus' = [nodeStatus EXCEPT ![n] = "online"]
            /\ hb' = [hb EXCEPT ![n].pc = "reclaim"]
       ELSE hb' = [hb EXCEPT ![n] = NoBeat] /\ UNCHANGED nodeStatus
    /\ UNCHANGED <<dep, world, sweep, resch, deploy, used>>

\* reclaimToNode: the rows held for this node are read ...
ReadHeld(n) ==
    /\ hb[n].pc = "reclaim"
    /\ hb' = [hb EXCEPT ![n] =
                IF nodeStatus[n] = "removed" THEN NoBeat
                ELSE [@ EXCEPT !.pc = "resume",
                        !.rows = {r \in Rows : dep[r].node = n /\
                                    dep[r].status = "pinned_unavailable"}]]
    /\ UNCHANGED <<db, world, sweep, resch, deploy, used>>

\* ... and resumed by id, one at a time.
Resume(n, r) ==
    /\ hb[n].pc = "resume" /\ r \in hb[n].rows
    /\ dep' = [dep EXCEPT ![r].status = "deploying"]
    /\ hb' = [hb EXCEPT ![n].rows = @ \ {r}]
    /\ UNCHANGED <<nodeStatus, world, sweep, resch, deploy, used>>

\* Live elsewhere, at home here, and the reclaim policy is eager.
ReadCandidates(n) ==
    /\ hb[n].pc = "resume" /\ hb[n].rows = {}
    /\ hb' = [hb EXCEPT ![n].pc = "eager",
                        ![n].rows = {r \in Rows :
                            /\ dep[r].status \in Live /\ dep[r].node # n
                            /\ dep[r].svc \in Eager /\ Home[dep[r].svc] = n}]
    /\ UNCHANGED <<db, world, sweep, resch, deploy, used>>

Reclaim(n, r) ==
    /\ hb[n].pc = "eager" /\ r \in hb[n].rows /\ nodeStatus[n] # "removed"
    /\ Replace(r, dep[r].svc, n)
    /\ hb' = [hb EXCEPT ![n].rows = @ \ {r}]
    /\ UNCHANGED <<nodeStatus, world, sweep, resch, deploy, used>>

ReadStrandedExact(n) ==   \* seeded bug: the bare code is matched, not the prefix
    /\ hb[n].pc = "eager" /\ hb[n].rows = {}
    /\ hb' = [hb EXCEPT ![n].pc = "place", ![n].svcs = {}]
    /\ UNCHANGED <<db, world, sweep, resch, deploy, used>>

\* placeStranded: services with a strand and nothing live or held.
ReadStranded(n) ==
    /\ hb[n].pc = "eager" /\ hb[n].rows = {}
    /\ hb' = [hb EXCEPT ![n].pc = "place",
                        ![n].svcs = {s \in Services :
                            /\ \E r \in Rows : dep[r].svc = s /\
                                               dep[r].status = "stranded"
                            /\ \A r \in Rows : dep[r].svc = s =>
                                 dep[r].status \notin
                                     Live \cup {"pinned_unavailable"}}]
    /\ UNCHANGED <<db, world, sweep, resch, deploy, used>>

\* The decision for one stranded service; without a node it is left as it is.
DecideStranded(n, s) ==
    /\ hb[n].pc = "place" /\ hb[n].svc = NoService /\ s \in hb[n].svcs
    /\ \E target \in Placed(s, NoNode) :
          hb' = [hb EXCEPT ![n].svcs = @ \ {s}, ![n].target = target,
                           ![n].svc = IF target = NoNode THEN NoService ELSE s]
    /\ UNCHANGED <<db, world, sweep, resch, deploy, used>>

Unstrand(n) ==
    /\ hb[n].pc = "place" /\ hb[n].svc # NoService /\ nodeStatus[hb[n].target] # "removed"
    /\ Unused # {}
    /\ dep' = [dep EXCEPT ![FreshRow] =
                  NewRow(hb[n].svc, hb[n].target, "deploying")]
    /\ hb' = [hb EXCEPT ![n].svc = NoService, ![n].target = NoNode]
    /\ UNCHANGED <<nodeStatus, world, sweep, resch, deploy, used>>

\* A foreign key that no longer holds: the rest of the reclaim is dropped.  A
\* row whose node is null may have lost it before or after it was read.
ReclaimFails(n) ==
    /\ \/ /\ hb[n].pc = "eager"
          /\ \E r \in hb[n].rows : nodeStatus[n] = "removed" \/ dep[r].node = NoNode
       \/ /\ hb[n].pc = "place" /\ hb[n].svc # NoService
          /\ \/ nodeStatus[hb[n].target] = "removed"
             \/ \E r \in Rows : dep[r].svc = hb[n].svc /\
                   dep[r].status \in {"stranded", "failed"} /\ dep[r].node = NoNode
    /\ hb' = [hb EXCEPT ![n] = NoBeat]
    /\ UNCHANGED <<db, world, sweep, resch, deploy, used>>

BeatDone(n) ==
    /\ hb[n].pc = "place" /\ hb[n].svc = NoService /\ hb[n].svcs = {}
    /\ hb' = [hb EXCEPT ![n] = NoBeat]
    /\ UNCHANGED <<db, world, sweep, resch, deploy, used>>

(***************************************************************************)
(* The operator and the deploy handler                                     *)
(***************************************************************************)
Cordon(n) ==
    /\ nodeStatus[n] \notin {"cordoned", "removed"} /\ Spend("cordons")
    /\ nodeStatus' = [nodeStatus EXCEPT ![n] = "cordoned"]
    /\ UNCHANGED <<dep, world, sweep, resch, hb, deploy>>

UncordonIdle(n) ==   \* seeded bug: a status the enum does not have
    /\ nodeStatus[n] = "cordoned"
    /\ nodeStatus' = [nodeStatus EXCEPT ![n] = "idle"]
    /\ UNCHANGED <<dep, world, sweep, resch, hb, deploy, used>>

Uncordon(n) ==
    /\ nodeStatus[n] = "cordoned"
    /\ nodeStatus' = [nodeStatus EXCEPT ![n] = "offline"]
    /\ UNCHANGED <<dep, world, sweep, resch, hb, deploy, used>>

\* Out of the schedulable set first, then the failover path a down node takes.
RemoveBegin(n) ==
    /\ n \in Flaky
    /\ resch["removal"].node = NoNode /\ nodeStatus[n] # "removed"
    /\ Spend("removals")
    /\ nodeStatus' = [nodeStatus EXCEPT ![n] = "draining"]
    /\ resch' = [resch EXCEPT !["removal"] =
                    [NoCall EXCEPT !.node = n, !.rows = LiveOn(n)]]
    /\ UNCHANGED <<dep, world, sweep, hb, deploy>>

\* The node's row is deleted (deployments.nodeId is ON DELETE SET NULL), its
\* token stops working and its heartbeat is forgotten.
RemoveFinish ==
    /\ CallDone("removal") /\ resch["removal"].node # NoNode
    /\ LET n == resch["removal"].node
       IN  /\ nodeStatus' = [nodeStatus EXCEPT ![n] = "removed"]
           /\ dep' = [r \in Rows |-> IF dep[r].node = n
                                     THEN [dep[r] EXCEPT !.node = NoNode]
                                     ELSE dep[r]]
           /\ fresh' = [fresh EXCEPT ![n] = FALSE]
    /\ resch' = [resch EXCEPT !["removal"] = NoCall]
    /\ UNCHANGED <<reachable, sweep, hb, deploy, used>>

\* Placed first, then built for minutes with the node already chosen.
DeployBegin(s) ==
    /\ deploy = NoRow /\ Spend("deploys")
    /\ Unused # {}
    /\ \E n \in Eligible(s, NoNode) :
          dep' = [dep EXCEPT ![FreshRow] = NewRow(s, n, "building")]
    /\ deploy' = FreshRow
    /\ UNCHANGED <<nodeStatus, world, sweep, resch, hb>>

\* The build is done.  A stateful service may not overlap its predecessor.
DeployFinish ==
    /\ deploy # NoRow /\ dep[deploy].node # NoNode
    /\ LET s == dep[deploy].svc
       IN  dep' = [r \in Rows |->
                     IF r = deploy THEN [dep[r] EXCEPT !.status = "deploying"]
                     ELSE IF s \in Volumes /\ r \in LiveRows(s)
                          THEN [dep[r] EXCEPT !.status = "superseded"]
                     ELSE dep[r]]
    /\ deploy' = NoRow
    /\ UNCHANGED <<nodeStatus, world, sweep, resch, hb, used>>

\* The build failed, or its node was removed (the foreign key again).
DeployFails ==
    /\ deploy # NoRow
    /\ dep' = [dep EXCEPT ![deploy].status = "failed"]
    /\ deploy' = NoRow
    /\ UNCHANGED <<nodeStatus, world, sweep, resch, hb, used>>

\* failStaleBuilds: a row whose deploy died with the control plane.
FailStaleBuild(r) ==
    /\ sweep.pc = "idle" /\ dep[r].status = "building" /\ r # deploy
    /\ dep' = [dep EXCEPT ![r].status = "failed"]
    /\ UNCHANGED <<nodeStatus, world, sweep, resch, hb, deploy, used>>

(***************************************************************************)
(* The world: agents fall silent and come back, silence outlasts the       *)
(* window, and the control plane restarts, losing what its handlers held.  *)
(***************************************************************************)
FallSilent(n) ==
    /\ n \in Flaky /\ reachable[n] /\ Spend("silences")
    /\ reachable' = [reachable EXCEPT ![n] = FALSE]
    /\ UNCHANGED <<db, fresh, sweep, resch, hb, deploy>>

ComeBack(n) ==
    /\ ~reachable[n]
    /\ reachable' = [reachable EXCEPT ![n] = TRUE]
    /\ UNCHANGED <<db, fresh, sweep, resch, hb, deploy, used>>

Expire(n) ==
    /\ ~reachable[n] /\ fresh[n]
    /\ fresh' = [fresh EXCEPT ![n] = FALSE]
    /\ UNCHANGED <<db, reachable, sweep, resch, hb, deploy, used>>

Restart ==
    /\ Spend("restarts")
    /\ sweep' = [pc |-> "idle", nodes |-> {}]
    /\ resch' = [c \in Callers |-> NoCall]
    /\ hb' = [n \in Nodes |-> NoBeat]
    /\ deploy' = NoRow
    /\ UNCHANGED <<db, world>>

-----------------------------------------------------------------------------
\* Where the first release of each service is kept in the table.
FirstRow == CHOOSE f \in [Services -> Rows] :
                \A s, t \in Services : f[s] = f[t] => s = t

\* A quiet fleet: every node is up, and each service has one running release
\* somewhere that suits it, or has never been deployed.
Init ==
    /\ nodeStatus = [n \in Nodes |-> "online"]
    /\ fresh = [n \in Nodes |-> TRUE]
    /\ reachable = [n \in Nodes |-> TRUE]
    /\ \E host \in [Services -> Nodes \cup {NoNode}] :
          /\ \A s \in Services : host[s] # NoNode =>
                /\ <<s, host[s]>> \in Suits
                /\ s \in Pinned => host[s] = Home[s]
          /\ dep = [r \in Rows |->
                      IF \E s \in Services : FirstRow[s] = r /\ host[s] # NoNode
                      THEN LET s == CHOOSE s \in Services :
                                        FirstRow[s] = r /\ host[s] # NoNode
                           IN  NewRow(s, host[s], "running")
                      ELSE NewRow(NoService, NoNode, "absent")]
    /\ sweep = [pc |-> "idle", nodes |-> {}]
    /\ resch = [c \in Callers |-> NoCall]
    /\ hb = [n \in Nodes |-> NoBeat]
    /\ deploy = NoRow
    /\ used = 0

Sweeper == SweepRead \/ SweepMark \/ (\E n \in Nodes : SweepNode(n)) \/ SweepDone

Call(c) ==
    \/ \E r \in Rows : HoldPinned(c, r) \/ Decide(c, r)
    \/ Strand(c) \/ Move(c) \/ MoveFails(c)

Request(n) ==
    \/ Beat(n) \/ ReadDrift(n) \/ WriteDrift(n) \/ Recover(n) \/ ReadHeld(n)
    \/ ReadCandidates(n) \/ ReadStranded(n) \/ Unstrand(n) \/ BeatDone(n)
    \/ \E r \in Rows : Promote(n, r) \/ Resume(n, r) \/ Reclaim(n, r)
    \/ \E s \in Services : DecideStranded(n, s)

Operator ==
    \/ \E n \in Nodes : Cordon(n) \/ Uncordon(n) \/ RemoveBegin(n)
    \/ RemoveFinish
    \/ \E s \in Services : DeployBegin(s)

World == \E n \in Nodes : FallSilent(n) \/ ComeBack(n) \/ Expire(n) \/ DriftBeat(n)

Next ==
    \/ Sweeper
    \/ \E c \in Callers : Call(c)
    \/ \E n \in Nodes : Request(n) \/ ReclaimFails(n)
    \/ Operator \/ DeployFinish \/ DeployFails
    \/ \E r \in Rows : FailStaleBuild(r)
    \/ World \/ Restart

Spec == Init /\ [][Next]_vars

\* The timer fires the tick for ever, a handler that can take its next step
\* takes it, agents that can reach the control plane keep beating, and time
\* passes.  Nothing obliges an operator, a node or a build.
Fairness ==
    /\ WF_vars(Sweeper)
    /\ \A c \in Callers : WF_vars(Call(c))
    /\ \A n \in Nodes : WF_vars(Request(n)) /\ WF_vars(Expire(n))

FairSpec == Spec /\ Fairness

-----------------------------------------------------------------------------
(***************************************************************************)
(* Safety                                                                  *)
(***************************************************************************)

\* While no rollout outlasts its window, a service has at most one `running`
\* release however its handlers overlap: held rows resume, strands are placed
\* and deploys finish as `deploying`, and only the cutover of a heartbeat makes
\* a row running (agent.routes.ts).
AtMostOneRunning ==
    \A q, r \in Rows :
        /\ dep[q].status = "running" /\ dep[r].status = "running"
        /\ dep[q].svc = dep[r].svc
        => q = r

\* A pinned service never gets a row on another node: not by failover, not by
\* reclaim, not by a late placement or a deploy ("never silently relocate
\* something the user pinned", reschedule.ts).
PinnedStaysHome ==
    \A r \in Rows : dep[r].svc \in Pinned => dep[r].node \in {Home[dep[r].svc], NoNode}

\* Failover makes no copy of a pinned service, at home no more than elsewhere: whatever
\* is read, held, removed and resumed in any order, a row of it comes up only after its
\* own build or its own hold (rescheduleFromNode, reclaimToNode, placeStranded).
PinnedNeverCopied ==
    [][\A r \in Rows :
         dep'[r].svc \in Pinned /\ dep'[r].status = "deploying" /\ dep'[r] # dep[r]
            => /\ dep[r].status \in {"deploying", "building", "pinned_unavailable"}
               /\ dep[r].svc = dep'[r].svc]_vars

Has(s, statuses) == \E r \in Rows : dep[r].svc = s /\ dep[r].status \in statuses

\* Which recovery path answers for a service.
CustodyOf ==
    [s \in Services |->
        IF Has(s, Live) THEN "live"
        ELSE IF Has(s, {"pinned_unavailable"}) THEN "held"
        ELSE IF Has(s, {"stranded"}) THEN "stranded"
        ELSE "absent"]

\* The rows a drift report in progress is about to write to.
DriftRows == UNION {hb[n].rows : n \in {m \in Nodes : hb[m].pc = "drift"}}

DriftServices == {dep[r].svc : r \in DriftRows}

Promise == INSTANCE Custody WITH custody <- CustodyOf, reported <- DriftServices

\* Failover drops no service, whatever interleaves and whatever crashes: some row of
\* it is always one that rescheduleFromNode, reclaimToNode or placeStranded reads.
\* The one exception is a strand made while a heartbeat's drift report of the same
\* service waits for its alert (agent.routes.ts).  See module Custody.
KeepsCustody == Promise!Spec

(***************************************************************************)
(* Liveness                                                                *)
(***************************************************************************)

\* Every row that is live on a node when the sweeper marks it down is dealt
\* with, unless the node comes back first (sweepOnce, rescheduleFromNode).
NodeDownPathRuns ==
    \A n \in Nodes, r \in Rows :
        (n \in sweep.nodes /\ sweep.pc = "nodes" /\ r \in LiveOn(n))
            ~> (r \notin LiveOn(n) \/ nodeStatus[n] # "offline")

Held(r, n) == dep[r].node = n /\ dep[r].status = "pinned_unavailable"

\* A pinned service held while its node is marked offline is resumed when that
\* node's heartbeats are back, unless the operator cordons it (reclaimToNode).
HeldResumes ==
    \A n \in Nodes, r \in Rows :
        (Held(r, n) /\ nodeStatus[n] = "offline")
            ~> (~Held(r, n) \/ ~reachable[n] \/ nodeStatus[n] = "cordoned")

\* A strand is retried when a node that could take the service returns
\* (placeStranded): on a one-node fleet it used to stay dead.  Unless a drift report
\* still to be written has read the row before it was stranded.
StrandClears ==
    \A n \in Nodes, s \in Services :
        (CustodyOf[s] = "stranded" /\ nodeStatus[n] = "offline" /\ <<s, n>> \in Suits)
            ~> \/ LiveRows(s) # {} \/ ~reachable[n] \/ nodeStatus[n] = "cordoned"
               \/ \E r \in DriftRows : dep[r].svc = s /\ dep[r].status = "stranded"

(***************************************************************************)
(* Claims of the documentation that the code does not keep                 *)
(***************************************************************************)

\* "Pinned services become `pinned_unavailable` ... and remain associated with
\* their node until it returns" (ARCHITECTURE.md, Failover): a service held on
\* a node that is back online does not stay held.
HeldUntilReturn ==
    \A n \in Nodes, r \in Rows :
        (Held(r, n) /\ nodeStatus[n] = "online")
            ~> (~Held(r, n) \/ nodeStatus[n] # "online")

\* "two processes writing one volume corrupt it" (ARCHITECTURE.md, Rollouts):
\* a stateful service never has two live rows on one node.
OneWriterPerVolume ==
    \A s \in Volumes, n \in Nodes : Cardinality(LiveRows(s) \cap LiveOn(n)) <= 1
=============================================================================
