------------------------------ MODULE Serving ------------------------------
(***************************************************************************)
(* Which copies of one service are live and where its traffic goes: the    *)
(* replica pass of the sweeper (scheduler/replicas.ts), the promotion that *)
(* supersedes every other live row (api/agent.routes.ts), the deploy and   *)
(* stop routes (api/services.routes.ts), and the route cache in Redis that *)
(* all of them invalidate and every request may refill                     *)
(* (ingress/routes.ts).                                                    *)
(*                                                                         *)
(* A step is one statement or transaction, and what a handler has read is  *)
(* kept until it is used.  The service is stateless, published and not     *)
(* pinned; every row has an image, and its port is part of the row.  The   *)
(* nodes it may run on stay online, and the other services stay where they *)
(* are; but other nodes fall silent, and the pass runs only if one is.     *)
(***************************************************************************)
EXTENDS Placement, FiniteSets

CONSTANTS
    Nodes,     \* the nodes of the fleet that stay online
    Ids,       \* row identities of the deployments table
    NoNode,    \* a null node reference
    Requests,  \* requests that ingress may be resolving at one time
    Service,   \* the service as the scheduler sees it
    Fleet,     \* each node, as it would be without this service
    Others,    \* where each other service is
    Shuns,     \* and what each of them keeps away from
    Before,    \* the order of node ids
    Loads,     \* the loads heartbeats may report
    Counts,    \* the replica counts a manifest may declare
    Allowed,   \* the kinds of event a behaviour may contain
    Budget     \* and how many of them in all

Events == {"deploys", "stops", "scales", "restarts"}

ASSUME ServingAssumption ==
    /\ NoNode \notin Nodes /\ IsFiniteSet(Ids)
    /\ Counts # {} /\ Counts \subseteq Nat \ {0} /\ Loads # {} /\ Loads \subseteq 0..100
    /\ Service.ram \in Nat /\ Fleet \in [Nodes -> NodeSnapshot]
    /\ DOMAIN Others = DOMAIN Shuns
    /\ \A a, b \in Nodes : <<a, b>> \in Before => <<b, a>> \notin Before
    /\ Allowed \subseteq Events /\ Budget \in Nat

VARIABLES
    row,      \* the deployments table: node and status of each row
    newer,    \* pairs of its rows, the first with the later startedAt
    wanted,   \* services.replicas
    silent,   \* a node of the fleet is stale, none of Nodes
    pass,     \* the replica pass of the sweeper's tick
    hb,       \* the heartbeat request of each node
    flight,   \* the row of the deploy handler that is building, if any
    stopping, \* the stop request between its reads and its answer
    cache,    \* the service's key in Redis
    looking,  \* what each request being resolved has read from Postgres
    used      \* the events that have happened

vars == <<row, newer, wanted, silent, pass, hb, flight, stopping, cache, looking, used>>
table == <<row, newer, wanted, silent>>
handlers == <<pass, hb, flight, stopping>>
ingress == <<cache, looking>>

RowStatus == {"absent", "building", "deploying", "running", "superseded"}

Live == {"deploying", "running"}

LiveRows == {i \in Ids : row[i].status \in Live}

NoRow == [node |-> NoNode, status |-> "absent"]

Absent == [kind |-> "absent", rows |-> {}]

\* What one lookup stores: every row that is as good as the best one, or a miss.
Answer(rows) == IF rows = {} THEN [kind |-> "none", rows |-> {}]
                ELSE [kind |-> "routes", rows |-> rows]

IdlePass == [pc |-> "idle", want |-> 0, short |-> 0, taken |-> {}, target |-> NoNode,
             excess |-> {}]

IdleBeat == [todo |-> {}, invalidate |-> FALSE]

IdleStop == [pc |-> "idle", rows |-> {}]

NotLooking == [busy |-> FALSE, rows |-> {}]

Happened(kind) == {u \in used : u[1] = kind}

\* Only rows that exist are ordered, and of two of them one is the newer.
InOrder ==
    \A i, j \in Ids :
        /\ <<i, j>> \in newer => /\ row[i] # NoRow /\ row[j] # NoRow
                                 /\ <<j, i>> \notin newer
        /\ i # j /\ row[i] # NoRow /\ row[j] # NoRow
              => <<i, j>> \in newer \/ <<j, i>> \in newer

TypeOK ==
    /\ row \in [Ids -> [node : Nodes \cup {NoNode}, status : RowStatus]]
    /\ newer \subseteq Ids \X Ids /\ InOrder
    /\ wanted \in Counts /\ silent \in BOOLEAN
    /\ pass \in [pc : {"idle", "count", "excess", "remove", "place", "insert", "invalidate"},
                 want : Counts \cup {0}, short : Nat, taken : SUBSET Nodes,
                 target : Nodes \cup {NoNode}, excess : SUBSET Ids]
    /\ hb \in [Nodes -> [todo : SUBSET Ids, invalidate : BOOLEAN]]
    /\ flight \subseteq Ids /\ Cardinality(flight) <= 1
    /\ stopping \in [pc : {"idle", "write", "invalidate"}, rows : SUBSET Ids]
    /\ cache \in {Absent} \cup {Answer(rows) : rows \in SUBSET Ids}
    /\ looking \in [Requests -> [busy : BOOLEAN, rows : SUBSET Ids]]
    /\ used \subseteq Events \X Nat
    /\ Happened("restarts") = {} => {i \in Ids : row[i].status = "building"} = flight

Spend(kind) ==
    /\ kind \in Allowed /\ Cardinality(used) < Budget
    /\ used' = used \cup {<<kind, Cardinality({u \in used : u[1] = kind})>>}

(***************************************************************************)
(* The table                                                               *)
(***************************************************************************)
\* The newest k of the rows in S: ORDER BY startedAt DESC LIMIT k.
Newest(S, k) == {i \in S : Cardinality({j \in S : <<j, i>> \in newer}) < k}

\* A row that is no longer live is forgotten, unless a heartbeat has still to
\* promote it: no other write brings a row back.
Promised == UNION {hb[n].todo : n \in Nodes}

Write(rows) ==
    /\ row' = [i \in Ids |-> IF rows[i].status = "superseded" /\ i \notin Promised
                             THEN NoRow ELSE rows[i]]
    /\ newer' = {p \in newer : row'[p[1]] # NoRow /\ row'[p[2]] # NoRow}

Supersede(rows) ==
    Write([i \in Ids |-> IF i \in rows /\ row[i] # NoRow
                        THEN [row[i] EXCEPT !.status = "superseded"] ELSE row[i]])

Unused ==
    {i \in Ids : row[i] = NoRow}
        \ (cache.rows \cup pass.excess \cup stopping.rows
             \cup UNION {looking[q].rows : q \in Requests})

Insert(n, status) ==
    \E i \in Unused :
        /\ i = CHOOSE j \in Unused : TRUE
        /\ row' = [row EXCEPT ![i] = [node |-> n, status |-> status]]
        /\ newer' = newer \cup {i} \X {j \in Ids : row[j] # NoRow}
        /\ flight' = IF status = "building" THEN flight \cup {i} ELSE flight

\* fleetSnapshot: memory is committed by live rows, not by what a build will need.
Snapshot(load) ==
    [n \in DOMAIN load |->
        [Fleet[n] EXCEPT !.load = load[n],
            !.committed = @ + Service.ram
                               * Cardinality({i \in LiveRows : row[i].node = n})]]

\* The scheduler's choice among the nodes of a snapshot: one, or none.
Placed(load) == place(Service, Snapshot(load), Others, Shuns, Before)

\* invalidateRoutesForService
Invalidate == cache' = Absent

(***************************************************************************)
(* The replica pass: one service of reconcileReplicas                      *)
(***************************************************************************)
\* The sweep of a fleet comes to its replicas only past the stale nodes it has found:
\* `if (!allStale.length) continue` (sweeper.ts).  The services are read first; those
\* that want one copy are not looked at.
PassBegin ==
    /\ silent
    /\ pass.pc = "idle" /\ wanted > 1
    /\ pass' = [IdlePass EXCEPT !.pc = "count", !.want = wanted]
    /\ UNCHANGED <<table, hb, flight, stopping, ingress, used>>

PassCountRunning ==     \* seeded bug: a copy that is starting is not counted
    /\ pass.pc = "count"
    /\ LET live == {i \in LiveRows : row[i].status = "running"} IN
       pass' = IF live = {} \/ Cardinality(live) >= pass.want THEN IdlePass
               ELSE [pass EXCEPT !.pc = "place", !.short = pass.want - Cardinality(live),
                                 !.taken = {row[i].node : i \in live}]
    /\ UNCHANGED <<table, hb, flight, stopping, ingress, used>>

\* Nothing live is not this pass's business; otherwise too many or too few.
PassCount ==
    /\ pass.pc = "count"
    /\ LET live == LiveRows
           count == Cardinality(live) IN
       pass' = IF live = {} \/ count = pass.want THEN IdlePass
               ELSE IF count > pass.want
               THEN [pass EXCEPT !.pc = "excess", !.short = count - pass.want]
               ELSE [pass EXCEPT !.pc = "place", !.short = pass.want - count,
                                 !.taken = {row[i].node : i \in live}]
    /\ UNCHANGED <<table, hb, flight, stopping, ingress, used>>

\* The extras are read again, the newest ones, as many as were too many before.
PassExcess ==
    /\ pass.pc = "excess"
    /\ pass' = [pass EXCEPT !.pc = "remove", !.excess = Newest(LiveRows, pass.short)]
    /\ UNCHANGED <<table, hb, flight, stopping, ingress, used>>

PassRemove ==
    /\ pass.pc = "remove"
    /\ Supersede(pass.excess)
    /\ pass' = [pass EXCEPT !.pc = "invalidate"]
    /\ UNCHANGED <<wanted, silent, hb, flight, stopping, ingress, used>>

\* One more copy, on a node that runs none; when none can be placed the pass is over.
PassPlace ==
    /\ pass.pc = "place"
    /\ \E load \in [Nodes \ pass.taken -> Loads] :
          LET chosen == Placed(load) IN
          \/ /\ chosen = {}
             /\ pass' = [pass EXCEPT !.pc = "invalidate"]
          \/ \E n \in chosen : pass' = [pass EXCEPT !.pc = "insert", !.target = n]
    /\ UNCHANGED <<table, hb, flight, stopping, ingress, used>>

PassInsert ==
    /\ pass.pc = "insert"
    /\ Insert(pass.target, "deploying")
    /\ pass' = [pass EXCEPT !.pc = IF pass.short = 1 THEN "invalidate" ELSE "place",
                            !.short = pass.short - 1,
                            !.taken = pass.taken \cup {pass.target}]
    /\ UNCHANGED <<wanted, silent, hb, stopping, ingress, used>>

PassInvalidate ==
    /\ pass.pc = "invalidate"
    /\ Invalidate
    /\ pass' = IdlePass
    /\ UNCHANGED <<table, hb, flight, stopping, looking, used>>

(***************************************************************************)
(* Heartbeats                                                              *)
(***************************************************************************)
BeatBuilding(n) ==     \* seeded bug: a build counts as a rollout of its service
    /\ hb[n] = IdleBeat
    /\ \E todo \in SUBSET {i \in Ids : row[i].node = n
                                      /\ row[i].status \in {"building", "deploying"}} :
          /\ todo # {}
          /\ hb' = [hb EXCEPT ![n].todo = todo]
    /\ UNCHANGED <<table, pass, flight, stopping, ingress, used>>

\* The rows of this node that are deploying and shown to be serving.
Beat(n) ==
    /\ hb[n] = IdleBeat
    /\ \E todo \in SUBSET {i \in Ids : row[i].node = n /\ row[i].status = "deploying"} :
          /\ todo # {}
          /\ hb' = [hb EXCEPT ![n].todo = todo]
    /\ UNCHANGED <<table, pass, flight, stopping, ingress, used>>

PromoteHere(n) ==     \* seeded bug: rows of other nodes keep running
    /\ ~hb[n].invalidate
    /\ \E i \in hb[n].todo :
          /\ Write([j \in Ids |->
                IF j = i THEN [row[j] EXCEPT !.status = "running"]
                ELSE IF j \in LiveRows /\ row[j].node = n
                     THEN [row[j] EXCEPT !.status = "superseded"]
                ELSE row[j]])
          /\ hb' = [hb EXCEPT ![n] = [todo |-> hb[n].todo \ {i}, invalidate |-> TRUE]]
    /\ UNCHANGED <<wanted, silent, pass, flight, stopping, ingress, used>>

\* Promotion is the cutover: by id, and every other live row is superseded.
Promote(n) ==
    /\ ~hb[n].invalidate
    /\ \E i \in hb[n].todo :
          /\ Write([j \in Ids |->
                IF j = i THEN [row[j] EXCEPT !.status = "running"]
                ELSE IF j \in LiveRows THEN [row[j] EXCEPT !.status = "superseded"]
                ELSE row[j]])
          /\ hb' = [hb EXCEPT ![n] = [todo |-> hb[n].todo \ {i}, invalidate |-> TRUE]]
    /\ UNCHANGED <<wanted, silent, pass, flight, stopping, ingress, used>>

BeatInvalidate(n) ==
    /\ hb[n].invalidate
    /\ Invalidate
    /\ hb' = [hb EXCEPT ![n].invalidate = FALSE]
    /\ UNCHANGED <<table, pass, flight, stopping, looking, used>>

(***************************************************************************)
(* Operators                                                               *)
(***************************************************************************)
\* runDeploy places the row, builds, and sets it deploying; no route changes.
Deploy ==
    /\ flight = {} /\ Spend("deploys")
    /\ \E load \in [Nodes -> Loads] : \E n \in Placed(load) : Insert(n, "building")
    /\ UNCHANGED <<wanted, silent, pass, hb, stopping, ingress>>

DeployFinishInsert ==     \* seeded bug: going live is a second insert
    /\ \E i \in flight : \E j \in Unused :
          /\ row' = [row EXCEPT ![j] = [node |-> row[i].node, status |-> "deploying"]]
          /\ newer' = newer \cup {j} \X {k \in Ids : row[k] # NoRow}
    /\ flight' = {}
    /\ UNCHANGED <<wanted, silent, pass, hb, stopping, ingress, used>>

DeployFinish ==
    /\ \E i \in flight : row' = [row EXCEPT ![i].status = "deploying"]
    /\ flight' = {}
    /\ UNCHANGED <<newer, wanted, silent, pass, hb, stopping, ingress, used>>

Stop ==
    /\ stopping = IdleStop /\ LiveRows # {} /\ Spend("stops")
    /\ stopping' = [pc |-> "write", rows |-> LiveRows]
    /\ UNCHANGED <<table, pass, hb, flight, ingress>>

StopWrite ==
    /\ stopping.pc = "write"
    /\ Supersede(stopping.rows)
    /\ stopping' = [stopping EXCEPT !.pc = "invalidate"]
    /\ UNCHANGED <<wanted, silent, pass, hb, flight, ingress, used>>

StopInvalidate ==
    /\ stopping.pc = "invalidate"
    /\ Invalidate
    /\ stopping' = IdleStop
    /\ UNCHANGED <<table, pass, hb, flight, looking, used>>

\* A manifest sync writes another count.
Scale ==
    /\ \E n \in Counts \ {wanted} : wanted' = n
    /\ Spend("scales")
    /\ UNCHANGED <<row, newer, silent, handlers, ingress>>

\* A node of the fleet falls silent, or is heard again.  Only the start of a pass reads
\* which, so that it changes between passes stands for all.
OtherNodes ==
    /\ pass.pc = "idle"
    /\ silent' = ~silent
    /\ UNCHANGED <<row, newer, wanted, handlers, ingress, used>>

Restart ==
    /\ Spend("restarts")
    /\ pass' = IdlePass /\ hb' = [n \in Nodes |-> IdleBeat]
    /\ flight' = {} /\ stopping' = IdleStop
    /\ looking' = [q \in Requests |-> NotLooking]
    /\ UNCHANGED <<table, cache>>

(***************************************************************************)
(* Ingress: resolveRoute                                                   *)
(***************************************************************************)
\* Running rows before deploying ones, and only rows of the same status compete.
Best ==
    LET running == {i \in Ids : row[i].status = "running"}
    IN  IF running # {} THEN running ELSE LiveRows

\* A request that finds the key is answered from it and changes nothing.
Lookup(q) ==
    /\ ~looking[q].busy /\ cache = Absent
    /\ looking' = [looking EXCEPT ![q] = [busy |-> TRUE, rows |-> Best]]
    /\ UNCHANGED <<table, handlers, cache, used>>

\* What was read is stored, whatever has been invalidated since.
Store(q) ==
    /\ looking[q].busy
    /\ cache' = Answer(looking[q].rows)
    /\ looking' = [looking EXCEPT ![q] = NotLooking]
    /\ UNCHANGED <<table, handlers, used>>

ExpireRoutes ==     \* seeded bug: a miss is stored without an expiry
    /\ cache.kind = "routes"
    /\ cache' = Absent
    /\ UNCHANGED <<table, handlers, looking, used>>

\* Redis forgets the key: thirty seconds for routes, five for a miss.
Expire ==
    /\ cache # Absent
    /\ cache' = Absent
    /\ UNCHANGED <<table, handlers, looking, used>>

-----------------------------------------------------------------------------
\* A service that runs one release, or has none yet.
Init ==
    /\ \E i \in Ids, n \in Nodes, deployed \in BOOLEAN :
          /\ Rejections(Service, n, Fleet[n], Others, Shuns) = {}
          /\ i = CHOOSE j \in Ids : TRUE
          /\ row = [j \in Ids |-> IF j = i /\ deployed
                                  THEN [node |-> n, status |-> "running"]
                                  ELSE NoRow]
          /\ newer = {}
    /\ wanted \in Counts /\ silent \in BOOLEAN
    /\ pass = IdlePass /\ hb = [n \in Nodes |-> IdleBeat]
    /\ flight = {} /\ stopping = IdleStop
    /\ cache = Absent /\ looking = [q \in Requests |-> NotLooking] /\ used = {}

Sweeper ==
    \/ PassBegin \/ PassCount \/ PassExcess \/ PassRemove
    \/ PassPlace \/ PassInsert \/ PassInvalidate

Heartbeat(n) == Beat(n) \/ Promote(n) \/ BeatInvalidate(n)

Handler == DeployFinish \/ StopWrite \/ StopInvalidate \/ \E q \in Requests : Store(q)

Next ==
    \/ Sweeper \/ Handler \/ Expire
    \/ \E n \in Nodes : Heartbeat(n)
    \/ \E q \in Requests : Lookup(q)
    \/ Deploy \/ Stop \/ Scale \/ OtherNodes \/ Restart

Spec == Init /\ [][Next]_vars

\* Handlers go on, keys expire, and a copy that has been placed comes up healthy and is
\* reported.  Nothing is asked of the pass, which a fleet without a stale node does not
\* have, and no request need ever arrive.
Fairness ==
    /\ WF_vars(Handler) /\ WF_vars(Expire)
    /\ \A n \in Nodes : WF_vars(Heartbeat(n))

FairSpec == Spec /\ Fairness

-----------------------------------------------------------------------------
(***************************************************************************)
(* Properties                                                              *)
(***************************************************************************)

\* The pass never runs away: with every promotion, stop and restart that can fall
\* between its count and its inserts, there are never more live rows than the
\* highest count plus one for each deploy (reconcileReplicas counts what starts).
NoOvershoot ==
    \A n \in Counts : (\A m \in Counts : m <= n)
        => Cardinality(LiveRows) <= n + Cardinality(Happened("deploys"))

PhaseOf(status) == CASE status = "building" -> "build"
                     [] status = "deploying" -> "rollout"
                     [] status = "running" -> "serving"
                     [] OTHER -> "none"

Release == INSTANCE Releases
               WITH Rows <- Ids, phase <- [i \in Ids |-> PhaseOf(row[i].status)], due <- {}

\* The replica pass and the promotions it provokes do to the releases of a service
\* what its rollouts do, and nothing else.  See module Releases.
KeepsReleases == Release!Spec

Running == {i \in Ids : row[i].status = "running"}

\* A service never has two running copies, whatever count is asked for and whatever
\* the pass, the heartbeats and the restarts interleave: every promotion is a cutover
\* (agent.routes.ts), of a sibling no less than of a predecessor.
OneRunning == \A i, j \in Running : i = j

\* A rule in either file binds whichever of two services is placed second
\* (placement.ts): no copy is ever put where another service is that is to be kept
\* apart from it, though nodes are chosen from a snapshot and rows inserted later.
KeptApart ==
    \A i \in Ids, other \in DOMAIN Others :
        /\ other \in Service.antiAffinity \/ Service.name \in Shuns[other]
        /\ row[i] # NoRow
        => row[i].node # Others[other]

\* A cached answer names a row that is no longer live, or is a miss although a
\* release is serving.
Wrong ==
    \/ ~(cache.rows \subseteq LiveRows)
    \/ cache.kind = "none" /\ \E i \in Ids : row[i].status = "running"

\* A wrong answer does not last, even when a lookup stores what it read before a
\* cutover after that cutover's invalidation (resolveRoute, the two expiries).
RouteCorrected == Wrong ~> ~Wrong

\* A count that went back to one is not looked at by the pass any more (it keeps
\* services that want more than one), and the extra rows still go: by promotion.
ScaledBack == wanted = 1 ~> (Cardinality(LiveRows) <= 1 \/ wanted # 1)
=============================================================================
