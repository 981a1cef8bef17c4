------------------------------ MODULE Rollout ------------------------------
(***************************************************************************)
(* The rollout of one service: the deploy handlers, the evidence by which  *)
(* a heartbeat promotes a row (api/agent.routes.ts), the sweeper's pass    *)
(* over rollouts that outlast their window (failStalledRollouts), the      *)
(* operator's restart, stop and rollback (api/services.routes.ts), and the *)
(* agents that start and remove the containers (agent/internal/reconcile). *)
(*                                                                         *)
(* As in module Failover a step is one statement or one transaction, and   *)
(* what a handler has read is kept until it is used.  Every node stays     *)
(* online here; where a row may go when one does not is Failover's.        *)
(***************************************************************************)
EXTENDS Naturals, FiniteSets

CONSTANTS
    Nodes,     \* the nodes of the fleet
    Rows,      \* row identities of the deployments table
    NoNode,    \* a null node reference
    Stateful,  \* services.persistentVolume
    Checked,   \* the service has a health check
    Allowed,   \* the kinds of disturbance a behaviour may contain
    Budget     \* and how many of them in all

Disturbances == {"deploys", "pushes", "operations", "crashes", "silences",
                 "restarts", "upgrades"}

ASSUME RolloutAssumption ==
    /\ Nodes # {} /\ Rows # {} /\ \A r \in Rows : Rows # {r}
    /\ NoNode \notin Nodes /\ {Stateful, Checked} \subseteq BOOLEAN
    /\ Allowed \subseteq Disturbances /\ Budget \in Nat

VARIABLES
    dep,       \* the deployments table: node and status of each row
    newer,     \* pairs of rows, the first with the later startedAt
    overdue,   \* rows whose startedAt is older than the rollout window
    flight,    \* rows whose deploy handler is running, and which handler
    ctr,       \* the container of each row, on the row's node
    agent,     \* the reconcile pass of each node's agent
    heard,     \* nodes whose last heartbeat has not expired in Redis
    up,        \* rows whose container that heartbeat reported as running
    hb,        \* rows each node's heartbeat request has yet to promote
    tick,      \* the sweeper's tick
    op,        \* the operator's request between its reads and its write
    used       \* how many disturbances have happened

vars == <<dep, newer, overdue, flight, ctr, agent, heard, up, hb, tick, op, used>>
table == <<dep, newer, overdue>>
handlers == <<flight, hb, tick, op>>
nodes == <<ctr, agent>>
redis == <<heard, up>>

Live == {"deploying", "running"}

RowStatus == Live \cup {"absent", "building", "superseded", "failed"}

\* A container in state running is "healthy", or "starting" for as long as its
\* probe has any other verdict; "exited" is one in any other state.
CtrState == {"none", "starting", "healthy", "exited"}

Up(c) == c \in {"starting", "healthy"}

\* A pass: desired state as fetched, what it still has to start, what to remove.
Pass == [pc : {"idle", "busy"}, wanted : SUBSET Rows, todo : SUBSET Rows,
         drop : SUBSET Rows, settled : BOOLEAN]

\* The tick, by the statement it is about to run: rows to judge or to fail, and
\* rows to rescue.
Tick == [pc : {"idle", "judge", "verdict"}, rows : SUBSET Rows, rescue : SUBSET Rows]

IdleTick == [pc |-> "idle", rows |-> {}, rescue |-> {}]

\* Rows to supersede, and where to insert a replacement if anywhere.
Operation == [busy : BOOLEAN, rows : SUBSET Rows, node : Nodes \cup {NoNode}]

NoOperation == [busy |-> FALSE, rows |-> {}, node |-> NoNode]

\* Of two rows that exist one is the newer.
InOrder ==
    \A r, q \in Rows :
        /\ <<r, q>> \in newer => <<q, r>> \notin newer
        /\ r # q /\ dep[r].status # "absent" /\ dep[q].status # "absent"
              => <<r, q>> \in newer \/ <<q, r>> \in newer

TypeOK ==
    /\ dep \in [Rows -> [node : Nodes \cup {NoNode}, status : RowStatus]]
    /\ newer \subseteq Rows \X Rows /\ InOrder
    /\ overdue \subseteq Rows
    /\ flight \in [Rows -> {"none", "manual", "push"}]
    /\ ctr \in [Rows -> CtrState]
    /\ agent \in [Nodes -> Pass]
    /\ heard \subseteq Nodes /\ up \subseteq Rows
    /\ hb \in [Nodes -> SUBSET Rows]
    /\ tick \in Tick /\ op \in Operation /\ used \in Nat

(***************************************************************************)
(* The deployments table                                                   *)
(***************************************************************************)
LiveRows == {r \in Rows : dep[r].status \in Live}

OnNode(n) == {r \in Rows : dep[r].node = n}

\* The newest of the rows in S: ORDER BY startedAt DESC LIMIT 1.
Newest(S) == {r \in S : \A q \in S : <<q, r>> \notin newer}

\* Row identities a handler or an agent still holds.
Referenced ==
    {r \in Rows : \/ flight[r] # "none" \/ r \in tick.rows \cup tick.rescue \cup op.rows
                  \/ \E n \in Nodes : r \in hb[n] \cup agent[n].wanted}

\* A finished row that nothing will look at again is forgotten.
Unused ==
    {r \in Rows : dep[r].status \in {"absent", "superseded", "failed"}
                  /\ ctr[r] = "none"} \ Referenced

StartAgain(r) == newer \cup {r} \X (Rows \ {r})   \* seeded bug: its old place is kept

\* The row starts now, after every other.
Start(r) == {p \in newer : r \notin {p[1], p[2]}} \cup {r} \X (Rows \ {r})

\* Supersede the rows of `old` by id and insert one row on node n.
Insert(old, n, status) ==
    \E r \in Unused :
        /\ r = CHOOSE q \in Unused : TRUE
        /\ dep' = [q \in Rows |->
                     IF q = r THEN [node |-> n, status |-> status]
                     ELSE IF q \in old THEN [dep[q] EXCEPT !.status = "superseded"]
                     ELSE dep[q]]
        /\ newer' = Start(r)
        /\ overdue' = overdue \ {r}

Supersede(old) ==
    dep' = [q \in Rows |-> IF q \in old THEN [dep[q] EXCEPT !.status = "superseded"]
                           ELSE dep[q]]

Spend(d) ==
    /\ d \in Allowed /\ used < Budget
    /\ used' = used + 1

(***************************************************************************)
(* The deploy handlers.  Any node may be the one placement chose.          *)
(***************************************************************************)
Open(n, kind) ==
    /\ Spend(IF kind = "push" THEN "pushes" ELSE "deploys")
    /\ Insert({}, n, "building")
    /\ \E r \in Rows : dep[r] # dep'[r] /\ flight' = [flight EXCEPT ![r] = kind]
    /\ UNCHANGED <<nodes, redis, hb, tick, op>>

\* `fleet deploy`: the predecessor keeps serving unless it holds the volume.
\* startedAt is left at what it was when the row was opened, before the build.
FinishManual(r) ==
    /\ flight[r] = "manual"
    /\ dep' = [q \in Rows |->
                 IF q = r THEN [dep[q] EXCEPT !.status = "deploying"]
                 ELSE IF Stateful /\ q \in LiveRows
                      THEN [dep[q] EXCEPT !.status = "superseded"]
                 ELSE dep[q]]
    /\ flight' = [flight EXCEPT ![r] = "none"]
    /\ UNCHANGED <<newer, overdue, nodes, redis, hb, tick, op, used>>

\* A push: every predecessor is superseded, and the window starts now.
FinishPush(r) ==
    /\ flight[r] = "push"
    /\ dep' = [q \in Rows |->
                 IF q = r THEN [dep[q] EXCEPT !.status = "deploying"]
                 ELSE IF q \in LiveRows THEN [dep[q] EXCEPT !.status = "superseded"]
                 ELSE dep[q]]
    /\ newer' = Start(r)
    /\ overdue' = overdue \ {r}
    /\ flight' = [flight EXCEPT ![r] = "none"]
    /\ UNCHANGED <<nodes, redis, hb, tick, op, used>>

BuildFails(r) ==
    /\ flight[r] # "none"
    /\ dep' = [dep EXCEPT ![r].status = "failed"]
    /\ flight' = [flight EXCEPT ![r] = "none"]
    /\ UNCHANGED <<newer, overdue, nodes, redis, hb, tick, op, used>>

(***************************************************************************)
(* The heartbeat: what a node reports, and the rows promoted on it         *)
(***************************************************************************)

\* The rows the agent has verdicts for: those its last fetch named, when the
\* service has a check.
Probed(n) == IF Checked THEN agent[n].wanted ELSE {}

\* The container is up and its verdict, where there is one, is healthy.
Serves(n, r) == Up(ctr[r]) /\ (r \in Probed(n) => ctr[r] = "healthy")

Present(n) == {r \in OnNode(n) : ctr[r] # "none"}

\* A row without a container of its own is matched by service name, which finds
\* the last container of the service the node listed.
Evidence(n, r, last) == Serves(n, IF ctr[r] # "none" THEN r ELSE last)

Beat(n) ==
    /\ hb[n] = {}
    /\ heard' = heard \cup {n}
    /\ up' = (up \ OnNode(n)) \cup {r \in OnNode(n) : Up(ctr[r])}
    /\ IF Present(n) = {} THEN UNCHANGED hb
       ELSE \E last \in Present(n) :
              hb' = [hb EXCEPT ![n] = {r \in OnNode(n) :
                        dep[r].status = "deploying" /\ Evidence(n, r, last)}]
    /\ UNCHANGED <<table, flight, tick, op, nodes, used>>

PromoteHere(n, r) ==     \* seeded bug: a release on another node is let be
    /\ r \in hb[n]
    /\ dep' = [q \in Rows |->
                 IF q = r THEN [dep[q] EXCEPT !.status = "running"]
                 ELSE IF q \in LiveRows \cap OnNode(n)
                      THEN [dep[q] EXCEPT !.status = "superseded"]
                 ELSE dep[q]]
    /\ hb' = [hb EXCEPT ![n] = @ \ {r}]
    /\ UNCHANGED <<newer, overdue, flight, tick, op, nodes, redis, used>>

Promote(n, r) ==
    /\ r \in hb[n]
    /\ dep' = [q \in Rows |->
                 IF q = r THEN [dep[q] EXCEPT !.status = "running"]
                 ELSE IF q \in LiveRows THEN [dep[q] EXCEPT !.status = "superseded"]
                 ELSE dep[q]]
    /\ hb' = [hb EXCEPT ![n] = @ \ {r}]
    /\ UNCHANGED <<newer, overdue, flight, tick, op, nodes, redis, used>>

(***************************************************************************)
(* The sweeper's tick                                                      *)
(***************************************************************************)
FailStaleBuildInFlight(r) ==   \* seeded bug: the abandoned row is the one skipped
    /\ tick.pc = "idle" /\ dep[r].status = "building" /\ flight[r] # "none"
    /\ dep' = [dep EXCEPT ![r].status = "failed"]
    /\ UNCHANGED <<newer, overdue, handlers, nodes, redis, used>>

\* A build whose process died with the control plane.
FailStaleBuild(r) ==
    /\ tick.pc = "idle" /\ dep[r].status = "building" /\ flight[r] = "none"
    /\ dep' = [dep EXCEPT ![r].status = "failed"]
    /\ UNCHANGED <<newer, overdue, handlers, nodes, redis, used>>

\* seeded bug: every row that is not serving yet counts
StalledUnserved == {r \in overdue : dep[r].status \in {"building", "deploying"}}

Stalled == {r \in overdue : dep[r].status = "deploying"}

StallRead ==
    /\ tick.pc = "idle" /\ Stalled # {}
    /\ tick' = [tick EXCEPT !.pc = "judge", !.rows = Stalled]
    /\ UNCHANGED <<table, flight, hb, op, nodes, redis, used>>

StallJudgeHealthy ==   \* seeded bug: a container that is up but not healthy is left to wait
    /\ tick.pc = "judge"
    /\ LET spoke == {r \in tick.rows : dep[r].node \in heard}
       IN  tick' = [tick EXCEPT !.pc = "verdict",
                                !.rescue = {r \in spoke \cap up : ctr[r] = "healthy"},
                                !.rows = spoke \ up]
    /\ UNCHANGED <<table, flight, hb, op, nodes, redis, used>>

\* The heartbeats are read.  A silent node is evidence of nothing: its rows are
\* left alone.  A container reported running is rescued, any other row failed.
StallJudge ==
    /\ tick.pc = "judge"
    /\ LET spoke == {r \in tick.rows : dep[r].node \in heard}
       IN  tick' = [tick EXCEPT !.pc = "verdict", !.rescue = spoke \cap up,
                                !.rows = spoke \ up]
    /\ UNCHANGED <<table, flight, hb, op, nodes, redis, used>>

\* The verdicts are written by id.
Rescue(r) ==
    /\ tick.pc = "verdict" /\ r \in tick.rescue
    /\ dep' = [dep EXCEPT ![r].status = "running"]
    /\ tick' = [tick EXCEPT !.rescue = @ \ {r}]
    /\ UNCHANGED <<newer, overdue, flight, hb, op, nodes, redis, used>>

Fail(r) ==
    /\ tick.pc = "verdict" /\ r \in tick.rows
    /\ dep' = [dep EXCEPT ![r].status = "failed"]
    /\ tick' = [tick EXCEPT !.rows = @ \ {r}]
    /\ UNCHANGED <<newer, overdue, flight, hb, op, nodes, redis, used>>

VerdictsDone ==
    /\ tick.pc = "verdict" /\ tick.rows \cup tick.rescue = {}
    /\ tick' = IdleTick
    /\ UNCHANGED <<table, flight, hb, op, nodes, redis, used>>

(***************************************************************************)
(* The operator: each route reads the live rows, then writes by id         *)
(***************************************************************************)
Ask(rows, n) ==
    /\ ~op.busy /\ Spend("operations")
    /\ op' = [busy |-> TRUE, rows |-> rows, node |-> n]
    /\ UNCHANGED <<table, flight, hb, tick, nodes, redis>>

\* The newest live row is to be replaced by a copy of itself.
AskRestart == \E r \in Newest(LiveRows) : Ask({r}, dep[r].node)

AskStop == LiveRows # {} /\ Ask(LiveRows, NoNode)

\* The newest live row, if any, is to be replaced by an earlier release, named by
\* the operator or the last one superseded, on the node the live one has or else
\* the one the earlier release had.
AskRollback ==
    \E target \in {r \in Rows : dep[r].status \in Live \cup {"superseded"}} :
        IF LiveRows = {} THEN Ask({}, dep[target].node)
        ELSE \E r \in Newest(LiveRows) : Ask({r}, dep[r].node)

Answer ==
    /\ op.busy
    /\ IF op.node = NoNode THEN Supersede(op.rows) /\ UNCHANGED <<newer, overdue>>
       ELSE Insert(op.rows, op.node, "deploying")
    /\ op' = NoOperation
    /\ UNCHANGED <<flight, hb, tick, nodes, redis, used>>

(***************************************************************************)
(* The agent's reconcile pass                                              *)
(***************************************************************************)
Fetch(n) ==
    /\ agent[n].pc = "idle"
    /\ LET wanted == LiveRows \cap OnNode(n)
       IN  agent' = [agent EXCEPT ![n] =
                       [@ EXCEPT !.pc = "busy", !.wanted = wanted,
                                 !.todo = {r \in wanted : ~Up(ctr[r])},
                                 !.drop = Present(n) \ wanted]]
    /\ UNCHANGED <<table, handlers, ctr, redis, used>>

StartCtr(n, r) ==
    /\ r \in agent[n].todo
    /\ ctr' = [ctr EXCEPT ![r] = "starting"]
    /\ agent' = [agent EXCEPT ![n].todo = @ \ {r}]
    /\ UNCHANGED <<table, handlers, redis, used>>

\* A stopped container is taken down first.  Then the pull or the create fails
\* and leaves nothing, or the start fails and leaves one that was created.
StartFails(n, r) ==
    /\ r \in agent[n].todo /\ Spend("crashes")
    /\ \E c \in {"none", "exited"} : ctr' = [ctr EXCEPT ![r] = c]
    /\ agent' = [agent EXCEPT ![n].todo = @ \ {r}]
    /\ UNCHANGED <<table, handlers, redis>>

\* Removal comes after every start, and not in the first pass of a process.
RemoveCtr(n, r) ==
    /\ agent[n].pc = "busy" /\ agent[n].todo = {} /\ agent[n].settled
    /\ r \in agent[n].drop
    /\ ctr' = [ctr EXCEPT ![r] = "none"]
    /\ agent' = [agent EXCEPT ![n].drop = @ \ {r}]
    /\ UNCHANGED <<table, handlers, redis, used>>

PassEndUnsettled(n) ==   \* seeded bug: the pass does not say it has completed
    /\ agent[n].pc = "busy" /\ agent[n].todo = {}
    /\ agent[n].drop = {} \/ ~agent[n].settled
    /\ agent' = [agent EXCEPT ![n] = [@ EXCEPT !.pc = "idle", !.drop = {}]]
    /\ UNCHANGED <<table, handlers, ctr, redis, used>>

PassEnd(n) ==
    /\ agent[n].pc = "busy" /\ agent[n].todo = {}
    /\ agent[n].drop = {} \/ ~agent[n].settled
    /\ agent' = [agent EXCEPT ![n] =
                   [@ EXCEPT !.pc = "idle", !.drop = {}, !.settled = TRUE]]
    /\ UNCHANGED <<table, handlers, ctr, redis, used>>

(***************************************************************************)
(* The world                                                               *)
(***************************************************************************)

\* A release comes up, or never does.
Settles(r) ==
    /\ ctr[r] = "starting"
    /\ ctr' = [ctr EXCEPT ![r] = "healthy"]
    /\ UNCHANGED <<table, handlers, agent, redis, used>>

Crash(r) ==
    /\ Up(ctr[r]) /\ Spend("crashes")
    /\ ctr' = [ctr EXCEPT ![r] = "exited"]
    /\ UNCHANGED <<table, handlers, agent, redis>>

WindowElapses(r) ==
    /\ dep[r].status \in {"building", "deploying"} /\ r \notin overdue
    /\ overdue' = overdue \cup {r}
    /\ UNCHANGED <<dep, newer, handlers, nodes, redis, used>>

FallSilent(n) ==
    /\ n \in heard /\ Spend("silences")
    /\ heard' = heard \ {n}
    /\ up' = up \ OnNode(n)
    /\ UNCHANGED <<table, handlers, nodes>>

\* The agent process starts again: it has completed no pass and probes nothing.
AgentRestart(n) ==
    /\ Spend("upgrades")
    /\ agent' = [agent EXCEPT ![n] = [pc |-> "idle", wanted |-> {}, todo |-> {},
                                      drop |-> {}, settled |-> FALSE]]
    /\ UNCHANGED <<table, handlers, ctr, redis>>

Restart ==
    /\ Spend("restarts")
    /\ flight' = [r \in Rows |-> "none"]
    /\ hb' = [n \in Nodes |-> {}]
    /\ tick' = IdleTick /\ op' = NoOperation
    /\ UNCHANGED <<table, nodes, redis>>

-----------------------------------------------------------------------------
FirstRow == CHOOSE r \in Rows : TRUE

OlderRow == CHOOSE r \in Rows \ {FirstRow} : TRUE

\* The service has one release somewhere, healthy or down with its machine, which
\* may have replaced another there; or it was never deployed, or was stopped, or
\* had its first build taken away with the previous control-plane process.  The
\* agents have all completed a pass, or have all just started.
Init ==
    /\ \E host \in Nodes \cup {NoNode}, settled \in BOOLEAN, before \in BOOLEAN,
          found \in {"healthy", "exited"}, oldStatus \in {"superseded", "building"} :
          LET current == IF host = NoNode THEN {} ELSE {FirstRow}
              older == IF before THEN {OlderRow} ELSE {}
              oldNode == IF host = NoNode THEN CHOOSE n \in Nodes : TRUE ELSE host
          IN  /\ before => settled /\ found = "healthy"
              /\ host # NoNode => oldStatus = "superseded"
              /\ dep = [r \in Rows |->
                          IF r \in current THEN [node |-> host, status |-> "running"]
                          ELSE IF r \in older THEN [node |-> oldNode, status |-> oldStatus]
                          ELSE [node |-> NoNode, status |-> "absent"]]
              /\ newer = current \X older
              /\ ctr = [r \in Rows |-> IF r \in current THEN found ELSE "none"]
              /\ up = {r \in current : found = "healthy"}
              /\ agent = [n \in Nodes |->
                            [pc |-> "idle", todo |-> {}, drop |-> {}, settled |-> settled,
                             wanted |-> IF settled /\ n = host THEN current ELSE {}]]
    /\ overdue = {} /\ heard = Nodes /\ used = 0
    /\ flight = [r \in Rows |-> "none"] /\ hb = [n \in Nodes |-> {}]
    /\ tick = IdleTick /\ op = NoOperation

Finish(r) == FinishManual(r) \/ FinishPush(r) \/ BuildFails(r)

Heartbeat(n) == Beat(n) \/ \E r \in Rows : Promote(n, r)

Sweeper ==
    \/ StallRead \/ StallJudge \/ VerdictsDone
    \/ \E r \in Rows : FailStaleBuild(r) \/ Rescue(r) \/ Fail(r)

Reconcile(n) ==
    \/ Fetch(n) \/ PassEnd(n)
    \/ \E r \in Rows : StartCtr(n, r) \/ StartFails(n, r) \/ RemoveCtr(n, r)

Operator == AskRestart \/ AskStop \/ AskRollback

World ==
    \/ \E r \in Rows : Settles(r) \/ Crash(r)
    \/ \E n \in Nodes : FallSilent(n) \/ AgentRestart(n)
    \/ Restart

Next ==
    \/ \E n \in Nodes : Open(n, "manual") \/ Open(n, "push")
    \/ \E r \in Rows : Finish(r) \/ WindowElapses(r)
    \/ \E n \in Nodes : Heartbeat(n) \/ Reconcile(n)
    \/ Sweeper \/ Operator \/ Answer \/ World

Spec == Init /\ [][Next]_vars

\* The timer fires the tick for ever, the agents' two loops run for ever, time
\* passes, a build ends (it has a timeout) and a request is answered.  Nothing
\* obliges a container to become healthy or an operator to ask for anything.
Fairness ==
    /\ WF_vars(Sweeper) /\ WF_vars(Answer)
    /\ \A n \in Nodes : WF_vars(Heartbeat(n)) /\ WF_vars(Reconcile(n))
    /\ WF_vars(\E r \in Rows : WindowElapses(r)) /\ WF_vars(\E r \in Rows : Finish(r))

FairSpec == Spec /\ Fairness

-----------------------------------------------------------------------------
(***************************************************************************)
(* Safety                                                                  *)
(***************************************************************************)

\* A build is its handler's own: while it runs, its row is building, and no other
\* handler holds the row by id, so that the promotion, rescue, failure or
\* replacement of a row read earlier never lands on a build (deploy-progress.ts
\* writes the phases of the row without looking at its status).
BuildsUntouched ==
    \A r \in Rows :
        /\ flight[r] # "none" => dep[r].status = "building"
        /\ dep[r].status = "building" =>
              /\ r \notin tick.rows \cup tick.rescue \cup op.rows
              /\ \A n \in Nodes : r \notin hb[n] \cup agent[n].wanted

PhaseOf(status) == CASE status = "building" -> "build"
                     [] status = "deploying" -> "rollout"
                     [] status = "running" -> "serving"
                     [] OTHER -> "none"

Release == INSTANCE Releases
               WITH phase <- [r \in Rows |-> PhaseOf(dep[r].status)], due <- tick.rescue

\* Handlers that read rows and later write them by id, promotions of rows that others
\* have settled meanwhile among them, do to the releases only what module Releases
\* allows: in particular a promotion leaves one serving (agent.routes.ts), and only a
\* rescue puts one beside another (failStalledRollouts).
KeepsReleases == Release!Spec

(***************************************************************************)
(* Liveness                                                                *)
(***************************************************************************)

\* A rollout is settled one way or another: promoted, failed or replaced,
\* whatever its container does ("a row stuck in `deploying` forever is a worse
\* answer than a failed one", sweeper.ts).
RolloutResolves ==
    \A r \in Rows : dep[r].status = "deploying" ~> dep[r].status # "deploying"

\* A build is settled even if the process that ran it is gone (failStaleBuilds).
BuildResolves ==
    \A r \in Rows : dep[r].status = "building" ~> dep[r].status # "building"

\* A container whose row is no longer live is removed, unless the row is made
\* live again first: the first-pass hold of a new agent process does not last,
\* and no container outlives its deployment by being missed (reconcile.go).
Reaped ==
    \A r \in Rows :
        (r \notin LiveRows /\ ctr[r] # "none") ~> (r \in LiveRows \/ ctr[r] = "none")

(***************************************************************************)
(* Claims of the documentation that the code does not keep                 *)
(***************************************************************************)
OnlyDeploys == Allowed \subseteq {"deploys"}

\* "A deploy does not take the previous release out of service ... traffic keeps
\* reaching the release that has proved it works" (ARCHITECTURE.md, Rollouts): a
\* stateless service that was serving is serving throughout its deploys.
ServesThroughout ==
    [][OnlyDeploys /\ ~Stateful /\ (\E r \in Rows : ctr[r] = "healthy")
         => \E r \in Rows : ctr'[r] = "healthy"]_vars

\* "A replacement that never reports healthy is failed by the sweeper ... and the
\* release that works is left running.  Nothing has to be rolled back, because
\* nothing was taken away" (ARCHITECTURE.md, Rollouts): a verdict of the sweeper
\* does not leave a service that had a running release without one.
NothingTakenAway ==
    [][(\E r \in Rows : Fail(r)) /\ (\E r \in Rows : dep[r].status = "running")
         => \E r \in Rows : dep'[r].status = "running"]_vars
=============================================================================
