# Fleet OS in TLA+

Fleet OS makes a handful of machines one place to deploy services. A control
plane (`src/control-plane/src`: Fastify, Postgres, Redis) decides what runs
where; an agent on every node (`src/agent`, Go) makes Docker agree and reports
what it sees; a CLI, a dashboard and a GitHub webhook are clients of the API.

This directory models the part where order matters: handlers that are `async`
functions over one database, without locks, interleaving at every `await` with
each other, with a sweeper on a timer, and with agents that act on what they
fetched some time ago.

## 1. Inventory

### Components, their state and their operations

| Component | State it keeps | Operations |
| --- | --- | --- |
| Failure detection (`heartbeat/sweeper.ts`, `heartbeat/tracker.ts`) | a Redis sorted set and TTL key per node, `nodes.status` | read the stale set, mark offline, run the node-down path, fail abandoned builds, settle stalled rollouts |
| Rescheduling (`scheduler/reschedule.ts`) | `deployments` | hold a pinned row, strand, move |
| Reclaim (`scheduler/reclaim.ts`) | `deployments` | resume held rows, move back eagerly, place strands |
| Heartbeat intake (`api/agent.routes.ts`, `heartbeat/drift.ts`) | `nodes`, `deployments`, Redis | record, promote on evidence, report drift, recover the node, run reclaim |
| Placement (`scheduler/placement.ts`, `snapshot.ts`) | none: a snapshot in, a decision out | filter by hard constraints, score |
| Nodes (`api/fleets.routes.ts`) | `nodes`, pairing tokens | pair, cordon, uncordon, remove |
| Deploy and operator routes (`api/services.routes.ts`, `api/deploy.ts`, `api/deploy-progress.ts`) | `deployments`, progress lines in Redis | deploy, push, restart, stop, roll back, delete |
| Replicas (`scheduler/replicas.ts`) | `deployments` | count, remove the newest, place and insert |
| Node agent (`src/agent`) | containers, `settled`, probe verdicts | reconcile pass, heartbeat loop with backoff, probes |
| Backups and restores (`backup/`, `api/backups.routes.ts`, agent `internal/backup`) | `backups`, `restores`, archives | request, claim, upload, time out, prune, restore |
| Ingress (`ingress/`) | a route cache, host ports | resolve, invalidate, proxy |
| Tunnel (`tunnel/registry.ts`, agent `internal/tunnel`) | one socket per node, one map of pending requests | dial, authenticate, register, replace, ping, forward, resolve, time out, close |
| Agent upgrade (`internal/upgrade`, `cmd/agent/main.go`, `scripts/install.sh`) | the binary, the staged binary, `agent.json` | check, download, stage, remember, exit, install |
| Builds, manifests, secrets, accounts, GitHub, alerts, AI, CLI, dashboard | see `PROJECT.json` | sequential, or I/O |

### How they interact

- **One table.** Sweeper, heartbeat route, deploy handlers, operator routes and
  replica pass all write `deployments` rows *by id*, from lists read earlier.
  Nothing locks a row and almost no write looks at the status again.
- **Polling only.** The control plane never calls a node. An agent polls
  `/agent/desired-state` (rows `deploying` or `running` on that node) and, in
  another loop, posts heartbeats. What omits a row from desired state removes
  its container.
- **Evidence.** `deploying` becomes `running` when a heartbeat shows the
  container serving. The sweeper reads the same heartbeat from Redis.
- **The node-down path.** stale -> `offline` -> alert -> `rescheduleFromNode`;
  the way back is heartbeat -> `online` -> `reclaimToNode`, on the transition.
- **One tick.** Detection, rollouts, backups, stalled jobs and replicas are
  parts of the same `sweepOnce`, one after the other. For a fleet in which no node
  is stale the loop body ends at `sweeper.ts:322`, before the node-down path, the
  backups, the stalled jobs and the replicas. One agent loop reconciles and then
  runs backups and restores.
- **Side effects.** A change of placement invalidates cached routes. The removal
  of a node closes its tunnel. A staged binary ends the agent's process.

### What is hard about it

Handlers that use what they read before an await; a control plane that dies
between a state transition and the work the transition triggers (`offline`,
`online` and `building` are each written first and acted on later, and each is
written only once); a node that falls silent at any moment and comes back at any
other; an agent whose pass acts on an old answer, or whose process is new and
knows nothing; verdicts written after the evidence has changed; an upload, a
removal or a cached answer that ends after the row it is about has moved on; a
socket that is dead on one side only; two files or two tables that are one fact. `PROJECT.json`
lists each place under `hazards`, at its line.

### What would make each part correct

- *Failover and reclaim*: no accepted service is dropped; a pinned service never
  leaves its node; a row live on a dead node is dealt with; what was held or
  stranded comes back.
- *Rollout*: every rollout and every build ends; promotion needs evidence; the
  release that works is not taken away; released containers disappear.
- *Agent*: what is held for a node that is merely cut off is not removed; one
  writer per volume.
- *Replicas*: the pass never creates more than was asked for; the declared
  number is reached; extra copies go.
- *Backups*: one at a time per service, every one ends, a restorable row has its
  archive, the last good archive survives pruning, no restore under a running
  service.
- *Placement, ingress*: one node is chosen, and it may run the service; a wrong
  route does not last.
- *Tunnel*: a node that runs is reached again after anything; a dead link is
  noticed; every request ends; a removed node is not reached.
- *Upgrade*: never half a binary; no endless restarts; what is published is
  what runs in the end.

## 2. Modules

| Module | What it is |
| --- | --- |
| `Custody` | abstract: what failover promises. Each service is absent, live, held or stranded, and does not become absent again, except that a drift report begun while it was live may be written over its strand |
| `Releases` | abstract: what may become of the releases of one service, whoever acts on them |
| `Handover` | abstract: how a node's agent comes by another binary |
| `Failover` | the sweeper's node-down path, `rescheduleFromNode`, the heartbeat with its reclaim, cordon, removal, deploy |
| `FailoverProofs` | theorems about `Failover`, the refinement of `Custody` and the claims about pinned services among them |
| `Rollout` | one service: deploy handlers, evidence and promotion, stalled rollouts, operator routes, the agents' reconcile passes |
| `RolloutProofs` | types, the order of rows, that a build is left alone, the refinement of `Releases` |
| `Placement` | the pure decision: hard constraints, score, ranking |
| `PlacementProofs` | what a decision is, for any fleet |
| `Serving` | one replicated web service: the replica pass, promotions, deploys, stops, and the route cache that all of them invalidate; extends `Placement` |
| `ServingProofs` | types, what bounds the number of copies, the refinement of `Releases`, where copies are |
| `Backups` | one service's backups and restores: routes, sweeper passes, the agent's jobs, the archive directory |
| `BackupsProofs` | archives, restores and retention, for any rows and events |
| `Tunnel` | both ends of the reverse tunnels, the requests through them, and what removing a node closes |
| `TunnelProofs` | theorems about `Tunnel` |
| `Upgrade` | one agent that replaces its binary, with its supervisor and its files |
| `UpgradeProofs` | theorems about `Upgrade`, the refinement of `Handover` among them |
| `MCFailover`, `MCRollout`, `MCServing`, `MCBackups`, `MCTunnel`, `MCUpgrade` | the instances TLC is run on |

The specifications follow one rule. A step is one statement, one transaction or
one file operation; a handler that has read and not yet written is a record
holding what it read (`sweep`, `resch`, `hb`, `deploy` in `Failover`; `tick`,
`hb`, `op`, `flight`, `agent` in `Rollout`; `pass`, `hb`, `looking` in `Serving`;
`ask`, `restoring`, `removing`, `upload`, `tick`, `agent` in `Backups`). So
handlers interleave where the code awaits, and nowhere else. A restart of the
control plane empties these records and leaves tables, Redis, files and nodes
alone.

Operators marked *seeded bug* are not part of a specification: no action refers
to them. Each is a definition next to it with one plausible mistake, kept to
confirm that the property named in `PROJECT.json` does notice it.

### Failover

| State | In the code |
| --- | --- |
| `nodeStatus` | `nodes.status`; "removed" once the row is deleted |
| `dep` | `deployments`: service, node, status. "building" is the four phases before `deploying`; "stranded" is `failed` with a reason that starts with `no_eligible_node` |
| `fresh`, `reachable` | whether the Redis timestamp is inside the window; whether the agent's beats arrive |
| `sweep` | `sweepOnce`: nodes read as stale, then nodes that transitioned |
| `resch` | a running `rescheduleFromNode`, by the sweeper or the removal route: rows to do, and the row decided on with its target |
| `hb` | a heartbeat request: promotion, the drift report (what the beat calls missing, then the rows to mark), recovery, then the four parts of reclaim |
| `deploy` | the deploy handler between placement and the end of its build |

Row identities are reused once a row is finished and no handler can write to it,
so the table is finite; a table without room stops inserts, and the bounds below
leave enough room. `Eligible` keeps the hard constraints that depend on state
(status, pin, the node of a volume, RAM in units of one reservation); checks
against fixed capabilities are the relation `Suits`. The score is abstracted:
any eligible node may win.

The drift report is two steps, `ReadDrift` and `WriteDrift`, with the alerts between
them. Of what it writes, `failureReason` by id and whatever the row has become, only
one effect matters to the rest: a stranded row no longer carries the reason that
`placeStranded` selects by, and is `failed` like any other. Which services a beat
reports as missing is arbitrary (`DriftBeat`, a disturbance).

### Rollout

| State | In the code |
| --- | --- |
| `dep`, `newer`, `overdue` | the service's rows; their order by `startedAt`, as pairs; those older than the rollout window |
| `flight` | the deploy handler whose build is running, manual or push |
| `ctr` | the container of each row: none, up, up with a healthy verdict, or in another state |
| `agent` | a reconcile pass: rows wanted by the last fetch (also the probe targets), to start, to remove; `settled` |
| `heard`, `up` | the heartbeat kept in Redis: which nodes have one, which containers it reports running |
| `hb` | the rows a heartbeat request has still to promote |
| `tick` | `failStalledRollouts`: read, judged, verdicts to write |
| `op` | restart, stop or rollback between its reads and its transaction |

`Evidence` is the lookup of the heartbeat route: by deployment id, else by
service name, which finds the last container of the service that the node
listed. A container without a verdict counts as serving, and an agent has
verdicts only for what its last fetch named.

### Serving

| State | In the code |
| --- | --- |
| `row`, `newer`, `wanted` | the service's `deployments` rows; their order by `startedAt`; `services.replicas` |
| `pass` | `reconcileReplicas` between its awaits: what is missing or too much, the nodes taken, the decision not yet inserted |
| `hb`, `flight`, `stopping` | a heartbeat's promotions, a deploy that builds, a stop between its reads and its invalidation |
| `cache`, `looking` | the service's key in Redis; what a lookup has read from Postgres and not yet stored |
| `silent` | whether some node of the fleet, none of those the service may run on, is stale: without one the pass does not begin |

A decision of the pass is `place` of `Placement`, on a snapshot with the loads
that heartbeats happen to report. A superseded row that no handler will write to
is forgotten, so four identities suffice.

### Backups

| State | In the code |
| --- | --- |
| `row`, `newer`, `ticket` | the `backups` table, its order by `createdAt`, the `restores` table |
| `late` | running jobs older than the stall window: time is what it has put out of date |
| `disk` | the files under `BACKUP_DIR` |
| `ask`, `restoring`, `removing`, `upload` | route handlers between their reads and their writes |
| `tick` | the backup part of `sweepOnce`: due, insert, excess, prune, stall |
| `agent`, `ctr` | the reconcile loop: the pass, then the jobs of the poll, then the restore; the container. `agent.left`: this pass left a container running that it did not want |
| `release` | the service's rows as `requestRestore` sees them: live (`running` or `deploying`), held by failover, or stopped |
| `stale` | whether some node of the fleet is stale, which is when a tick comes to backups; it changes at any time between ticks |
| `overtaken` | no state of the code but a record of it: the restores that a release has become live under since they were asked for |

### Tunnel

| State | In the code |
| --- | --- |
| `sock` | both ends of each WebSocket, and whether the link between them carries anything |
| `reg`, `conn` | `TunnelRegistry.sockets`; `Client.conn` of each agent |
| `req`, `mail` | `TunnelRegistry.pending` with how each request ended; where its message is |
| `known`, `removal`, `late` | the `nodes` rows; what a removal has still to do; the handshakes it straddles |

### Upgrade

| State | In the code |
| --- | --- |
| `file`, `new`, `staged` | the binary, `.fleet-agent.new`, `agent.staged` |
| `disk`, `saved` | the upgrade fields of `agent.json`, and of the process |
| `published`, `optedIn` | what `SHA256SUMS` names and `/install` serves; the fleet's setting |
| `image`, `pc`, `want` | the build whose process runs; where supervisor and process are; the checksum a check has read |
| `host` | systemd (installs in `ExecStartPre`, as root) or launchd (the process installs), and whether the binary's directory can be written |


## 3. What is checked

Every behaviour contains at most `Budget` disturbances of the kinds in
`Allowed`; everything the system does by itself is unbounded. Deadlock checking
is off in every run: with the budget spent and nothing to do, the fleet is quiet
and that is a legitimate end.

| Run | Instance | Shows |
| --- | --- | --- |
| `failover_safety` | 2 nodes, a pinned database with a volume, an eager web service, 4 rows, any 2 disturbances of 6 kinds | `TypeOK`, `AtMostOneRunning`, `PinnedStaysHome`, `PinnedNeverCopied`, and `KeepsCustody`: the refinement of `Custody` |
| `failover_solo` | one node, any 2 of silence, cordon, deploy, drift report | `HeldResumes`, `StrandClears`: after an outage both services come back; `NodeDownPathRuns`: rows on a node marked down are held, moved or stranded, or the node returns |
| `rollout_live` | 2 nodes, 3 rows, any 1 disturbance of 7 kinds, agents new or not | `TypeOK`; `BuildsUntouched`: a build that runs has its row `building`, and no other handler holds that row by id; `KeepsReleases`: the refinement of `Releases`; `RolloutResolves`, `Reaped`, `BuildResolves` |
| `serving` | 3 nodes, one excluded by anti-affinity, a fourth stale or not, 4 rows, counts 1 and 2, any 1 of deploy, stop, scaling, restart | `TypeOK`; `NoOvershoot`: never more live rows than the highest count plus one per deploy; `OneRunning`: never two running copies; `KeptApart`: no copy beside a service it is to be kept apart from; `KeepsReleases`; `RouteCorrected`: a wrong cached route does not last; `ScaledBack`: extra copies go |
| `backups` | 2 backup rows, 1 restore, retention of 1, any 2 disturbances of 9 kinds, other nodes stale or not | `TypeOK`, `CompleteHasArchive`, `RestoresStopped`, `LastGoodKept`, `BackupSettles`, `RestoreSettles` |
| `tunnel` | 2 nodes, 3 sockets, 1 request, any 1 disturbance of 6 kinds | `TypeOK`, `OnlyItsOwn`, `RevokedClosed`, `OpenIsRegistered`, `RequestsEnd`, `TunnelRestored`, `DeadDropped` |
| `upgrade` | 3 builds, either supervisor, any 4 disturbances of 7 kinds | `TypeOK`, `OnlyWhole`, `StagedIsWaiting`, `HandsOver`: the refinement of `Handover`; `Settles`, `Converges` |
| `held_until_return` | one node, one silence | violated: see below |
| `one_writer` | 2 nodes, silences and deploys | violated: see below |
| `serves_throughout` | 2 nodes, one deploy | violated: see below |
| `nothing_taken_away` | 2 nodes, one deploy | violated: see below |
| `jobs_end` | 2 backup rows, a request, agent crashes | violated: see below |

**Why the bounds are enough to be interesting.**

- *Failover*: two disturbances on two nodes give every pair the code is written
  around: outage during an outage, removal or deploy during an outage, restart
  during either, and both callers of the reschedule at once. Four rows are two
  services with a predecessor and a replacement each.
- *Rollout*: three rows are a release, its replacement and one more; one
  disturbance drives a whole rollout with the sweep, the heartbeats and the
  passes in every order.
- *Serving*: two wanted copies and three nodes let the pass add, be refused by
  the constraint, and remove; the fourth row is a deploy next to them. One
  disturbance is one writer more, and the pass, three heartbeats and the lookup
  already interleave without it.
- *Backups*: two rows and a retention of one are a good archive and the backup
  that would age it out; two disturbances are, for instance, a lost answer and
  the agent restart that follows.
- *Tunnel*: three sockets are a node's link, the one that replaces it and the
  other node's; the second node is what a removal must not touch.
- *Upgrade*: three builds are staged, overtaken and published again; four
  disturbances allow two publications with a crash and a failure between them.

The properties quantify over all nodes, services, rows, jobs, sockets and
requests.

### Fairness

Only what the code schedules is fair, and only weakly:

- the sweeper (`setInterval`, which logs and swallows errors), a handler that can
  take its next step, and the two loops of an agent that is up;
- the passing of time (`Expire`, `WindowElapses`);
- in `Rollout`, the end of a build (it has a timeout) and of an operator request;
- in `Serving`, heartbeats, deploys and stop requests that have begun, the expiry of
  a cached key, and a placed copy that comes up (it is the subject that the rest of
  the system does its part); of the replica pass nothing is asked, neither that it
  begins (a fleet without a stale node has none) nor that it goes on;
- in `Backups`, the tick (which begins only while a node is stale; no node is obliged
  to be, or to stay so), the agent's loop and the handlers that have begun;
- in `Tunnel`, the client's loop, both timers, and delivery on a live link;
- in `Upgrade`, the supervisor, the installation and the check's timer.

A node need not come back, a container need not become healthy, an operator need
not act, a build need not end in `Failover`, and no request need arrive in
`Serving`. In the properties this shows as an escape ("or the node is
unreachable again").

### Claims the code does not keep

Each is a run whose property states a sentence of the repository's documents or
comments, and whose counterexample is the schedule; `PROJECT.json` quotes both
sides.

- *Held until it returns* (`held_until_return`). The sweeper marks a node
  offline, awaits its alert, and only then reads and holds. A heartbeat in
  between recovers the node and reclaims nothing. The row is then held on a node
  that is online, and only another outage would resume it.
- *One writer per volume* (`one_writer`). A deploy in flight while its node goes
  down finishes beside the row failover held; the resume makes both live there.
- *A deploy does not take the previous release out of service*
  (`serves_throughout`). Until the new container exists, the lookup by service
  name finds the old one: the new row is promoted on its predecessor's
  evidence, and the agent then removes the predecessor in the pass that starts
  the replacement.
- *Nothing was taken away* (`nothing_taken_away`). The sweeper's verdict is
  written by id. A row promoted after it was read as stalled has superseded its
  predecessor by then, and failing it leaves neither.
- *A backup whose node stops reporting is failed after thirty minutes* (`jobs_end`).
  `docs/fleet-yaml-spec.md:149` and `backup.go:78` rely on a stall sweep that
  `sweeper.ts:322` skips while no node is stale. An agent that is restarted with a
  claimed backup heartbeats again at once; the row stays `running`, and every later
  backup of the service is refused. `BackupSettles` and `RestoreSettles` hold next to
  it: they except just these lost jobs, and only while no node is stale.

### What else the models show

Behaviours reachable in the models that no text of the repository rules out, or
that a property states as its exception:

- *Backups.* The agent's client waits ten seconds (`client.go:30`): an upload
  answered later, or whose answer is lost, makes the agent report a failure, and a
  complete backup becomes `failed`. A restart between the unlink and the
  row's deletion leaves a complete row without its archive
  (`CompleteHasArchive` has that exception); a deletion that races an upload
  leaves a file without a row. A pending backup of a node that never polls blocks
  every later one.
- *Restores* are refused while a release is `running` or `deploying`, and collected
  later. A deploy in between has the container running under the extraction,
  which `backup.go:148` calls unsafe; so has, without any operator, the resume of a
  pinned release that failover held when the restore was asked for: the row is
  `deploying` once its node is back, and one poll hands the agent service and
  restore. The same goes for a poll that had listed the service just before it was
  stopped, and for a pass that leaves a container it does not want (the first of a
  new agent, which removes nothing, or one whose removal failed). `RestoresStopped`
  says that nothing else does, of each restore and each pass.
- *Drift* (`agent.routes.ts:491`). The rows read as running before the alerts are
  written by id after them. If the sweeper or a removal strands one in between, its
  reason is overwritten, `placeStranded` never finds it again, and the service stays
  down until somebody deploys it, although `reclaim.ts:173` says of a strand that it is
  retried next time. A node that comes back from a reboot with exited containers,
  while a slow sweep still acts on its absence, is enough. `KeepsCustody` and
  `StrandClears` state it as their exception, and both are violated without it.
- *Replicas.* A count above one is never met, although `replicas.ts:9` wants the
  number of running copies equal to it: the heartbeat that promotes a copy supersedes
  its sibling (`OneRunning`). While every node is online the pass does not even begin;
  with a stale node in the fleet it inserts the missing copy again each time.
- *Serving.* The scale-down reads the newest rows again after its count, so a
  promotion in between can have it supersede the last live row, and the newest
  row is the release being rolled out. `runDeploy` invalidates no route.
- *Tunnel.* The handshake of an agent that was authenticated before its node was
  removed still registers, and the socket stays until the agent's own heartbeat is
  refused. The close of a socket rejects none of its requests: only their timer
  does.
- *Upgrade.* A crash between the rename of the staged file and the save of what
  was staged lets a build that is published once more count as staged, or given
  up, though nothing waits (`StagedIsWaiting` excuses every earlier crash, failed save
  or reinstallation on that account). Under
  systemd an installation step that always fails keeps the agent down
  (`Settles` has that exception), although `main.go:90` wants a node that cannot
  upgrade to keep working. Under launchd a staged file that cannot be removed
  leaves the old image running while the check, which hashes the file, says up to
  date.


## 4. What is proved

Each theorem holds for every value of the constants, under the named assumption
of its module only (null values are no members, the parameters have their
types). TLC evaluates the assumptions on every run of the module.

| Module | Theorem | Says |
| --- | --- | --- |
| `FailoverProofs` | `TypeCorrect` | `Spec => []TypeOK` |
| | `OneRunning` | `Spec => []AtMostOneRunning` |
| | `Invariance` | `Spec => []IInv` |
| | `PinnedStays` | `Spec => []PinnedStaysHome` |
| | `CustodyKeeps` | `Spec => KeepsCustody`, that is, `Failover` implements `Custody` |
| | `PinnedNotCopied` | `Spec => PinnedNeverCopied` |
| `PlacementProofs` | `OneDecision` | `place` never chooses two nodes: any fleet, any service, any order of ids |
| `RolloutProofs` | `RolloutTypes` | `Spec => []TypeOK` |
| | `Untouched` | `Spec => []BuildsUntouched` |
| | `RolloutKeepsReleases` | `Spec => KeepsReleases`, that is, `Rollout` implements `Releases` |
| | `OnlyRescuesDouble` | only a rescue takes the running releases from at most one to two |
| `ServingProofs` | `PassBounded` | `Spec => []NoOvershoot` |
| | `ServingTypes` | `Spec => []TypeOK` |
| | `ServingKeepsReleases` | `Spec => KeepsReleases`: `Serving` implements `Releases` without its rescue |
| | `NeverTwo` | `Spec => []OneRunning` |
| | `CopiesWellPlaced` | `Spec => []WellPlaced`: each copy is where its hard constraints allow it |
| | `ServingKeptApart` | `Spec => []KeptApart` |
| `BackupsProofs` | `RestorableIsThere` | `Spec => []CompleteHasArchive` |
| | `ExtractedAtRest` | `Spec => []RestoresStopped` |
| | `BackupTypes` | `Spec => []TypeOK` |
| | `LastGoodStays` | `Spec => LastGoodKept` |
| `TunnelProofs` | `TunnelTypes` | `Spec => []TypeOK` |
| | `OnlyOwn` | `Spec => []OnlyItsOwn` |
| | `Revoked` | `Spec => []RevokedClosed` |
| | `OpenRegistered` | `Spec => []OpenIsRegistered` |
| `UpgradeProofs` | `UpgradeTypes` | `Spec => []TypeOK` |
| | `WholeOnly` | `Spec => []OnlyWhole` |
| | `WaitingIsStaged` | `Spec => []StagedIsWaiting` |
| | `UpgradeHandsOver` | `Spec => HandsOver`, that is, `Upgrade` implements `Handover` |

**Failover.** Which row a step may write depends on what its handler read
earlier, so the properties are not inductive by themselves. `IInv` adds what
keeps those readings true until they are used:

- `HandledRows`: a row a handler will write to is still a real row and no build,
  since its identity is not reused while referenced. Without it a hold or a
  resume by id could hit another service's row.
- `RowsNamed`, `HoldsFit`: rows name a service; only pinned services are held and
  only the others stranded, which are the two guards of `Custody`.
- `DecisionsFit`: what was decided and not yet written respects the pin. It is
  why a pinned service stays home although decision and insert are apart.
- `InCustody`: a row a reschedule still has to deal with belongs, if its service is
  pinned, to one that is live or held. It is why a hold by id refines a step of
  `Custody`, whatever another handler did to the row in between. Of the others no such
  thing holds, as a drift report may have lost them, and none is needed: the strand
  that is due puts them back.

`AtMostOneRunning` rests on one observation (`Writers`, `CutoverEffects`): the
cutover of a heartbeat is the only step that writes `running`, and it supersedes
every other live row of the service in its transaction.

The step lemmas have one case per action. They first reduce each action to one
of five effects on the table (a status by id, an insert, a replacement, a
cutover, a drift report's overwriting of strands), and each conjunct is then proved
once per effect. The refinement `CustodyOf` reads the first non-empty class of a
service's rows in the order live, held, stranded, and `reported` is the services of the
rows a drift report has read (`DriftServices`). `NextCustody` shows every step to be a
`Revive`, `Hold`, `Strand`, `Report` or `Lose` of it, or a stutter: what a report
names was live when it was read (`DriftReported`), only its end writes
(`DriftWritten`), and no other step changes the set (`DriftStays`).

`PinnedNeverCopied` is about copies made *at home*, which `PinnedStaysHome` allows.
Two steps could make one. An eager reclaim inserts a row for whatever it read as
live elsewhere, and a pinned row is "elsewhere" once its node reference is null; a
resume sets a row to `deploying` by id, whatever it has become. `Pins` excludes
both: a pinned row loses its node only with its home (`PinnedHomeless`), so a request
that holds one to reclaim is of a removed node, and its insert fails on the foreign
key (`PinnedHeld`); a row to be resumed is still held, because it is pinned, its home is
the node of the request, a node has one request, and nothing else writes to a held row
of a pinned service (`HeldStays`). A late placement is never of a pinned service
(`LateUnpinned`), since only unpinned ones are stranded.

**Serving.** `NoOvershoot` counts what is live; its invariant (`Room`) adds what
is on the way: the copies a pass has counted as missing (`Coming`) and the build
in flight (`Building`). Together they stay under the highest count plus the
deploys. The step that could break it is a promotion by id, which makes a row
live again that was superseded after the heartbeat read it; it leaves one live
row, and as a pass only adds where something was live, what it will add is less
than the count (`Coming < n`). That is why the test for an empty list in
`replicas.ts` is part of the argument.

**Backups.** `Archives` extends `CompleteHasArchive` to rows whose upload is
about to commit: the archive is written first, and nothing inserts a row anew
while its upload is under way. `Restores` follows
`overtaken`: of a service that is live, or that the poll under way has listed, every
restore in flight is overtaken, and so is the one that is being asked for; hence the
one handed out in the same poll with a service to be started, and, past the reconcile
of the pass, the one at hand while a container runs that the pass did not leave.

`LastGoodKept` needs three facts more. `Ordered` says that of any rows one is the
newest, so retention, which counts the newer complete rows, never picks all of
them; it is carried along by inserts and deletions instead of being derived.
`Retained` keeps that true from the read to the last deletion: what is doomed is
complete, and is not all that is. `Queue` is about the one other writer that could
take an archive away, the agent's report of a failure: a job in its hands is not
complete while every upload is answered, because only the upload it waits for can
complete it, and the answer ends the job.

`KeepsReleases` maps `building`, `deploying` and `running` to the phases of
`Releases` and every other status to none; what is `due` for a rescue is empty, as
one service that stays in its window has none. In `Releases` a cutover leaves one
release serving, and without a rescue nothing else makes one serve: `NeverTwo`
follows from that alone (`OneServingKept`). It is also why a declared count above
one is not reached: the promotion of a replica *is* a cutover.

`WellPlaced` is inductive although a copy is inserted after it was chosen: of the
constraints only the memory one can change in between, and a choice made with
this service's own copies counted is also right for the fleet without them
(`CommittedRejects`). Status, labels and the other services stand still in this
module. `KeptApart` is its `anti_affinity` part, and holds for either direction of the declaration because `Conflicts` looks at both. The
assumption it needs is that the nodes are snapshots with numbers for memory
(`ServingAssumption`), which are what `fleetSnapshot` returns.

`ServingTypes` needs one part more (`Sound`): the rows that handlers name by id
are no builds, and a row a heartbeat is going to promote has not been forgotten.

**Rollout.** What a handler names by id must exist and must not be a build when
it writes (`NamedExist`, `BuildsUntouched`). Rows enter a handler only from reads
of `deploying` and live rows, a row becomes `building` only when it is inserted,
and an insert takes an identity that nothing names and nothing builds; `InOrder`,
that of any rows one is the newest, is carried along as in `Backups`.

`KeepsReleases` relates every write to the rows to one step of `Releases`: opening,
rolling (which may end what was alive), cutover, rescue, ending, abandoning. What
is written by id may have been settled by others meanwhile; the refinement says that
it is no build, and that it does not matter what else it was: a cutover revives what
was superseded and ends everything else alive. `due` is what the sweeper has judged
worth a rescue. From the refinement alone, `OnlyRescuesDouble` concludes that two
releases serve at once only from a rescue on, which writes one of those rows; a
rescue next to a running release is reachable in `Rollout`, and the next cutover
ends it.

**Placement.** Two nodes do not outrank each other (`OutranksAsymmetric`), which
needs the score to be a number for every node (`ScoreIsInt`), one without memory
or over-committed included.

**Tunnel.** The inductive invariant adds to the properties the shape of a removal
(what it has still to do, and that the row has gone before the tunnel is closed:
`RemovalShape`), that a socket is open at the client only after the server
upgraded it (`Handshakes`), that whatever waits or travels names a node
(`Addressed`), and that every handshake of a removed node was counted when its
tunnel was closed (`LateHandshakes`). `RevokedClosed` follows because `Register`
is the only step that makes a socket a node's, and `Authenticate` needs the row.
`OpenIsRegistered` rests on three places agreeing: `register` shuts what it
displaces, `close` shuts what it deregisters, and a close event deregisters only the
socket it is about (`OpenKept`).

**Upgrade.** `Steps` says what each step of an installation and of a check knows
of the files (what is renamed is what is staged; what is recorded is what was
asked for), which makes `OnlyWhole` inductive. `Memory` says that what was staged
last either waits still or has become the binary, and that process and file
agree on it, unless a crash, a failed save or a reinstallation came in between;
that is `StagedIsWaiting` at the moment a check decides. The refinement of
`Handover` maps the rename to its `Install` and the removal to its `Clear`, for
which `Steps` has what is needed: what is renamed is what waits, and what is removed
is what the binary already is. Copies that were cut short are stutters.

**Only model-checked.** All liveness, which needs fairness and `ENABLED` and is
out of the proof system's reach. Every type invariant, safety invariant,
safety action property and refinement of a passing run is a theorem. That some node is
chosen whenever one is eligible needs an induction over the eligible nodes, and is not
proved. No module uses a recursive
operator. The order of a table (`startedAt`, `createdAt`) is the set of pairs
`newer`, not a sequence: that a row is the newest of some rows is then a matter
of membership, and no induction over a sequence is needed.

## 5. What the models leave out

- `Failover` has no `failStalledRollouts`. A rescue promotes by id without
  superseding the running release, so `AtMostOneRunning` and `KeepsCustody` are
  claims about fleets in which no rollout outlasts its window; `Rollout` has the
  rest: what it states of two releases that serve at once is `KeepsReleases`
  and `OnlyRescuesDouble`.
- The startup grace of the sweeper: detection in the model is always on, which
  allows more behaviours than the code. The clocks that detection, abandoned
  builds and sessions compare are events, not numbers.
- `placeStranded` reads strands and live rows in two statements; the model reads
  them in one. A node has one heartbeat request in flight, as the agent waits
  for its answer; a request abandoned by the agent's timeout may still run in
  the code.
- A heartbeat that finds nothing to do is not a step in `Failover`.
- `failStaleBuilds` never meets a build that is still running. That is what its
  comment claims (the window is the build timeout plus a minute); the probes of
  buildx before a build have timeouts of their own, so the claim can fail.
- `Rollout` has one service with a published port, which the agent probes itself
  (an internal service has Docker's verdict from the start), so host ports and
  RAM play no part. Nodes stay online; a healthy container stays so until it
  exits; rollback targets are releases that were live at some time (a release
  failed by the sweeper can also be named in the code).
- `Serving` has one stateless service on nodes that stay online (which other nodes of
  the fleet do not); a proxied request and its host port are not in it. The other
  services stand still, so `KeptApart` is about one decision and either direction of
  the rule, not about two decisions from one snapshot.
- `Backups` has one pinned service on one node, whose Docker daemon answers: when a
  pass fails as a whole, the loop skips the jobs, and they wait. Failover is its
  effect on the release, held and resumed at any time; a deploy is the moment its row
  becomes `deploying`.
- `Tunnel` has no request bodies: a client that goes away in the middle of one,
  and messages of more than one frame, are not in it.
- `Upgrade` has hosts with systemd or launchd. Its other branches, a background
  process on Windows or by hand, start nothing again once the process has ended to
  be replaced, and are not in it. There is one temporary download, which is removed
  by its `defer` or never looked at again, so it is not a variable.
- Alerts, audit rows, placement events, failure wording, metrics.

### Not modelled

- *Accounts, sessions, e-mail tokens, the janitor*: they share no state with
  scheduling. Their one hazard of two actors, a deletion cancelled after a run
  has read it, is listed.
- *Manifest parsing, secrets*: sequential, one transaction or one
  request, and covered by unit tests. The count a sync writes is in `Serving`.
- *Builds, the Docker client, GitHub, alert delivery, AI assistance*: process and
  network I/O. A build is the time between two steps of `Failover` and
  `Rollout`; an alert is the await between marking a node and acting on it.
- *CLI, dashboard, website*: clients of the API without fleet state. They are
  most of the repository's lines, and no behaviour of theirs interleaves with
  anything.

## 6. What comes next

1. An agent under a partition, composed with the node status of `Failover`: a
   poll that lands before the heartbeat that resumes a held row.
2. Host ports: chosen from live rows and written later, by concurrent handlers.
3. Detection with its clocks: startup grace, uncordon, the Postgres fallback
   timestamp, a slow build against `failStaleBuilds`.
4. Account deletion and single-use tokens.
