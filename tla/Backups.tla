------------------------------ MODULE Backups ------------------------------
(***************************************************************************)
(* Backups and restores of one service's volume: the routes that ask for   *)
(* and delete them (api/backups.routes.ts over backup/store.ts), the       *)
(* sweeper's schedule, retention and stall passes (backup/schedule.ts,     *)
(* heartbeat/sweeper.ts), and the node's side of the exchange              *)
(* (agent/internal/backup, run by the reconcile loop of main.go).          *)
(*                                                                         *)
(* A step is one statement, one file operation or one side of a request;   *)
(* what a handler has read is kept until it is used.  The service is       *)
(* pinned: failover holds its release while its node is away and resumes   *)
(* it afterwards.  An archive is its backup's id, and time is what it has  *)
(* put out of date: jobs past the stall window.                            *)
(***************************************************************************)
EXTENDS Naturals, FiniteSets, Sequences

CONSTANTS
    Ids,        \* row identities of the backups table
    Tickets,    \* row identities of the restores table
    None,       \* no row
    Keep,       \* archives a scheduled service keeps
    Allowed,    \* the kinds of event a behaviour may contain
    Budget      \* and how many of them in all

Events == {"asks", "deletes", "restores", "operations", "outages", "losses", "faults",
           "crashes", "restarts"}

ASSUME BackupAssumption ==
    /\ None \notin Ids \cup Tickets /\ Ids # {} /\ IsFiniteSet(Ids)
    /\ Keep \in Nat \ {0}
    /\ Allowed \subseteq Events /\ Budget \in Nat

VARIABLES
    row,       \* the backups table
    newer,     \* pairs of its rows, the first with the later createdAt
    ticket,    \* the restores table
    late,      \* running jobs of either kind started longer ago than the stall window
    release,   \* the service's release: stopped, live (running or deploying), or held
    stale,     \* some node of the fleet is: its heartbeats have stopped for a window
    overtaken, \* restores that a release has come back under; None, the one being asked for
    disk,      \* the archives in BACKUP_DIR
    ask,       \* the operator's backup request, between its reads and its insert
    restoring, \* the operator's restore request, likewise: the backup it names
    removing,  \* the deletions in progress, the operator's and the tick's
    upload,    \* the handler of each backup's upload
    tick,      \* the sweeper's tick
    agent,     \* the pass of the node's reconcile loop
    ctr,       \* the service's container is running on the node
    used       \* the events that have happened

vars == <<row, newer, ticket, late, release, stale, overtaken, disk, ask, restoring,
          removing, upload, tick, agent, ctr, used>>
backupTable == <<row, newer>>
around == <<release, stale, overtaken>>
tables == <<backupTable, ticket, late, around>>
handlers == <<ask, restoring, removing, upload, tick>>
node == <<agent, ctr>>

Status == {"absent", "pending", "running", "complete", "failed"}

InFlight == {"pending", "running"}

Removers == {"operator", "tick"}

Idle == [pc |-> "idle", jobs |-> <<>>, ticket |-> None, wanted |-> FALSE,
         settled |-> FALSE, left |-> FALSE]

NoRemoval == [pc |-> "none", id |-> None, stored |-> FALSE]

IdleTick == [pc |-> "idle", rows |-> {}]

Present(i) == row[i].status # "absent"

\* Only rows of the table are ordered, and of any of them one is the newest.
Ordered ==
    /\ \A p \in newer : Present(p[1]) /\ Present(p[2]) /\ <<p[2], p[1]>> \notin newer
    /\ \A S \in SUBSET {i \in Ids : Present(i)} : S # {} =>
          \E i \in S : \A j \in S \ {i} : <<i, j>> \in newer

\* The kinds of event that a property makes an exception of: which of them happened is
\* remembered, of any other only that one did.
Excepted == {"deletes", "losses", "restarts"}

TypeOK ==
    /\ row \in [Ids -> [status : Status, stored : BOOLEAN]]
    /\ newer \subseteq Ids \X Ids /\ Ordered
    /\ ticket \in [Tickets -> [status : Status, backup : Ids \cup {None}]]
    /\ late \subseteq Ids \cup Tickets /\ disk \subseteq Ids
    /\ release \in {"stopped", "live", "held"} /\ overtaken \subseteq Tickets \cup {None}
    /\ {stale, ask, ctr} \subseteq BOOLEAN
    /\ restoring \in Ids \cup {None}
    /\ removing \in [Removers -> [pc : {"none", "unlink", "drop"},
                                  id : Ids \cup {None}, stored : BOOLEAN]]
    /\ upload \in [Ids -> {"none", "write", "commit"}]
    /\ tick \in [pc : {"idle", "due", "insert", "excess", "prune", "stall"},
                 rows : SUBSET Ids]
    /\ agent \in [pc : {"idle", "poll", "reconcile", "backups", "archive", "upload",
                        "sent", "report", "extract", "confirm", "refuse"},
                  jobs : Seq(Ids), ticket : Tickets \cup {None},
                  wanted : BOOLEAN, settled : BOOLEAN, left : BOOLEAN]
    /\ \A t \in Tickets : ticket[t].backup # None => row[ticket[t].backup].status # "absent"
    /\ used \subseteq (Excepted \cup {"other"}) \X Nat

-----------------------------------------------------------------------------
Complete == {i \in Ids : row[i].status = "complete"}

BackupInFlight == \E i \in Ids : row[i].status \in InFlight

RestoreInFlight == \E t \in Tickets : ticket[t].status \in InFlight

Live == release = "live"

\* At most Budget events, each of an allowed kind.
Spend(kind) ==
    /\ kind \in Allowed /\ Cardinality(used) < Budget
    /\ LET kept == IF kind \in Excepted THEN kind ELSE "other"
       IN  used' = used \cup {<<kept, Cardinality({u \in used : u[1] = kept})>>}

\* Row identities that nothing refers to any more.
FreeIds ==
    {i \in Ids : ~Present(i)} \ (disk \cup {restoring} \cup tick.rows
        \cup {i \in Ids : upload[i] # "none"}
        \cup {agent.jobs[k] : k \in DOMAIN agent.jobs}
        \cup {removing[w].id : w \in Removers})

FreeTickets == {t \in Tickets : ticket[t].status \notin InFlight} \ {agent.ticket}

\* An insert to come finds an identity: the bound on rows stops no handler.
Room == Cardinality(FreeIds) > Cardinality({w \in Removers :
            IF w = "tick" THEN tick.pc = "insert" ELSE ask})

InsertBackup ==
    \E i \in FreeIds :
        /\ i = CHOOSE j \in FreeIds : TRUE
        /\ row' = [row EXCEPT ![i] = [status |-> "pending", stored |-> FALSE]]
        /\ newer' = newer \cup {i} \X {j \in Ids : Present(j)}

(***************************************************************************)
(* Requests of the operator                                                *)
(***************************************************************************)

\* requestBackup: refused without a live release or with a backup in flight.
Ask ==
    /\ ~ask /\ Live /\ ~BackupInFlight /\ Room
    /\ Spend("asks")
    /\ ask' = TRUE
    /\ UNCHANGED <<tables, disk, restoring, removing, upload, tick, node>>

AskInsert ==
    /\ ask
    /\ InsertBackup
    /\ ask' = FALSE
    /\ UNCHANGED <<ticket, late, around, disk, restoring, removing, upload, tick, node, used>>

\* The answer to a poll that is under way has listed the service already.
Listed == agent.pc = "poll" /\ agent.wanted

AskRestoreLive(i) ==   \* seeded bug: a service that runs is restored all the same
    /\ restoring = None
    /\ row[i].status = "complete" /\ row[i].stored
    /\ ~RestoreInFlight
    /\ Spend("restores")
    /\ restoring' = i
    /\ overtaken' = IF Listed THEN overtaken \cup {None} ELSE overtaken \ {None}
    /\ UNCHANGED <<backupTable, ticket, late, release, stale, disk, ask, removing, upload,
                   tick, node>>

\* requestRestore: refused while a release is live or a restore is in flight.
AskRestore(i) ==
    /\ restoring = None
    /\ row[i].status = "complete" /\ row[i].stored
    /\ ~Live /\ ~RestoreInFlight
    /\ Spend("restores")
    /\ restoring' = i
    /\ overtaken' = IF Listed THEN overtaken \cup {None} ELSE overtaken \ {None}
    /\ UNCHANGED <<backupTable, ticket, late, release, stale, disk, ask, removing, upload,
                   tick, node>>

\* The insert, which the foreign key refuses if the backup is gone.
RestoreInsert ==
    /\ restoring # None
    /\ IF Present(restoring)
       THEN \E t \in FreeTickets :
              /\ ticket' = [ticket EXCEPT ![t] = [status |-> "pending",
                                                  backup |-> restoring]]
              /\ late' = late \ {t}
              /\ overtaken' = (overtaken \ {t, None})
                                \cup (IF None \in overtaken THEN {t} ELSE {})
       ELSE UNCHANGED <<ticket, late, overtaken>>
    /\ restoring' = None
    /\ UNCHANGED <<backupTable, release, stale, disk, ask, removing, upload, tick, node,
                   used>>

Delete(i) ==
    /\ removing["operator"].pc = "none" /\ Present(i)
    /\ Spend("deletes")
    /\ removing' = [removing EXCEPT !["operator"] =
                      [pc |-> "unlink", id |-> i, stored |-> row[i].stored]]
    /\ UNCHANGED <<tables, disk, ask, restoring, upload, tick, node>>

\* deleteBackup: the archive the row named when it was read, then the row, and
\* with the row every restore of it.
Unlink(w) ==
    /\ removing[w].pc = "unlink"
    /\ disk' = IF removing[w].stored THEN disk \ {removing[w].id} ELSE disk
    /\ removing' = [removing EXCEPT ![w].pc = "drop"]
    /\ UNCHANGED <<tables, ask, restoring, upload, tick, node, used>>

DropAlone(w) ==   \* seeded bug: the restores of the backup stay
    /\ removing[w].pc = "drop"
    /\ LET gone == removing[w].id
       IN  /\ row' = [row EXCEPT ![gone] = [status |-> "absent", stored |-> FALSE]]
           /\ newer' = {p \in newer : gone \notin {p[1], p[2]}}
           /\ late' = late \ {gone}
    /\ removing' = [removing EXCEPT ![w] = NoRemoval]
    /\ UNCHANGED <<around, ticket, disk, ask, restoring, upload, tick, node, used>>

Drop(w) ==
    /\ removing[w].pc = "drop"
    /\ LET gone == removing[w].id
           orphans == {t \in Tickets : ticket[t].backup = gone}
       IN  /\ row' = [row EXCEPT ![gone] = [status |-> "absent", stored |-> FALSE]]
           /\ newer' = {p \in newer : gone \notin {p[1], p[2]}}
           /\ ticket' = [t \in Tickets |->
                           IF t \in orphans THEN [status |-> "absent", backup |-> None]
                           ELSE ticket[t]]
           /\ late' = late \ ({gone} \cup orphans)
    /\ removing' = [removing EXCEPT ![w] = NoRemoval]
    /\ UNCHANGED <<around, disk, ask, restoring, upload, tick, node, used>>

\* A release becomes live: the restores in flight are none the wiser.
ComeBack ==
    /\ release' = "live"
    /\ overtaken' = overtaken \cup {t \in Tickets : ticket[t].status \in InFlight}
                        \cup (IF restoring # None THEN {None} ELSE {})

\* Placement wants the node online, and the node of a held release is not.
Deploy ==
    /\ release = "stopped" /\ Spend("operations")
    /\ ComeBack
    /\ UNCHANGED <<backupTable, ticket, late, stale, disk, handlers, node>>

\* By the operator, or by the sweeper's verdict on a rollout.
Stop ==
    /\ Live /\ Spend("operations")
    /\ release' = "stopped"
    /\ UNCHANGED <<backupTable, ticket, late, stale, overtaken, disk, handlers, node>>

(***************************************************************************)
(* Failover of the service's own node.  What its heartbeats miss says      *)
(* nothing of its polls, which are a loop of their own.                    *)
(***************************************************************************)

\* rescheduleFromNode holds a pinned release; neither `running` nor `deploying` now.
Hold ==
    /\ Live /\ Spend("outages")
    /\ release' = "held"
    /\ UNCHANGED <<backupTable, ticket, late, stale, overtaken, disk, handlers, node>>

\* reclaimToNode sets it to `deploying` again.
Resume ==
    /\ release = "held"
    /\ ComeBack
    /\ UNCHANGED <<backupTable, ticket, late, stale, disk, handlers, node, used>>

(***************************************************************************)
(* The sweeper's tick                                                      *)
(***************************************************************************)

\* The pass over a fleet goes on to backups only if some node in it is stale:
\* `if (!allStale.length) continue` (sweeper.ts).
TickStart ==
    /\ tick.pc = "idle" /\ stale
    /\ tick' = [tick EXCEPT !.pc = "due"]
    /\ UNCHANGED <<tables, disk, ask, restoring, removing, upload, node, used>>

\* runDueBackups, when the interval since the last attempt may have passed or
\* not.  A refusal by requestBackup is swallowed.
DueRead ==
    /\ tick.pc = "due"
    /\ \/ Live /\ ~BackupInFlight /\ Room /\ tick' = [tick EXCEPT !.pc = "insert"]
       \/ tick' = [tick EXCEPT !.pc = "excess"]
    /\ UNCHANGED <<tables, disk, ask, restoring, removing, upload, node, used>>

DueInsert ==
    /\ tick.pc = "insert"
    /\ InsertBackup
    /\ tick' = [tick EXCEPT !.pc = "excess"]
    /\ UNCHANGED <<ticket, late, around, disk, ask, restoring, removing, upload, node, used>>

Newer(i, S) == {j \in S : <<j, i>> \in newer}

ExcessOfAll ==   \* seeded bug: failed and waiting backups count towards the limit
    {i \in Complete : Cardinality(Newer(i, {j \in Ids : Present(j)})) >= Keep}

\* Only complete rows count: those past the Keep newest, oldest first.
Excess == {i \in Complete : Cardinality(Newer(i, Complete)) >= Keep}

PruneRead ==
    /\ tick.pc = "excess"
    /\ tick' = [pc |-> "prune", rows |-> Excess]
    /\ UNCHANGED <<tables, disk, ask, restoring, removing, upload, node, used>>

\* Each excess row is read again in full, and deleted if it is still there.
PruneLoad(i) ==
    /\ tick.pc = "prune" /\ i \in tick.rows /\ removing["tick"].pc = "none"
    /\ tick' = [tick EXCEPT !.rows = @ \ {i}]
    /\ removing' = IF Present(i)
                   THEN [removing EXCEPT !["tick"] =
                           [pc |-> "unlink", id |-> i, stored |-> row[i].stored]]
                   ELSE removing
    /\ UNCHANGED <<tables, disk, ask, restoring, upload, node, used>>

PruneDone ==
    /\ tick.pc = "prune" /\ tick.rows = {} /\ removing["tick"].pc = "none"
    /\ tick' = [tick EXCEPT !.pc = "stall"]
    /\ UNCHANGED <<tables, disk, ask, restoring, removing, upload, node, used>>

FailLatePending(table) ==   \* seeded bug: the job nobody claimed is the one failed
    [j \in DOMAIN table |-> IF j \in late /\ table[j].status = "pending"
                           THEN [table[j] EXCEPT !.status = "failed"] ELSE table[j]]

FailLate(table) ==
    [j \in DOMAIN table |-> IF j \in late /\ table[j].status = "running"
                           THEN [table[j] EXCEPT !.status = "failed"] ELSE table[j]]

FailStalledBackups ==   \* seeded bug: restores are forgotten
    /\ tick.pc = "stall"
    /\ row' = FailLate(row)
    /\ tick' = IdleTick
    /\ UNCHANGED <<newer, ticket, late, around, disk, ask, restoring, removing, upload, node,
                   used>>

\* failStalledBackups, then failStalledRestores.
FailStalled ==
    /\ tick.pc = "stall"
    /\ row' = FailLate(row) /\ ticket' = FailLate(ticket)
    /\ tick' = IdleTick
    /\ UNCHANGED <<newer, late, around, disk, ask, restoring, removing, upload, node, used>>

(***************************************************************************)
(* The node: one goroutine polls, reconciles, backs up and restores        *)
(***************************************************************************)
Go(pc) == agent' = [agent EXCEPT !.pc = pc]

\* ORDER BY createdAt, with a limit: a sequence of the k oldest rows in S.
Oldest(S, k) == {i \in S : Cardinality({j \in S : <<i, j>> \in newer}) < k}

InTurn(S) == {jobs \in [1..Cardinality(S) -> S] :
                 \A a, b \in DOMAIN jobs : a < b => <<jobs[b], jobs[a]>> \in newer}

\* Desired state: the live rows are read first, the jobs in later statements.
PollRows ==
    /\ agent.pc = "idle"
    /\ agent' = [agent EXCEPT !.pc = "poll", !.wanted = Live, !.left = FALSE]
    /\ UNCHANGED <<tables, disk, handlers, ctr, used>>

PollJobs ==
    /\ agent.pc = "poll"
    /\ LET tickets == {t \in Tickets : ticket[t].status = "pending"}
       IN  \E jobs \in InTurn(Oldest({i \in Ids : row[i].status = "pending"}, 3)) :
             agent' = [agent EXCEPT !.pc = "reconcile", !.jobs = jobs,
                         !.ticket = IF tickets = {} THEN None
                                    ELSE CHOOSE t \in tickets : TRUE]
    /\ UNCHANGED <<tables, disk, handlers, ctr, used>>

\* The pass is over; `left` is a container it leaves that was not wanted.
Passed(left) == agent' = [agent EXCEPT !.pc = "backups", !.wanted = FALSE, !.settled = TRUE,
                                       !.left = left]

\* A container that is wanted is started; one that is not is removed, except in
\* the first pass of a process.
Reconcile ==
    /\ agent.pc = "reconcile"
    /\ LET left == ctr /\ ~agent.wanted /\ ~agent.settled
       IN  ctr' = (agent.wanted \/ left) /\ Passed(left)
    /\ UNCHANGED <<tables, disk, handlers, used>>

\* A start or a removal that fails leaves things as they are; the jobs go ahead.
ReconcileFails ==
    /\ agent.pc = "reconcile" /\ ctr # agent.wanted /\ Spend("faults")
    /\ Passed(ctr)
    /\ UNCHANGED <<tables, disk, handlers, ctr>>

Job == Head(agent.jobs)

NextJob == agent' = [agent EXCEPT !.pc = "backups", !.jobs = Tail(@)]

\* markRunning touches only a pending row; any row there is answers ok.
Claim ==
    /\ agent.pc = "backups" /\ agent.jobs # <<>>
    /\ row' = IF row[Job].status = "pending"
              THEN [row EXCEPT ![Job].status = "running"] ELSE row
    /\ Go(IF Present(Job) THEN "archive" ELSE "report")
    /\ UNCHANGED <<newer, ticket, late, around, disk, handlers, ctr, used>>

Archive ==
    /\ agent.pc = "archive"
    /\ \/ Go("upload") /\ UNCHANGED used
       \/ Go("report") /\ Spend("faults")
    /\ UNCHANGED <<tables, disk, handlers, ctr>>

\* The upload reaches its handler, which finds the row or answers 404; or it
\* never does.
Send ==
    /\ agent.pc = "upload"
    /\ IF Present(Job) THEN upload' = [upload EXCEPT ![Job] = "write"] /\ Go("sent")
       ELSE Go("report") /\ UNCHANGED upload
    /\ UNCHANGED <<tables, disk, ask, restoring, removing, tick, ctr, used>>

WriteArchive(i) ==
    /\ upload[i] = "write"
    /\ disk' = disk \cup {i}
    /\ upload' = [upload EXCEPT ![i] = "commit"]
    /\ UNCHANGED <<tables, ask, restoring, removing, tick, node, used>>

Awaited(i) == agent.pc = "sent" /\ Job = i

CommitUnwritten(i) ==   \* seeded bug: the row is completed while the archive is being written
    /\ upload[i] = "write" /\ Present(i)
    /\ row' = [row EXCEPT ![i] = [status |-> "complete", stored |-> TRUE]]
    /\ upload' = [upload EXCEPT ![i] = "none"]
    /\ IF Awaited(i) THEN NextJob ELSE UNCHANGED agent
    /\ UNCHANGED <<newer, ticket, late, around, disk, ask, restoring, removing, tick,
                   ctr, used>>

\* The row completes whatever its status is by now; a row that is gone makes the
\* handler throw.  The agent hears of it if it is still waiting.
Commit(i) ==
    /\ upload[i] = "commit"
    /\ row' = IF Present(i) THEN [row EXCEPT ![i] = [status |-> "complete", stored |-> TRUE]]
              ELSE row
    /\ upload' = [upload EXCEPT ![i] = "none"]
    /\ IF ~Awaited(i) THEN UNCHANGED agent
       ELSE IF Present(i) THEN NextJob ELSE Go("report")
    /\ UNCHANGED <<newer, ticket, late, around, disk, ask, restoring, removing, tick,
                   ctr, used>>

\* No answer: the request was lost, or the client's ten seconds ran out with the
\* handler still at work, or the control plane went away.
Unanswered ==
    /\ \/ agent.pc \in {"backups", "upload"} /\ agent.jobs # <<>> /\ Spend("losses")
       \/ agent.pc = "sent" /\ Spend("losses")
       \/ agent.pc = "sent" /\ upload[Job] = "none" /\ UNCHANGED used
    /\ Go("report")
    /\ UNCHANGED <<tables, disk, handlers, ctr>>

\* failBackup writes `failed` by id; best effort.
Report ==
    /\ agent.pc = "report"
    /\ \/ /\ row' = IF Present(Job) THEN [row EXCEPT ![Job].status = "failed"] ELSE row
          /\ UNCHANGED used
       \/ Spend("losses") /\ UNCHANGED row
    /\ NextJob
    /\ UNCHANGED <<newer, ticket, late, around, disk, handlers, ctr>>

\* When the jobs are done, the restore, or the end of the pass.
Fetch ==
    /\ agent.pc = "backups" /\ agent.jobs = <<>>
    /\ LET t == agent.ticket
           b == ticket[t].backup
       IN  IF t = None THEN agent' = [agent EXCEPT !.pc = "idle"] /\ UNCHANGED ticket
           ELSE IF ticket[t].status = "absent" \/ ~row[b].stored
                THEN Go("refuse") /\ UNCHANGED ticket
           ELSE /\ ticket' = IF ticket[t].status = "pending"
                             THEN [ticket EXCEPT ![t].status = "running"] ELSE ticket
                /\ Go(IF b \in disk THEN "extract" ELSE "refuse")
    /\ UNCHANGED <<backupTable, late, around, disk, handlers, ctr, used>>

\* The stream is cut after ten seconds like any other answer.
Extract ==
    /\ agent.pc = "extract"
    /\ \/ Go("confirm") /\ UNCHANGED used
       \/ Go("refuse") /\ Spend("losses")
    /\ UNCHANGED <<tables, disk, handlers, ctr>>

Settle(status) ==
    ticket' = IF ticket[agent.ticket].status = "absent" THEN ticket
              ELSE [ticket EXCEPT ![agent.ticket].status = status]

\* completeRestore and failRestore write by id whatever the row has become.
Confirm ==
    /\ agent.pc = "confirm"
    /\ \/ /\ Settle("complete")
          /\ agent' = [agent EXCEPT !.pc = "idle", !.ticket = None]
          /\ UNCHANGED used
       \/ UNCHANGED ticket /\ Go("refuse") /\ Spend("losses")
    /\ UNCHANGED <<backupTable, late, around, disk, handlers, ctr>>

Refuse ==
    /\ agent.pc = "refuse"
    /\ \/ Settle("failed") /\ UNCHANGED used
       \/ UNCHANGED ticket /\ Spend("losses")
    /\ agent' = [agent EXCEPT !.pc = "idle", !.ticket = None]
    /\ UNCHANGED <<backupTable, late, around, disk, handlers, ctr>>

(***************************************************************************)
(* The world                                                               *)
(***************************************************************************)

\* Time, which for a node is also the time its machine was asleep: a job can
\* outlast the window with its agent still holding it.
Running == {i \in Ids : row[i].status = "running"}
              \cup {t \in Tickets : ticket[t].status = "running"}

WindowElapses(j) ==
    /\ j \in Running \ late
    /\ late' = late \cup {j}
    /\ UNCHANGED <<backupTable, ticket, around, disk, handlers, node, used>>

\* A node of the fleet goes stale, or is heard again.  Only the start of a tick reads
\* which, so that it changes between ticks stands for all.
NodesStale ==
    /\ tick.pc = "idle"
    /\ stale' = ~stale
    /\ UNCHANGED <<backupTable, ticket, late, release, overtaken, disk, handlers, node, used>>

AgentRestart ==
    /\ Spend("crashes")
    /\ agent' = Idle
    /\ UNCHANGED <<tables, disk, handlers, ctr>>

Restart ==
    /\ Spend("restarts")
    /\ ask' = FALSE /\ restoring' = None /\ tick' = IdleTick
    /\ removing' = [w \in Removers |-> NoRemoval]
    /\ upload' = [i \in Ids |-> "none"]
    /\ UNCHANGED <<tables, disk, node>>

-----------------------------------------------------------------------------
\* A service with one archive, or none yet, running or stopped, perhaps only just;
\* a restore of the archive may have been asked for.
Init ==
    /\ release \in {"stopped", "live"} /\ stale \in BOOLEAN /\ overtaken = {}
    /\ ctr \in BOOLEAN
    /\ \E kept \in {{}, {CHOOSE i \in Ids : TRUE}}, asked \in BOOLEAN :
          /\ asked => kept # {} /\ ~Live
          /\ ticket = [t \in Tickets |->
                         IF asked /\ t = CHOOSE q \in Tickets : TRUE
                         THEN [status |-> "pending", backup |-> CHOOSE i \in Ids : TRUE]
                         ELSE [status |-> "absent", backup |-> None]]
          /\ row = [i \in Ids |-> IF i \in kept THEN [status |-> "complete", stored |-> TRUE]
                                 ELSE [status |-> "absent", stored |-> FALSE]]
          /\ newer = {}
          /\ disk = kept
    /\ late = {} /\ ask = FALSE /\ restoring = None
    /\ removing = [w \in Removers |-> NoRemoval]
    /\ upload = [i \in Ids |-> "none"]
    /\ tick = IdleTick /\ agent = [Idle EXCEPT !.settled = TRUE] /\ used = {}

Operator ==
    \/ Ask \/ Deploy \/ Stop
    \/ \E i \in Ids : AskRestore(i) \/ Delete(i)

Answer ==
    \/ AskInsert \/ RestoreInsert
    \/ Unlink("operator") \/ Drop("operator")
    \/ \E i \in Ids : WriteArchive(i) \/ Commit(i)

Sweeper ==
    \/ TickStart \/ DueRead \/ DueInsert \/ PruneRead \/ PruneDone \/ FailStalled
    \/ \E i \in Ids : PruneLoad(i)
    \/ Unlink("tick") \/ Drop("tick")

Agent ==
    \/ PollRows \/ PollJobs \/ Reconcile \/ ReconcileFails
    \/ Claim \/ Archive \/ Send \/ Unanswered \/ Report
    \/ Fetch \/ Extract \/ Confirm \/ Refuse

Time == \E j \in Ids \cup Tickets : WindowElapses(j)

Failover == Hold \/ Resume

Next ==
    \/ Operator \/ Failover \/ Answer \/ Sweeper \/ Agent \/ Time
    \/ NodesStale \/ AgentRestart \/ Restart

Spec == Init /\ [][Next]_vars

\* Requests are answered, the timer fires for ever, the agent's loop runs for
\* ever and time passes.  Nothing obliges an operator to ask.
Fairness == WF_vars(Answer) /\ WF_vars(Sweeper) /\ WF_vars(Agent) /\ WF_vars(Time)

FairSpec == Spec /\ Fairness

-----------------------------------------------------------------------------
(***************************************************************************)
(* Properties                                                              *)
(***************************************************************************)

Happened(kind) == \E u \in used : u[1] = kind

\* What the table says can be restored is on disk, unless a deletion of it is
\* under way: the archive is written before the row completes, and goes before
\* the row (completeBackup, deleteBackup), whatever uploads, stalls, failures
\* and deletions do in between.  Only a control plane that stops between the two
\* halves of a deletion leaves a row without its archive.
CompleteHasArchive ==
    \A i \in Complete :
        \/ i \in disk \/ Happened("restarts")
        \/ \E w \in Removers : removing[w].pc = "drop" /\ removing[w].id = i

\* While no upload goes unanswered and nobody deletes, a service that has a good
\* archive keeps one: retention does not count failures against it ("a run of
\* failures never silently evicts the last good archive", schedule.ts).
LastGoodKept ==
    [][Complete # {} /\ ~Happened("losses")' /\ ~Happened("deletes")' => Complete' # {}]_vars

\* A job the table has as running and its agent no longer holds.
LostBackup(i) ==
    /\ row[i].status = "running" /\ upload[i] = "none"
    /\ \A k \in DOMAIN agent.jobs : agent.jobs[k] # i

LostRestore(t) == ticket[t].status = "running" /\ agent.ticket # t

\* Every backup that is asked for or claimed is settled one way or another, and there
\* comes a time with none in flight: the rule of one at a time does not stop backups for
\* good (failStalledBackups).  But a job its agent has lost waits for the sweep, which
\* passes it by while every node of the fleet is online (sweepOnce); BackupEnds has no
\* such exception.
BackupSettles ==
    BackupInFlight ~> ~BackupInFlight \/ (~stale /\ \E i \in Ids : LostBackup(i))

\* The same for a restore, whose row also goes with its backup's (failStalledRestores).
RestoreSettles ==
    RestoreInFlight ~> ~RestoreInFlight \/ (~stale /\ \E t \in Tickets : LostRestore(t))

\* "One backup of a service runs at a time.  A backup whose node stops reporting is failed
\* after thirty minutes rather than left `running` forever" (docs/fleet-yaml-spec.md), nor
\* is one whose failure could not be reported: "the stall sweeper on the control plane
\* closes the row out" (agent/internal/backup/backup.go).
BackupEnds == \A i \in Ids : row[i].status = "running" ~> row[i].status # "running"

\* "Safe only because the control plane refuses to queue one while the service is
\* running" (agent/internal/backup/backup.go): nothing is extracted under a running
\* container, except a restore that a release has come back under since it was asked for
\* (by a deploy, by the resume of a held release, or because the poll that answers had
\* listed the service before it was stopped), or in a pass that leaves a container it
\* does not want (its removal failed, or it is the first of a new agent).
RestoresStopped ==
    agent.pc = "extract" /\ ctr => agent.ticket \in overtaken \/ agent.left
=============================================================================
