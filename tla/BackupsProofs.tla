--------------------------- MODULE BackupsProofs ---------------------------
(***************************************************************************)
(* What holds of Backups for any rows, any retention and any events: a row *)
(* that can be restored has its archive, a restore is extracted under a    *)
(* running container only if a release has come back under it or the pass  *)
(* left the container there, and retention keeps the last good archive.    *)
(***************************************************************************)
EXTENDS Backups, FiniteSetTheorems, SequenceTheorems, TLAPS

\* The tables, the handlers and the agent's record, as far as the proofs read them.
Shape ==
    /\ row \in [Ids -> [status : Status, stored : BOOLEAN]]
    /\ ticket \in [Tickets -> [status : Status, backup : Ids \cup {None}]]
    /\ upload \in [Ids -> {"none", "write", "commit"}]
    /\ removing \in [Removers -> [pc : {"none", "unlink", "drop"},
                                  id : Ids \cup {None}, stored : BOOLEAN]]
    /\ DOMAIN agent = {"pc", "jobs", "ticket", "wanted", "settled", "left"}
    /\ agent.ticket \in Tickets \cup {None} /\ restoring \in Ids \cup {None}
    /\ {agent.wanted, agent.settled, agent.left, stale, ctr} \subseteq BOOLEAN
    /\ release \in {"stopped", "live", "held"} /\ overtaken \subseteq Tickets \cup {None}

\* An archive is there, or something has taken it that takes the row as well.
Kept(i) ==
    \/ i \in disk \/ Happened("restarts")
    \/ \E w \in Removers : removing[w].pc = "drop" /\ removing[w].id = i

\* Also the archive of a row that is about to be completed: nothing inserts a row
\* anew while its upload is under way.
Archives ==
    \A i \in Ids :
        row[i].status = "complete" \/ (upload[i] = "commit" /\ Present(i)) => Kept(i)

AtJobs == agent.pc \notin {"idle", "poll", "reconcile"}

\* Of a service that runs, or that the poll has listed, every restore in flight or being
\* asked for is overtaken; so is the one handed out with a service to be started, and the
\* one at hand while a container runs that the pass did not leave behind.
Restores ==
    /\ Live \/ Listed =>
         /\ \A t \in Tickets : ticket[t].status \in InFlight => t \in overtaken
         /\ restoring # None => None \in overtaken
    /\ agent.pc = "reconcile" /\ agent.wanted /\ agent.ticket # None
          => agent.ticket \in overtaken
    /\ AtJobs /\ agent.ticket # None /\ ctr => agent.ticket \in overtaken \/ agent.left
    /\ agent.pc = "extract" => agent.ticket # None

IInv == Shape /\ Archives /\ Restores

\* What has happened stays so.
LEMMA HappenedStays ==
  ASSUME used \subseteq used'
  PROVE  Happened("restarts") => Happened("restarts")'
BY DEF Happened

\* An event of one kind has happened once it is spent, if the kind is one to remember.
LEMMA SpendHappens ==
  ASSUME NEW kind, Spend(kind)
  PROVE  used \subseteq used' /\ (kind \in Excepted => \E u \in used' : u[1] = kind)
<1>1. PICK e : (kind \in Excepted => e[1] = kind) /\ used' = used \cup {e}
  BY DEF Spend
<1>2. QED
  BY <1>1

\* A step that writes neither row nor archive nor upload nor deletion keeps the archives.
LEMMA ArchivesUntouched ==
  ASSUME Archives, used \subseteq used', UNCHANGED <<row, disk, upload, removing>>
  PROVE  Archives'
BY HappenedStays DEF Archives, Kept, Present

\* So does one that writes rows, completes none and brings none back.
LEMMA ArchivesOfRows ==
  ASSUME Archives, used \subseteq used', UNCHANGED <<disk, upload, removing>>,
         \A i \in Ids : /\ row'[i].status = "complete" => row[i].status = "complete"
                        /\ upload[i] = "commit" /\ Present(i)' => Present(i)
  PROVE  Archives'
BY HappenedStays DEF Archives, Kept

\* An insert takes an identity no upload is under way for.
LEMMA InsertKeeps ==
  ASSUME Shape, Archives, used \subseteq used', UNCHANGED <<disk, upload, removing>>,
         InsertBackup
  PROVE  /\ row' \in [Ids -> [status : Status, stored : BOOLEAN]]
         /\ Archives'
<1>1. PICK i \in Ids : /\ upload[i] = "none"
                       /\ row' = [row EXCEPT ![i] = [status |-> "pending", stored |-> FALSE]]
  BY DEF InsertBackup, FreeIds
<1>2. row' \in [Ids -> [status : Status, stored : BOOLEAN]]
  BY <1>1 DEF Shape, Status
<1>3. \A j \in Ids : /\ row'[j].status = "complete" => row[j].status = "complete"
                     /\ upload[j] = "commit" /\ Present(j)' => Present(j)
  BY <1>1 DEF Shape, Present
<1>4. QED
  BY <1>2, <1>3, ArchivesOfRows

\* The sweep fails what was running, and nothing else.
LEMMA FailLateKeeps ==
  ASSUME Shape
  PROVE  /\ FailLate(row) \in [Ids -> [status : Status, stored : BOOLEAN]]
         /\ FailLate(ticket) \in [Tickets -> [status : Status, backup : Ids \cup {None}]]
         /\ \A i \in Ids :
              /\ FailLate(row)[i].status = "complete" => row[i].status = "complete"
              /\ FailLate(row)[i].status = "absent" <=> row[i].status = "absent"
         /\ \A t \in Tickets :
              ticket[t].status = "absent" => FailLate(ticket)[t].status = "absent"
<1>1. DOMAIN row = Ids /\ DOMAIN ticket = Tickets /\ "failed" \in Status
  BY DEF Shape, Status
<1>2. \A i \in Ids : row[i] \in [status : Status, stored : BOOLEAN]
  BY DEF Shape
<1>3. \A i \in Ids : [row[i] EXCEPT !.status = "failed"] \in [status : Status, stored : BOOLEAN]
  BY <1>1, <1>2
<1>4. \A t \in Tickets : ticket[t] \in [status : Status, backup : Ids \cup {None}]
  BY DEF Shape
<1>5. \A t \in Tickets :
        [ticket[t] EXCEPT !.status = "failed"] \in [status : Status, backup : Ids \cup {None}]
  BY <1>1, <1>4
<1>6. \A i \in Ids : /\ FailLate(row)[i] \in {row[i], [row[i] EXCEPT !.status = "failed"]}
                     /\ FailLate(row)[i] # row[i] => row[i].status = "running"
  BY <1>1 DEF FailLate
<1>7. \A t \in Tickets :
        /\ FailLate(ticket)[t] \in {ticket[t], [ticket[t] EXCEPT !.status = "failed"]}
        /\ FailLate(ticket)[t] # ticket[t] => ticket[t].status = "running"
  BY <1>1 DEF FailLate
<1>8. FailLate(row) \in [Ids -> [status : Status, stored : BOOLEAN]]
  BY <1>1, <1>2, <1>3 DEF FailLate
<1>9. FailLate(ticket) \in [Tickets -> [status : Status, backup : Ids \cup {None}]]
  BY <1>1, <1>4, <1>5 DEF FailLate
<1>10. \A i \in Ids : [row[i] EXCEPT !.status = "failed"].status = "failed"
  BY <1>2
<1>11. QED
  BY <1>6, <1>7, <1>8, <1>9, <1>10

\* A status written by id, of whichever row that is.
LEMMA StatusWrites ==
  ASSUME Shape, NEW x, NEW v \in Status
  PROVE  /\ [row EXCEPT ![x].status = v] \in [Ids -> [status : Status, stored : BOOLEAN]]
         /\ [ticket EXCEPT ![x].status = v]
              \in [Tickets -> [status : Status, backup : Ids \cup {None}]]
<1>1. CASE x \notin Ids /\ x \notin Tickets
  BY <1>1 DEF Shape
<1>2. CASE x \in Ids /\ x \notin Tickets
  <2>1. [row[x] EXCEPT !.status = v] \in [status : Status, stored : BOOLEAN]
    BY <1>2 DEF Shape
  <2>2. QED
    BY <1>2, <2>1 DEF Shape
<1>3. CASE x \notin Ids /\ x \in Tickets
  <2>1. [ticket[x] EXCEPT !.status = v] \in [status : Status, backup : Ids \cup {None}]
    BY <1>3 DEF Shape
  <2>2. QED
    BY <1>3, <2>1 DEF Shape
<1>4. CASE x \in Ids /\ x \in Tickets
  <2>1. [row[x] EXCEPT !.status = v] \in [status : Status, stored : BOOLEAN]
    BY <1>4 DEF Shape
  <2>2. [ticket[x] EXCEPT !.status = v] \in [status : Status, backup : Ids \cup {None}]
    BY <1>4 DEF Shape
  <2>3. QED
    BY <1>4, <2>1, <2>2 DEF Shape
<1>5. QED
  BY <1>1, <1>2, <1>3, <1>4

\* A service with one archive or none, and a restore only if it is stopped.
LEMMA InitHolds == Init => IInv
<1> SUFFICES ASSUME Init PROVE IInv
  OBVIOUS
<1>1. Shape
  BY DEF Init, Shape, Status, Removers, NoRemoval, Idle, Live
<1>2. Archives
  BY DEF Init, Archives, Kept, Present
<1>3. Restores
  BY DEF Init, Restores, AtJobs, Listed, InFlight, Idle
<1>4. QED
  BY <1>1, <1>2, <1>3 DEF IInv

\* A step that puts no restore in flight, and takes the agent on without another.
LEMMA RestoresUntouched ==
  ASSUME Restores, UNCHANGED <<release, overtaken, restoring, ctr>>,
         \/ agent' = agent
         \/ agent'.pc = "idle"
         \/ /\ AtJobs /\ AtJobs' /\ agent'.pc # "extract"
            /\ agent'.ticket = agent.ticket /\ agent'.left = agent.left,
         \A t \in Tickets : ticket'[t].status \in InFlight => ticket[t].status \in InFlight
  PROVE  Restores'
BY DEF Restores, AtJobs, Live, Listed

\* A release that comes back overtakes the restores there are; a restore that is asked
\* for meanwhile has only the poll to fear, and the pass acts on what the poll has listed.
LEMMA RestoresHold == BackupAssumption /\ Shape /\ Restores /\ [Next]_vars => Restores'
<1> SUFFICES ASSUME BackupAssumption, Shape, Restores, [Next]_vars PROVE Restores'
  OBVIOUS
<1>1. ASSUME NEW i \in Ids, AskRestore(i) PROVE Restores'
  BY <1>1 DEF AskRestore, Restores, AtJobs, Live, Listed, node, Shape, BackupAssumption
<1>2. ASSUME RestoreInsert PROVE Restores'
  <2>1. /\ UNCHANGED <<release, agent, ctr>> /\ restoring # None /\ restoring' = None
    BY <1>2 DEF RestoreInsert, node
  <2>2. CASE ~Present(restoring)
    BY <1>2, <2>1, <2>2 DEF RestoreInsert, Restores, AtJobs, Live, Listed
  <2>3. CASE Present(restoring)
    <3>1. PICK t \in FreeTickets :
            /\ ticket' = [ticket EXCEPT ![t] = [status |-> "pending", backup |-> restoring]]
            /\ overtaken' = (overtaken \ {t, None})
                              \cup (IF None \in overtaken THEN {t} ELSE {})
      BY <1>2, <2>3 DEF RestoreInsert
    <3>2. t \in Tickets /\ t # agent.ticket
      BY <3>1 DEF FreeTickets
    <3>3. \A q \in Tickets \ {t} : /\ ticket'[q] = ticket[q]
                                   /\ q \in overtaken => q \in overtaken'
      BY <3>1, <3>2 DEF Shape, BackupAssumption
    <3>4. None \in overtaken => t \in overtaken'
      BY <3>1
    <3>5. Live \/ Listed =>
            \A q \in Tickets : ticket'[q].status \in InFlight => q \in overtaken'
      BY <2>1, <3>3, <3>4 DEF Restores
    <3>6. agent.ticket # None /\ agent.ticket \in overtaken => agent.ticket \in overtaken'
      BY <3>2, <3>3 DEF Shape
    <3>7. QED
      BY <2>1, <3>5, <3>6 DEF Restores, AtJobs, Live, Listed
  <2>4. QED
    BY <2>2, <2>3
<1>3. CASE Deploy \/ Resume
  <2>1. /\ release' = "live" /\ UNCHANGED <<ticket, restoring, agent, ctr>>
        /\ overtaken' = overtaken \cup {t \in Tickets : ticket[t].status \in InFlight}
                            \cup (IF restoring # None THEN {None} ELSE {})
    BY <1>3 DEF Deploy, Resume, ComeBack, handlers, node
  <2>2. QED
    BY <2>1 DEF Restores, AtJobs, Live, Listed
<1>4. CASE Stop \/ Hold
  BY <1>4 DEF Stop, Hold, Restores, AtJobs, Live, Listed, handlers, node
<1>5. ASSUME NEW w \in Removers, Drop(w) PROVE Restores'
  <2>1. /\ UNCHANGED <<release, overtaken, restoring, agent, ctr>>
        /\ \A t \in Tickets : ticket'[t] = ticket[t] \/ ticket'[t].status = "absent"
    BY <1>5 DEF Drop, around, node
  <2>2. QED
    BY <2>1, RestoresUntouched DEF InFlight
<1>6. CASE FailStalled
  <2>1. UNCHANGED <<release, overtaken, restoring, agent, ctr>> /\ ticket' = FailLate(ticket)
    BY <1>6 DEF FailStalled, around, node
  <2>2. \A t \in Tickets : ticket'[t].status \in InFlight => ticket[t].status \in InFlight
    BY <2>1 DEF FailLate, Shape, InFlight
  <2>3. QED
    BY <2>1, <2>2, RestoresUntouched
<1>7. CASE PollRows
  BY <1>7 DEF PollRows, Restores, AtJobs, Live, Listed, Shape, tables, around, handlers
<1>8. CASE PollJobs
  <2>1. /\ UNCHANGED <<release, overtaken, restoring, ticket, ctr>>
        /\ agent.pc = "poll" /\ agent'.pc = "reconcile" /\ agent'.wanted = agent.wanted
    BY <1>8 DEF PollJobs, Shape, tables, around, handlers
  <2>2. agent'.ticket # None
          => agent'.ticket \in Tickets /\ ticket[agent'.ticket].status = "pending"
    BY <1>8 DEF PollJobs, Shape
  <2>3. agent.wanted /\ agent'.ticket # None => agent'.ticket \in overtaken
    BY <2>1, <2>2 DEF Restores, Listed, InFlight
  <2>4. QED
    BY <2>1, <2>3 DEF Restores, AtJobs, Live, Listed
<1>9. CASE Reconcile
  <2> DEFINE left == ctr /\ ~agent.wanted /\ ~agent.settled
  <2>1. /\ UNCHANGED <<release, overtaken, restoring, ticket>>
        /\ agent.pc = "reconcile" /\ agent'.pc = "backups" /\ agent'.ticket = agent.ticket
        /\ agent'.left = left /\ ctr' = (agent.wanted \/ left)
    BY <1>9 DEF Reconcile, Passed, Shape, tables, around, handlers
  <2>2. QED
    BY <2>1 DEF Restores, AtJobs, Live, Listed
<1>10. CASE ReconcileFails
  <2>1. /\ UNCHANGED <<release, overtaken, restoring, ticket, ctr>>
        /\ agent.pc = "reconcile" /\ agent'.pc = "backups" /\ agent'.ticket = agent.ticket
        /\ agent'.left = ctr
    BY <1>10 DEF ReconcileFails, Passed, Shape, tables, around, handlers
  <2>2. QED
    BY <2>1 DEF Restores, AtJobs, Live, Listed
<1>11. ASSUME NEW i \in Ids, Commit(i) PROVE Restores'
  <2>1. UNCHANGED <<release, overtaken, restoring, ticket, ctr>>
    BY <1>11 DEF Commit, around
  <2>2. \/ agent' = agent
        \/ /\ agent.pc = "sent" /\ agent'.pc \in {"backups", "report"}
           /\ agent'.ticket = agent.ticket /\ agent'.left = agent.left
    BY <1>11 DEF Commit, NextJob, Go, Awaited, Shape
  <2>3. QED
    BY <2>1, <2>2, RestoresUntouched DEF AtJobs
<1>12. CASE Claim \/ Archive \/ Send \/ Unanswered \/ Report
  <2>1. UNCHANGED <<release, overtaken, restoring, ticket, ctr>>
    BY <1>12 DEF Claim, Archive, Send, Unanswered, Report, tables, around, handlers
  <2>2. /\ agent.pc \in {"backups", "archive", "upload", "sent", "report"}
        /\ agent'.pc \in {"backups", "archive", "upload", "sent", "report"}
        /\ agent'.ticket = agent.ticket /\ agent'.left = agent.left
    BY <1>12 DEF Claim, Archive, Send, Unanswered, Report, NextJob, Go, Shape
  <2>3. QED
    BY <2>1, <2>2, RestoresUntouched DEF AtJobs
<1>13. CASE Fetch
  <2>1. UNCHANGED <<release, overtaken, restoring, ctr>> /\ agent.pc = "backups"
    BY <1>13 DEF Fetch, around, handlers
  <2>2. \/ agent'.pc = "idle"
        \/ /\ agent.ticket # None /\ agent'.pc \in {"extract", "refuse"}
           /\ agent'.ticket = agent.ticket /\ agent'.left = agent.left
    BY <1>13 DEF Fetch, Go, Shape
  <2>3. \A t \in Tickets : ticket'[t].status \in InFlight => ticket[t].status \in InFlight
    BY <1>13 DEF Fetch, Shape, InFlight
  <2>4. QED
    BY <2>1, <2>2, <2>3 DEF Restores, AtJobs, Live, Listed
<1>14. CASE Extract \/ Confirm \/ Refuse
  <2>1. UNCHANGED <<release, overtaken, restoring, ctr>>
    BY <1>14 DEF Extract, Confirm, Refuse, tables, around, handlers
  <2>2. \/ agent'.pc = "idle"
        \/ /\ agent.pc \in {"extract", "confirm", "refuse"}
           /\ agent'.pc \in {"confirm", "refuse"}
           /\ agent'.ticket = agent.ticket /\ agent'.left = agent.left
    BY <1>14 DEF Extract, Confirm, Refuse, Go, Shape
  <2>3. \A t \in Tickets : \/ ticket'[t] = ticket[t]
                           \/ ticket'[t].status \in {"complete", "failed"}
    BY <1>14 DEF Extract, Confirm, Refuse, Settle, Shape, tables
  <2>4. \A t \in Tickets : ticket'[t].status \in InFlight => ticket[t].status \in InFlight
    BY <2>3 DEF InFlight
  <2>5. QED
    BY <2>1, <2>2, <2>4, RestoresUntouched DEF AtJobs
<1>15. CASE AgentRestart
  BY <1>15, RestoresUntouched DEF AgentRestart, Idle, tables, around, handlers
<1>16. CASE Restart
  BY <1>16 DEF Restart, Restores, AtJobs, Live, Listed, tables, around, node
<1>17. CASE \/ Ask \/ AskInsert \/ NodesStale \/ TickStart \/ DueRead \/ DueInsert
            \/ PruneRead \/ PruneDone \/ UNCHANGED vars
            \/ \E i \in Ids : Delete(i) \/ WriteArchive(i) \/ PruneLoad(i)
            \/ \E w \in Removers : Unlink(w)
            \/ \E j \in Ids \cup Tickets : WindowElapses(j)
  <2>1. UNCHANGED <<release, overtaken, restoring, ticket, agent, ctr>>
    BY <1>17 DEF Ask, AskInsert, NodesStale, TickStart, DueRead, DueInsert, PruneRead,
       PruneDone, Delete, WriteArchive, PruneLoad, Unlink, WindowElapses, vars, tables,
       around, handlers, node
  <2>2. QED
    BY <2>1, RestoresUntouched
<1>18. QED
  BY <1>1, <1>2, <1>3, <1>4, <1>5, <1>6, <1>7, <1>8, <1>9, <1>10, <1>11, <1>12, <1>13,
     <1>14, <1>15, <1>16, <1>17
  DEF Next, Operator, Failover, Answer, Sweeper, Agent, Time, Removers

\* Every step keeps it.
LEMMA NextHolds == BackupAssumption /\ IInv /\ [Next]_vars => IInv'
<1> SUFFICES ASSUME BackupAssumption, IInv, [Next]_vars PROVE IInv'
  OBVIOUS
<1> USE DEF IInv
<1>1. ASSUME Ask PROVE Shape' /\ Archives'
  <2>1. used \subseteq used'
    BY <1>1, SpendHappens DEF Ask
  <2>2. Shape'
    BY <1>1 DEF Ask, Shape, tables, around, backupTable, handlers, node
  <2>3. Archives'
    BY <1>1, <2>1, ArchivesUntouched DEF Ask, tables, around, backupTable
  <2>4. QED
    BY <2>2, <2>3
<1>2. ASSUME Deploy PROVE Shape' /\ Archives'
  <2>1. used \subseteq used'
    BY <1>2, SpendHappens DEF Deploy
  <2>2. Shape'
    BY <1>2 DEF Deploy, ComeBack, Shape, around, backupTable, handlers, node
  <2>3. Archives'
    BY <1>2, <2>1, ArchivesUntouched DEF Deploy, backupTable, handlers
  <2>4. QED
    BY <2>2, <2>3
<1>3. ASSUME Stop PROVE Shape' /\ Archives'
  <2>1. used \subseteq used'
    BY <1>3, SpendHappens DEF Stop
  <2>2. Shape'
    BY <1>3 DEF Stop, Shape, around, backupTable, handlers, node
  <2>3. Archives'
    BY <1>3, <2>1, ArchivesUntouched DEF Stop, backupTable, handlers
  <2>4. QED
    BY <2>2, <2>3
<1>4. ASSUME NEW i \in Ids, AskRestore(i) PROVE Shape' /\ Archives'
  <2>1. used \subseteq used'
    BY <1>4, SpendHappens DEF AskRestore
  <2>2. Shape'
    BY <1>4 DEF AskRestore, Shape, tables, around, backupTable, handlers, node
  <2>3. Archives'
    BY <1>4, <2>1, ArchivesUntouched DEF AskRestore, tables, around, backupTable
  <2>4. QED
    BY <2>2, <2>3
<1>5. ASSUME NEW i \in Ids, Delete(i) PROVE Shape' /\ Archives'
  <2>1. used \subseteq used'
    BY <1>5, SpendHappens DEF Delete
  <2>2. Shape'
    BY <1>5 DEF Delete, Shape, tables, around, backupTable, handlers, node
  <2>3. Archives'
    BY <1>5, <2>1, HappenedStays
    DEF Delete, Archives, Kept, Present, tables, around, backupTable
  <2>4. QED
    BY <2>2, <2>3
<1>6. ASSUME AskInsert PROVE Shape' /\ Archives'
  <2>1. used \subseteq used'
    BY <1>6 DEF AskInsert
  <2>2. InsertBackup /\ UNCHANGED <<disk, upload, removing>>
    BY <1>6 DEF AskInsert
  <2>3. Shape'
    BY <1>6, InsertKeeps
    DEF AskInsert, Shape, tables, around, backupTable, handlers, node
  <2>4. Archives'
    BY <2>1, <2>2, InsertKeeps
  <2>5. QED
    BY <2>3, <2>4
<1>7. ASSUME RestoreInsert PROVE Shape' /\ Archives'
  <2>1. used \subseteq used'
    BY <1>7 DEF RestoreInsert
  <2>2. Shape'
    <3>1. ticket' \in [Tickets -> [status : Status, backup : Ids \cup {None}]]
      BY <1>7 DEF RestoreInsert, Shape, Status
    <3>2. overtaken' \subseteq Tickets \cup {None}
      BY <1>7 DEF RestoreInsert, Shape, FreeTickets
    <3>3. QED
      BY <1>7, <3>1, <3>2 DEF RestoreInsert, Shape, backupTable, node
  <2>3. Archives'
    BY <1>7, ArchivesUntouched DEF RestoreInsert, backupTable, handlers
  <2>4. QED
    BY <2>2, <2>3
<1>8. ASSUME NEW w \in Removers, Unlink(w) PROVE Shape' /\ Archives'
  <2>1. used \subseteq used'
    BY <1>8 DEF Unlink
  <2>2. Shape'
    BY <1>8 DEF Unlink, Shape, tables, around, backupTable, handlers, node
  <2>3. Archives'
    BY <1>8, HappenedStays
    DEF Unlink, Archives, Kept, Present, Shape, tables, around, backupTable, handlers
  <2>4. QED
    BY <2>2, <2>3
<1>9. ASSUME NEW w \in Removers, Drop(w) PROVE Shape' /\ Archives'
  <2>1. used \subseteq used'
    BY <1>9 DEF Drop
  <2>2. Shape'
    BY <1>9 DEF Drop, NoRemoval, Shape, around, Status, node
  <2>3. Archives'
    BY <1>9, HappenedStays
    DEF Drop, Archives, Kept, Present, Shape, tables, around, backupTable, handlers
  <2>4. QED
    BY <2>2, <2>3
<1>10. ASSUME NEW i \in Ids, WriteArchive(i) PROVE Shape' /\ Archives'
  <2>1. used \subseteq used'
    BY <1>10 DEF WriteArchive
  <2>2. Shape'
    BY <1>10 DEF WriteArchive, Shape, tables, around, backupTable, handlers, node
  <2>3. Archives'
    BY <1>10, HappenedStays
    DEF WriteArchive, Archives, Kept, Present, tables, around, backupTable
  <2>4. QED
    BY <2>2, <2>3
<1>11. ASSUME NEW i \in Ids, Commit(i) PROVE Shape' /\ Archives'
  <2>1. used \subseteq used'
    BY <1>11 DEF Commit
  <2>2. Shape'
    <3>1. row' \in [Ids -> [status : Status, stored : BOOLEAN]]
      BY <1>11 DEF Commit, Shape, Status
    <3>2. upload' \in [Ids -> {"none", "write", "commit"}]
      BY <1>11 DEF Commit, Shape
    <3>3. /\ DOMAIN agent' = DOMAIN agent /\ agent'.ticket \in {agent.ticket, None}
          /\ agent'.wanted = agent.wanted /\ agent'.settled = agent.settled
          /\ agent'.left = agent.left
      BY <1>11 DEF Commit, NextJob, Go, Shape
    <3>4. QED
      BY <1>11, <3>1, <3>2, <3>3 DEF Commit, Shape, around
  <2>3. Archives'
    BY <1>11, HappenedStays DEF Commit, Archives, Kept, Present
  <2>4. QED
    BY <2>2, <2>3
<1>12. ASSUME TickStart PROVE Shape' /\ Archives'
  <2>1. used \subseteq used'
    BY <1>12 DEF TickStart
  <2>2. Shape'
    BY <1>12 DEF TickStart, Shape, tables, around, backupTable, handlers, node
  <2>3. Archives'
    BY <1>12, ArchivesUntouched DEF TickStart, tables, around, backupTable, handlers
  <2>4. QED
    BY <2>2, <2>3
<1>13. ASSUME DueRead PROVE Shape' /\ Archives'
  <2>1. used \subseteq used'
    BY <1>13 DEF DueRead
  <2>2. Shape'
    BY <1>13 DEF DueRead, Shape, tables, around, backupTable, handlers, node
  <2>3. Archives'
    BY <1>13, ArchivesUntouched DEF DueRead, tables, around, backupTable, handlers
  <2>4. QED
    BY <2>2, <2>3
<1>14. ASSUME DueInsert PROVE Shape' /\ Archives'
  <2>1. used \subseteq used'
    BY <1>14 DEF DueInsert
  <2>2. InsertBackup /\ UNCHANGED <<disk, upload, removing>>
    BY <1>14 DEF DueInsert
  <2>3. Shape'
    BY <1>14, InsertKeeps
    DEF DueInsert, Shape, tables, around, backupTable, handlers, node
  <2>4. Archives'
    BY <2>1, <2>2, InsertKeeps
  <2>5. QED
    BY <2>3, <2>4
<1>15. ASSUME PruneRead PROVE Shape' /\ Archives'
  <2>1. used \subseteq used'
    BY <1>15 DEF PruneRead
  <2>2. Shape'
    BY <1>15 DEF PruneRead, Shape, tables, around, backupTable, handlers, node
  <2>3. Archives'
    BY <1>15, ArchivesUntouched DEF PruneRead, tables, around, backupTable, handlers
  <2>4. QED
    BY <2>2, <2>3
<1>16. ASSUME PruneDone PROVE Shape' /\ Archives'
  <2>1. used \subseteq used'
    BY <1>16 DEF PruneDone
  <2>2. Shape'
    BY <1>16 DEF PruneDone, Shape, tables, around, backupTable, handlers, node
  <2>3. Archives'
    BY <1>16, ArchivesUntouched DEF PruneDone, tables, around, backupTable, handlers
  <2>4. QED
    BY <2>2, <2>3
<1>17. ASSUME FailStalled PROVE Shape' /\ Archives'
  <2>1. used \subseteq used'
    BY <1>17 DEF FailStalled
  <2>2. Shape'
    BY <1>17, FailLateKeeps DEF FailStalled, Shape, around, backupTable, handlers, node
  <2>3. Archives'
    BY <1>17, FailLateKeeps, ArchivesOfRows
    DEF FailStalled, Present, tables, around, backupTable, handlers
  <2>4. QED
    BY <2>2, <2>3
<1>18. ASSUME NEW i \in Ids, PruneLoad(i) PROVE Shape' /\ Archives'
  <2>1. used \subseteq used'
    BY <1>18 DEF PruneLoad
  <2>2. Shape'
    BY <1>18 DEF PruneLoad, Shape, tables, around, backupTable, handlers, node
  <2>3. Archives'
    BY <1>18, HappenedStays
    DEF PruneLoad, Archives, Kept, Present, tables, around, backupTable
  <2>4. QED
    BY <2>2, <2>3
<1>19. ASSUME PollRows PROVE Shape' /\ Archives'
  <2>1. used \subseteq used'
    BY <1>19 DEF PollRows
  <2>2. Shape'
    BY <1>19 DEF PollRows, Live, Shape, tables, around, backupTable, handlers, node
  <2>3. Archives'
    BY <1>19, ArchivesUntouched
    DEF PollRows, tables, around, backupTable, handlers, node
  <2>4. QED
    BY <2>2, <2>3
<1>20. ASSUME PollJobs PROVE Shape' /\ Archives'
  <2>1. used \subseteq used'
    BY <1>20 DEF PollJobs
  <2>2. Shape'
    BY <1>20 DEF PollJobs, Shape, tables, around, backupTable, handlers, node
  <2>3. Archives'
    BY <1>20, ArchivesUntouched
    DEF PollJobs, tables, around, backupTable, handlers, node
  <2>4. QED
    BY <2>2, <2>3
<1>21. ASSUME Reconcile PROVE Shape' /\ Archives'
  <2>1. used \subseteq used'
    BY <1>21 DEF Reconcile
  <2>2. Shape'
    BY <1>21 DEF Reconcile, Passed, Shape, tables, around, backupTable, handlers, node
  <2>3. Archives'
    BY <1>21, ArchivesUntouched
    DEF Reconcile, tables, around, backupTable, handlers, node
  <2>4. QED
    BY <2>2, <2>3
<1>22. ASSUME ReconcileFails PROVE Shape' /\ Archives'
  <2>1. used \subseteq used'
    BY <1>22, SpendHappens DEF ReconcileFails
  <2>2. Shape'
    BY <1>22
    DEF ReconcileFails, Passed, Shape, tables, around, backupTable, handlers, node
  <2>3. Archives'
    BY <1>22, <2>1, ArchivesUntouched
    DEF ReconcileFails, tables, around, backupTable, handlers
  <2>4. QED
    BY <2>2, <2>3
<1>23. ASSUME Claim PROVE Shape' /\ Archives'
  <2>1. used \subseteq used'
    BY <1>23 DEF Claim
  <2>2. Shape'
    <3>1. row' \in [Ids -> [status : Status, stored : BOOLEAN]]
      BY <1>23, StatusWrites DEF Claim, Shape, Status
    <3>2. QED
      BY <1>23, <3>1 DEF Claim, Go, Shape, around, handlers
  <2>3. Archives'
    BY <1>23, ArchivesOfRows DEF Claim, Present, handlers
  <2>4. QED
    BY <2>2, <2>3
<1>24. ASSUME Archive PROVE Shape' /\ Archives'
  <2>1. used \subseteq used'
    BY <1>24, SpendHappens DEF Archive
  <2>2. Shape'
    BY <1>24 DEF Archive, Go, Shape, tables, around, backupTable, handlers, node
  <2>3. Archives'
    BY <1>24, <2>1, ArchivesUntouched
    DEF Archive, tables, around, backupTable, handlers, node
  <2>4. QED
    BY <2>2, <2>3
<1>25. ASSUME Send PROVE Shape' /\ Archives'
  <2>1. used \subseteq used'
    BY <1>25 DEF Send
  <2>2. Shape'
    BY <1>25 DEF Send, Go, Shape, tables, around, backupTable
  <2>3. Archives'
    BY <1>25, HappenedStays
    DEF Send, Archives, Kept, Present, Shape, tables, around, backupTable
  <2>4. QED
    BY <2>2, <2>3
<1>26. ASSUME Unanswered PROVE Shape' /\ Archives'
  <2>1. used \subseteq used'
    BY <1>26, SpendHappens DEF Unanswered
  <2>2. Shape'
    BY <1>26 DEF Unanswered, Go, Shape, tables, around, backupTable, handlers
  <2>3. Archives'
    BY <1>26, <2>1, ArchivesUntouched
    DEF Unanswered, tables, around, backupTable, handlers
  <2>4. QED
    BY <2>2, <2>3
<1>27. ASSUME Report PROVE Shape' /\ Archives'
  <2>1. used \subseteq used'
    BY <1>27, SpendHappens DEF Report
  <2>2. Shape'
    BY <1>27
    DEF Report, NextJob, Shape, Status, tables, around, backupTable, handlers, node
  <2>3. Archives'
    <3>1. \A i \in Ids : /\ row'[i].status = "complete" => row[i].status = "complete"
                         /\ Present(i)' => Present(i)
      BY <1>27 DEF Report, Present, Shape
    <3>2. QED
      BY <1>27, <2>1, <3>1, ArchivesOfRows DEF Report, handlers
  <2>4. QED
    BY <2>2, <2>3
<1>28. ASSUME Fetch PROVE Shape' /\ Archives'
  <2>1. used \subseteq used'
    BY <1>28 DEF Fetch
  <2>2. Shape'
    <3>1. ticket' \in [Tickets -> [status : Status, backup : Ids \cup {None}]]
      <4>1. ticket' = ticket \/ ticket' = [ticket EXCEPT ![agent.ticket].status = "running"]
        BY <1>28 DEF Fetch
      <4>2. "running" \in Status
        BY DEF Status
      <4>3. [ticket EXCEPT ![agent.ticket].status = "running"]
              \in [Tickets -> [status : Status, backup : Ids \cup {None}]]
        BY <4>2, StatusWrites
      <4>4. QED
        BY <4>1, <4>3 DEF Shape
    <3>2. /\ DOMAIN agent' = DOMAIN agent /\ agent'.ticket \in {agent.ticket, None}
          /\ agent'.wanted = agent.wanted /\ agent'.settled = agent.settled
          /\ agent'.left = agent.left
      BY <1>28 DEF Fetch, Go, Shape
    <3>3. QED
      BY <1>28, <3>1, <3>2 DEF Fetch, Shape, around, backupTable, handlers
  <2>3. Archives'
    BY <1>28, ArchivesUntouched DEF Fetch, tables, around, backupTable, handlers, node
  <2>4. QED
    BY <2>2, <2>3
<1>29. ASSUME Extract PROVE Shape' /\ Archives'
  <2>1. used \subseteq used'
    BY <1>29, SpendHappens DEF Extract
  <2>2. Shape'
    BY <1>29 DEF Extract, Go, Shape, tables, around, backupTable, handlers, node
  <2>3. Archives'
    BY <1>29, <2>1, ArchivesUntouched
    DEF Extract, tables, around, backupTable, handlers, node
  <2>4. QED
    BY <2>2, <2>3
<1>30. ASSUME Confirm PROVE Shape' /\ Archives'
  <2>1. used \subseteq used'
    BY <1>30, SpendHappens DEF Confirm
  <2>2. Shape'
    <3>1. ticket' \in [Tickets -> [status : Status, backup : Ids \cup {None}]]
      <4>1. ticket' = ticket \/ ticket' = [ticket EXCEPT ![agent.ticket].status = "complete"]
        BY <1>30 DEF Confirm, Settle
      <4>2. "complete" \in Status
        BY DEF Status
      <4>3. [ticket EXCEPT ![agent.ticket].status = "complete"]
              \in [Tickets -> [status : Status, backup : Ids \cup {None}]]
        BY <4>2, StatusWrites
      <4>4. QED
        BY <4>1, <4>3 DEF Shape
    <3>2. /\ DOMAIN agent' = DOMAIN agent /\ agent'.ticket \in {agent.ticket, None}
          /\ agent'.wanted = agent.wanted /\ agent'.settled = agent.settled
          /\ agent'.left = agent.left
      BY <1>30 DEF Confirm, Go, Shape
    <3>3. QED
      BY <1>30, <3>1, <3>2 DEF Confirm, Shape, around, backupTable, handlers
  <2>3. Archives'
    BY <1>30, <2>1, ArchivesUntouched DEF Confirm, backupTable, handlers
  <2>4. QED
    BY <2>2, <2>3
<1>31. ASSUME Refuse PROVE Shape' /\ Archives'
  <2>1. used \subseteq used'
    BY <1>31, SpendHappens DEF Refuse
  <2>2. Shape'
    BY <1>31
    DEF Refuse, Go, Settle, Shape, Status, tables, around, backupTable, handlers, node
  <2>3. Archives'
    BY <1>31, <2>1, ArchivesUntouched DEF Refuse, backupTable, handlers
  <2>4. QED
    BY <2>2, <2>3
<1>32. ASSUME NEW j \in Ids \cup Tickets, WindowElapses(j) PROVE Shape' /\ Archives'
  <2>1. used \subseteq used'
    BY <1>32 DEF WindowElapses
  <2>2. Shape'
    BY <1>32 DEF WindowElapses, Shape, around, backupTable, handlers, node
  <2>3. Archives'
    BY <1>32, ArchivesUntouched DEF WindowElapses, backupTable, handlers
  <2>4. QED
    BY <2>2, <2>3
<1>33. ASSUME AgentRestart PROVE Shape' /\ Archives'
  <2>1. used \subseteq used'
    BY <1>33, SpendHappens DEF AgentRestart
  <2>2. Shape'
    BY <1>33 DEF AgentRestart, Idle, Shape, tables, around, backupTable, handlers, node
  <2>3. Archives'
    BY <1>33, <2>1, ArchivesUntouched
    DEF AgentRestart, tables, around, backupTable, handlers, node
  <2>4. QED
    BY <2>2, <2>3
<1>34. ASSUME Restart PROVE Shape' /\ Archives'
  <2>1. used \subseteq used'
    BY <1>34, SpendHappens DEF Restart
  <2>2. Shape'
    BY <1>34 DEF Restart, NoRemoval, Shape, tables, around, backupTable, node
  <2>3. Archives'
    <3>1. Happened("restarts")'
      BY <1>34, SpendHappens DEF Restart, Happened, Excepted
    <3>2. QED
      BY <3>1 DEF Archives, Kept
  <2>4. QED
    BY <2>2, <2>3
<1>35. ASSUME Hold \/ Resume \/ NodesStale PROVE Shape' /\ Archives'
  <2>1. used \subseteq used'
    BY <1>35, SpendHappens DEF Hold, Resume, NodesStale
  <2>2. Shape'
    BY <1>35 DEF Hold, Resume, ComeBack, NodesStale, Shape, backupTable, handlers, node
  <2>3. Archives'
    BY <1>35, <2>1, ArchivesUntouched DEF Hold, Resume, NodesStale, backupTable,
       handlers
  <2>4. QED
    BY <2>2, <2>3
<1>36. ASSUME UNCHANGED vars PROVE Shape' /\ Archives'
  <2>1. Shape'
    BY <1>36 DEF vars, Shape
  <2>2. Archives'
    BY <1>36, ArchivesUntouched DEF vars
  <2>3. QED
    BY <2>1, <2>2
<1>37. Restores'
  BY RestoresHold
<1>38. QED
  BY <1>1, <1>2, <1>3, <1>4, <1>5, <1>6, <1>7, <1>8, <1>9, <1>10, <1>11, <1>12, <1>13,
     <1>14, <1>15, <1>16, <1>17, <1>18, <1>19, <1>20, <1>21, <1>22, <1>23, <1>24, <1>25,
     <1>26, <1>27, <1>28, <1>29, <1>30, <1>31, <1>32, <1>33, <1>34, <1>35, <1>36,
     <1>37
  DEF Next, Operator, Failover, Answer, Sweeper, Agent, Time, Removers

\* What the table says can be restored is on disk, whatever uploads, stalls, failures
\* and deletions do in between, but for a control plane stopped in mid-deletion.
THEOREM RestorableIsThere == Spec => []CompleteHasArchive
<1>1. IInv => CompleteHasArchive
  BY DEF IInv, Archives, Kept, CompleteHasArchive, Complete
<1>2. QED
  BY <1>1, InitHolds, NextHolds, BackupAssumption, PTL DEF Spec

\* Nothing is extracted under a running container, but a restore that a release has come
\* back under since it was asked for, or in a pass that left a container it did not want.
THEOREM ExtractedAtRest == Spec => []RestoresStopped
<1>1. IInv => RestoresStopped
  BY DEF IInv, Restores, AtJobs, RestoresStopped
<1>2. QED
  BY <1>1, InitHolds, NextHolds, BackupAssumption, PTL DEF Spec

-----------------------------------------------------------------------------
\* What the tick is about to delete, and what it is deleting.
Doomed == tick.rows \cup (IF removing["tick"].pc = "none" THEN {}
                          ELSE {removing["tick"].id})

\* What the variables may be that Shape says nothing of.
AgentType == [pc : {"idle", "poll", "reconcile", "backups", "archive", "upload",
                    "sent", "report", "extract", "confirm", "refuse"},
              jobs : Seq(Ids), ticket : Tickets \cup {None},
              wanted : BOOLEAN, settled : BOOLEAN, left : BOOLEAN]

TickType == [pc : {"idle", "due", "insert", "excess", "prune", "stall"}, rows : SUBSET Ids]

Places == late \subseteq Ids \cup Tickets /\ disk \subseteq Ids /\ ask \in BOOLEAN

Counted == used \subseteq (Excepted \cup {"other"}) \X Nat /\ IsFiniteSet(used)

\* The order of the table, and what its restores refer to.
Held ==
    /\ newer \subseteq Ids \X Ids /\ Ordered
    /\ \A t \in Tickets : ticket[t].backup # None => Present(ticket[t].backup)

\* What the agent has before it: each job once, the one it is at no longer pending, and,
\* while every upload is answered, no job that is complete or whose upload is under way,
\* but the one it waits for.
Queue ==
    /\ agent.pc \in {"archive", "upload", "sent", "report"} => agent.jobs # <<>>
    /\ \A a, b \in 1..Len(agent.jobs) : a # b => agent.jobs[a] # agent.jobs[b]
    /\ \A i \in Ids : row[i].status = "pending" => upload[i] = "none"
    /\ agent.pc \in {"archive", "upload", "sent"} => row[Job].status # "pending"
    /\ \/ Happened("losses")
       \/ /\ \A i \in Ids : upload[i] # "none" =>
                \/ agent.pc = "sent" /\ Job = i
                \/ \A a \in 1..Len(agent.jobs) : agent.jobs[a] # i
          /\ \A a \in 1..Len(agent.jobs) : row[agent.jobs[a]].status # "complete"

\* What retention has picked is complete, and is not all that is.
Retained ==
    /\ tick.pc # "prune" => tick.rows = {} /\ removing["tick"].pc = "none"
    /\ removing["tick"].pc # "none" => removing["tick"].id \notin tick.rows
    /\ ~Happened("losses") /\ ~Happened("deletes") =>
         /\ removing["operator"].pc = "none"
         /\ Doomed \subseteq Complete
         /\ Doomed # {} => Complete \ Doomed # {}

Kinds == agent \in AgentType /\ tick \in TickType /\ Places /\ Counted

TInv == IInv /\ Kinds /\ Held /\ Queue /\ Retained

\* What happens is one of the events.
LEMMA SpendCounted ==
  ASSUME BackupAssumption, Counted, NEW kind, Spend(kind)
  PROVE  Counted'
<1> DEFINE kept == IF kind \in Excepted THEN kind ELSE "other"
<1>1. IsFiniteSet({u \in used : u[1] = kept})
  BY FS_Subset DEF Counted
<1>2. Cardinality({u \in used : u[1] = kept}) \in Nat
  BY <1>1, FS_CardinalityType
<1>3. kept \in Excepted \cup {"other"}
  OBVIOUS
<1>4. used' = used \cup {<<kept, Cardinality({u \in used : u[1] = kept})>>}
  BY DEF Spend
<1>5. IsFiniteSet(used')
  BY <1>4, FS_AddElement DEF Counted
<1>6. QED
  <2> HIDE DEF kept
  <2>1. QED
    BY <1>2, <1>3, <1>4, <1>5 DEF Counted

\* A row that comes is newer than every other.
LEMMA InsertOrders ==
  ASSUME Shape, Held, InsertBackup
  PROVE  newer' \subseteq Ids \X Ids /\ Ordered' /\ \A j \in Ids : Present(j) => Present(j)'
<1>1. PICK i \in Ids : /\ ~Present(i)
                       /\ row' = [row EXCEPT ![i] = [status |-> "pending", stored |-> FALSE]]
                       /\ newer' = newer \cup {i} \X {j \in Ids : Present(j)}
  BY DEF InsertBackup, FreeIds
<1>2. /\ Present(i)' /\ \A j \in Ids \ {i} : Present(j)' <=> Present(j)
      /\ newer' \subseteq Ids \X Ids
  BY <1>1 DEF Shape, Present, Held
<1>3. \A p \in newer' : Present(p[1])' /\ Present(p[2])' /\ <<p[2], p[1]>> \notin newer'
  BY <1>1, <1>2 DEF Held, Ordered
<1>4. ASSUME NEW S \in SUBSET {j \in Ids : Present(j)'}, S # {}
      PROVE  \E k \in S : \A j \in S \ {k} : <<k, j>> \in newer'
  <2>1. CASE i \in S
    <3>1. \A j \in S \ {i} : <<i, j>> \in newer'
      BY <1>1, <1>2
    <3>2. QED
      BY <2>1, <3>1
  <2>2. CASE i \notin S
    <3>1. S \in SUBSET {j \in Ids : Present(j)}
      BY <1>2, <2>2
    <3>2. PICK k \in S : \A j \in S \ {k} : <<k, j>> \in newer
      BY <1>4, <3>1 DEF Held, Ordered
    <3>3. QED
      BY <1>1, <3>2
  <2>3. QED
    BY <2>1, <2>2
<1>5. Ordered'
  BY <1>3, <1>4 DEF Ordered
<1>6. QED
  BY <1>1, <1>2, <1>5

\* A row that goes takes its place in the order with it.
LEMMA DropOrders ==
  ASSUME Shape, Held, NEW i, row' = [row EXCEPT ![i] = [status |-> "absent", stored |-> FALSE]],
         newer' = {p \in newer : i \notin {p[1], p[2]}}
  PROVE  newer' \subseteq Ids \X Ids /\ Ordered'
         /\ \A j \in Ids : Present(j)' <=> Present(j) /\ j # i
<1>1. \A j \in Ids : Present(j)' <=> Present(j) /\ j # i
  BY DEF Shape, Present
<1>2. newer' \subseteq Ids \X Ids
  BY DEF Held
<1>3. \A p \in newer' : Present(p[1])' /\ Present(p[2])' /\ <<p[2], p[1]>> \notin newer'
  BY <1>1 DEF Held, Ordered
<1>4. ASSUME NEW S \in SUBSET {j \in Ids : Present(j)'}, S # {}
      PROVE  \E k \in S : \A j \in S \ {k} : <<k, j>> \in newer'
  <2>1. S \in SUBSET {j \in Ids : Present(j)} /\ i \notin S
    BY <1>1
  <2>2. PICK k \in S : \A j \in S \ {k} : <<k, j>> \in newer
    BY <1>4, <2>1 DEF Held, Ordered
  <2>3. \A j \in S \ {k} : <<k, j>> \in newer'
    BY <2>1, <2>2
  <2>4. QED
    BY <2>3
<1>5. Ordered'
  BY <1>3, <1>4 DEF Ordered
<1>6. QED
  BY <1>1, <1>2, <1>5

\* A write that changes what rows say and not which rows there are.
LEMMA StatusesOrder ==
  ASSUME Held, newer' = newer, \A j \in Ids : Present(j)' <=> Present(j),
         \A t \in Tickets : ticket'[t].backup = ticket[t].backup,
         \A t \in Tickets : ticket[t].backup \in Ids \cup {None}
  PROVE  Held'
<1>1. {j \in Ids : Present(j)'} = {j \in Ids : Present(j)}
  OBVIOUS
<1>2. \A S \in SUBSET {i \in Ids : Present(i)'} : S # {} =>
          \E i \in S : \A j \in S \ {i} : <<i, j>> \in newer'
  BY <1>1 DEF Held, Ordered
<1>3. \A p \in newer' : Present(p[1])' /\ Present(p[2])' /\ <<p[2], p[1]>> \notin newer'
  BY DEF Held, Ordered
<1>4. Ordered'
  BY <1>2, <1>3 DEF Ordered
<1>5. QED
  BY <1>4 DEF Held

\* What the first of the jobs is, and the others.
LEMMA JobsLeft ==
  ASSUME agent \in AgentType, agent.jobs # <<>>
  PROVE  /\ Job \in Ids /\ Job = agent.jobs[1] /\ 1 \in 1..Len(agent.jobs)
         /\ Tail(agent.jobs) \in Seq(Ids)
         /\ \A a \in 1..Len(Tail(agent.jobs)) :
              a + 1 \in 1..Len(agent.jobs) /\ Tail(agent.jobs)[a] = agent.jobs[a + 1]
<1>1. agent.jobs \in Seq(Ids)
  BY DEF AgentType
<1>2. Len(agent.jobs) \in Nat /\ Len(agent.jobs) # 0
  BY <1>1, EmptySeq, LenProperties
<1>3. QED
  BY <1>1, <1>2, HeadTailProperties DEF Job

\* Every step is an event or none.
LEMMA CountedHolds ==
  BackupAssumption /\ Counted /\ [Next]_vars => Counted' /\ used \subseteq used'
<1> SUFFICES ASSUME BackupAssumption, Counted, [Next]_vars PROVE Counted' /\ used \subseteq used'
  OBVIOUS
<1>1. ASSUME NEW kind, Spend(kind) PROVE Counted' /\ used \subseteq used'
  BY <1>1, SpendCounted, SpendHappens
<1>2. CASE \/ Ask \/ Deploy \/ Stop \/ Hold \/ ReconcileFails \/ AgentRestart \/ Restart
           \/ \E i \in Ids : AskRestore(i) \/ Delete(i)
  BY <1>1, <1>2
  DEF Ask, Deploy, Stop, Hold, ReconcileFails, AgentRestart, Restart, AskRestore, Delete
<1>3. CASE Archive \/ Unanswered \/ Report \/ Extract \/ Confirm \/ Refuse
  <2>1. UNCHANGED used \/ \E kind : Spend(kind)
    BY <1>3 DEF Archive, Unanswered, Report, Extract, Confirm, Refuse
  <2>2. QED
    BY <1>1, <2>1 DEF Counted
<1>4. ASSUME UNCHANGED <<used>> PROVE Counted' /\ used \subseteq used'
  BY <1>4 DEF Counted
<1>5. CASE \/ AskInsert \/ RestoreInsert \/ TickStart \/ DueRead \/ DueInsert
           \/ Resume \/ NodesStale \/ PruneRead \/ PruneDone \/ FailStalled
           \/ PollRows \/ PollJobs
           \/ Reconcile \/ Claim \/ Send \/ Fetch \/ UNCHANGED vars
           \/ \E i \in Ids : WriteArchive(i) \/ Commit(i) \/ PruneLoad(i)
           \/ \E w \in Removers : Unlink(w) \/ Drop(w)
           \/ \E j \in Ids \cup Tickets : WindowElapses(j)
  <2>1. UNCHANGED <<used>>
    BY <1>5 DEF AskInsert, RestoreInsert, Resume, NodesStale, Unlink, Drop,
       WriteArchive, Commit, TickStart, DueRead, DueInsert, PruneRead, PruneDone,
       FailStalled, PruneLoad, PollRows, PollJobs, Reconcile, Claim, Send, Fetch,
       WindowElapses, vars, tables, backupTable, handlers, node
  <2>2. QED
    BY <1>4, <2>1
<1>6. QED
  BY <1>2, <1>3, <1>5
  DEF Next, Operator, Failover, Answer, Sweeper, Agent, Time, Removers

\* Where the archives and the late jobs are.
LEMMA PlacesHold ==
  Shape /\ Places /\ [Next]_vars => Places'
<1> SUFFICES ASSUME Shape, Places, [Next]_vars PROVE Places'
  OBVIOUS
<1>1. ASSUME RestoreInsert PROVE Places'
  BY <1>1 DEF RestoreInsert, Places
<1>2. ASSUME NEW w \in Removers, Drop(w) PROVE Places'
  BY <1>2 DEF Drop, Places
<1>3. ASSUME NEW j \in Ids \cup Tickets, WindowElapses(j) PROVE Places'
  BY <1>3 DEF WindowElapses, handlers, Places
<1>4. ASSUME NEW w \in Removers, Unlink(w) PROVE Places'
  BY <1>4 DEF Unlink, tables, Places
<1>5. ASSUME NEW i \in Ids, WriteArchive(i) PROVE Places'
  BY <1>5 DEF WriteArchive, tables, Places
<1>6. CASE Ask \/ AskInsert \/ Restart
  BY <1>6 DEF Ask, AskInsert, Restart, tables, Places
<1>7. ASSUME UNCHANGED <<late, disk, ask>> PROVE Places'
  BY <1>7 DEF Places
<1>8. CASE \/ Deploy \/ Stop \/ Hold \/ Resume \/ NodesStale
           \/ TickStart \/ DueRead \/ DueInsert \/ PruneRead
           \/ PruneDone \/ FailStalled \/ PollRows \/ PollJobs \/ Reconcile
           \/ ReconcileFails \/ Claim \/ Archive \/ Send \/ Unanswered \/ Report
           \/ Fetch \/ Extract \/ Confirm \/ Refuse \/ AgentRestart
           \/ UNCHANGED vars
           \/ \E i \in Ids : AskRestore(i) \/ Delete(i) \/ Commit(i) \/ PruneLoad(i)
  <2>1. UNCHANGED <<late, disk, ask>>
    BY <1>8 DEF Deploy, Stop, Hold, Resume, NodesStale, AskRestore, Delete, Commit,
       TickStart, DueRead, DueInsert, PruneRead, PruneDone, FailStalled, PruneLoad,
       PollRows, PollJobs, Reconcile, ReconcileFails, Claim, Archive, Send, Unanswered,
       Report, Fetch, Extract, Confirm, Refuse, AgentRestart, vars, tables, backupTable,
       handlers, node
  <2>2. QED
    BY <1>7, <2>1
<1>9. QED
  BY <1>1, <1>2, <1>3, <1>4, <1>5, <1>6, <1>8
  DEF Next, Operator, Failover, Answer, Sweeper, Agent, Time, Removers

\* The tick goes from one of its parts to the next.
LEMMA TickHolds ==
  tick \in TickType /\ [Next]_vars => tick' \in TickType
<1> SUFFICES ASSUME tick \in TickType, [Next]_vars PROVE tick' \in TickType
  OBVIOUS
<1>1. CASE TickStart
  BY <1>1 DEF TickStart, TickType
<1>2. CASE DueRead
  BY <1>2 DEF DueRead, TickType
<1>3. CASE DueInsert
  BY <1>3 DEF DueInsert, TickType
<1>4. CASE PruneDone
  BY <1>4 DEF PruneDone, TickType
<1>5. CASE FailStalled
  BY <1>5 DEF FailStalled, TickType, IdleTick
<1>6. CASE Restart
  BY <1>6 DEF Restart, TickType, IdleTick
<1>7. CASE PruneRead
  <2>1. Excess \in SUBSET Ids
    BY DEF Excess, Complete
  <2>2. QED
    BY <1>7, <2>1 DEF PruneRead, TickType
<1>8. ASSUME NEW i \in Ids, PruneLoad(i) PROVE tick' \in TickType
  BY <1>8 DEF PruneLoad, TickType
<1>9. ASSUME UNCHANGED <<tick>> PROVE tick' \in TickType
  BY <1>9
<1>10. CASE \/ Ask \/ Deploy \/ Stop \/ Hold \/ Resume \/ NodesStale
            \/ AskInsert \/ RestoreInsert \/ PollRows
            \/ PollJobs \/ Reconcile \/ ReconcileFails \/ Claim \/ Archive \/ Send
            \/ Unanswered \/ Report \/ Fetch \/ Extract \/ Confirm \/ Refuse
            \/ AgentRestart \/ UNCHANGED vars
            \/ \E i \in Ids : AskRestore(i) \/ Delete(i) \/ WriteArchive(i) \/ Commit(i)
            \/ \E w \in Removers : Unlink(w) \/ Drop(w)
            \/ \E j \in Ids \cup Tickets : WindowElapses(j)
  <2>1. UNCHANGED <<tick>>
    BY <1>10 DEF Ask, Deploy, Stop, Hold, Resume, NodesStale, AskRestore, Delete,
       AskInsert, RestoreInsert, Unlink, Drop, WriteArchive, Commit, PollRows, PollJobs,
       Reconcile, ReconcileFails, Claim, Archive, Send, Unanswered, Report, Fetch,
       Extract, Confirm, Refuse, WindowElapses, AgentRestart, vars, tables, backupTable,
       handlers, node
  <2>2. QED
    BY <1>9, <2>1
<1>11. QED
  BY <1>1, <1>2, <1>3, <1>4, <1>5, <1>6, <1>7, <1>8, <1>10
  DEF Next, Operator, Failover, Answer, Sweeper, Agent, Time, Removers

\* What a poll answers is a sequence of rows, each once.
LEMMA PolledJobs ==
  ASSUME BackupAssumption, NEW S \in SUBSET Ids, NEW k, NEW jobs \in InTurn(Oldest(S, k))
  PROVE  /\ jobs \in Seq(Ids) /\ \A a \in 1..Len(jobs) : jobs[a] \in S
         /\ \A a, b \in 1..Len(jobs) : a < b => <<jobs[b], jobs[a]>> \in newer
<1> DEFINE T == Oldest(S, k)
<1>1. T \subseteq S
  BY DEF Oldest
<1>2. Cardinality(T) \in Nat
  BY <1>1, FS_Subset, FS_CardinalityType DEF BackupAssumption
<1>3. jobs \in [1..Cardinality(T) -> T]
  BY DEF InTurn
<1>4. jobs \in Seq(T)
  BY <1>2, <1>3, IsASeq
<1>5. Len(jobs) = Cardinality(T)
  BY <1>2, <1>3
<1>6. jobs \in Seq(Ids)
  BY <1>1, <1>4, SeqMonotonic
<1>7. \A a, b \in 1..Len(jobs) : a < b => <<jobs[b], jobs[a]>> \in newer
  BY <1>3, <1>5 DEF InTurn
<1>8. QED
  BY <1>1, <1>3, <1>5, <1>6, <1>7

\* The agent's pass goes on, with the jobs it has left.
LEMMA AgentHolds ==
  BackupAssumption /\ Shape /\ agent \in AgentType /\ Queue /\ [Next]_vars
    => agent' \in AgentType
<1> SUFFICES ASSUME BackupAssumption, Shape, agent \in AgentType, Queue, [Next]_vars
             PROVE  agent' \in AgentType
  OBVIOUS
<1>1. ASSUME NEW pc \in {"idle", "poll", "reconcile", "backups", "archive", "upload",
                         "sent", "report", "extract", "confirm", "refuse"},
             Go(pc)
      PROVE  agent' \in AgentType
  BY <1>1 DEF Go, AgentType
<1>2. ASSUME agent.jobs # <<>>, NextJob PROVE agent' \in AgentType
  BY <1>2, JobsLeft DEF NextJob, AgentType
<1>3. CASE PollRows
  <2>1. PICK w \in BOOLEAN : agent' = [agent EXCEPT !.pc = "poll", !.wanted = w, !.left = FALSE]
    BY <1>3 DEF PollRows, Live
  <2>2. QED
    BY <2>1 DEF AgentType
<1>4. CASE PollJobs
  <2>1. PICK jobs \in InTurn(Oldest({i \in Ids : row[i].status = "pending"}, 3)) :
          agent' = [agent EXCEPT !.pc = "reconcile", !.jobs = jobs, !.ticket = agent'.ticket]
    BY <1>4 DEF PollJobs
  <2>2. agent'.ticket \in Tickets \cup {None}
    BY <1>4 DEF PollJobs, AgentType
  <2>3. jobs \in Seq(Ids)
    BY PolledJobs
  <2>4. QED
    BY <2>1, <2>2, <2>3 DEF AgentType
<1>5. CASE Reconcile \/ ReconcileFails
  <2>1. ASSUME NEW left \in BOOLEAN, Passed(left) PROVE agent' \in AgentType
    BY <2>1 DEF Passed, AgentType
  <2>2. ctr \in BOOLEAN
    BY DEF Shape
  <2>3. QED
    BY <1>5, <2>1, <2>2 DEF Reconcile, ReconcileFails
<1>6. CASE Claim \/ Archive \/ Send \/ Unanswered
  BY <1>1, <1>6 DEF Claim, Archive, Send, Unanswered
<1>7. ASSUME NEW i \in Ids, Commit(i) PROVE agent' \in AgentType
  BY <1>1, <1>2, <1>7 DEF Commit, Awaited, Queue
<1>8. CASE Report
  BY <1>2, <1>8 DEF Report, Queue
<1>9. CASE Fetch
  <2>1. Go("refuse") \/ Go("extract") \/ agent' = [agent EXCEPT !.pc = "idle"]
    BY <1>9 DEF Fetch
  <2>2. QED
    BY <1>1, <2>1 DEF Go
<1>10. CASE Extract
  BY <1>1, <1>10 DEF Extract
<1>11. CASE Confirm \/ Refuse
  <2>1. Go("refuse") \/ agent' = [agent EXCEPT !.pc = "idle", !.ticket = None]
    BY <1>11 DEF Confirm, Refuse
  <2>2. QED
    BY <1>1, <2>1 DEF AgentType
<1>12. CASE AgentRestart
  BY <1>12, EmptySeq DEF AgentRestart, Idle, AgentType
<1>13. ASSUME UNCHANGED <<agent>> PROVE agent' \in AgentType
  BY <1>13
<1>14. CASE \/ Ask \/ Deploy \/ Stop \/ Hold \/ Resume \/ NodesStale
            \/ AskInsert \/ RestoreInsert \/ TickStart
            \/ DueRead \/ DueInsert \/ PruneRead \/ PruneDone \/ FailStalled
            \/ Restart \/ UNCHANGED vars
            \/ \E i \in Ids : AskRestore(i) \/ Delete(i) \/ WriteArchive(i) \/ PruneLoad(i)
            \/ \E w \in Removers : Unlink(w) \/ Drop(w)
            \/ \E j \in Ids \cup Tickets : WindowElapses(j)
  <2>1. UNCHANGED <<agent>>
    BY <1>14 DEF Ask, Deploy, Stop, Hold, Resume, NodesStale, AskRestore, Delete,
       AskInsert, RestoreInsert, Unlink, Drop, WriteArchive, TickStart, DueRead,
       DueInsert, PruneRead, PruneDone, FailStalled, PruneLoad, WindowElapses, Restart,
       vars, tables, backupTable, handlers, node
  <2>2. QED
    BY <1>13, <2>1
<1>15. QED
  BY <1>1, <1>2, <1>3, <1>4, <1>5, <1>6, <1>7, <1>8, <1>9, <1>10, <1>11, <1>12, <1>14
  DEF Next, Operator, Failover, Answer, Sweeper, Agent, Time, Removers

\* The order is kept, and a restore goes with its backup.
LEMMA HeldHolds ==
  TInv /\ [Next]_vars => Held'
<1> SUFFICES ASSUME TInv, [Next]_vars PROVE Held'
  OBVIOUS
<1>1. Shape /\ Held
  BY DEF TInv, IInv
<1>2. \A t \in Tickets : ticket[t].backup \in Ids \cup {None}
  BY <1>1 DEF Shape
<1>3. CASE AskInsert \/ DueInsert
  <2>1. InsertBackup /\ ticket' = ticket
    BY <1>3 DEF AskInsert, DueInsert
  <2>2. QED
    BY <1>1, <1>2, <2>1, InsertOrders DEF Held
<1>4. CASE RestoreInsert
  <2>1. row' = row /\ newer' = newer
    BY <1>4 DEF RestoreInsert, backupTable
  <2>2. Ordered'
    BY <1>1, <2>1 DEF Held, Ordered, Present
  <2>3. CASE ticket' = ticket
    BY <1>1, <2>1, <2>2, <2>3 DEF Held, Present
  <2>4. CASE /\ Present(restoring)
             /\ \E t \in FreeTickets :
                  ticket' = [ticket EXCEPT ![t] = [status |-> "pending",
                                                   backup |-> restoring]]
    <3>1. \A t \in Tickets : ticket'[t].backup # None => Present(ticket'[t].backup)
      BY <1>1, <2>4 DEF Held, Shape
    <3>2. QED
      BY <1>1, <2>1, <2>2, <3>1 DEF Held, Present
  <2>5. QED
    BY <1>4, <2>3, <2>4 DEF RestoreInsert
<1>5. ASSUME NEW w \in Removers, Drop(w) PROVE Held'
  <2> DEFINE gone == removing[w].id
  <2>1. /\ row' = [row EXCEPT ![gone] = [status |-> "absent", stored |-> FALSE]]
        /\ newer' = {p \in newer : gone \notin {p[1], p[2]}}
        /\ \A t \in Tickets : \/ ticket'[t].backup = None
                              \/ ticket'[t] = ticket[t] /\ ticket[t].backup # gone
    BY <1>5 DEF Drop
  <2> HIDE DEF gone
  <2>2. /\ newer' \subseteq Ids \X Ids /\ Ordered'
        /\ \A j \in Ids : Present(j)' <=> Present(j) /\ j # gone
    BY <1>1, <2>1, DropOrders
  <2>3. ASSUME NEW t \in Tickets, ticket'[t].backup # None 
        PROVE  row'[ticket'[t].backup].status # "absent"
    <3>1. /\ ticket'[t].backup = ticket[t].backup /\ ticket[t].backup # gone
          /\ ticket[t].backup \in Ids /\ Present(ticket[t].backup)
      BY <1>1, <1>2, <2>1, <2>3 DEF Held
    <3>2. Present(ticket[t].backup)'
      BY <2>2, <3>1
    <3>3. QED
      BY <3>1, <3>2 DEF Present
  <2>4. QED
    BY <2>2, <2>3 DEF Held, Present
<1>6. ASSUME newer' = newer, \A j \in Ids : Present(j)' <=> Present(j),
             \A t \in Tickets : ticket'[t].backup = ticket[t].backup
      PROVE  Held'
  BY <1>1, <1>2, <1>6, StatusesOrder
<1>7. ASSUME NEW x, NEW status, ticket' = [ticket EXCEPT ![x].status = status]
      PROVE  \A t \in Tickets : ticket'[t].backup = ticket[t].backup
  BY <1>1, <1>7 DEF Shape
<1>8. CASE FailStalled
  <2>1. \A j \in Ids : Present(j)' <=> Present(j)
    BY <1>1, <1>8, FailLateKeeps DEF FailStalled, Present
  <2>2. \A t \in Tickets : ticket'[t].backup = ticket[t].backup
    BY <1>1, <1>8 DEF FailStalled, FailLate, Shape
  <2>3. QED
    BY <1>6, <1>8, <2>1, <2>2 DEF FailStalled
<1>9. CASE Claim
  <2>1. \A j \in Ids : Present(j)' <=> Present(j)
    BY <1>1, <1>9 DEF Claim, Present, Shape
  <2>2. QED
    BY <1>6, <1>9, <2>1 DEF Claim
<1>10. ASSUME NEW i \in Ids, Commit(i) PROVE Held'
  <2>1. \A j \in Ids : Present(j)' <=> Present(j)
    BY <1>1, <1>10 DEF Commit, Present, Shape
  <2>2. QED
    BY <1>6, <1>10, <2>1 DEF Commit
<1>11. CASE Report
  <2>1. \A j \in Ids : Present(j)' <=> Present(j)
    BY <1>1, <1>11 DEF Report, Present, Shape
  <2>2. QED
    BY <1>6, <1>11, <2>1 DEF Report
<1>12. CASE Fetch \/ Confirm \/ Refuse
  <2>1. row' = row /\ newer' = newer
    BY <1>12 DEF Fetch, Confirm, Refuse, backupTable
  <2>2. ticket' = ticket \/ \E x, status : ticket' = [ticket EXCEPT ![x].status = status]
    BY <1>12 DEF Fetch, Confirm, Refuse, Settle
  <2>3. \A t \in Tickets : ticket'[t].backup = ticket[t].backup
    BY <1>7, <2>2
  <2>4. \A j \in Ids : Present(j)' <=> Present(j)
    BY <2>1 DEF Present
  <2>5. QED
    BY <1>6, <2>1, <2>3, <2>4
<1>13. ASSUME UNCHANGED <<row, newer, ticket>> PROVE Held'
  BY <1>6, <1>13 DEF Present
<1>14. CASE \/ Ask \/ Deploy \/ Stop \/ Hold \/ Resume \/ NodesStale
            \/ TickStart \/ DueRead \/ PruneRead
            \/ PruneDone \/ PollRows \/ PollJobs \/ Reconcile \/ ReconcileFails
            \/ Archive \/ Send \/ Unanswered \/ Extract \/ AgentRestart \/ Restart
            \/ UNCHANGED vars
            \/ \E i \in Ids : AskRestore(i) \/ Delete(i) \/ WriteArchive(i) \/ PruneLoad(i)
            \/ \E w \in Removers : Unlink(w)
            \/ \E j \in Ids \cup Tickets : WindowElapses(j)
  <2>1. UNCHANGED <<row, newer, ticket>>
    BY <1>14 DEF Ask, Deploy, Stop, Hold, Resume, NodesStale, AskRestore, Delete,
       Unlink, WriteArchive, TickStart, DueRead, PruneRead, PruneDone, PruneLoad,
       PollRows, PollJobs, Reconcile, ReconcileFails, Archive, Send, Unanswered,
       Extract, WindowElapses, AgentRestart, Restart, vars, tables, backupTable,
       handlers, node
  <2>2. QED
    BY <1>13, <2>1
<1>15. QED
  BY <1>1, <1>2, <1>3, <1>4, <1>5, <1>6, <1>7, <1>8, <1>9, <1>10, <1>11, <1>12, <1>14
  DEF Next, Operator, Failover, Answer, Sweeper, Agent, Time, Removers

\* What has happened, of whichever kind, stays so.
LEMMA StaysHappened ==
  ASSUME used \subseteq used', NEW kind
  PROVE  Happened(kind) => Happened(kind)'
BY DEF Happened

\* The sweep fails rows and does nothing else to them.
LEMMA FailLateFails ==
  ASSUME Shape
  PROVE  \A i \in Ids : FailLate(row)[i].status \in {row[i].status, "failed"}
<1>1. ASSUME NEW i \in Ids PROVE FailLate(row)[i].status \in {row[i].status, "failed"}
  <2>1. FailLate(row)[i] \in {row[i], [row[i] EXCEPT !.status = "failed"]}
    BY DEF FailLate, Shape
  <2>2. [row[i] EXCEPT !.status = "failed"].status = "failed"
    BY DEF Shape
  <2>3. QED
    BY <2>1, <2>2
<1>2. QED
  BY <1>1

\* Of the jobs left none is the first, and each is there once.
LEMMA OthersLeft ==
  ASSUME agent \in AgentType, agent.jobs # <<>>, Queue
  PROVE  /\ \A a \in 1..Len(Tail(agent.jobs)) :
              /\ Tail(agent.jobs)[a] # Job
              /\ \E b \in 1..Len(agent.jobs) : Tail(agent.jobs)[a] = agent.jobs[b]
         /\ \A a, b \in 1..Len(Tail(agent.jobs)) :
              a # b => Tail(agent.jobs)[a] # Tail(agent.jobs)[b]
<1>1. agent.jobs \in Seq(Ids)
  BY DEF AgentType
<1>2. Len(agent.jobs) \in Nat /\ Len(Tail(agent.jobs)) \in Nat
  BY <1>1, JobsLeft, LenProperties
<1>3. \A a \in 1..Len(Tail(agent.jobs)) : a + 1 # 1
  BY <1>2
<1>4. \A a \in 1..Len(Tail(agent.jobs)) :
        /\ Tail(agent.jobs)[a] # Job
        /\ \E b \in 1..Len(agent.jobs) : Tail(agent.jobs)[a] = agent.jobs[b]
  BY <1>3, JobsLeft DEF Queue
<1>5. \A a, b \in 1..Len(Tail(agent.jobs)) :
        a # b => Tail(agent.jobs)[a] # Tail(agent.jobs)[b]
  <2>1. \A a, b \in 1..Len(Tail(agent.jobs)) : a # b => a + 1 # b + 1
    BY <1>2
  <2>2. QED
    BY <2>1, JobsLeft DEF Queue
<1>6. QED
  BY <1>4, <1>5

\* Rows that fail or go take no job's place.
LEMMA QueueOfRows ==
  ASSUME agent \in AgentType, Queue, used \subseteq used', UNCHANGED <<agent, upload>>,
         \A i \in Ids : row'[i].status \in {row[i].status, "failed", "absent"}
  PROVE  Queue'
<1>1. \A a \in 1..Len(agent.jobs) : agent.jobs[a] \in Ids
  BY LenProperties DEF AgentType
<1>2. agent.pc \in {"archive", "upload", "sent"} => Job \in Ids
  BY JobsLeft DEF Queue
<1>3. Job' = Job
  BY DEF Job
<1>4. Happened("losses") => Happened("losses")'
  BY StaysHappened
<1>5. QED
  BY <1>1, <1>2, <1>3, <1>4 DEF Queue

\* A step of the pass on which nothing is at work.
LEMMA QueueOfPass ==
  ASSUME Queue, used \subseteq used', UNCHANGED <<row, upload>>, agent'.jobs = agent.jobs,
         agent.pc # "sent", agent'.pc \notin {"archive", "upload", "sent", "report"}
  PROVE  Queue'
<1>1. Happened("losses") => Happened("losses")'
  BY StaysHappened
<1>2. QED
  BY <1>1 DEF Queue

\* An insert takes the identity of no job and of no upload.
LEMMA QueueOfInsert ==
  ASSUME Shape, agent \in AgentType, Queue, used \subseteq used', UNCHANGED <<agent, upload>>,
         InsertBackup
  PROVE  Queue'
<1>1. PICK i \in FreeIds : row' = [row EXCEPT ![i] = [status |-> "pending", stored |-> FALSE]]
  BY DEF InsertBackup
<1>2. /\ DOMAIN agent.jobs = 1..Len(agent.jobs)
      /\ \A a \in 1..Len(agent.jobs) : agent.jobs[a] \in Ids
  BY LenProperties DEF AgentType
<1>3. i \in Ids /\ upload[i] = "none" /\ \A a \in 1..Len(agent.jobs) : agent.jobs[a] # i
  BY <1>1, <1>2 DEF FreeIds
<1>4. row'[i].status = "pending" /\ \A j \in Ids \ {i} : row'[j] = row[j]
  BY <1>1, <1>3 DEF Shape
<1>5. agent.pc \in {"archive", "upload", "sent"} => Job \in Ids /\ Job # i
  BY <1>3, JobsLeft DEF Queue
<1>6. Job' = Job
  BY DEF Job
<1>7. Happened("losses") => Happened("losses")'
  BY StaysHappened
<1>8. QED
  BY <1>2, <1>3, <1>4, <1>5, <1>6, <1>7 DEF Queue

\* The agent's jobs are kept, answered and taken up one at a time.
LEMMA QueueHolds ==
  BackupAssumption /\ Shape /\ Held /\ agent \in AgentType /\ Queue
    /\ used \subseteq used' /\ [Next]_vars => Queue'
<1> SUFFICES ASSUME BackupAssumption, Shape, Held, agent \in AgentType, Queue,
                    used \subseteq used', [Next]_vars
             PROVE  Queue'
  OBVIOUS
<1> DEFINE jobs == agent.jobs
<1>1. /\ \A a \in 1..Len(jobs) : jobs[a] \in Ids
      /\ Happened("losses") => Happened("losses")'
  BY LenProperties, StaysHappened DEF AgentType
<1>2. ASSUME jobs # <<>>, NextJob,
             \A i \in Ids : i # Job => row'[i] = row[i] /\ upload'[i] = upload[i],
             \A i \in Ids : row'[i].status = "pending" => upload'[i] = "none",
             upload'[Job] = "none" \/ Happened("losses")' \/ agent.pc # "sent"
      PROVE  Queue'
  <2>1. agent'.jobs = Tail(jobs) /\ agent'.pc = "backups"
    BY <1>2 DEF NextJob, AgentType
  <2>2. Job \in Ids
    BY <1>2, JobsLeft
  <2>3. \A a \in 1..Len(Tail(jobs)) :
          Tail(jobs)[a] # Job /\ \E b \in 1..Len(jobs) : Tail(jobs)[a] = jobs[b]
    BY <1>2, OthersLeft
  <2>4. \A a, b \in 1..Len(Tail(jobs)) : a # b => Tail(jobs)[a] # Tail(jobs)[b]
    BY <1>2, OthersLeft
  <2>5. ASSUME ~Happened("losses")', NEW a \in 1..Len(Tail(jobs))
        PROVE  row'[Tail(jobs)[a]].status # "complete"
    BY <1>1, <1>2, <2>3, <2>5 DEF Queue
  <2>6. ASSUME ~Happened("losses")', NEW i \in Ids, upload'[i] # "none",
               NEW a \in 1..Len(Tail(jobs))
        PROVE  Tail(jobs)[a] # i
    BY <1>1, <1>2, <2>3, <2>6 DEF Queue
  <2>7. QED
    BY <1>2, <2>1, <2>4, <2>5, <2>6 DEF Queue
<1>3. CASE AskInsert \/ DueInsert
  <2>1. InsertBackup /\ UNCHANGED <<agent, upload>>
    BY <1>3 DEF AskInsert, DueInsert, node
  <2>2. QED
    BY <2>1, QueueOfInsert
<1>4. ASSUME NEW w \in Removers, Drop(w) PROVE Queue'
  <2>1. \A i \in Ids : row'[i].status \in {row[i].status, "failed", "absent"}
    BY <1>4 DEF Drop, Shape
  <2>2. UNCHANGED <<agent, upload>>
    BY <1>4 DEF Drop, node
  <2>3. QED
    BY <2>1, <2>2, QueueOfRows
<1>5. CASE FailStalled
  <2>1. \A i \in Ids : row'[i].status \in {row[i].status, "failed", "absent"}
    BY <1>5, FailLateFails DEF FailStalled
  <2>2. UNCHANGED <<agent, upload>>
    BY <1>5 DEF FailStalled, node
  <2>3. QED
    BY <2>1, <2>2, QueueOfRows
<1>6. CASE PollRows \/ Reconcile \/ ReconcileFails \/ Extract
  <2>1. UNCHANGED <<row, upload>>
    BY <1>6
    DEF PollRows, Reconcile, ReconcileFails, Extract, tables, backupTable, handlers
  <2>2. /\ agent'.jobs = agent.jobs /\ agent.pc # "sent"
        /\ agent'.pc \notin {"archive", "upload", "sent", "report"}
    BY <1>6 DEF PollRows, Reconcile, ReconcileFails, Passed, Extract, Go, AgentType
  <2>3. QED
    BY <2>1, <2>2, QueueOfPass
<1>7. CASE Fetch \/ Confirm \/ Refuse
  <2>1. UNCHANGED <<row, upload>>
    BY <1>7 DEF Fetch, Confirm, Refuse, backupTable, handlers
  <2>2. /\ agent'.jobs = agent.jobs /\ agent.pc # "sent"
        /\ agent'.pc \notin {"archive", "upload", "sent", "report"}
    BY <1>7 DEF Fetch, Confirm, Refuse, Go, AgentType
  <2>3. QED
    BY <2>1, <2>2, QueueOfPass
<1>8. CASE PollJobs
  <2>1. PICK new \in InTurn(Oldest({i \in Ids : row[i].status = "pending"}, 3)) :
          agent'.pc = "reconcile" /\ agent'.jobs = new
    BY <1>8 DEF PollJobs, AgentType
  <2>2. UNCHANGED <<row, upload>>
    BY <1>8 DEF PollJobs, tables, backupTable, handlers
  <2>3. /\ new \in Seq(Ids)
        /\ \A a \in 1..Len(new) : new[a] \in Ids /\ row[new[a]].status = "pending"
        /\ \A a, b \in 1..Len(new) : a < b => <<new[b], new[a]>> \in newer
    <3>1. {i \in Ids : row[i].status = "pending"} \in SUBSET Ids
      OBVIOUS
    <3>2. QED
      BY <3>1, PolledJobs
  <2>4. ASSUME NEW a \in 1..Len(new), NEW b \in 1..Len(new), a < b PROVE new[a] # new[b]
    <3>1. <<new[b], new[a]>> \in newer /\ <<new[a], new[b]>> \notin newer
      BY <2>3, <2>4 DEF Held, Ordered
    <3>2. QED
      BY <3>1
  <2>5. \A a, b \in 1..Len(new) : a # b => new[a] # new[b]
    <3>1. Len(new) \in Nat
      BY <2>3, LenProperties
    <3>2. \A a, b \in 1..Len(new) : a # b => a < b \/ b < a
      BY <3>1
    <3>3. QED
      BY <2>4, <3>2
  <2>6. QED
    BY <2>1, <2>2, <2>3, <2>5 DEF Queue
<1>9. CASE Claim
  <2>1. /\ agent.pc = "backups" /\ jobs # <<>> /\ agent'.jobs = jobs
        /\ agent'.pc \in {"archive", "report"} /\ UNCHANGED <<upload>>
    BY <1>9 DEF Claim, Go, AgentType, handlers
  <2>2. Job \in Ids /\ Job' = Job
    BY <2>1, JobsLeft DEF Job
  <2>3. /\ row'[Job].status # "pending"
        /\ \A i \in Ids : row'[i].status \in {row[i].status, "running"}
    BY <1>9, <2>2 DEF Claim, Shape
  <2>4. QED
    BY <1>1, <2>1, <2>2, <2>3 DEF Queue
<1>10. CASE Archive
  <2>1. /\ agent.pc = "archive" /\ agent'.pc \in {"upload", "report"} /\ agent'.jobs = jobs
        /\ UNCHANGED <<row, upload>>
    BY <1>10 DEF Archive, Go, AgentType, tables, backupTable, handlers
  <2>2. Job' = Job
    BY <2>1 DEF Job
  <2>3. QED
    BY <1>1, <2>1, <2>2 DEF Queue
<1>11. CASE Send
  <2>1. /\ agent.pc = "upload" /\ agent'.jobs = jobs /\ row' = row
        /\ \/ agent'.pc = "sent" /\ upload' = [upload EXCEPT ![Job] = "write"]
           \/ agent'.pc = "report" /\ upload' = upload
    BY <1>11 DEF Send, Go, AgentType, tables, backupTable
  <2>2. Job' = Job /\ Job \in Ids
    BY <2>1, JobsLeft DEF Job, Queue
  <2>3. /\ \A i \in Ids \ {Job} : upload'[i] = upload[i]
        /\ row[Job].status # "pending"
    BY <2>1, <2>2 DEF Shape, Queue
  <2>4. CASE agent'.pc = "sent"
    BY <1>1, <2>1, <2>2, <2>3, <2>4 DEF Queue
  <2>5. CASE agent'.pc = "report" /\ upload' = upload
    BY <1>1, <2>1, <2>2, <2>5 DEF Queue
  <2>6. QED
    BY <2>1, <2>4, <2>5
<1>12. ASSUME NEW i \in Ids, WriteArchive(i) PROVE Queue'
  <2>1. UNCHANGED <<row, agent>> /\ \A j \in Ids : upload'[j] = "none" <=> upload[j] = "none"
    BY <1>12 DEF WriteArchive, tables, backupTable, node, Shape
  <2>2. Job' = Job
    BY <2>1 DEF Job
  <2>3. QED
    BY <1>1, <2>1, <2>2 DEF Queue
<1>13. ASSUME NEW i \in Ids, Commit(i) PROVE Queue'
  <2>1. /\ upload[i] = "commit" /\ upload'[i] = "none"
        /\ \A j \in Ids \ {i} : upload'[j] = upload[j] /\ row'[j] = row[j]
        /\ row'[i].status # "pending"
        /\ ~Present(i) => row' = row
    <3>1. row[i].status # "pending"
      BY <1>13 DEF Commit, Queue
    <3>2. QED
      BY <1>13, <3>1 DEF Commit, Shape
  <2>2. \A j \in Ids : row'[j].status = "pending" => upload'[j] = "none"
    BY <2>1 DEF Queue
  <2>3. CASE agent.pc = "sent" /\ Job = i /\ Present(i)
    <3>1. NextJob /\ jobs # <<>>
      BY <1>13, <2>3 DEF Commit, Awaited, Queue
    <3>2. QED
      BY <1>2, <2>1, <2>2, <2>3, <3>1
  <2>4. CASE agent.pc = "sent" /\ Job = i /\ ~Present(i)
    <3>1. agent'.pc = "report" /\ agent'.jobs = jobs /\ row' = row
      BY <1>13, <2>1, <2>4 DEF Commit, Awaited, Go, AgentType
    <3>2. QED
      BY <1>1, <2>1, <2>2, <2>4, <3>1 DEF Queue
  <2>5. CASE ~(agent.pc = "sent" /\ Job = i)
    <3>1. UNCHANGED agent /\ Job' = Job
      BY <1>13, <2>5 DEF Commit, Awaited, Job
    <3>2. Happened("losses") \/ \A a \in 1..Len(jobs) : jobs[a] # i
      BY <2>1, <2>5 DEF Queue
    <3>3. agent.pc \in {"archive", "upload", "sent"} => Job \in Ids
      BY JobsLeft DEF Queue
    <3>4. agent.pc \in {"archive", "upload", "sent"} => row'[Job].status # "pending"
      BY <2>1, <3>3 DEF Queue
    <3>5. QED
      BY <1>1, <2>1, <2>2, <3>1, <3>2, <3>4 DEF Queue
  <2>6. QED
    BY <2>3, <2>4, <2>5
<1>14. CASE Unanswered
  <2>1. /\ agent'.pc = "report" /\ agent'.jobs = jobs /\ UNCHANGED <<row, upload>>
        /\ agent.pc = "sent" \/ jobs # <<>>
    BY <1>14 DEF Unanswered, Go, AgentType, tables, backupTable, handlers
  <2>2. \/ Happened("losses")'
        \/ agent.pc = "sent" /\ upload[Job] = "none"
    <3>1. CASE Spend("losses")
      BY <3>1, SpendHappens DEF Happened, Excepted
    <3>2. QED
      BY <1>14, <3>1 DEF Unanswered
  <2>3. QED
    BY <1>1, <2>1, <2>2 DEF Queue
<1>15. CASE Report
  <2>1. agent.pc = "report" /\ jobs # <<>> /\ NextJob /\ upload' = upload
    BY <1>15 DEF Report, Queue, handlers
  <2>2. Job \in Ids
    BY <2>1, JobsLeft
  <2>3. /\ \A i \in Ids \ {Job} : row'[i] = row[i]
        /\ row'[Job].status \in {row[Job].status, "failed"}
    BY <1>15, <2>2 DEF Report, Shape
  <2>4. QED
    BY <1>2, <2>1, <2>2, <2>3 DEF Queue
<1>16. CASE AgentRestart
  <2>1. agent'.jobs = <<>> /\ agent'.pc = "idle" /\ UNCHANGED <<row, upload>>
    BY <1>16 DEF AgentRestart, Idle, tables, backupTable, handlers
  <2>2. Len(agent'.jobs) = 0
    BY <2>1, EmptySeq
  <2>3. QED
    BY <2>1, <2>2 DEF Queue
<1>17. CASE Restart
  <2>1. UNCHANGED <<row, agent>> /\ \A i \in Ids : upload'[i] = "none"
    BY <1>17 DEF Restart, tables, backupTable, node
  <2>2. Job' = Job
    BY <2>1 DEF Job
  <2>3. QED
    BY <1>1, <2>1, <2>2 DEF Queue
<1>18. ASSUME UNCHANGED <<row, upload, agent>> PROVE Queue'
  BY <1>1, <1>18 DEF Queue, Job
<1>19. CASE \/ Ask \/ Deploy \/ Stop \/ Hold \/ Resume \/ NodesStale
            \/ RestoreInsert \/ TickStart \/ DueRead
            \/ PruneRead \/ PruneDone \/ UNCHANGED vars
            \/ \E i \in Ids : AskRestore(i) \/ Delete(i) \/ PruneLoad(i)
            \/ \E w \in Removers : Unlink(w)
            \/ \E j \in Ids \cup Tickets : WindowElapses(j)
  <2>1. UNCHANGED <<row, upload, agent>>
    BY <1>19 DEF Ask, Deploy, Stop, Hold, Resume, NodesStale, AskRestore, Delete,
       RestoreInsert, Unlink, TickStart, DueRead, PruneRead, PruneDone, PruneLoad,
       WindowElapses, vars, tables, backupTable, handlers, node
  <2>2. QED
    BY <1>18, <2>1
<1>20. QED
  BY <1>3, <1>4, <1>5, <1>6, <1>7, <1>8, <1>9, <1>10, <1>11, <1>12, <1>13, <1>14, <1>15,
     <1>16, <1>17, <1>19
  DEF Next, Operator, Failover, Answer, Sweeper, Agent, Time, Removers

\* What is complete stays so, unless an upload went unanswered, until it is deleted.
LEMMA CompleteStays ==
  ASSUME Shape, agent \in AgentType, Queue, [Next]_vars, used \subseteq used',
         ~Happened("losses")', NEW k \in Ids, row[k].status = "complete"
  PROVE  \/ row'[k].status = "complete"
         \/ \E w \in Removers : Drop(w) /\ removing[w].id = k
<1> DEFINE Goal == \/ row'[k].status = "complete"
                   \/ \E w \in Removers : Drop(w) /\ removing[w].id = k
<1>1. CASE AskInsert \/ DueInsert
  <2>1. PICK j \in Ids : /\ ~Present(j)
                         /\ row' = [row EXCEPT ![j] = [status |-> "pending", stored |-> FALSE]]
    BY <1>1 DEF AskInsert, DueInsert, InsertBackup, FreeIds
  <2>2. QED
    BY <2>1 DEF Shape, Present
<1>2. ASSUME NEW w \in Removers, Drop(w) PROVE Goal
  <2>1. CASE removing[w].id = k
    BY <1>2, <2>1
  <2>2. CASE removing[w].id # k
    BY <1>2, <2>2 DEF Drop, Shape
  <2>3. QED
    BY <2>1, <2>2
<1>3. CASE FailStalled
  BY <1>3 DEF FailStalled, FailLate, Shape
<1>4. CASE Claim
  <2>1. \/ row' = row
        \/ row[Job].status = "pending" /\ row' = [row EXCEPT ![Job].status = "running"]
    BY <1>4 DEF Claim
  <2>2. QED
    BY <2>1 DEF Shape
<1>5. ASSUME NEW j \in Ids, Commit(j) PROVE Goal
  <2>1. row' = row \/ row' = [row EXCEPT ![j] = [status |-> "complete", stored |-> TRUE]]
    BY <1>5 DEF Commit
  <2>2. QED
    BY <2>1 DEF Shape
<1>6. CASE Report
  <2>1. agent.jobs # <<>> /\ ~Happened("losses")
    BY <1>6, StaysHappened DEF Report, Queue
  <2>2. Job # k
    BY <2>1, JobsLeft DEF Queue
  <2>3. row' = row \/ row' = [row EXCEPT ![Job].status = "failed"]
    BY <1>6 DEF Report
  <2>4. QED
    BY <2>2, <2>3 DEF Shape
<1>7. ASSUME UNCHANGED <<row>> PROVE Goal
  BY <1>7
<1>8. CASE \/ Ask \/ Deploy \/ Stop \/ Hold \/ Resume \/ NodesStale
           \/ RestoreInsert \/ TickStart \/ DueRead
           \/ PruneRead \/ PruneDone \/ PollRows \/ PollJobs \/ Reconcile
           \/ ReconcileFails \/ Archive \/ Send \/ Unanswered \/ Fetch \/ Extract
           \/ Confirm \/ Refuse \/ AgentRestart \/ Restart \/ UNCHANGED vars
           \/ \E i \in Ids : AskRestore(i) \/ Delete(i) \/ WriteArchive(i) \/ PruneLoad(i)
           \/ \E w \in Removers : Unlink(w)
           \/ \E j \in Ids \cup Tickets : WindowElapses(j)
  <2>1. UNCHANGED <<row>>
    BY <1>8 DEF Ask, Deploy, Stop, Hold, Resume, NodesStale, AskRestore, Delete,
       RestoreInsert, Unlink, WriteArchive, TickStart, DueRead, PruneRead, PruneDone,
       PruneLoad, PollRows, PollJobs, Reconcile, ReconcileFails, Archive, Send,
       Unanswered, Fetch, Extract, Confirm, Refuse, WindowElapses, AgentRestart,
       Restart, vars, tables, backupTable, handlers, node
  <2>2. QED
    BY <1>7, <2>1
<1>9. QED
  BY <1>1, <1>2, <1>3, <1>4, <1>5, <1>6, <1>8
  DEF Next, Operator, Failover, Answer, Sweeper, Agent, Time, Removers

\* Of the complete rows one is the newest, and retention does not pick it.
LEMMA NewestStays ==
  ASSUME BackupAssumption, Held, Complete # {}
  PROVE  Complete \ Excess # {}
<1>1. Complete \in SUBSET {i \in Ids : Present(i)}
  BY DEF Complete, Present
<1>2. PICK i \in Complete : \A j \in Complete \ {i} : <<i, j>> \in newer
  BY <1>1 DEF Held, Ordered
<1>3. Newer(i, Complete) = {}
  BY <1>2 DEF Newer, Held, Ordered
<1>4. ~(Cardinality(Newer(i, Complete)) >= Keep)
  BY <1>3, FS_EmptySet DEF BackupAssumption
<1>5. i \notin Excess
  BY <1>4 DEF Excess
<1>6. QED
  BY <1>2, <1>5

\* Retention picks complete rows and leaves one, and deletes what it picked.
LEMMA RetainedHolds ==
  BackupAssumption /\ TInv /\ used \subseteq used' /\ [Next]_vars => Retained'
<1> SUFFICES ASSUME BackupAssumption, TInv, used \subseteq used', [Next]_vars PROVE Retained'
  OBVIOUS
<1> DEFINE Calm == ~Happened("losses")' /\ ~Happened("deletes")'
<1>1. /\ Shape /\ Held /\ Queue /\ Retained /\ agent \in AgentType /\ tick \in TickType
      /\ "operator" \in Removers /\ "tick" \in Removers
  BY DEF TInv, IInv, Kinds, Removers
<1>2. Calm => /\ removing["operator"].pc = "none" /\ Doomed \subseteq Complete
              /\ Doomed # {} => Complete \ Doomed # {}
  BY <1>1, StaysHappened DEF Retained
<1>3. \A i \in Ids : Calm /\ row[i].status = "complete" =>
        \/ row'[i].status = "complete"
        \/ \E w \in Removers : Drop(w) /\ removing[w].id = i
  BY <1>1, CompleteStays
\* A step that spares the rows and picks no more of them.
<1>4. ASSUME \A w \in Removers : ~Drop(w), Doomed' \subseteq Doomed,
             tick'.pc # "prune" => tick'.rows = {} /\ removing'["tick"].pc = "none",
             removing'["tick"].pc # "none" => removing'["tick"].id \notin tick'.rows,
             Calm => removing'["operator"].pc = "none"
      PROVE  Retained'
  <2>1. Calm => Complete \subseteq Complete'
    BY <1>3, <1>4 DEF Complete
  <2>2. Calm => Doomed' \subseteq Complete' /\ (Doomed' # {} => Complete' \ Doomed' # {})
    BY <1>2, <1>4, <2>1
  <2>3. QED
    BY <1>4, <2>2 DEF Retained
<1>5. ASSUME NEW i \in Ids, Delete(i) PROVE Retained'
  <2>1. Happened("deletes")'
    BY <1>5, SpendHappens DEF Delete, Happened, Excepted
  <2>2. tick' = tick /\ removing'["tick"] = removing["tick"]
    BY <1>1, <1>5 DEF Delete, Shape
  <2>3. QED
    BY <1>1, <2>1, <2>2 DEF Retained
<1>6. ASSUME NEW w \in Removers, Unlink(w) PROVE Retained'
  <2>1. /\ tick' = tick /\ row' = row /\ removing[w].pc = "unlink"
        /\ removing' = [removing EXCEPT ![w].pc = "drop"]
    BY <1>6 DEF Unlink, tables, backupTable
  <2>2. /\ removing'["tick"].id = removing["tick"].id
        /\ removing'["tick"].pc = "none" <=> removing["tick"].pc = "none"
        /\ w = "operator" \/ removing'["operator"] = removing["operator"]
    BY <1>1, <2>1 DEF Shape
  <2>3. Doomed' = Doomed /\ Complete' = Complete
    BY <2>1, <2>2 DEF Doomed, Complete
  <2>4. Calm => removing'["operator"].pc = "none"
    BY <1>2, <2>1, <2>2
  <2>5. QED
    BY <1>1, <1>2, <2>1, <2>2, <2>3, <2>4 DEF Retained
<1>7. ASSUME NEW w \in Removers, Drop(w) PROVE Retained'
  <2> DEFINE gone == removing[w].id
  <2>1. /\ tick' = tick /\ removing[w].pc = "drop"
        /\ removing' = [removing EXCEPT ![w] = NoRemoval]
        /\ row' = [row EXCEPT ![gone] = [status |-> "absent", stored |-> FALSE]]
    BY <1>7 DEF Drop
  <2>2. CASE w = "operator"
    <3>1. ~Calm
      BY <1>2, <2>1, <2>2
    <3>2. removing'["tick"] = removing["tick"]
      BY <1>1, <2>1, <2>2 DEF Shape
    <3>3. QED
      BY <1>1, <2>1, <3>1, <3>2 DEF Retained
  <2>3. CASE w = "tick"
    <3>1. removing'["tick"].pc = "none" /\ removing'["operator"] = removing["operator"]
      BY <1>1, <2>1, <2>3 DEF Shape, NoRemoval
    <3>2. /\ Doomed = tick.rows \cup {gone} /\ Doomed' = tick.rows /\ gone \notin tick.rows
      BY <1>1, <2>1, <2>3, <3>1 DEF Doomed, Retained
    <3>3. Complete' = Complete \ {gone}
      BY <1>1, <2>1 DEF Complete, Shape
    <3>4. Calm => Doomed' \subseteq Complete' /\ Complete' \ Doomed' # {}
      BY <1>2, <3>2, <3>3
    <3>5. QED
      BY <1>1, <1>2, <2>1, <3>1, <3>4 DEF Retained
  <2>4. QED
    BY <2>2, <2>3 DEF Removers
<1>8. CASE TickStart \/ DueRead \/ DueInsert \/ FailStalled
  <2>1. /\ tick.pc # "prune" /\ tick'.pc # "prune" /\ removing' = removing
        /\ tick'.rows = tick.rows \/ tick'.rows = {}
    BY <1>1, <1>8 DEF TickStart, DueRead, DueInsert, FailStalled, IdleTick, TickType
  <2>2. /\ tick.rows = {} /\ removing["tick"].pc = "none"
    BY <1>1, <2>1 DEF Retained
  <2>3. Doomed' = {}
    BY <2>1, <2>2 DEF Doomed
  <2>4. QED
    BY <1>2, <2>1, <2>2, <2>3 DEF Retained
<1>9. CASE PruneRead
  <2>1. /\ tick.pc = "excess" /\ tick' = [pc |-> "prune", rows |-> Excess]
        /\ UNCHANGED <<row, removing>>
    BY <1>9 DEF PruneRead, tables, backupTable
  <2>2. removing["tick"].pc = "none"
    BY <1>1, <2>1 DEF Retained
  <2>3. Doomed' = Excess /\ Complete' = Complete
    BY <2>1, <2>2 DEF Doomed, Complete
  <2>4. Excess \subseteq Complete
    BY DEF Excess
  <2>5. Excess # {} => Complete \ Excess # {}
    BY <1>1, <2>4, NewestStays
  <2>6. QED
    BY <1>2, <2>1, <2>2, <2>3, <2>4, <2>5 DEF Retained
<1>10. ASSUME NEW i \in Ids, PruneLoad(i) PROVE Retained'
  <2>1. /\ tick.pc = "prune" /\ i \in tick.rows /\ removing["tick"].pc = "none"
        /\ tick'.pc = "prune" /\ tick'.rows = tick.rows \ {i}
        /\ removing'["operator"] = removing["operator"]
        /\ \/ removing'["tick"].id = i
           \/ removing'["tick"].pc = "none"
    BY <1>1, <1>10 DEF PruneLoad, TickType, Shape
  <2>2. Doomed' \subseteq Doomed
    BY <2>1 DEF Doomed
  <2>3. \A w \in Removers : ~Drop(w)
    <3>1. tick' # tick
      BY <2>1
    <3>2. QED
      BY <3>1 DEF Drop
  <2>4. QED
    BY <1>2, <1>4, <2>1, <2>2, <2>3
<1>11. CASE PruneDone
  <2>1. /\ tick.rows = {} /\ removing["tick"].pc = "none" /\ tick'.pc = "stall"
        /\ tick'.rows = {} /\ removing' = removing
    BY <1>1, <1>11 DEF PruneDone, TickType
  <2>2. Doomed' = {}
    BY <2>1 DEF Doomed
  <2>3. QED
    BY <1>2, <2>1, <2>2 DEF Retained
<1>12. CASE Restart
  <2>1. tick'.rows = {} /\ \A w \in Removers : removing'[w].pc = "none"
    BY <1>12 DEF Restart, IdleTick, NoRemoval
  <2>2. Doomed' = {}
    BY <1>1, <2>1 DEF Doomed
  <2>3. QED
    BY <1>1, <2>1, <2>2 DEF Retained
<1>13. ASSUME UNCHANGED <<tick, removing>> PROVE Retained'
  <2>1. Doomed' = Doomed
    BY <1>13 DEF Doomed
  <2>2. \A w \in Removers : ~Drop(w)
    BY <1>1, <1>13 DEF Drop, Shape, NoRemoval
  <2>3. QED
    BY <1>1, <1>2, <1>4, <1>13, <2>1, <2>2 DEF Retained
<1>14. CASE \/ Ask \/ Deploy \/ Stop \/ Hold \/ Resume \/ NodesStale
            \/ AskInsert \/ RestoreInsert \/ PollRows
            \/ PollJobs \/ Reconcile \/ ReconcileFails \/ Claim \/ Archive \/ Send
            \/ Unanswered \/ Report \/ Fetch \/ Extract \/ Confirm \/ Refuse
            \/ AgentRestart \/ UNCHANGED vars
            \/ \E i \in Ids : AskRestore(i) \/ WriteArchive(i) \/ Commit(i)
            \/ \E j \in Ids \cup Tickets : WindowElapses(j)
  <2>1. UNCHANGED <<tick, removing>>
    BY <1>14 DEF Ask, Deploy, Stop, Hold, Resume, NodesStale, AskRestore, AskInsert,
       RestoreInsert, WriteArchive, Commit, PollRows, PollJobs, Reconcile,
       ReconcileFails, Claim, Archive, Send, Unanswered, Report, Fetch, Extract,
       Confirm, Refuse, WindowElapses, AgentRestart, vars, tables, backupTable,
       handlers, node
  <2>2. QED
    BY <1>13, <2>1
<1>15. QED
  BY <1>5, <1>6, <1>7, <1>8, <1>9, <1>10, <1>11, <1>12, <1>14
  DEF Next, Operator, Failover, Answer, Sweeper, Agent, Time, Removers

\* At first there is one archive or none, and nothing is under way.
LEMMA InitTyped == BackupAssumption /\ Init => TInv
<1> SUFFICES ASSUME BackupAssumption, Init PROVE TInv
  OBVIOUS
<1>1. IInv
  BY InitHolds
<1>2. Kinds
  <2>1. disk \subseteq Ids /\ late = {} /\ ask = FALSE /\ used = {} /\ tick = IdleTick
    BY DEF Init, BackupAssumption
  <2>2. <<>> \in Seq(Ids) /\ agent = [Idle EXCEPT !.settled = TRUE]
    BY EmptySeq DEF Init
  <2>3. agent \in AgentType
    BY <2>2 DEF AgentType, Idle
  <2>4. Counted
    BY <2>1, FS_EmptySet DEF Counted
  <2>5. QED
    BY <2>1, <2>3, <2>4 DEF Kinds, TickType, IdleTick, Places
<1>3. Held
  <2>1. PICK kept \in {{}, {CHOOSE i \in Ids : TRUE}}, asked \in BOOLEAN :
          /\ asked => kept # {}
          /\ ticket = [t \in Tickets |->
                         IF asked /\ t = CHOOSE q \in Tickets : TRUE
                         THEN [status |-> "pending", backup |-> CHOOSE i \in Ids : TRUE]
                         ELSE [status |-> "absent", backup |-> None]]
          /\ row = [i \in Ids |-> IF i \in kept THEN [status |-> "complete", stored |-> TRUE]
                                 ELSE [status |-> "absent", stored |-> FALSE]]
          /\ newer = {} /\ disk = kept
    BY DEF Init
  <2>2. \A i \in Ids : Present(i) <=> i \in kept
    BY <2>1 DEF Present
  <2>3. Ordered
    <3>1. \A i, j \in Ids : Present(i) /\ Present(j) => i = j
      BY <2>1, <2>2
    <3>2. QED
      BY <2>1, <3>1 DEF Ordered
  <2>4. QED
    BY <2>1, <2>2, <2>3 DEF Held
<1>4. Queue
  <2>1. agent.jobs = <<>> /\ agent.pc = "idle" /\ \A i \in Ids : upload[i] = "none"
    BY DEF Init, Idle
  <2>2. Len(agent.jobs) = 0
    BY <2>1, EmptySeq
  <2>3. QED
    BY <2>1, <2>2 DEF Queue
<1>5. Retained
  <2>1. tick.rows = {} /\ \A w \in Removers : removing[w].pc = "none"
    BY DEF Init, IdleTick, NoRemoval
  <2>2. Doomed = {}
    BY <2>1 DEF Doomed, Removers
  <2>3. QED
    BY <2>1, <2>2 DEF Retained, Removers
<1>6. QED
  BY <1>1, <1>2, <1>3, <1>4, <1>5 DEF TInv

\* Every step keeps it all.
LEMMA NextTyped == BackupAssumption /\ TInv /\ [Next]_vars => TInv' /\ used \subseteq used'
<1> SUFFICES ASSUME BackupAssumption, TInv, [Next]_vars PROVE TInv' /\ used \subseteq used'
  OBVIOUS
<1>1. /\ IInv /\ Shape /\ Held /\ Queue /\ Counted /\ Places
      /\ agent \in AgentType /\ tick \in TickType
  BY DEF TInv, Kinds, IInv
<1>2. IInv'
  BY <1>1, NextHolds
<1>3. Counted' /\ used \subseteq used'
  BY <1>1, CountedHolds
<1>4. Places'
  BY <1>1, PlacesHold
<1>5. tick' \in TickType
  BY <1>1, TickHolds
<1>6. agent' \in AgentType
  BY <1>1, AgentHolds
<1>7. Held'
  BY HeldHolds
<1>8. Queue'
  BY <1>1, <1>3, QueueHolds
<1>9. Retained'
  BY <1>3, RetainedHolds
<1>10. QED
  BY <1>2, <1>3, <1>4, <1>5, <1>6, <1>7, <1>8, <1>9 DEF TInv, Kinds

\* The variables keep their types: the table is in order, whatever comes and goes, and no
\* restore is left without its backup.
THEOREM BackupTypes == Spec => []TypeOK
<1>1. TInv => TypeOK
  BY DEF TInv, IInv, Shape, Kinds, Held, Places, Counted, AgentType, TickType, Present,
         TypeOK
<1>2. BackupAssumption => (Init => TInv)
  BY InitTyped
<1>3. BackupAssumption => (TInv /\ [Next]_vars => TInv')
  BY NextTyped
<1>4. QED
  BY <1>1, <1>2, <1>3, BackupAssumption, PTL DEF Spec

\* Retention never takes the last good archive, nor does a failure, while every upload is
\* answered and nobody deletes.
THEOREM LastGoodStays == Spec => LastGoodKept
<1>1. ASSUME BackupAssumption, TInv, [Next]_vars
      PROVE  [Complete # {} /\ ~Happened("losses")' /\ ~Happened("deletes")'
                => Complete' # {}]_vars
  <2>1. /\ used \subseteq used' /\ Shape /\ Queue /\ Retained /\ agent \in AgentType
    BY <1>1, NextTyped DEF TInv, IInv, Kinds
  <2>2. SUFFICES ASSUME Complete # {}, ~Happened("losses")', ~Happened("deletes")'
                 PROVE  Complete' # {}
    OBVIOUS
  <2>3. CASE Doomed = {}
    <3>1. ASSUME NEW w \in Removers, Drop(w) PROVE FALSE
      <4>1. removing["operator"].pc = "none"
        BY <2>1, <2>2, StaysHappened DEF Retained
      <4>2. removing["tick"].pc = "none"
        BY <2>3 DEF Doomed
      <4>3. removing[w].pc = "drop"
        BY <3>1 DEF Drop
      <4>4. QED
        BY <3>1, <4>1, <4>2, <4>3 DEF Removers
    <3>2. PICK i \in Complete : TRUE
      BY <2>2
    <3>3. i \in Ids /\ row[i].status = "complete"
      BY DEF Complete
    <3>4. row'[i].status = "complete"
      BY <1>1, <2>1, <2>2, <3>1, <3>3, CompleteStays
    <3>5. QED
      BY <3>3, <3>4 DEF Complete
  <2>4. CASE Doomed # {}
    <3>1. PICK i \in Complete : i \notin Doomed
      BY <2>1, <2>2, <2>4, StaysHappened DEF Retained
    <3>2. i \in Ids /\ row[i].status = "complete"
      BY DEF Complete
    <3>3. ASSUME NEW w \in Removers, Drop(w) PROVE removing[w].id # i
      <4>1. removing["operator"].pc = "none"
        BY <2>1, <2>2, StaysHappened DEF Retained
      <4>2. w = "tick" /\ removing["tick"].pc # "none"
        BY <3>3, <4>1 DEF Drop, Removers
      <4>3. QED
        BY <3>1, <4>2 DEF Doomed
    <3>4. row'[i].status = "complete"
      BY <1>1, <2>1, <2>2, <3>2, <3>3, CompleteStays
    <3>5. QED
      BY <3>2, <3>4 DEF Complete
  <2>5. QED
    BY <2>3, <2>4
<1>2. BackupAssumption => (Init => TInv)
  BY InitTyped
<1>3. BackupAssumption => (TInv /\ [Next]_vars => TInv')
  BY NextTyped
<1>4. BackupAssumption /\ TInv /\ [Next]_vars =>
        [Complete # {} /\ ~Happened("losses")' /\ ~Happened("deletes")'
           => Complete' # {}]_vars
  BY <1>1
<1>5. QED
  BY <1>2, <1>3, <1>4, BackupAssumption, PTL DEF Spec, LastGoodKept
=============================================================================
