--------------------------- MODULE RolloutProofs ---------------------------
(***************************************************************************)
(* What holds of Rollout for any nodes, any rows and any disturbances: its *)
(* type invariant, with the order of the rows, that no handler writes to a *)
(* row whose build another one is running, that it implements Releases,    *)
(* and what that says of two releases that serve at once.                  *)
(***************************************************************************)
EXTENDS Rollout, TLAPS

\* The rows that some handler is going to write to by id.
Named == tick.rows \cup tick.rescue \cup op.rows \cup UNION {hb[n] : n \in Nodes}

\* What a handler names exists.
NamedExist == \A r \in Rows : r \in Named => dep[r].status # "absent"

IInv == TypeOK /\ NamedExist /\ BuildsUntouched

-----------------------------------------------------------------------------
\* A row that starts becomes the newest, and the others keep their order.
LEMMA StartOrders ==
  ASSUME newer \subseteq Rows \X Rows, NEW r \in Rows
  PROVE  /\ Start(r) \subseteq Rows \X Rows
         /\ \A p, q \in Rows :
              <<p, q>> \in Start(r) <=> q # r /\ (p = r \/ <<p, q>> \in newer)
  BY DEF Start

\* The order survives a start that brings one row into existence at most.
LEMMA StartKeepsOrder ==
  ASSUME newer \subseteq Rows \X Rows, InOrder, NEW r \in Rows, newer' = Start(r),
         \A q \in Rows : q # r => (dep'[q].status = "absent" <=> dep[q].status = "absent")
  PROVE  newer' \subseteq Rows \X Rows /\ InOrder'
  BY StartOrders DEF InOrder

\* The order survives every write to rows that exist.
LEMMA WriteKeepsOrder ==
  ASSUME InOrder, newer' = newer,
         \A q \in Rows : dep'[q].status # "absent" => dep[q].status # "absent"
  PROVE  InOrder'
  BY DEF InOrder

\* An insert made row r, which nothing named and no build or pass had, and superseded
\* the rows of `old`.
Inserted(r, old, status) ==
    /\ r \notin Named /\ flight[r] = "none"
    /\ dep[r].status \in {"absent", "superseded", "failed"}
    /\ \A m \in Nodes : r \notin agent[m].wanted
    /\ dep' \in [Rows -> [node : Nodes \cup {NoNode}, status : RowStatus]]
    /\ dep'[r].status = status
    /\ \A q \in Rows \ {r} :
         /\ q \notin old => dep'[q] = dep[q]
         /\ q \in old => dep'[q].status = "superseded"
    /\ newer' = Start(r) /\ overdue' \subseteq Rows

\* That is what an insert does.
LEMMA InsertEffect ==
  ASSUME TypeOK, NEW old \in SUBSET Rows, NEW n \in Nodes,
         NEW status \in {"building", "deploying"}, Insert(old, n, status)
  PROVE  \E r \in Rows : Inserted(r, old, status)
<1>1. PICK r \in Unused :
        /\ dep' = [q \in Rows |->
                     IF q = r THEN [node |-> n, status |-> status]
                     ELSE IF q \in old THEN [dep[q] EXCEPT !.status = "superseded"]
                     ELSE dep[q]]
        /\ newer' = Start(r)
        /\ overdue' = overdue \ {r}
  BY DEF Insert
<1>2. r \in Rows /\ r \notin Referenced
      /\ dep[r].status \in {"absent", "superseded", "failed"}
  BY DEF Unused
<1>3. r \notin Named /\ flight[r] = "none" /\ \A m \in Nodes : r \notin agent[m].wanted
  BY <1>2 DEF Referenced, Named
<1>4. dep' \in [Rows -> [node : Nodes \cup {NoNode}, status : RowStatus]]
  BY <1>1 DEF TypeOK, RowStatus, Live
<1>5. Inserted(r, old, status)
  BY <1>1, <1>2, <1>3, <1>4 DEF TypeOK, Inserted
<1>6. QED
  BY <1>2, <1>5

\* What the handlers hold stays theirs under every step that writes only to rows that
\* exist, opens no build, leaves the rows in flight alone and reads only live rows.
LEMMA Undisturbed ==
  ASSUME NamedExist, BuildsUntouched,
         \A r \in Rows : dep'[r].status # dep[r].status =>
            /\ dep[r].status # "absent"
            /\ dep'[r].status \notin {"absent", "building"},
         \A r \in Rows : flight'[r] # "none" =>
            flight[r] # "none" /\ dep'[r].status = dep[r].status,
         \A r \in Rows : r \in Named' => r \in Named \/ dep[r].status \in Live,
         \A n \in Nodes, r \in Rows :
            r \in agent'[n].wanted => r \in agent[n].wanted \/ dep[r].status \in Live
  PROVE  NamedExist' /\ BuildsUntouched'
<1>1. NamedExist'
  BY DEF NamedExist, Live
<1>2. \A r \in Rows : dep[r].status = "building" => r \notin Named
  BY DEF BuildsUntouched, Named
<1>3. \A r \in Rows : dep'[r].status = "building" => dep[r].status = "building"
  OBVIOUS
<1>4. \A r \in Rows : dep'[r].status = "building" => r \notin Named'
  BY <1>2, <1>3 DEF Live
<1>5. ASSUME NEW r \in Rows, dep'[r].status = "building"
      PROVE  /\ r \notin tick'.rows \cup tick'.rescue \cup op'.rows
             /\ \A n \in Nodes : r \notin hb'[n] \cup agent'[n].wanted
  <2>1. \A n \in Nodes : r \notin agent[n].wanted
    BY <1>3, <1>5 DEF BuildsUntouched
  <2>2. \A n \in Nodes : r \notin agent'[n].wanted
    BY <1>3, <1>5, <2>1 DEF Live
  <2>3. QED
    BY <1>4, <1>5, <2>2 DEF Named
<1>6. \A r \in Rows : flight'[r] # "none" => dep'[r].status = "building"
  BY DEF BuildsUntouched
<1>7. QED
  BY <1>1, <1>5, <1>6 DEF BuildsUntouched

\* A service starts with nothing in flight and nothing named.
LEMMA InitHolds == RolloutAssumption /\ Init => IInv
<1> SUFFICES ASSUME RolloutAssumption, Init PROVE IInv
  OBVIOUS
<1>1. FirstRow \in Rows /\ OlderRow \in Rows /\ FirstRow # OlderRow
  <2>1. FirstRow \in Rows
    BY DEF RolloutAssumption, FirstRow
  <2>2. PICK q \in Rows : q # FirstRow
    BY <2>1 DEF RolloutAssumption
  <2>3. OlderRow \in Rows \ {FirstRow}
    BY <2>2 DEF OlderRow
  <2>4. QED
    BY <2>1, <2>3
<1>2. (CHOOSE n \in Nodes : TRUE) \in Nodes
  BY DEF RolloutAssumption
<1>3. PICK host \in Nodes \cup {NoNode}, settled \in BOOLEAN, before \in BOOLEAN,
           found \in {"healthy", "exited"}, oldStatus \in {"superseded", "building"} :
        LET current == IF host = NoNode THEN {} ELSE {FirstRow}
            older == IF before THEN {OlderRow} ELSE {}
            oldNode == IF host = NoNode THEN CHOOSE n \in Nodes : TRUE ELSE host
        IN  /\ before => settled /\ found = "healthy"
            /\ host # NoNode => oldStatus = "superseded"
            /\ dep = [r \in Rows |->
                        IF r \in current THEN [node |-> host, status |-> "running"]
                        ELSE IF r \in older THEN [node |-> oldNode, status |-> oldStatus]
                        ELSE [node |-> NoNode, status |-> "absent"]]
            /\ newer = current \X older
            /\ ctr = [r \in Rows |-> IF r \in current THEN found ELSE "none"]
            /\ up = {r \in current : found = "healthy"}
            /\ agent = [n \in Nodes |->
                          [pc |-> "idle", todo |-> {}, drop |-> {}, settled |-> settled,
                           wanted |-> IF settled /\ n = host THEN current ELSE {}]]
  BY DEF Init
<1> DEFINE current == IF host = NoNode THEN {} ELSE {FirstRow}
           older == IF before THEN {OlderRow} ELSE {}
<1>4. current \subseteq Rows /\ older \subseteq Rows
  BY <1>1
<1>5. TypeOK
  <2>1. dep \in [Rows -> [node : Nodes \cup {NoNode}, status : RowStatus]]
    BY <1>1, <1>2, <1>3 DEF RowStatus, Live
  <2>2. newer \subseteq Rows \X Rows
    BY <1>1, <1>3
  <2>3. InOrder
    BY <1>1, <1>3 DEF InOrder
  <2>4. ctr \in [Rows -> CtrState] /\ up \subseteq Rows
    BY <1>1, <1>3 DEF CtrState
  <2>5. agent \in [Nodes -> Pass]
    <3> SUFFICES ASSUME NEW n \in Nodes
                 PROVE  [pc |-> "idle", todo |-> {}, drop |-> {}, settled |-> settled,
                         wanted |-> IF settled /\ n = host THEN current ELSE {}] \in Pass
      BY <1>3
    <3> QED
      BY <1>4 DEF Pass
  <2>6. tick \in Tick /\ op \in Operation /\ used \in Nat
    BY DEF Init, Tick, IdleTick, Operation, NoOperation
  <2>7. QED
    BY <2>1, <2>2, <2>3, <2>4, <2>5, <2>6 DEF Init, TypeOK
<1>6. \A r \in Rows : r \notin Named
  BY DEF Init, Named, IdleTick, NoOperation
<1>7. BuildsUntouched
  <2>1. \A n \in Nodes : \A r \in agent[n].wanted : dep[r].status # "building"
    BY <1>1, <1>3
  <2>2. QED
    BY <1>6, <2>1 DEF Init, BuildsUntouched, Named
<1>8. QED
  BY <1>5, <1>6, <1>7 DEF IInv, NamedExist

\* A step that reads or acts on a node, and writes nothing to the table.
LEMMA ReadersKeep ==
  ASSUME IInv, UNCHANGED <<dep, newer>>,
         \A r \in Rows : flight'[r] # "none" => flight'[r] = flight[r],
         overdue' \subseteq Rows, flight' \in [Rows -> {"none", "manual", "push"}],
         ctr' \in [Rows -> CtrState], agent' \in [Nodes -> Pass],
         heard' \subseteq Nodes, up' \subseteq Rows, hb' \in [Nodes -> SUBSET Rows],
         tick' \in Tick, op' \in Operation, used' \in Nat,
         \A r \in Rows : r \in Named' => r \in Named \/ dep[r].status \in Live,
         \A n \in Nodes, r \in Rows :
            r \in agent'[n].wanted => r \in agent[n].wanted \/ dep[r].status \in Live
  PROVE  IInv'
<1>1. TypeOK'
  BY DEF IInv, TypeOK, InOrder
<1>2. NamedExist' /\ BuildsUntouched'
  BY Undisturbed DEF IInv
<1>3. QED
  BY <1>1, <1>2 DEF IInv

\* A step that writes statuses to rows that exist, by id, and nothing to a node.
LEMMA WritersKeep ==
  ASSUME IInv, UNCHANGED <<nodes, redis, used>>,
         dep' \in [Rows -> [node : Nodes \cup {NoNode}, status : RowStatus]],
         newer' \subseteq Rows \X Rows, InOrder', overdue' \subseteq Rows,
         flight' \in [Rows -> {"none", "manual", "push"}],
         hb' \in [Nodes -> SUBSET Rows], tick' \in Tick, op' \in Operation,
         \A r \in Rows : dep'[r].status # dep[r].status =>
            /\ dep[r].status # "absent"
            /\ dep'[r].status \notin {"absent", "building"},
         \A r \in Rows : flight'[r] # "none" =>
            flight[r] # "none" /\ dep'[r].status = dep[r].status,
         Named' \subseteq Named
  PROVE  IInv'
<1>1. TypeOK'
  BY DEF IInv, TypeOK, nodes, redis
<1>2. NamedExist' /\ BuildsUntouched'
  BY Undisturbed DEF IInv, nodes
<1>3. QED
  BY <1>1, <1>2 DEF IInv

\* The rows that handlers name are rows, exist, are not building and are not in flight.
LEMMA NamedRows ==
  ASSUME IInv, NEW r \in Named
  PROVE  /\ r \in Rows /\ dep[r].status \notin {"absent", "building"}
         /\ flight[r] = "none"
<1>1. r \in Rows
  BY DEF IInv, TypeOK, Named, Tick, Operation
<1>2. dep[r].status # "building" /\ dep[r].status # "absent"
  BY <1>1 DEF IInv, BuildsUntouched, NamedExist, Named
<1>3. QED
  BY <1>1, <1>2 DEF IInv, BuildsUntouched

\* Opening a build.
LEMMA OpenHolds ==
  ASSUME IInv, NEW n \in Nodes, NEW kind \in {"manual", "push"}, Open(n, kind)
  PROVE  IInv'
<1>1. PICK r \in Rows : Inserted(r, {}, "building")
  BY InsertEffect DEF Open, IInv
<1>2. flight' = [flight EXCEPT ![r] = kind]
  BY <1>1 DEF Open, Inserted
<1>3. UNCHANGED <<nodes, redis, hb, tick, op>> /\ used' \in Nat
  BY DEF Open, Spend, IInv, TypeOK
<1>4. Named' = Named
  BY <1>3 DEF Named
<1>5. newer' \subseteq Rows \X Rows /\ InOrder'
  <2>1. CASE dep[r].status = "absent"
    BY <1>1, <2>1, StartKeepsOrder DEF IInv, TypeOK, Inserted
  <2>2. CASE dep[r].status # "absent"
    BY <1>1, <2>2, StartKeepsOrder DEF IInv, TypeOK, Inserted
  <2>3. QED
    BY <2>1, <2>2
<1>6. TypeOK'
  BY <1>1, <1>2, <1>3, <1>5 DEF Inserted, IInv, TypeOK, nodes, redis
<1>7. NamedExist'
  BY <1>1, <1>4 DEF IInv, NamedExist, Inserted
<1>8. BuildsUntouched'
  <2>1. ASSUME NEW q \in Rows, q # r
        PROVE  /\ flight'[q] # "none" => dep'[q].status = "building"
               /\ dep'[q].status = "building" =>
                     /\ q \notin tick'.rows \cup tick'.rescue \cup op'.rows
                     /\ \A m \in Nodes : q \notin hb'[m] \cup agent'[m].wanted
    BY <1>1, <1>2, <1>3, <2>1 DEF IInv, TypeOK, BuildsUntouched, Inserted, nodes
  <2>2. /\ r \notin tick'.rows \cup tick'.rescue \cup op'.rows
        /\ \A m \in Nodes : r \notin hb'[m] \cup agent'[m].wanted
    BY <1>1, <1>3 DEF Named, Inserted, nodes
  <2>3. QED
    BY <1>1, <2>1, <2>2 DEF BuildsUntouched, Inserted
<1>9. QED
  BY <1>6, <1>7, <1>8 DEF IInv

\* Every step keeps it.
LEMMA NextHolds == IInv /\ [Next]_vars => IInv'
<1> SUFFICES ASSUME IInv, [Next]_vars PROVE IInv'
  OBVIOUS
<1> USE DEF IInv, TypeOK, table, handlers, nodes, redis
<1>1. ASSUME NEW n \in Nodes, Beat(n) PROVE IInv'
  BY <1>1, ReadersKeep DEF Beat, Named, OnNode, Live
<1>2. ASSUME StallRead PROVE IInv'
  <2>1. tick' \in Tick /\ tick'.rescue = tick.rescue /\ tick'.rows = Stalled
    BY <1>2 DEF StallRead, Stalled, Tick
  <2>2. \A r \in Rows : r \in Named' => r \in Named \/ dep[r].status \in Live
    BY <1>2, <2>1 DEF StallRead, Stalled, Named, Live
  <2>3. QED
    BY <1>2, <2>1, <2>2, ReadersKeep DEF StallRead
<1>3. ASSUME StallJudge PROVE IInv'
  <2>1. /\ tick' \in Tick
        /\ tick'.rows \subseteq tick.rows /\ tick'.rescue \subseteq tick.rows
    BY <1>3 DEF StallJudge, Tick
  <2>2. Named' \subseteq Named
    BY <1>3, <2>1 DEF StallJudge, Named
  <2>3. QED
    BY <1>3, <2>1, <2>2, ReadersKeep DEF StallJudge
<1>4. ASSUME VerdictsDone PROVE IInv'
  BY <1>4, ReadersKeep DEF VerdictsDone, IdleTick, Named, Tick
<1>5. ASSUME NEW rows \in SUBSET LiveRows, NEW n \in Nodes \cup {NoNode}, Ask(rows, n)
      PROVE  IInv'
  BY <1>5, ReadersKeep DEF Ask, Spend, Named, LiveRows, Operation
<1>6. ASSUME NEW n \in Nodes, Fetch(n) PROVE IInv'
  <2> DEFINE wanted == LiveRows \cap OnNode(n)
             pass == [agent[n] EXCEPT !.pc = "busy", !.wanted = wanted,
                                      !.todo = {r \in wanted : ~Up(ctr[r])},
                                      !.drop = Present(n) \ wanted]
  <2>1. agent' = [agent EXCEPT ![n] = pass]
    BY <1>6 DEF Fetch
  <2>2. pass \in Pass /\ pass.wanted \subseteq LiveRows
    BY DEF Pass, Present, OnNode, LiveRows
  <2>3. /\ agent' \in [Nodes -> Pass]
        /\ \A m \in Nodes, q \in Rows : q \in agent'[m].wanted =>
              q \in agent[m].wanted \/ dep[q].status \in Live
    BY <2>1, <2>2 DEF LiveRows
  <2>4. Named' = Named
    BY <1>6 DEF Fetch, Named
  <2>5. QED
    BY <1>6, <2>3, <2>4, ReadersKeep DEF Fetch
<1>7. ASSUME NEW n \in Nodes, NEW r \in Rows, StartCtr(n, r) PROVE IInv'
  <2> DEFINE pass == [agent[n] EXCEPT !.todo = @ \ {r}]
  <2>1. agent' = [agent EXCEPT ![n] = pass]
    BY <1>7 DEF StartCtr
  <2>2. pass \in Pass /\ pass.wanted = agent[n].wanted
    BY DEF Pass
  <2>3. /\ agent' \in [Nodes -> Pass]
        /\ \A m \in Nodes, q \in Rows : q \in agent'[m].wanted =>
              q \in agent[m].wanted \/ dep[q].status \in Live
    BY <2>1, <2>2
  <2>4. Named' = Named
    BY <1>7 DEF StartCtr, Named
  <2>5. QED
    BY <1>7, <2>3, <2>4, ReadersKeep DEF StartCtr, CtrState
<1>8. ASSUME NEW n \in Nodes, NEW r \in Rows, StartFails(n, r) PROVE IInv'
  <2> DEFINE pass == [agent[n] EXCEPT !.todo = @ \ {r}]
  <2>1. agent' = [agent EXCEPT ![n] = pass]
    BY <1>8 DEF StartFails
  <2>2. pass \in Pass /\ pass.wanted = agent[n].wanted
    BY DEF Pass
  <2>3. /\ agent' \in [Nodes -> Pass]
        /\ \A m \in Nodes, q \in Rows : q \in agent'[m].wanted =>
              q \in agent[m].wanted \/ dep[q].status \in Live
    BY <2>1, <2>2
  <2>4. Named' = Named
    BY <1>8 DEF StartFails, Named
  <2>5. QED
    BY <1>8, <2>3, <2>4, ReadersKeep DEF StartFails, Spend, CtrState
<1>9. ASSUME NEW n \in Nodes, NEW r \in Rows, RemoveCtr(n, r) PROVE IInv'
  <2> DEFINE pass == [agent[n] EXCEPT !.drop = @ \ {r}]
  <2>1. agent' = [agent EXCEPT ![n] = pass]
    BY <1>9 DEF RemoveCtr
  <2>2. pass \in Pass /\ pass.wanted = agent[n].wanted
    BY DEF Pass
  <2>3. /\ agent' \in [Nodes -> Pass]
        /\ \A m \in Nodes, q \in Rows : q \in agent'[m].wanted =>
              q \in agent[m].wanted \/ dep[q].status \in Live
    BY <2>1, <2>2
  <2>4. Named' = Named
    BY <1>9 DEF RemoveCtr, Named
  <2>5. QED
    BY <1>9, <2>3, <2>4, ReadersKeep DEF RemoveCtr, CtrState
<1>10. ASSUME NEW n \in Nodes, PassEnd(n) PROVE IInv'
  <2> DEFINE pass == [agent[n] EXCEPT !.pc = "idle", !.drop = {}, !.settled = TRUE]
  <2>1. agent' = [agent EXCEPT ![n] = pass]
    BY <1>10 DEF PassEnd
  <2>2. pass \in Pass /\ pass.wanted = agent[n].wanted
    BY DEF Pass
  <2>3. /\ agent' \in [Nodes -> Pass]
        /\ \A m \in Nodes, q \in Rows : q \in agent'[m].wanted =>
              q \in agent[m].wanted \/ dep[q].status \in Live
    BY <2>1, <2>2
  <2>4. Named' = Named
    BY <1>10 DEF PassEnd, Named
  <2>5. QED
    BY <1>10, <2>3, <2>4, ReadersKeep DEF PassEnd
<1>11. ASSUME NEW r \in Rows, Settles(r) PROVE IInv'
  BY <1>11, ReadersKeep DEF Settles, Named, CtrState
<1>12. ASSUME NEW r \in Rows, Crash(r) PROVE IInv'
  BY <1>12, ReadersKeep DEF Crash, Spend, Named, CtrState
<1>13. ASSUME NEW r \in Rows, WindowElapses(r) PROVE IInv'
  BY <1>13, ReadersKeep DEF WindowElapses, Named
<1>14. ASSUME NEW n \in Nodes, FallSilent(n) PROVE IInv'
  BY <1>14, ReadersKeep DEF FallSilent, Spend, Named
<1>15. ASSUME NEW n \in Nodes, AgentRestart(n) PROVE IInv'
  BY <1>15, ReadersKeep DEF AgentRestart, Spend, Named, Pass
<1>16. ASSUME Restart PROVE IInv'
  BY <1>16, ReadersKeep DEF Restart, Spend, IdleTick, NoOperation, Tick, Operation, Named
<1>17. ASSUME NEW r \in Rows, FinishManual(r) PROVE IInv'
  <2>1. dep' \in [Rows -> [node : Nodes \cup {NoNode}, status : RowStatus]]
    BY <1>17 DEF FinishManual, RowStatus, Live
  <2>2. r \in Rows /\ dep[r].status # "absent"
    BY <1>17 DEF FinishManual, BuildsUntouched
  <2>3. \A q \in Rows : dep'[q].status # dep[q].status =>
           /\ dep[q].status # "absent"
           /\ dep'[q].status \notin {"absent", "building"}
    BY <1>17, <2>2 DEF FinishManual, LiveRows, Live
  <2>4. InOrder'
    BY <1>17, <2>3, WriteKeepsOrder DEF FinishManual
  <2>5. /\ flight' \in [Rows -> {"none", "manual", "push"}]
        /\ \A q \in Rows : flight'[q] # "none" =>
              flight[q] # "none" /\ dep'[q].status = dep[q].status
    BY <1>17 DEF FinishManual, LiveRows, Live, BuildsUntouched
  <2>6. Named' = Named
    BY <1>17 DEF FinishManual, Named
  <2>7. QED
    BY <1>17, <2>1, <2>3, <2>4, <2>5, <2>6, WritersKeep DEF FinishManual
<1>18. ASSUME NEW r \in Rows, FinishPush(r) PROVE IInv'
  BY <1>18, WritersKeep, NamedRows, WriteKeepsOrder, StartKeepsOrder
  DEF FinishPush, LiveRows, Live, RowStatus, Named, BuildsUntouched
<1>19. ASSUME NEW r \in Rows, BuildFails(r) PROVE IInv'
  <2>1. dep' \in [Rows -> [node : Nodes \cup {NoNode}, status : RowStatus]]
    BY <1>19 DEF BuildFails, RowStatus, Live
  <2>2. r \in Rows /\ dep[r].status # "absent"
    BY <1>19 DEF BuildFails, BuildsUntouched
  <2>3. \A q \in Rows : dep'[q].status # dep[q].status =>
           /\ dep[q].status # "absent"
           /\ dep'[q].status \notin {"absent", "building"}
    BY <1>19, <2>2 DEF BuildFails
  <2>4. InOrder'
    BY <1>19, <2>3, WriteKeepsOrder DEF BuildFails
  <2>5. /\ flight' \in [Rows -> {"none", "manual", "push"}]
        /\ \A q \in Rows : flight'[q] # "none" =>
              flight[q] # "none" /\ dep'[q].status = dep[q].status
    BY <1>19 DEF BuildFails, LiveRows, Live, BuildsUntouched
  <2>6. Named' = Named
    BY <1>19 DEF BuildFails, Named
  <2>7. QED
    BY <1>19, <2>1, <2>3, <2>4, <2>5, <2>6, WritersKeep DEF BuildFails
<1>20. ASSUME NEW n \in Nodes, NEW r \in Rows, Promote(n, r) PROVE IInv'
  <2>1. dep' \in [Rows -> [node : Nodes \cup {NoNode}, status : RowStatus]]
    BY <1>20 DEF Promote, RowStatus, Live
  <2>2. r \in Rows /\ dep[r].status # "absent"
    BY <1>20, NamedRows DEF Promote, Named
  <2>3. \A q \in Rows : dep'[q].status # dep[q].status =>
           /\ dep[q].status # "absent"
           /\ dep'[q].status \notin {"absent", "building"}
    BY <1>20, <2>2 DEF Promote, LiveRows, Live
  <2>4. InOrder'
    BY <1>20, <2>3, WriteKeepsOrder DEF Promote
  <2>5. \A q \in Rows : flight'[q] # "none" =>
           flight[q] # "none" /\ dep'[q].status = dep[q].status
    BY <1>20, NamedRows DEF Promote, Named, LiveRows, Live, BuildsUntouched
  <2>6. hb' \in [Nodes -> SUBSET Rows] /\ Named' \subseteq Named
    BY <1>20 DEF Promote, Named, Tick
  <2>7. QED
    BY <1>20, <2>1, <2>3, <2>4, <2>5, <2>6, WritersKeep DEF Promote
<1>21. ASSUME NEW r \in Rows, FailStaleBuild(r) PROVE IInv'
  BY <1>21, WritersKeep, NamedRows, WriteKeepsOrder DEF FailStaleBuild, RowStatus, Named
<1>22. ASSUME NEW r \in Rows, Rescue(r) PROVE IInv'
  <2>1. dep' \in [Rows -> [node : Nodes \cup {NoNode}, status : RowStatus]]
    BY <1>22 DEF Rescue, RowStatus, Live
  <2>2. r \in Rows /\ dep[r].status # "absent"
    BY <1>22, NamedRows DEF Rescue, Named
  <2>3. \A q \in Rows : dep'[q].status # dep[q].status =>
           /\ dep[q].status # "absent"
           /\ dep'[q].status \notin {"absent", "building"}
    BY <1>22, <2>2 DEF Rescue
  <2>4. InOrder'
    BY <1>22, <2>3, WriteKeepsOrder DEF Rescue
  <2>5. \A q \in Rows : flight'[q] # "none" =>
           flight[q] # "none" /\ dep'[q].status = dep[q].status
    BY <1>22, NamedRows DEF Rescue, Named, LiveRows, Live, BuildsUntouched
  <2>6. tick' \in Tick /\ Named' \subseteq Named
    <3>1. tick' \in Tick /\ tick'.rescue = tick.rescue \ {r} /\ tick'.rows = tick.rows
      BY <1>22 DEF Rescue, Tick
    <3>2. QED
      BY <1>22, <3>1 DEF Rescue, Named
  <2>7. QED
    BY <1>22, <2>1, <2>3, <2>4, <2>5, <2>6, WritersKeep DEF Rescue
<1>23. ASSUME NEW r \in Rows, Fail(r) PROVE IInv'
  <2>1. dep' \in [Rows -> [node : Nodes \cup {NoNode}, status : RowStatus]]
    BY <1>23 DEF Fail, RowStatus, Live
  <2>2. r \in Rows /\ dep[r].status # "absent"
    BY <1>23, NamedRows DEF Fail, Named
  <2>3. \A q \in Rows : dep'[q].status # dep[q].status =>
           /\ dep[q].status # "absent"
           /\ dep'[q].status \notin {"absent", "building"}
    BY <1>23, <2>2 DEF Fail
  <2>4. InOrder'
    BY <1>23, <2>3, WriteKeepsOrder DEF Fail
  <2>5. \A q \in Rows : flight'[q] # "none" =>
           flight[q] # "none" /\ dep'[q].status = dep[q].status
    BY <1>23, NamedRows DEF Fail, Named, LiveRows, Live, BuildsUntouched
  <2>6. tick' \in Tick /\ Named' \subseteq Named
    <3>1. tick' \in Tick /\ tick'.rows = tick.rows \ {r} /\ tick'.rescue = tick.rescue
      BY <1>23 DEF Fail, Tick
    <3>2. QED
      BY <1>23, <3>1 DEF Fail, Named
  <2>7. QED
    BY <1>23, <2>1, <2>3, <2>4, <2>5, <2>6, WritersKeep DEF Fail
<1>24. ASSUME Answer, op.node = NoNode PROVE IInv'
  BY <1>24, WritersKeep, NamedRows, WriteKeepsOrder
  DEF Answer, Supersede, NoOperation, Operation, RowStatus, Named
<1>25. ASSUME Answer, op.node # NoNode PROVE IInv'
  <2>1. op.rows \subseteq Named /\ op.rows \in SUBSET Rows /\ op.node \in Nodes
    BY <1>25 DEF Operation, Named
  <2>2. PICK r \in Rows : Inserted(r, op.rows, "deploying")
    BY <1>25, <2>1, InsertEffect DEF Answer
  <2>3. /\ op' = NoOperation /\ UNCHANGED <<flight, hb, tick, nodes, redis, used>>
    BY <1>25 DEF Answer
  <2>4. Named' \subseteq Named
    BY <2>3 DEF Named, NoOperation
  <2>5. \A q \in Rows \ {r} :
          dep'[q].status = "absent" <=> dep[q].status = "absent"
    BY <2>1, <2>2, NamedRows DEF Inserted
  <2>6. newer' \subseteq Rows \X Rows /\ InOrder'
    BY <2>2, <2>5, StartKeepsOrder DEF Inserted
  <2>7. TypeOK'
    BY <2>2, <2>3, <2>6 DEF Inserted, NoOperation, Operation
  <2>8. NamedExist'
    BY <2>2, <2>4, <2>5 DEF NamedExist, Inserted
  <2>9. \A q \in Rows : dep'[q].status = "building" => q # r /\ dep[q].status = "building"
    BY <2>2 DEF Inserted
  <2>10. BuildsUntouched'
    <3>1. \A q \in Rows : flight'[q] # "none" => dep'[q].status = "building"
      BY <2>1, <2>2, <2>3, NamedRows DEF Inserted, BuildsUntouched
    <3>2. \A q \in Rows : dep'[q].status = "building" =>
            /\ q \notin tick'.rows \cup tick'.rescue \cup op'.rows
            /\ \A n \in Nodes : q \notin hb'[n] \cup agent'[n].wanted
      BY <2>3, <2>9 DEF BuildsUntouched, NoOperation
    <3>3. QED
      BY <3>1, <3>2 DEF BuildsUntouched
  <2>11. QED
    BY <2>7, <2>8, <2>10
<1>26. ASSUME Operator PROVE IInv'
  <2>1. PICK rows \in SUBSET LiveRows, n \in Nodes \cup {NoNode} : Ask(rows, n)
    BY <1>26 DEF Operator, AskRestart, AskStop, AskRollback, Newest, LiveRows
  <2>2. QED
    BY <1>5, <2>1
<1>27. CASE UNCHANGED vars
  BY <1>27, ReadersKeep DEF vars, Named
<1>28. QED
  BY OpenHolds, <1>1, <1>2, <1>3, <1>4, <1>6, <1>7, <1>8, <1>9, <1>10, <1>11, <1>12, <1>13,
     <1>14, <1>15, <1>16, <1>17, <1>18, <1>19, <1>20, <1>21, <1>22, <1>23, <1>24, <1>25,
     <1>26, <1>27
  DEF Next, Finish, Heartbeat, Sweeper, Reconcile, World

-----------------------------------------------------------------------------
\* The inductive invariant holds throughout.
LEMMA Invariance == Spec => []IInv
<1>1. Init => IInv
  BY InitHolds, RolloutAssumption
<1>2. QED
  BY <1>1, NextHolds, PTL DEF Spec

\* The variables keep their types, and of two rows that exist one is the newer, so
\* that "the newest live row" of a restart or a rollback is one row.
THEOREM RolloutTypes == Spec => []TypeOK
<1>1. IInv => TypeOK
  BY DEF IInv
<1>2. QED
  BY <1>1, Invariance, PTL

\* No handler writes by id to the row of a build that another handler is running.
THEOREM Untouched == Spec => []BuildsUntouched
<1>1. IInv => BuildsUntouched
  BY DEF IInv
<1>2. QED
  BY <1>1, Invariance, PTL

-----------------------------------------------------------------------------
(***************************************************************************)
(* Rollout implements Releases                                             *)
(***************************************************************************)

\* What each status means to a release.
LEMMA Phases ==
  /\ PhaseOf("building") = "build" /\ PhaseOf("deploying") = "rollout"
  /\ PhaseOf("running") = "serving"
  /\ \A s \in {"absent", "superseded", "failed"} : PhaseOf(s) = "none"
  /\ \A s \in RowStatus :
        /\ PhaseOf(s) \in {"none", "build", "rollout", "serving"}
        /\ PhaseOf(s) = "build" <=> s = "building"
        /\ PhaseOf(s) \in {"rollout", "serving"} <=> s \in Live
  BY DEF PhaseOf, RowStatus, Live

\* A step that only moves what the sweeper is about to rescue.
LEMMA Judges ==
  ASSUME dep' = dep, tick'.rescue \subseteq Rows
  PROVE  Release!Next
<1>1. Release!Judge
  BY DEF Release!Judge, PhaseOf
<1>2. QED
  BY <1>1 DEF Release!Next

\* A row that is not live enters its rollout, and the rows of `old` are over.
LEMMA Rolls ==
  ASSUME TypeOK, TypeOK', NEW r \in Rows, NEW old \in SUBSET Rows,
         tick'.rescue = tick.rescue,
         dep[r].status \notin Live, dep'[r].status = "deploying",
         \A q \in old \ {r} :
            dep[q].status # "building" /\ dep'[q].status \in {"superseded", "failed"},
         \A q \in Rows \ (old \cup {r}) : dep'[q].status = dep[q].status
  PROVE  Release!Next
<1> DEFINE ended == {q \in old \ {r} : dep[q].status \in Live}
<1>1. Release!Roll(r, ended)
  <2>1. PhaseOf(dep[r].status) \in {"none", "build"}
    BY Phases DEF TypeOK
  <2>2. ended \subseteq Release!Alive
    BY Phases DEF Release!Alive, Release!Active, TypeOK
  <2>3. ASSUME NEW q \in Rows
        PROVE  PhaseOf(dep'[q].status) = IF q = r THEN "rollout"
                                         ELSE IF q \in ended THEN "none"
                                         ELSE PhaseOf(dep[q].status)
    <3>1. CASE q = r
      BY <3>1, Phases
    <3>2. CASE q \in old \ {r}
      BY <3>2, Phases DEF TypeOK, RowStatus
    <3>3. CASE q \notin old \cup {r}
      BY <3>3
    <3>4. QED
      BY <3>1, <3>2, <3>3
  <2>4. [q \in Rows |-> PhaseOf(dep[q].status)]'
           = [q \in Rows |-> IF q = r THEN "rollout"
                             ELSE IF q \in ended THEN "none"
                             ELSE [p \in Rows |-> PhaseOf(dep[p].status)][q]]
    BY <2>3 DEF PhaseOf
  <2>5. QED
    BY <2>1, <2>2, <2>4 DEF Release!Roll
<1>2. QED
  BY <1>1 DEF Release!Next, Release!Alive

\* Rows that are not builds are over.
LEMMA Ends ==
  ASSUME TypeOK, TypeOK', NEW old \in SUBSET Rows, tick'.rescue = tick.rescue,
         \A q \in old :
            dep[q].status # "building" /\ dep'[q].status \in {"superseded", "failed"},
         \A q \in Rows \ old : dep'[q].status = dep[q].status
  PROVE  Release!Next
<1> DEFINE ended == {q \in old : dep[q].status \in Live}
<1>1. Release!End(ended)
  <2>1. ended \subseteq Release!Alive
    BY Phases DEF Release!Alive, Release!Active, TypeOK
  <2>2. ASSUME NEW q \in Rows
        PROVE  PhaseOf(dep'[q].status) = IF q \in ended THEN "none" ELSE PhaseOf(dep[q].status)
    <3>1. CASE q \in old
      BY <3>1, Phases DEF TypeOK, RowStatus
    <3>2. CASE q \notin old
      BY <3>2
    <3>3. QED
      BY <3>1, <3>2
  <2>3. [q \in Rows |-> PhaseOf(dep[q].status)]'
           = [q \in Rows |-> IF q \in ended THEN "none"
                             ELSE [p \in Rows |-> PhaseOf(dep[p].status)][q]]
    BY <2>2 DEF PhaseOf
  <2>4. QED
    BY <2>1, <2>3 DEF Release!End
<1>2. QED
  BY <1>1 DEF Release!Next, Release!Alive

\* A build is given up.
LEMMA Abandons ==
  ASSUME NEW r \in Rows, tick'.rescue = tick.rescue,
         TypeOK, dep[r].status = "building", dep' = [dep EXCEPT ![r].status = "failed"]
  PROVE  Release!Next
<1>1. \A q \in Rows : dep'[q].status = IF q = r THEN "failed" ELSE dep[q].status
  BY DEF TypeOK
<1>2. [q \in Rows |-> PhaseOf(dep[q].status)]'
         = [[q \in Rows |-> PhaseOf(dep[q].status)] EXCEPT ![r] = "none"]
  <2>1. \A q \in Rows : PhaseOf(dep'[q].status) = IF q = r THEN "none" ELSE PhaseOf(dep[q].status)
    BY <1>1, Phases
  <2>2. QED
    BY <2>1 DEF PhaseOf
<1>3. Release!Abandon(r)
  BY <1>2, Phases DEF Release!Abandon
<1>4. QED
  BY <1>3 DEF Release!Next

\* The initial states are Releases'.
LEMMA InitReleases == Init => Release!Init
<1> SUFFICES ASSUME Init PROVE Release!Init
  OBVIOUS
<1>1. PICK host \in Nodes \cup {NoNode}, settled \in BOOLEAN, before \in BOOLEAN,
           found \in {"healthy", "exited"}, oldStatus \in {"superseded", "building"} :
        LET current == IF host = NoNode THEN {} ELSE {FirstRow}
            older == IF before THEN {OlderRow} ELSE {}
            oldNode == IF host = NoNode THEN CHOOSE n \in Nodes : TRUE ELSE host
        IN  /\ before => settled /\ found = "healthy"
            /\ host # NoNode => oldStatus = "superseded"
            /\ dep = [r \in Rows |->
                        IF r \in current THEN [node |-> host, status |-> "running"]
                        ELSE IF r \in older THEN [node |-> oldNode, status |-> oldStatus]
                        ELSE [node |-> NoNode, status |-> "absent"]]
            /\ newer = current \X older
            /\ ctr = [r \in Rows |-> IF r \in current THEN found ELSE "none"]
            /\ up = {r \in current : found = "healthy"}
            /\ agent = [n \in Nodes |->
                          [pc |-> "idle", todo |-> {}, drop |-> {}, settled |-> settled,
                           wanted |-> IF settled /\ n = host THEN current ELSE {}]]
  BY DEF Init
<1>2. \A r \in Rows :
         /\ dep[r].status \in {"running", "superseded", "building", "absent"}
         /\ dep[r].status = "running" => r = FirstRow
  BY <1>1
<1>3. tick.rescue = {}
  BY DEF Init, IdleTick
<1>4. QED
  BY <1>2, <1>3 DEF Release!Init, Release!OneServing, PhaseOf

\* Every step is one of Releases', or none.
LEMMA NextReleases ==
  IInv /\ IInv' /\ [Next]_vars
    => [Release!Next]_<<[r \in Rows |-> PhaseOf(dep[r].status)], tick.rescue>>
<1> SUFFICES ASSUME IInv, IInv', [Next]_vars
             PROVE  Release!Next \/ (dep' = dep /\ tick'.rescue = tick.rescue)
  BY DEF PhaseOf
<1>t. TypeOK /\ TypeOK'
  BY DEF IInv
<1>1. ASSUME NEW n \in Nodes, NEW kind \in {"manual", "push"}, Open(n, kind)
      PROVE  Release!Next
  <2>1. PICK r \in Rows : Inserted(r, {}, "building")
    BY <1>1, <1>t, InsertEffect DEF Open
  <2>2. tick' = tick
    BY <1>1 DEF Open
  <2>3. Release!Open(r)
    BY <2>1, <2>2, <1>t DEF Inserted, Release!Open, PhaseOf, TypeOK
  <2>4. QED
    BY <2>3 DEF Release!Next
<1>2. ASSUME NEW r \in Rows, FinishManual(r) PROVE Release!Next
  <2> DEFINE old == IF Stateful THEN LiveRows ELSE {}
  <2>1. dep[r].status = "building" /\ tick' = tick
    BY <1>2 DEF FinishManual, IInv, BuildsUntouched
  <2>2. /\ dep'[r].status = "deploying"
        /\ \A q \in old \ {r} : dep[q].status # "building" /\ dep'[q].status = "superseded"
        /\ \A q \in Rows \ (old \cup {r}) : dep'[q].status = dep[q].status
    BY <1>2, <1>t DEF FinishManual, TypeOK, LiveRows, Live
  <2>3. QED
    BY <2>1, <2>2, <1>t, Rolls DEF LiveRows, Live
<1>3. ASSUME NEW r \in Rows, FinishPush(r) PROVE Release!Next
  <2>1. dep[r].status = "building" /\ tick' = tick
    BY <1>3 DEF FinishPush, IInv, BuildsUntouched
  <2>2. /\ dep'[r].status = "deploying"
        /\ \A q \in LiveRows \ {r} : dep[q].status # "building" /\ dep'[q].status = "superseded"
        /\ \A q \in Rows \ (LiveRows \cup {r}) : dep'[q].status = dep[q].status
    BY <1>3, <1>t DEF FinishPush, TypeOK, LiveRows, Live
  <2>3. QED
    BY <2>1, <2>2, <1>t, Rolls DEF LiveRows, Live
<1>4. ASSUME NEW r \in Rows, BuildFails(r) \/ FailStaleBuild(r) PROVE Release!Next
  <2>1. /\ dep[r].status = "building" /\ tick'.rescue = tick.rescue
        /\ dep' = [dep EXCEPT ![r].status = "failed"]
    BY <1>4 DEF BuildFails, FailStaleBuild, handlers, IInv, BuildsUntouched
  <2>2. QED
    BY <2>1, <1>t, Abandons
<1>5. ASSUME NEW n \in Nodes, NEW r \in Rows, Promote(n, r) PROVE Release!Next
  <2>1. dep[r].status \in RowStatus \ {"building"} /\ tick' = tick
    BY <1>5, <1>t, NamedRows DEF Promote, Named, TypeOK
  <2>2. dep' = [q \in Rows |->
                 IF q = r THEN [dep[q] EXCEPT !.status = "running"]
                 ELSE IF q \in LiveRows THEN [dep[q] EXCEPT !.status = "superseded"]
                 ELSE dep[q]]
    BY <1>5 DEF Promote
  <2>3. ASSUME NEW q \in Rows
        PROVE  dep'[q].status = IF q = r THEN "running"
                                ELSE IF dep[q].status \in Live THEN "superseded"
                                ELSE dep[q].status
    BY <2>2, <1>t DEF TypeOK, LiveRows
  <2>4. \A q \in Rows : PhaseOf(dep'[q].status) =
                          IF q = r THEN "serving"
                          ELSE IF PhaseOf(dep[q].status) = "build" THEN "build" ELSE "none"
    BY <2>3, <1>t, Phases DEF TypeOK, RowStatus, Live
  <2>5. Release!Cutover(r)
    <3>1. [q \in Rows |-> PhaseOf(dep[q].status)]'
             = [q \in Rows |-> IF q = r THEN "serving"
                               ELSE IF [p \in Rows |-> PhaseOf(dep[p].status)][q] = "build"
                                    THEN "build" ELSE "none"]
      BY <2>4 DEF PhaseOf
    <3>2. PhaseOf(dep[r].status) # "build"
      BY <2>1, Phases
    <3>3. QED
      BY <2>1, <3>1, <3>2 DEF Release!Cutover
  <2>6. QED
    BY <2>5 DEF Release!Next
<1>6. ASSUME NEW r \in Rows, Rescue(r) PROVE Release!Next
  <2>1. dep[r].status # "building" /\ r \in tick.rescue
    BY <1>6, NamedRows DEF Rescue, Named
  <2>2. tick'.rescue = tick.rescue \ {r}
    BY <1>6, <1>t DEF Rescue, TypeOK, Tick
  <2>3. \A q \in Rows : dep'[q].status = IF q = r THEN "running" ELSE dep[q].status
    BY <1>6, <1>t DEF Rescue, TypeOK
  <2>4. Release!Rescue(r)
    BY <2>1, <2>2, <2>3 DEF Release!Rescue, PhaseOf
  <2>5. QED
    BY <2>4 DEF Release!Next
<1>7. ASSUME NEW r \in Rows, Fail(r) PROVE Release!Next
  <2>1. dep[r].status # "building" /\ tick'.rescue = tick.rescue
    BY <1>7, <1>t, NamedRows DEF Fail, Named, TypeOK, Tick
  <2>2. dep'[r].status = "failed" /\ \A q \in Rows \ {r} : dep'[q].status = dep[q].status
    BY <1>7, <1>t DEF Fail, TypeOK
  <2>3. QED
    BY <2>1, <2>2, <1>t, Ends
<1>8. ASSUME Answer PROVE Release!Next
  <2>1. /\ op.rows \in SUBSET Rows /\ tick' = tick
        /\ \A q \in op.rows : dep[q].status # "building"
    BY <1>8, <1>t, NamedRows DEF Answer, Named, TypeOK, Operation
  <2>2. CASE op.node = NoNode
    <3>1. /\ \A q \in op.rows : dep'[q].status = "superseded"
          /\ \A q \in Rows \ op.rows : dep'[q].status = dep[q].status
      BY <1>8, <2>1, <2>2, <1>t DEF Answer, Supersede, TypeOK
    <3>2. QED
      BY <2>1, <3>1, <1>t, Ends
  <2>3. CASE op.node # NoNode
    <3>1. PICK r \in Rows : Inserted(r, op.rows, "deploying")
      BY <1>8, <2>1, <2>3, <1>t, InsertEffect DEF Answer, TypeOK, Operation
    <3>2. QED
      BY <2>1, <3>1, <1>t, Rolls DEF Inserted, Live
  <2>4. QED
    BY <2>2, <2>3
<1>9. ASSUME StallJudge \/ Restart PROVE Release!Next
  <2>1. dep' = dep
    BY <1>9 DEF StallJudge, Restart, table
  <2>2. tick'.rescue \subseteq Rows
    BY <1>t DEF TypeOK, Tick
  <2>3. QED
    BY <2>1, <2>2, Judges
<1>10. ASSUME StallRead \/ VerdictsDone PROVE dep' = dep /\ tick'.rescue = tick.rescue
  <2>1. CASE StallRead
    BY <2>1, <1>t DEF StallRead, table, TypeOK, Tick
  <2>2. CASE VerdictsDone
    BY <2>2, <1>t DEF VerdictsDone, table, IdleTick, TypeOK, Tick
  <2>3. QED
    BY <1>10, <2>1, <2>2
<1>11. ASSUME NEW n \in Nodes, Beat(n) \/ Reconcile(n)
       PROVE  dep' = dep /\ tick' = tick
  BY <1>11
  DEF Beat, Reconcile, Fetch, PassEnd, StartCtr, StartFails, RemoveCtr, table, handlers
<1>12. ASSUME Operator PROVE dep' = dep /\ tick' = tick
  BY <1>12 DEF Operator, AskRestart, AskStop, AskRollback, Ask, table
<1>13. ASSUME NEW r \in Rows, Settles(r) \/ Crash(r) \/ WindowElapses(r)
       PROVE  dep' = dep /\ tick' = tick
  BY <1>13 DEF Settles, Crash, WindowElapses, table, handlers
<1>14. ASSUME NEW n \in Nodes, FallSilent(n) \/ AgentRestart(n)
       PROVE  dep' = dep /\ tick' = tick
  BY <1>14 DEF FallSilent, AgentRestart, table, handlers
<1>15. CASE UNCHANGED vars
  BY <1>15 DEF vars
<1>16. QED
  BY <1>1, <1>2, <1>3, <1>4, <1>5, <1>6, <1>7, <1>8, <1>9, <1>10, <1>11, <1>12, <1>13,
     <1>14, <1>15
  DEF Next, Finish, Heartbeat, Sweeper, World

\* Through all its handlers, and whoever overtakes whom, Rollout does to the releases of
\* its service only what module Releases allows.
THEOREM RolloutKeepsReleases == Spec => KeepsReleases
<1>1. QED
  BY Invariance, InitReleases, NextReleases, PTL DEF Spec, KeepsReleases, Release!Spec

\* The rows that serve in one state and did not before.
Arrives(r) == dep'[r].status = "running" /\ dep[r].status # "running"

Serving == {r \in Rows : dep[r].status = "running"}

\* Two releases of a service serve at once only from a rescue on: the step that makes
\* them two writes a row that the sweeper has found up past its window, and no deploy,
\* promotion, verdict, rollback or restart of a process ever does (failStalledRollouts).
THEOREM OnlyRescuesDouble ==
  Spec => [][(\A q, r \in Serving : q = r)
               => \/ \A q, r \in Serving' : q = r
                  \/ \E r \in tick.rescue : Arrives(r)]_vars
<1> DEFINE phase == [r \in Rows |-> PhaseOf(dep[r].status)]
           One == \A q, r \in Serving : q = r
           Due == \E r \in tick.rescue : Arrives(r)
<1>1. ASSUME IInv, IInv', [Next]_vars, One PROVE One' \/ Due
  <2>1. Release!Next \/ phase' = phase
    <3>1. [Release!Next]_<<[r \in Rows |-> PhaseOf(dep[r].status)], tick.rescue>>
      BY <1>1, NextReleases
    <3>2. QED
      BY <3>1
  <2>2. /\ \A r \in Rows : phase[r] = "serving" <=> dep[r].status = "running"
        /\ \A r \in Rows : phase'[r] = "serving" <=> dep'[r].status = "running"
    <3>1. \A s \in RowStatus : PhaseOf(s) = "serving" <=> s = "running"
      BY DEF PhaseOf, RowStatus
    <3>2. \A r \in Rows : dep[r].status \in RowStatus /\ dep'[r].status \in RowStatus
      BY <1>1 DEF IInv, TypeOK
    <3>3. \A r \in Rows : /\ phase[r] = PhaseOf(dep[r].status)
                          /\ phase'[r] = PhaseOf(dep'[r].status)
      BY DEF PhaseOf
    <3>4. QED
      BY <3>1, <3>2, <3>3
  <2>3. ASSUME \A r \in Rows : phase'[r] = "serving" => phase[r] = "serving" PROVE One'
    BY <1>1, <2>2, <2>3 DEF Serving
  <2>4. ASSUME NEW r \in Rows, Release!Cutover(r) PROVE One'
    <3>1. \A q \in Rows : phase'[q] = "serving" => q = r
      BY <2>4 DEF Release!Cutover
    <3>2. QED
      BY <2>2, <3>1 DEF Serving
  <2>5. ASSUME NEW r \in Rows, Release!Rescue(r) PROVE One' \/ Due
    <3>1. CASE phase[r] = "serving"
      BY <2>3, <2>5, <3>1 DEF Release!Rescue
    <3>2. CASE phase[r] # "serving"
      <4>1. r \in tick.rescue /\ phase'[r] = "serving"
        BY <2>5 DEF Release!Rescue
      <4>2. QED
        BY <2>2, <3>2, <4>1 DEF Arrives
    <3>3. QED
      BY <3>1, <3>2
  <2>6. ASSUME Release!Judge PROVE One'
    BY <2>3, <2>6 DEF Release!Judge
  <2>7. ASSUME NEW r \in Rows, Release!Open(r) \/ Release!Abandon(r) PROVE One'
    BY <2>3, <2>7 DEF Release!Open, Release!Abandon
  <2>8. ASSUME NEW ended \in SUBSET Rows, Release!End(ended) PROVE One'
    BY <2>3, <2>8 DEF Release!End
  <2>9. ASSUME NEW ended \in SUBSET Rows, NEW r \in Rows, Release!Roll(r, ended) PROVE One'
    BY <2>3, <2>9 DEF Release!Roll
  <2>10. CASE phase' = phase
    BY <2>3, <2>10
  <2>11. QED
    BY <2>1, <2>4, <2>5, <2>6, <2>7, <2>8, <2>9, <2>10 DEF Release!Next
<1>2. IInv /\ IInv' /\ [Next]_vars
        => [(\A q, r \in Serving : q = r)
              => \/ \A q, r \in Serving' : q = r
                 \/ \E r \in tick.rescue : Arrives(r)]_vars
  BY <1>1
<1>3. QED
  BY <1>2, Invariance, PTL DEF Spec
=============================================================================
