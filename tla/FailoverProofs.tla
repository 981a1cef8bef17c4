--------------------------- MODULE FailoverProofs ---------------------------
(***************************************************************************)
(* What holds of Failover for every fleet: its type invariant, its two     *)
(* safety invariants, that it implements Custody, and that no step of it   *)
(* makes a copy of a pinned service.                                       *)
(***************************************************************************)
EXTENDS Failover, TLAPS

\* Only the empty slots of the table name no service.
RowsNamed == \A r \in Rows : dep[r].status # "absent" => dep[r].svc \in Services

\* Only pinned services are held, only the others are stranded.
HoldsFit ==
    \A r \in Rows :
        /\ dep[r].status = "pinned_unavailable" => dep[r].svc \in Pinned
        /\ dep[r].status = "stranded" => dep[r].svc \notin Pinned

\* The rows a call of rescheduleFromNode has yet to write to.
CallRows(c) == resch[c].rows \cup ({resch[c].row} \ {NoRow})

\* A row a handler will write to was read when it was live, held or stranded,
\* and its identity is not reused meanwhile.
HandledRows ==
    /\ \A c \in Callers : \A r \in CallRows(c) :
          dep[r].status \notin {"absent", "building"}
    /\ \A n \in Nodes : \A r \in hb[n].rows :
          dep[r].status \notin {"absent", "building"}
    /\ deploy # NoRow => dep[deploy].status = "building"

\* A pinned service whose row is being taken off a node has not been dropped.
Kept(s) == Has(s, Live \cup {"pinned_unavailable"})

InCustody ==
    \A c \in Callers : \A r \in CallRows(c) : dep[r].svc \in Pinned => Kept(dep[r].svc)

\* What a handler has decided and not yet written respects the pin.
DecisionsFit ==
    /\ \A c \in Callers : resch[c].row # NoRow => dep[resch[c].row].svc \notin Pinned
    /\ \A n \in Nodes : hb[n].pc = "eager" =>
          \A r \in hb[n].rows : dep[r].svc \in Services /\ Home[dep[r].svc] = n
    /\ \A n \in Nodes : hb[n].svc \in Pinned =>
          hb[n].target \in {Home[hb[n].svc], NoNode}

IInv ==
    /\ TypeOK /\ AtMostOneRunning /\ PinnedStaysHome
    /\ RowsNamed /\ HoldsFit /\ HandledRows /\ InCustody /\ DecisionsFit

\* The five ways in which a step writes to the deployments table.
StatusSet(r, st) ==
    \A q \in Rows : /\ dep'[q].svc = dep[q].svc /\ dep'[q].node = dep[q].node
                    /\ dep'[q].status = IF q = r THEN st ELSE dep[q].status

Inserted(f, s, n, st) ==
    /\ f \in Unused
    /\ dep'[f].svc = s /\ dep'[f].node = n /\ dep'[f].status = st
    /\ \A q \in Rows \ {f} : dep'[q] = dep[q]

Replaced(old, f, n) ==
    /\ f \in Unused /\ f # old
    /\ dep'[f].svc = dep[old].svc /\ dep'[f].node = n /\ dep'[f].status = "deploying"
    /\ dep'[old].svc = dep[old].svc /\ dep'[old].node = dep[old].node
    /\ dep'[old].status = "superseded"
    /\ \A q \in Rows \ {f, old} : dep'[q] = dep[q]

Cutover(r, st, others) ==
    \A q \in Rows : /\ dep'[q].svc = dep[q].svc /\ dep'[q].node = dep[q].node
                    /\ dep'[q].status = IF q = r THEN st
                                       ELSE IF q \in others THEN "superseded"
                                       ELSE dep[q].status

Overwrite(rs) ==
    \A q \in Rows : /\ dep'[q].svc = dep[q].svc /\ dep'[q].node = dep[q].node
                    /\ dep'[q].status = IF q \in rs /\ dep[q].status = "stranded"
                                       THEN "failed" ELSE dep[q].status

\* An insert takes an identity nobody refers to.
LEMMA FreshRowUnused == Unused # {} => FreshRow \in Unused /\ FreshRow \in Rows
  BY DEF FreshRow, Unused

\* The idle states of a handler are states of it.
LEMMA NullStates == NoCall \in CallState /\ NoBeat \in BeatState
  BY DEF NoCall, CallState, NoBeat, BeatState, BeatPhase

\* The state of a node's request, and how it may be replaced.
LEMMA BeatAt ==
  ASSUME TypeOK, NEW n \in Nodes
  PROVE  /\ hb[n] \in BeatState
         /\ hb[n].pc \in BeatPhase /\ hb[n].rows \in SUBSET Rows
         /\ hb[n].svcs \in SUBSET Services /\ hb[n].svc \in Services \cup {NoService}
         /\ hb[n].target \in Nodes \cup {NoNode}
         /\ \A b \in BeatState : [hb EXCEPT ![n] = b] \in [Nodes -> BeatState]
  BY DEF TypeOK, BeatState, BeatPhase

\* What a beat, with or without drift to report, leaves in the node's request.
LEMMA BeatHeard ==
  ASSUME NEW n \in Nodes, Beat(n) \/ DriftBeat(n)
  PROVE  /\ hb[n].pc = "idle" /\ UNCHANGED <<db, reachable, sweep, resch, deploy>>
         /\ fresh' = [fresh EXCEPT ![n] = TRUE]
         /\ \E b \in BeatState : /\ hb' = [hb EXCEPT ![n] = b]
                                /\ b.pc = "promote" /\ b.svc = NoService
                                /\ b.rows \subseteq {r \in LiveOn(n) : dep[r].status = "deploying"}
<1>1. PICK missing \in SUBSET Services : Heard(n, missing)
  BY DEF Beat, DriftBeat
<1>2. PICK serving \in SUBSET {r \in LiveOn(n) : dep[r].status = "deploying"} :
        hb' = [hb EXCEPT ![n] = [NoBeat EXCEPT !.pc = "promote", !.rows = serving,
                                               !.svcs = missing]]
  BY <1>1 DEF Heard
<1> DEFINE b == [NoBeat EXCEPT !.pc = "promote", !.rows = serving, !.svcs = missing]
<1>3. b \in BeatState /\ b.pc = "promote" /\ b.svc = NoService /\ b.rows = serving
  BY DEF NoBeat, BeatState, BeatPhase, LiveOn
<1>4. QED
  BY <1>1, <1>2, <1>3 DEF Heard

\* The same for a call of rescheduleFromNode.
LEMMA CallAt ==
  ASSUME TypeOK, NEW c \in Callers
  PROVE  /\ resch[c] \in CallState
         /\ resch[c].node \in Nodes \cup {NoNode} /\ resch[c].rows \in SUBSET Rows
         /\ resch[c].row \in Rows \cup {NoRow}
         /\ resch[c].target \in Nodes \cup {NoNode}
         /\ \A k \in CallState : [resch EXCEPT ![c] = k] \in [Callers -> CallState]
  BY DEF TypeOK, CallState

\* Writing a status, and inserting a row, keep the table's type.
LEMMA RowWrites ==
  ASSUME TypeOK, NEW r \in Rows, NEW st \in RowStatus
  PROVE  /\ [dep EXCEPT ![r].status = st] \in [Rows -> Row]
         /\ \A q \in Rows, row \in Row :
               [dep EXCEPT ![r].status = st, ![q] = row] \in [Rows -> Row]
  BY DEF TypeOK, Row

\* Init satisfies the types.
LEMMA InitTypes == FailoverAssumption /\ Init => TypeOK
<1> SUFFICES ASSUME FailoverAssumption, Init PROVE TypeOK
  OBVIOUS
<1>1. PICK host \in [Services -> Nodes \cup {NoNode}] :
        dep = [r \in Rows |->
                  IF \E s \in Services : FirstRow[s] = r /\ host[s] # NoNode
                  THEN LET s == CHOOSE s \in Services : FirstRow[s] = r /\ host[s] # NoNode
                       IN  NewRow(s, host[s], "running")
                  ELSE NewRow(NoService, NoNode, "absent")]
  BY DEF Init
<1>2. ASSUME NEW r \in Rows PROVE dep[r] \in Row
  <2> DEFINE t == CHOOSE s \in Services : FirstRow[s] = r /\ host[s] # NoNode
  <2>1. CASE \E s \in Services : FirstRow[s] = r /\ host[s] # NoNode
    <3>1. t \in Services
      BY <2>1
    <3>2. dep[r] = NewRow(t, host[t], "running")
      BY <1>1, <2>1
    <3>3. QED
      BY <3>1, <3>2 DEF NewRow, Row, RowStatus
  <2>2. CASE ~ \E s \in Services : FirstRow[s] = r /\ host[s] # NoNode
    <3>1. dep[r] = NewRow(NoService, NoNode, "absent")
      BY <1>1, <2>2
    <3>2. QED
      BY <3>1 DEF NewRow, Row, RowStatus
  <2>3. QED
    BY <2>1, <2>2
<1>3. dep \in [Rows -> Row]
  BY <1>1, <1>2
<1>4. QED
  BY <1>3, NullStates DEF Init, TypeOK, NodeStatus, FailoverAssumption

\* Every step keeps the types.
LEMMA NextTypes == FailoverAssumption /\ TypeOK /\ [Next]_vars => TypeOK'
<1> SUFFICES ASSUME FailoverAssumption, TypeOK, [Next]_vars PROVE TypeOK'
  OBVIOUS
<1>1. ASSUME SweepRead PROVE TypeOK'
  BY <1>1, SMT DEF SweepRead, TypeOK, db, world
<1>2. ASSUME SweepMark PROVE TypeOK'
  <2>1. nodeStatus' \in [Nodes -> NodeStatus]
    BY <1>2 DEF SweepMark, TypeOK, NodeStatus
  <2>2. QED
    BY <1>2, <2>1, SMT DEF SweepMark, TypeOK, db, world
<1>3. ASSUME NEW n \in Nodes, SweepNode(n) PROVE TypeOK'
  <2>1. resch' \in [Callers -> CallState]
    <3>1. PICK rs \in SUBSET Rows :
        resch' = [resch EXCEPT !["sweeper"] = [NoCall EXCEPT !.node = n, !.rows = rs]]
      BY <1>3 DEF SweepNode, LiveOn
    <3>2. [NoCall EXCEPT !.node = n, !.rows = rs] \in CallState
      BY NullStates, CallAt DEF CallState
    <3>3. QED
      BY <3>1, <3>2, CallAt DEF Callers
  <2>2. QED
    BY <1>3, <2>1, SMT DEF SweepNode, TypeOK, db, world
<1>4. ASSUME SweepDone PROVE TypeOK'
  <2>1. resch' \in [Callers -> CallState]
    BY <1>4, NullStates, CallAt DEF SweepDone, Callers
  <2>2. QED
    BY <1>4, <2>1, SMT DEF SweepDone, TypeOK, db, world
<1>5. ASSUME NEW c \in Callers, NEW r \in Rows, HoldPinned(c, r) PROVE TypeOK'
  <2>1. dep' \in [Rows -> Row]
    BY <1>5 DEF HoldPinned, TypeOK, Row, RowStatus
  <2>2. resch' \in [Callers -> CallState]
    <3>1. [resch[c] EXCEPT !.rows = @ \ {r}] \in CallState
      BY NullStates, CallAt DEF CallState
    <3>2. QED
      BY <1>5, <3>1, NullStates, CallAt DEF HoldPinned, Callers
  <2>3. QED
    BY <1>5, <2>1, <2>2, SMT DEF HoldPinned, TypeOK, db, world
<1>6. ASSUME NEW c \in Callers, NEW r \in Rows, Decide(c, r) PROVE TypeOK'
  <2>1. resch' \in [Callers -> CallState]
    <3>1. PICK t \in Nodes \cup {NoNode} :
        resch' = [resch EXCEPT ![c].rows = @ \ {r}, ![c].row = r, ![c].target = t]
      BY <1>6 DEF Decide, Placed, Eligible
    <3>2. [resch[c] EXCEPT !.rows = @ \ {r}, !.row = r, !.target = t] \in CallState
      BY NullStates, CallAt DEF CallState
    <3>3. QED
      BY <3>1, <3>2, CallAt DEF Callers
  <2>2. QED
    BY <1>6, <2>1, SMT DEF Decide, TypeOK, db, world
<1>7. ASSUME NEW c \in Callers, Strand(c) PROVE TypeOK'
  <2>1. dep' \in [Rows -> Row]
    <3>1. resch[c].row \in Rows
      BY <1>7, CallAt DEF Strand
    <3>2. QED
      BY <1>7, <3>1, RowWrites DEF Strand, RowStatus
  <2>2. resch' \in [Callers -> CallState]
    <3>1. [resch[c] EXCEPT !.row = NoRow] \in CallState
      BY NullStates, CallAt DEF CallState
    <3>2. QED
      BY <1>7, <3>1, NullStates, CallAt DEF Strand, Callers
  <2>3. QED
    BY <1>7, <2>1, <2>2, SMT DEF Strand, TypeOK, db, world
<1>8. ASSUME NEW c \in Callers, Move(c) PROVE TypeOK'
  <2>1. dep' \in [Rows -> Row]
    <3>1. resch[c].row \in Rows
      BY <1>8, CallAt DEF Move
    <3>2. NewRow(dep[resch[c].row].svc, resch[c].target, "deploying") \in Row
      BY <3>1, CallAt DEF NewRow, TypeOK, Row, RowStatus
    <3>3. QED
      BY <1>8, <3>1, <3>2, RowWrites, FreshRowUnused DEF Move, Replace, RowStatus
  <2>2. resch' \in [Callers -> CallState]
    <3>1. [resch[c] EXCEPT !.row = NoRow, !.target = NoNode] \in CallState
      BY NullStates, CallAt DEF CallState
    <3>2. QED
      BY <1>8, <3>1, NullStates, CallAt DEF Move, Callers
  <2>3. QED
    BY <1>8, <2>1, <2>2, SMT DEF Move, TypeOK, db, world
<1>9. ASSUME NEW c \in Callers, MoveFails(c) PROVE TypeOK'
  <2>1. resch' \in [Callers -> CallState]
    BY <1>9, NullStates, CallAt DEF MoveFails, Callers
  <2>2. QED
    BY <1>9, <2>1, SMT DEF MoveFails, TypeOK, db, world
<1>10. ASSUME NEW n \in Nodes, Beat(n) \/ DriftBeat(n) PROVE TypeOK'
  <2>1. hb' \in [Nodes -> BeatState]
    BY <1>10, BeatHeard, BeatAt
  <2>2. used' \in Nat
    BY <1>10 DEF Beat, DriftBeat, Spend, TypeOK
  <2>3. QED
    BY <1>10, <2>1, <2>2, BeatHeard DEF TypeOK, db
<1>11. ASSUME NEW n \in Nodes, NEW r \in Rows, Promote(n, r) PROVE TypeOK'
  <2>1. dep' \in [Rows -> Row]
    BY <1>11 DEF Promote, TypeOK, Row, RowStatus
  <2>2. hb' \in [Nodes -> BeatState]
    <3>1. [hb[n] EXCEPT !.rows = @ \ {r}] \in BeatState
      BY NullStates, BeatAt DEF BeatState, BeatPhase
    <3>2. QED
      BY <1>11, <3>1, NullStates, BeatAt DEF Promote, Callers
  <2>3. QED
    BY <1>11, <2>1, <2>2, SMT DEF Promote, TypeOK, db, world
<1>12. ASSUME NEW n \in Nodes, Recover(n) PROVE TypeOK'
  <2>1. nodeStatus' \in [Nodes -> NodeStatus]
    BY <1>12 DEF Recover, TypeOK, NodeStatus
  <2>2. hb' \in [Nodes -> BeatState]
    <3>1. [hb[n] EXCEPT !.pc = "reclaim"] \in BeatState
      BY NullStates, BeatAt DEF BeatState, BeatPhase
    <3>2. QED
      BY <1>12, <3>1, NullStates, BeatAt DEF Recover, Callers
  <2>3. QED
    BY <1>12, <2>1, <2>2, SMT DEF Recover, TypeOK, db, world
<1>13. ASSUME NEW n \in Nodes, ReadHeld(n) PROVE TypeOK'
  <2>1. hb' \in [Nodes -> BeatState]
    <3>1. PICK rs \in SUBSET Rows :
        \/ hb' = [hb EXCEPT ![n] = NoBeat]
        \/ hb' = [hb EXCEPT ![n].pc = "resume", ![n].rows = rs]
      BY <1>13 DEF ReadHeld
    <3>2. [hb[n] EXCEPT !.pc = "resume", !.rows = rs] \in BeatState
      BY NullStates, BeatAt DEF BeatState, BeatPhase
    <3>3. CASE hb' = [hb EXCEPT ![n] = NoBeat]
      BY <3>3, NullStates, BeatAt
    <3>4. CASE hb' = [hb EXCEPT ![n].pc = "resume", ![n].rows = rs]
      BY <3>2, <3>4, BeatAt
    <3>5. QED
      BY <3>1, <3>3, <3>4
  <2>2. QED
    BY <1>13, <2>1, SMT DEF ReadHeld, TypeOK, db, world
<1>14. ASSUME NEW n \in Nodes, NEW r \in Rows, Resume(n, r) PROVE TypeOK'
  <2>1. dep' \in [Rows -> Row]
    BY <1>14 DEF Resume, TypeOK, Row, RowStatus
  <2>2. hb' \in [Nodes -> BeatState]
    <3>1. [hb[n] EXCEPT !.rows = @ \ {r}] \in BeatState
      BY NullStates, BeatAt DEF BeatState, BeatPhase
    <3>2. QED
      BY <1>14, <3>1, NullStates, BeatAt DEF Resume, Callers
  <2>3. QED
    BY <1>14, <2>1, <2>2, SMT DEF Resume, TypeOK, db, world
<1>15. ASSUME NEW n \in Nodes, ReadCandidates(n) PROVE TypeOK'
  <2>1. hb' \in [Nodes -> BeatState]
    <3>1. PICK rs \in SUBSET Rows : hb' = [hb EXCEPT ![n].pc = "eager", ![n].rows = rs]
      BY <1>15 DEF ReadCandidates
    <3>2. [hb[n] EXCEPT !.pc = "eager", !.rows = rs] \in BeatState
      BY NullStates, BeatAt DEF BeatState, BeatPhase
    <3>3. QED
      BY <3>1, <3>2, BeatAt
  <2>2. QED
    BY <1>15, <2>1, SMT DEF ReadCandidates, TypeOK, db, world
<1>16. ASSUME NEW n \in Nodes, NEW r \in Rows, Reclaim(n, r) PROVE TypeOK'
  <2>1. dep' \in [Rows -> Row]
    BY <1>16, FreshRowUnused DEF Reclaim, TypeOK, Row, RowStatus, Replace, NewRow
  <2>2. hb' \in [Nodes -> BeatState]
    <3>1. [hb[n] EXCEPT !.rows = @ \ {r}] \in BeatState
      BY NullStates, BeatAt DEF BeatState, BeatPhase
    <3>2. QED
      BY <1>16, <3>1, NullStates, BeatAt DEF Reclaim, Callers
  <2>3. QED
    BY <1>16, <2>1, <2>2, SMT DEF Reclaim, TypeOK, db, world
<1>17. ASSUME NEW n \in Nodes, ReadStranded(n) PROVE TypeOK'
  <2>1. hb' \in [Nodes -> BeatState]
    <3>1. PICK ss \in SUBSET Services :
        hb' = [hb EXCEPT ![n].pc = "place", ![n].svcs = ss]
      BY <1>17 DEF ReadStranded
    <3>2. [hb[n] EXCEPT !.pc = "place", !.svcs = ss] \in BeatState
      BY NullStates, BeatAt DEF BeatState, BeatPhase
    <3>3. QED
      BY <3>1, <3>2, BeatAt
  <2>2. QED
    BY <1>17, <2>1, SMT DEF ReadStranded, TypeOK, db, world
<1>18. ASSUME NEW n \in Nodes, NEW s \in Services, DecideStranded(n, s) PROVE TypeOK'
  <2>1. hb' \in [Nodes -> BeatState]
    <3>1. PICK t \in Nodes \cup {NoNode}, v \in Services \cup {NoService} :
        hb' = [hb EXCEPT ![n].svcs = @ \ {s}, ![n].target = t, ![n].svc = v]
      BY <1>18 DEF DecideStranded, Placed, Eligible
    <3>2. [hb[n] EXCEPT !.svcs = @ \ {s}, !.target = t, !.svc = v] \in BeatState
      BY NullStates, BeatAt DEF BeatState, BeatPhase
    <3>3. QED
      BY <3>1, <3>2, BeatAt
  <2>2. QED
    BY <1>18, <2>1, SMT DEF DecideStranded, TypeOK, db, world
<1>19. ASSUME NEW n \in Nodes, Unstrand(n) PROVE TypeOK'
  <2>1. dep' \in [Rows -> Row]
    BY <1>19, FreshRowUnused, BeatAt DEF Unstrand, TypeOK, Row, RowStatus, NewRow
  <2>2. hb' \in [Nodes -> BeatState]
    <3>1. [hb[n] EXCEPT !.svc = NoService, !.target = NoNode] \in BeatState
      BY NullStates, BeatAt DEF BeatState, BeatPhase
    <3>2. QED
      BY <1>19, <3>1, NullStates, BeatAt DEF Unstrand, Callers
  <2>3. QED
    BY <1>19, <2>1, <2>2, SMT DEF Unstrand, TypeOK, db, world
<1>20. ASSUME NEW n \in Nodes, ReclaimFails(n) PROVE TypeOK'
  <2>1. hb' \in [Nodes -> BeatState]
    BY <1>20, NullStates, BeatAt DEF ReclaimFails, Callers
  <2>2. QED
    BY <1>20, <2>1, SMT DEF ReclaimFails, TypeOK, db, world
<1>21. ASSUME NEW n \in Nodes, BeatDone(n) PROVE TypeOK'
  <2>1. hb' \in [Nodes -> BeatState]
    BY <1>21, NullStates, BeatAt DEF BeatDone, Callers
  <2>2. QED
    BY <1>21, <2>1, SMT DEF BeatDone, TypeOK, db, world
<1>22. ASSUME NEW n \in Nodes, Cordon(n) PROVE TypeOK'
  <2>1. nodeStatus' \in [Nodes -> NodeStatus]
    BY <1>22 DEF Cordon, TypeOK, NodeStatus
  <2>2. QED
    BY <1>22, <2>1, SMT DEF Cordon, Spend, TypeOK, db, world
<1>23. ASSUME NEW n \in Nodes, Uncordon(n) PROVE TypeOK'
  <2>1. nodeStatus' \in [Nodes -> NodeStatus]
    BY <1>23 DEF Uncordon, TypeOK, NodeStatus
  <2>2. QED
    BY <1>23, <2>1, SMT DEF Uncordon, TypeOK, db, world
<1>24. ASSUME NEW n \in Nodes, RemoveBegin(n) PROVE TypeOK'
  <2>1. nodeStatus' \in [Nodes -> NodeStatus]
    BY <1>24 DEF RemoveBegin, TypeOK, NodeStatus
  <2>2. resch' \in [Callers -> CallState]
    <3>1. PICK rs \in SUBSET Rows :
        resch' = [resch EXCEPT !["removal"] = [NoCall EXCEPT !.node = n, !.rows = rs]]
      BY <1>24 DEF RemoveBegin, LiveOn
    <3>2. [NoCall EXCEPT !.node = n, !.rows = rs] \in CallState
      BY NullStates, CallAt DEF CallState
    <3>3. QED
      BY <3>1, <3>2, CallAt DEF Callers
  <2>3. QED
    BY <1>24, <2>1, <2>2, SMT DEF RemoveBegin, Spend, TypeOK, db, world
<1>25. ASSUME RemoveFinish PROVE TypeOK'
  <2>1. nodeStatus' \in [Nodes -> NodeStatus]
    BY <1>25 DEF RemoveFinish, TypeOK, NodeStatus
  <2>2. dep' \in [Rows -> Row]
    BY <1>25 DEF RemoveFinish, TypeOK, Row, RowStatus
  <2>3. resch' \in [Callers -> CallState]
    BY <1>25, NullStates, CallAt DEF RemoveFinish, Callers
  <2>4. QED
    BY <1>25, <2>1, <2>2, <2>3, SMT DEF RemoveFinish, TypeOK, db, world
<1>26. ASSUME NEW s \in Services, DeployBegin(s) PROVE TypeOK'
  <2>1. dep' \in [Rows -> Row]
    BY <1>26, FreshRowUnused DEF DeployBegin, TypeOK, Row, RowStatus, NewRow, Eligible
  <2>2. QED
    BY <1>26, <2>1, FreshRowUnused, SMT DEF DeployBegin, Spend, TypeOK, db, world
<1>27. ASSUME DeployFinish PROVE TypeOK'
  <2>1. dep' \in [Rows -> Row]
    BY <1>27 DEF DeployFinish, TypeOK, Row, RowStatus
  <2>2. QED
    BY <1>27, <2>1, SMT DEF DeployFinish, TypeOK, db, world
<1>28. ASSUME DeployFails PROVE TypeOK'
  <2>1. dep' \in [Rows -> Row]
    BY <1>28 DEF DeployFails, TypeOK, Row, RowStatus
  <2>2. QED
    BY <1>28, <2>1, SMT DEF DeployFails, TypeOK, db, world
<1>29. ASSUME NEW r \in Rows, FailStaleBuild(r) PROVE TypeOK'
  <2>1. dep' \in [Rows -> Row]
    BY <1>29 DEF FailStaleBuild, TypeOK, Row, RowStatus
  <2>2. QED
    BY <1>29, <2>1, SMT DEF FailStaleBuild, TypeOK, db, world
<1>30. ASSUME NEW n \in Nodes, FallSilent(n) PROVE TypeOK'
  BY <1>30, SMT DEF FallSilent, Spend, TypeOK, db, world
<1>31. ASSUME NEW n \in Nodes, ComeBack(n) PROVE TypeOK'
  BY <1>31, SMT DEF ComeBack, TypeOK, db, world
<1>32. ASSUME NEW n \in Nodes, Expire(n) PROVE TypeOK'
  BY <1>32, SMT DEF Expire, TypeOK, db, world
<1>33. ASSUME Restart PROVE TypeOK'
  <2>1. resch' \in [Callers -> CallState]
    BY <1>33, NullStates DEF Restart
  <2>2. hb' \in [Nodes -> BeatState]
    BY <1>33, NullStates DEF Restart
  <2>3. QED
    BY <1>33, <2>1, <2>2, SMT DEF Restart, Spend, TypeOK, db, world
<1>34. CASE UNCHANGED vars
  BY <1>34 DEF vars, TypeOK
<1>35. ASSUME NEW n \in Nodes, ReadDrift(n) PROVE TypeOK'
  <2>1. hb' \in [Nodes -> BeatState]
    <3>1. PICK rs \in SUBSET Rows :
        hb' = [hb EXCEPT ![n].pc = "drift", ![n].svcs = {}, ![n].rows = rs]
      BY <1>35 DEF ReadDrift
    <3>2. [hb[n] EXCEPT !.pc = "drift", !.svcs = {}, !.rows = rs] \in BeatState
      BY NullStates, BeatAt DEF BeatState, BeatPhase
    <3>3. QED
      BY <3>1, <3>2, BeatAt
  <2>2. QED
    BY <1>35, <2>1, SMT DEF ReadDrift, TypeOK, db, world
<1>36. ASSUME NEW n \in Nodes, WriteDrift(n) PROVE TypeOK'
  <2>1. dep' \in [Rows -> Row]
    BY <1>36 DEF WriteDrift, TypeOK, Row, RowStatus
  <2>2. hb' \in [Nodes -> BeatState]
    <3>1. [hb[n] EXCEPT !.rows = {}] \in BeatState
      BY NullStates, BeatAt DEF BeatState, BeatPhase
    <3>2. QED
      BY <1>36, <3>1, BeatAt DEF WriteDrift
  <2>3. QED
    BY <1>36, <2>1, <2>2, SMT DEF WriteDrift, TypeOK, db, world
<1>37. QED
  BY <1>1, <1>2, <1>3, <1>4, <1>5, <1>6, <1>7, <1>8, <1>9, <1>10, <1>11, <1>12, <1>13,
     <1>14, <1>15, <1>16, <1>17, <1>18, <1>19, <1>20, <1>21, <1>22, <1>23, <1>24, <1>25,
     <1>26, <1>27, <1>28, <1>29, <1>30, <1>31, <1>32, <1>33, <1>34, <1>35, <1>36
  DEF Next, Sweeper, Call, Request, Operator, World

\* Every variable keeps its type.
THEOREM TypeCorrect == Spec => []TypeOK
  BY FailoverAssumption, InitTypes, NextTypes, PTL DEF Spec

-----------------------------------------------------------------------------
(***************************************************************************)
(* What each step does to the deployments table                            *)
(***************************************************************************)

\* A row a handler holds is not the one an insert takes.
LEMMA FreshRowApart ==
  ASSUME Unused # {}
  PROVE  /\ \A c \in Callers : FreshRow \notin resch[c].rows /\ FreshRow # resch[c].row
         /\ \A n \in Nodes : FreshRow \notin hb[n].rows
         /\ FreshRow # deploy
<1>1. FreshRow \in Rows /\ FreshRow \notin Referenced
  BY FreshRowUnused DEF Unused
<1>2. QED
  BY <1>1 DEF Referenced

\* The single-row writes.
LEMMA StatusEffects ==
  ASSUME TypeOK
  PROVE  /\ \A c \in Callers, r \in Rows : HoldPinned(c, r) => StatusSet(r, "pinned_unavailable")
         /\ \A c \in Callers : Strand(c) => StatusSet(resch[c].row, "stranded")
         /\ \A n \in Nodes, r \in Rows : Resume(n, r) => StatusSet(r, "deploying")
         /\ \A r \in Rows : FailStaleBuild(r) => StatusSet(r, "failed")
         /\ DeployFails => StatusSet(deploy, "failed")
<1>1. ASSUME NEW r \in Rows, NEW st, dep' = [dep EXCEPT ![r].status = st]
      PROVE  StatusSet(r, st)
  BY <1>1 DEF StatusSet, TypeOK, Row
<1>2. ASSUME NEW c \in Callers, Strand(c) PROVE StatusSet(resch[c].row, "stranded")
  BY <1>1, <1>2, CallAt DEF Strand
<1>3. ASSUME DeployFails PROVE StatusSet(deploy, "failed")
  BY <1>1, <1>3 DEF DeployFails, TypeOK
<1>4. QED
  BY <1>1, <1>2, <1>3 DEF HoldPinned, Resume, FailStaleBuild

\* The inserts.
LEMMA InsertEffects ==
  ASSUME TypeOK
  PROVE  /\ \A n \in Nodes : Unstrand(n) =>
               Inserted(FreshRow, hb[n].svc, hb[n].target, "deploying")
         /\ \A s \in Services : DeployBegin(s) =>
               \E n \in Eligible(s, NoNode) : Inserted(FreshRow, s, n, "building")
<1>1. ASSUME Unused # {}, NEW s, NEW n, NEW st,
             dep' = [dep EXCEPT ![FreshRow] = NewRow(s, n, st)]
      PROVE  Inserted(FreshRow, s, n, st)
  BY <1>1, FreshRowUnused DEF Inserted, NewRow, TypeOK
<1>2. QED
  BY <1>1 DEF Unstrand, DeployBegin

\* The moves: one transaction supersedes a row and inserts its successor.
LEMMA ReplaceEffects ==
  ASSUME TypeOK
  PROVE  /\ \A c \in Callers : Move(c) =>
               Replaced(resch[c].row, FreshRow, resch[c].target)
         /\ \A n \in Nodes, r \in Rows : Reclaim(n, r) => Replaced(r, FreshRow, n)
<1>1. ASSUME NEW old \in Rows, NEW n, FreshRow # old, Replace(old, dep[old].svc, n)
      PROVE  Replaced(old, FreshRow, n)
  BY <1>1, FreshRowUnused DEF Replace, Replaced, NewRow, TypeOK, Row
<1>2. ASSUME NEW c \in Callers, Move(c)
      PROVE  Replaced(resch[c].row, FreshRow, resch[c].target)
  BY <1>1, <1>2, FreshRowApart, CallAt DEF Move, Replace
<1>3. ASSUME NEW n \in Nodes, NEW r \in Rows, Reclaim(n, r)
      PROVE  Replaced(r, FreshRow, n)
  BY <1>1, <1>3, FreshRowApart DEF Reclaim, Replace
<1>4. QED
  BY <1>2, <1>3

\* The cutovers: a row goes live and others of its service are superseded.
LEMMA CutoverEffects ==
  ASSUME TypeOK
  PROVE  /\ \A n \in Nodes, r \in Rows : Promote(n, r) =>
               Cutover(r, "running", LiveRows(dep[r].svc))
         /\ DeployFinish =>
               Cutover(deploy, "deploying",
                       {q \in LiveRows(dep[deploy].svc) : dep[deploy].svc \in Volumes})
  BY DEF Promote, DeployFinish, Cutover, TypeOK, Row

\* A drift report takes the reason from the strands it names.
LEMMA DriftEffect ==
  ASSUME TypeOK
  PROVE  \A n \in Nodes : WriteDrift(n) => Overwrite(hb[n].rows)
  BY DEF WriteDrift, Overwrite, TypeOK, Row

\* Removing a node takes it from the rows that named it.
LEMMA RemoveEffect ==
  ASSUME TypeOK, RemoveFinish
  PROVE  \A q \in Rows : /\ dep'[q].svc = dep[q].svc /\ dep'[q].status = dep[q].status
                         /\ dep'[q].node \in {dep[q].node, NoNode}
  BY DEF RemoveFinish, TypeOK, Row

\* Every other step leaves the table alone.
LEMMA Writers ==
  ASSUME [Next]_vars
  PROVE  \/ dep' = dep
         \/ \E c \in Callers, r \in Rows : HoldPinned(c, r)
         \/ \E c \in Callers : Strand(c) \/ Move(c)
         \/ \E n \in Nodes, r \in Rows : Promote(n, r) \/ Resume(n, r) \/ Reclaim(n, r)
         \/ \E n \in Nodes : Unstrand(n) \/ WriteDrift(n)
         \/ RemoveFinish \/ DeployFinish \/ DeployFails
         \/ \E s \in Services : DeployBegin(s)
         \/ \E r \in Rows : FailStaleBuild(r)
  BY DEF Next, vars, db, Sweeper, Call, Request, Operator, World, SweepRead, SweepMark,
     SweepNode, SweepDone, Decide, MoveFails, Beat, DriftBeat, Heard, ReadDrift, Recover, ReadHeld, ReadCandidates,
     ReadStranded, DecideStranded, ReclaimFails, BeatDone, Cordon, Uncordon, RemoveBegin,
     FallSilent, ComeBack, Expire, Restart

-----------------------------------------------------------------------------
(***************************************************************************)
(* At most one running release                                             *)
(***************************************************************************)

\* The first releases are on rows of their own.
LEMMA InitOneRunning == Init => AtMostOneRunning
<1> SUFFICES ASSUME Init, NEW q \in Rows, NEW r \in Rows,
                    dep[q].status = "running", dep[r].status = "running",
                    dep[q].svc = dep[r].svc
             PROVE  q = r
  BY DEF AtMostOneRunning
<1>1. PICK host \in [Services -> Nodes \cup {NoNode}] :
        dep = [x \in Rows |->
                  IF \E s \in Services : FirstRow[s] = x /\ host[s] # NoNode
                  THEN LET s == CHOOSE s \in Services : FirstRow[s] = x /\ host[s] # NoNode
                       IN  NewRow(s, host[s], "running")
                  ELSE NewRow(NoService, NoNode, "absent")]
  BY DEF Init
<1>2. ASSUME NEW x \in Rows, dep[x].status = "running"
      PROVE  FirstRow[dep[x].svc] = x
  <2>1. \E s \in Services : FirstRow[s] = x /\ host[s] # NoNode
    BY <1>1, <1>2 DEF NewRow
  <2>2. dep[x].svc = CHOOSE s \in Services : FirstRow[s] = x /\ host[s] # NoNode
    BY <1>1, <2>1 DEF NewRow
  <2>3. QED
    BY <2>1, <2>2
<1>3. QED
  BY <1>2

\* Only a promotion makes a row running, and it supersedes the row that was.
LEMMA NextOneRunning ==
  ASSUME TypeOK, AtMostOneRunning, [Next]_vars
  PROVE  AtMostOneRunning'
<1>1. ASSUME \A q \in Rows : dep'[q].status = "running" =>
                dep[q].status = "running" /\ dep'[q].svc = dep[q].svc
      PROVE  AtMostOneRunning'
  BY <1>1 DEF AtMostOneRunning
<1>2. ASSUME NEW r, NEW st, st # "running", StatusSet(r, st) PROVE AtMostOneRunning'
  BY <1>1, <1>2 DEF StatusSet
<1>3. ASSUME NEW f, NEW s, NEW n, NEW st, st # "running", Inserted(f, s, n, st)
      PROVE  AtMostOneRunning'
  BY <1>1, <1>3 DEF Inserted
<1>4. ASSUME NEW old, NEW f, NEW n, Replaced(old, f, n) PROVE AtMostOneRunning'
  BY <1>1, <1>4 DEF Replaced
<1>5. ASSUME NEW n \in Nodes, NEW r \in Rows, Promote(n, r) PROVE AtMostOneRunning'
  <2>1. Cutover(r, "running", LiveRows(dep[r].svc))
    BY <1>5, CutoverEffects
  <2>2. QED
    BY <2>1 DEF Cutover, AtMostOneRunning, LiveRows, Live
<1>6. CASE DeployFinish
  BY <1>1, <1>6, CutoverEffects DEF Cutover
<1>7. CASE RemoveFinish
  BY <1>1, <1>7, RemoveEffect
<1>8. ASSUME NEW n \in Nodes, WriteDrift(n) PROVE AtMostOneRunning'
  BY <1>1, <1>8, DriftEffect DEF Overwrite
<1>9. CASE dep' = dep
  BY <1>1, <1>9
<1>10. QED
  BY <1>2, <1>3, <1>4, <1>5, <1>6, <1>7, <1>8, <1>9,
     Writers, StatusEffects, InsertEffects, ReplaceEffects

\* A service has at most one `running` release, whatever overlaps: promotion
\* supersedes every other live row in the transaction that makes a row running.
THEOREM OneRunning == Spec => []AtMostOneRunning
<1>1. TypeOK /\ AtMostOneRunning /\ [Next]_vars => AtMostOneRunning'
  BY NextOneRunning
<1>2. QED
  BY <1>1, InitOneRunning, TypeCorrect, PTL DEF Spec

-----------------------------------------------------------------------------
(***************************************************************************)
(* The inductive invariant                                                 *)
(***************************************************************************)

\* The other parts of the invariant hold of a quiet fleet.
LEMMA InitFits ==
  FailoverAssumption /\ Init =>
      PinnedStaysHome /\ RowsNamed /\ HoldsFit /\ HandledRows /\ InCustody /\ DecisionsFit
<1> SUFFICES ASSUME FailoverAssumption, Init
             PROVE  PinnedStaysHome /\ RowsNamed /\ HoldsFit /\ HandledRows
                      /\ InCustody /\ DecisionsFit
  OBVIOUS
<1>1. PICK host \in [Services -> Nodes \cup {NoNode}] :
        /\ \A s \in Services : host[s] # NoNode => (s \in Pinned => host[s] = Home[s])
        /\ dep = [x \in Rows |->
                    IF \E s \in Services : FirstRow[s] = x /\ host[s] # NoNode
                    THEN LET s == CHOOSE s \in Services : FirstRow[s] = x /\ host[s] # NoNode
                         IN  NewRow(s, host[s], "running")
                    ELSE NewRow(NoService, NoNode, "absent")]
  BY DEF Init
<1>2. ASSUME NEW x \in Rows
      PROVE  \/ dep[x].svc = NoService /\ dep[x].status = "absent"
             \/ /\ dep[x].svc \in Services /\ dep[x].status = "running"
                /\ dep[x].svc \in Pinned => dep[x].node \in {Home[dep[x].svc], NoNode}
  <2> DEFINE t == CHOOSE s \in Services : FirstRow[s] = x /\ host[s] # NoNode
  <2>1. CASE \E s \in Services : FirstRow[s] = x /\ host[s] # NoNode
    <3>1. t \in Services /\ dep[x] = NewRow(t, host[t], "running")
      BY <1>1, <2>1
    <3>2. QED
      BY <1>1, <3>1 DEF NewRow
  <2>2. CASE ~ \E s \in Services : FirstRow[s] = x /\ host[s] # NoNode
    <3>1. dep[x] = NewRow(NoService, NoNode, "absent")
      BY <1>1, <2>2
    <3>2. QED
      BY <3>1 DEF NewRow
  <2>3. QED
    BY <2>1, <2>2
<1>3. PinnedStaysHome /\ RowsNamed /\ HoldsFit
  BY <1>2 DEF PinnedStaysHome, RowsNamed, HoldsFit, FailoverAssumption
<1>4. HandledRows /\ InCustody /\ DecisionsFit
  BY DEF Init, HandledRows, InCustody, DecisionsFit, CallRows, NoCall, NoBeat, FailoverAssumption
<1>5. QED
  BY <1>3, <1>4

\* Where the rows a call holds come from.
LEMMA CallSources ==
  ASSUME TypeOK, [Next]_vars, NEW c \in Callers, NEW r \in CallRows(c)'
  PROVE  r \in CallRows(c) \/ (r \in Rows /\ dep' = dep /\ dep[r].status \in Live)
<1> DEFINE Source == r \in CallRows(c) \/ (r \in Rows /\ dep' = dep /\ dep[r].status \in Live)
<1>1. ASSUME NEW n \in Nodes, NEW d \in Callers, dep' = dep,
             resch' = [resch EXCEPT ![d] = [NoCall EXCEPT !.node = n, !.rows = LiveOn(n)]]
      PROVE  Source
  <2>1. CASE c = d
    <3>1. CallRows(c)' = LiveOn(n)
      BY <1>1, <2>1 DEF CallRows, NoCall, TypeOK
    <3>2. QED
      BY <1>1, <3>1 DEF LiveOn
  <2>2. CASE c # d
    BY <1>1, <2>2 DEF CallRows, TypeOK
  <2>3. QED
    BY <2>1, <2>2
<1>2. ASSUME NEW d \in Callers, NEW q \in Rows, HoldPinned(d, q) \/ Decide(d, q)
      PROVE  r \in CallRows(c)
  BY <1>2 DEF HoldPinned, Decide, CallRows, TypeOK, CallState
<1>6. ASSUME NEW d \in Callers, Strand(d) \/ Move(d) \/ MoveFails(d)
      PROVE  r \in CallRows(c)
  BY <1>6 DEF Strand, Move, MoveFails, CallRows, NoCall, TypeOK, CallState
<1>7. ASSUME NEW n \in Nodes, SweepNode(n) \/ RemoveBegin(n) PROVE Source
  BY <1>1, <1>7 DEF SweepNode, RemoveBegin, db, Callers
<1>3. CASE SweepDone \/ RemoveFinish \/ Restart
  BY <1>3 DEF SweepDone, RemoveFinish, Restart, CallRows, NoCall, TypeOK, CallState, Callers
<1>4. CASE UNCHANGED resch
  BY <1>4 DEF CallRows
<1>5. QED
  BY <1>2, <1>3, <1>4, <1>6, <1>7
  DEF Next, vars, Sweeper, Call, Request, Operator, World, SweepRead, SweepMark,
     Beat, DriftBeat, Heard, Promote, ReadDrift, WriteDrift, Recover, ReadHeld, Resume,
     ReadCandidates, Reclaim, ReadStranded, DecideStranded, Unstrand, ReclaimFails, BeatDone, Cordon, Uncordon, DeployBegin,
     DeployFinish, DeployFails, FailStaleBuild, FallSilent, ComeBack, Expire

\* Where the rows a request holds come from.
LEMMA BeatSources ==
  ASSUME TypeOK, [Next]_vars, NEW n \in Nodes, NEW r \in hb'[n].rows
  PROVE  \/ r \in hb[n].rows /\ (hb'[n].pc = "eager" => hb[n].pc = "eager")
         \/ /\ r \in Rows /\ dep' = dep /\ dep[r].status \in Live \cup {"pinned_unavailable"}
            /\ hb'[n].pc = "eager" => dep[r].svc \in Eager /\ Home[dep[r].svc] = n
<1> DEFINE Source ==
      \/ r \in hb[n].rows /\ (hb'[n].pc = "eager" => hb[n].pc = "eager")
      \/ /\ r \in Rows /\ dep' = dep /\ dep[r].status \in Live \cup {"pinned_unavailable"}
         /\ hb'[n].pc = "eager" => dep[r].svc \in Eager /\ Home[dep[r].svc] = n
<1>1. ASSUME NEW m \in Nodes, Beat(m) \/ DriftBeat(m) PROVE Source
  <2>1. PICK b \in BeatState :
          /\ hb' = [hb EXCEPT ![m] = b] /\ b.pc = "promote"
          /\ b.rows \subseteq {q \in LiveOn(m) : dep[q].status = "deploying"}
    BY <1>1, BeatHeard
  <2>2. dep' = dep
    BY <1>1, BeatHeard DEF db
  <2>3. CASE m = n
    <3>1. hb'[n] = b
      BY <2>1, <2>3 DEF TypeOK
    <3>2. QED
      BY <2>1, <2>2, <3>1 DEF LiveOn, Live
  <2>4. CASE m # n
    BY <2>1, <2>4 DEF TypeOK
  <2>5. QED
    BY <2>3, <2>4
<1>2. ASSUME NEW m \in Nodes, ReadHeld(m) \/ ReadCandidates(m) \/ ReadDrift(m)
      PROVE  Source
  <2>1. CASE m # n
    BY <1>2, <2>1 DEF ReadHeld, ReadCandidates, ReadDrift, TypeOK
  <2>2. CASE m = n /\ ReadHeld(m)
    BY <2>2, BeatAt DEF ReadHeld, NoBeat, TypeOK, BeatState, db
  <2>3. CASE m = n /\ ReadCandidates(m)
    <3>1. /\ hb'[n].rows = {q \in Rows : /\ dep[q].status \in Live /\ dep[q].node # n
                                        /\ dep[q].svc \in Eager /\ Home[dep[q].svc] = n}
          /\ dep' = dep
      BY <2>3, BeatAt DEF ReadCandidates, TypeOK, BeatState, db
    <3>2. QED
      BY <3>1
  <2>4. CASE m = n /\ ReadDrift(m)
    <3>1. /\ hb'[n].rows = {q \in Rows : /\ dep[q].node = n /\ dep[q].status = "running"
                                        /\ dep[q].svc \in hb[n].svcs}
          /\ dep' = dep /\ hb'[n].pc = "drift"
      BY <2>4, BeatAt DEF ReadDrift, TypeOK, BeatState, db
    <3>2. QED
      BY <3>1 DEF Live
  <2>5. QED
    BY <1>2, <2>1, <2>2, <2>3, <2>4
<1>3. ASSUME NEW m \in Nodes, NEW q \in Rows, Promote(m, q) \/ Resume(m, q) \/ Reclaim(m, q)
      PROVE  Source
  BY <1>3, BeatAt DEF Promote, Resume, Reclaim, TypeOK, BeatState
<1>4. ASSUME NEW m \in Nodes, hb'[m].rows \subseteq hb[m].rows,
             hb'[m].pc = "eager" => hb[m].pc = "eager",
             \A k \in Nodes \ {m} : hb'[k] = hb[k]
      PROVE  Source
  BY <1>4
<1>8. ASSUME NEW m \in Nodes,
             \/ WriteDrift(m) \/ Recover(m) \/ ReadStranded(m) \/ Unstrand(m)
             \/ ReclaimFails(m) \/ BeatDone(m)
      PROVE  Source
  <2>1. CASE Recover(m)
    BY <1>4, <2>1, BeatAt DEF Recover, NoBeat, TypeOK, BeatState
  <2>2. CASE ReadStranded(m) \/ Unstrand(m)
    BY <1>4, <2>2, BeatAt DEF ReadStranded, Unstrand, TypeOK, BeatState
  <2>3. CASE ReclaimFails(m) \/ BeatDone(m)
    BY <1>4, <2>3 DEF ReclaimFails, BeatDone, NoBeat, TypeOK
  <2>4. CASE WriteDrift(m)
    BY <1>4, <2>4, BeatAt DEF WriteDrift, TypeOK, BeatState
  <2>5. QED
    BY <1>8, <2>1, <2>2, <2>3, <2>4
<1>9. ASSUME NEW m \in Nodes, NEW s \in Services, DecideStranded(m, s) PROVE Source
  BY <1>4, <1>9, BeatAt DEF DecideStranded, TypeOK, BeatState
<1>5. CASE Restart
  BY <1>5 DEF Restart, NoBeat
<1>6. CASE UNCHANGED hb
  BY <1>6
<1>7. QED
  BY <1>1, <1>2, <1>3, <1>5, <1>6, <1>8, <1>9
  DEF Next, vars, Sweeper, Call, Request, Operator, World, SweepRead, SweepMark, SweepNode,
     SweepDone, HoldPinned, Decide, Strand, Move, MoveFails, Cordon, Uncordon, RemoveBegin,
     RemoveFinish, DeployBegin, DeployFinish, DeployFails, FailStaleBuild, FallSilent,
     ComeBack, Expire

\* What becomes of a row that a handler holds, and of a service that is kept.
LEMMA HandledStays ==
  ASSUME IInv, [Next]_vars, NEW r \in Rows,
         (\E c \in Callers : r \in CallRows(c)) \/ (\E n \in Nodes : r \in hb[n].rows)
  PROVE  dep'[r].svc = dep[r].svc /\ dep'[r].status \notin {"absent", "building"}
<1>1. dep[r].status \notin {"absent", "building"}
  BY DEF IInv, HandledRows
<1>2. ASSUME Unused # {} PROVE r # FreshRow
  BY <1>2, FreshRowApart DEF CallRows
<1>3. ASSUME NEW q, NEW st, st \notin {"absent", "building"}, StatusSet(q, st)
      PROVE  dep'[r].svc = dep[r].svc /\ dep'[r].status \notin {"absent", "building"}
  BY <1>1, <1>3 DEF StatusSet
<1>4. ASSUME NEW s, NEW n, NEW st, Unused # {}, Inserted(FreshRow, s, n, st)
      PROVE  dep'[r] = dep[r]
  BY <1>2, <1>4 DEF Inserted
<1>5. ASSUME NEW old, NEW n, Replaced(old, FreshRow, n)
      PROVE  dep'[r].svc = dep[r].svc /\ dep'[r].status \notin {"absent", "building"}
  BY <1>1, <1>2, <1>5 DEF Replaced
<1>6. ASSUME NEW q, NEW st, NEW others, st \notin {"absent", "building"}, Cutover(q, st, others)
      PROVE  dep'[r].svc = dep[r].svc /\ dep'[r].status \notin {"absent", "building"}
  BY <1>1, <1>6 DEF Cutover
<1>7. CASE RemoveFinish
  BY <1>1, <1>7, RemoveEffect DEF IInv
<1>8. TypeOK
  BY DEF IInv
<1>9. ASSUME NEW n \in Nodes, WriteDrift(n)
      PROVE  dep'[r].svc = dep[r].svc /\ dep'[r].status \notin {"absent", "building"}
  BY <1>1, <1>8, <1>9, DriftEffect DEF Overwrite
<1>10. QED
  BY <1>1, <1>3, <1>4, <1>5, <1>6, <1>7, <1>8, <1>9, Writers, StatusEffects, InsertEffects,
     ReplaceEffects, CutoverEffects DEF Inserted

\* No step drops a pinned service that is live or held.
LEMMA KeptStays ==
  ASSUME FailoverAssumption, IInv, [Next]_vars, NEW s \in Pinned, Kept(s)
  PROVE  Kept(s)'
<1> DEFINE K == Live \cup {"pinned_unavailable"}
<1>1. PICK q \in Rows : dep[q].svc = s /\ dep[q].status \in K
  BY DEF Kept, Has
<1>2. ASSUME NEW x \in Rows, dep'[x].svc = s, dep'[x].status \in K PROVE Kept(s)'
  BY <1>2 DEF Kept, Has
<1>3. /\ TypeOK /\ DecisionsFit /\ NoRow \notin Rows
      /\ deploy # NoRow => dep[deploy].status = "building"
  BY DEF IInv, HandledRows, FailoverAssumption
<1>4. ASSUME NEW r, NEW st, st \in K \/ r # q, StatusSet(r, st) PROVE Kept(s)'
  BY <1>1, <1>2, <1>4 DEF StatusSet
<1>5. ASSUME NEW r, NEW st, dep[r].status = "building", StatusSet(r, st) PROVE Kept(s)'
  BY <1>1, <1>2, <1>5 DEF StatusSet, Live
<1>6. q \notin Unused
  BY <1>1 DEF Unused, OldStrand, Live
<1>7. ASSUME NEW f, NEW t, NEW n, NEW st, Inserted(f, t, n, st) PROVE Kept(s)'
  BY <1>1, <1>2, <1>6, <1>7 DEF Inserted
<1>8. ASSUME NEW old, NEW f, NEW n, Replaced(old, f, n) PROVE Kept(s)'
  <2>1. f \in Rows /\ f # q
    BY <1>6, <1>8 DEF Replaced, Unused
  <2>2. CASE q = old
    BY <1>1, <1>2, <1>8, <2>1, <2>2 DEF Replaced, Live
  <2>3. CASE q # old
    BY <1>1, <1>2, <1>8, <2>1, <2>3 DEF Replaced
  <2>4. QED
    BY <2>2, <2>3
<1>9. ASSUME NEW r \in Rows, NEW st, st \in Live, NEW others, Cutover(r, st, others),
             others \subseteq LiveRows(dep[r].svc)
      PROVE  Kept(s)'
  <2>1. CASE q \in others
    BY <1>1, <1>2, <1>9, <2>1 DEF Cutover, LiveRows
  <2>2. CASE q \notin others
    BY <1>1, <1>2, <1>9, <2>2 DEF Cutover
  <2>3. QED
    BY <2>1, <2>2
<1>10. CASE RemoveFinish
  BY <1>1, <1>2, <1>3, <1>10, RemoveEffect
<1>11. CASE dep' = dep
  BY <1>1, <1>2, <1>11
<1>12. ASSUME NEW n \in Nodes, NEW r \in Rows, Promote(n, r) PROVE Kept(s)'
  BY <1>3, <1>9, <1>12, CutoverEffects DEF Live
<1>13. CASE DeployFinish
  BY <1>3, <1>9, <1>13, CutoverEffects DEF Live, DeployFinish, TypeOK
<1>14. CASE DeployFails \/ \E r \in Rows : FailStaleBuild(r)
  BY <1>3, <1>5, <1>14, StatusEffects DEF DeployFails, FailStaleBuild
<1>15. ASSUME NEW c \in Callers, Strand(c) PROVE Kept(s)'
  <2>1. resch[c].row # q
    BY <1>1, <1>3, <1>15 DEF Strand, DecisionsFit
  <2>2. QED
    BY <1>3, <1>4, <1>15, <2>1, StatusEffects
<1>16. ASSUME NEW n \in Nodes, WriteDrift(n) PROVE Kept(s)'
  BY <1>1, <1>2, <1>3, <1>16, DriftEffect DEF Overwrite, Live
<1>17. QED
  BY <1>3, <1>4, <1>7, <1>8, <1>10, <1>11, <1>12, <1>13, <1>14, <1>15, <1>16, Writers,
     StatusEffects, InsertEffects, ReplaceEffects DEF Live

\* The parts of the invariant that speak of the table alone.
LEMMA NextTable ==
  ASSUME FailoverAssumption, IInv, [Next]_vars
  PROVE  RowsNamed' /\ HoldsFit' /\ PinnedStaysHome'
<1> DEFINE Table == RowsNamed' /\ HoldsFit' /\ PinnedStaysHome'
<1>1. TypeOK /\ RowsNamed /\ HoldsFit /\ PinnedStaysHome /\ HandledRows /\ DecisionsFit
  BY DEF IInv
<1>2. ASSUME NEW r \in Rows, NEW st, dep[r].status # "absent", StatusSet(r, st),
             st = "pinned_unavailable" => dep[r].svc \in Pinned,
             st = "stranded" => dep[r].svc \notin Pinned
      PROVE  Table
  BY <1>1, <1>2 DEF StatusSet, RowsNamed, HoldsFit, PinnedStaysHome
<1>3. ASSUME NEW f, NEW s \in Services, NEW n, NEW st, Inserted(f, s, n, st),
             st \in {"building", "deploying"}, s \in Pinned => n \in {Home[s], NoNode}
      PROVE  Table
  BY <1>1, <1>3 DEF Inserted, RowsNamed, HoldsFit, PinnedStaysHome
<1>4. ASSUME NEW old \in Rows, NEW f, NEW n, Replaced(old, f, n), dep[old].status # "absent",
             dep[old].svc \in Pinned => n \in {Home[dep[old].svc], NoNode}
      PROVE  Table
  BY <1>1, <1>4 DEF Replaced, RowsNamed, HoldsFit, PinnedStaysHome
<1>5. ASSUME NEW r \in Rows, NEW st, st \in Live, NEW others, Cutover(r, st, others),
             others \subseteq LiveRows(dep[r].svc), dep[r].status # "absent"
      PROVE  Table
  BY <1>1, <1>5 DEF Cutover, RowsNamed, HoldsFit, PinnedStaysHome, LiveRows, Live
<1>6. ASSUME NEW c \in Callers, NEW r \in Rows, HoldPinned(c, r) PROVE Table
  BY <1>1, <1>2, <1>6, StatusEffects DEF HoldPinned, HandledRows, CallRows
<1>7. ASSUME NEW c \in Callers, Strand(c) PROVE Table
  <2>1. resch[c].row \in Rows /\ resch[c].row # NoRow
    BY <1>1, <1>7, CallAt DEF Strand
  <2>2. dep[resch[c].row].status # "absent" /\ dep[resch[c].row].svc \notin Pinned
    BY <1>1, <2>1 DEF HandledRows, CallRows, DecisionsFit
  <2>3. QED
    BY <1>1, <1>2, <1>7, <2>1, <2>2, StatusEffects
<1>8. ASSUME NEW c \in Callers, Move(c) PROVE Table
  <2>1. resch[c].row \in Rows /\ resch[c].row # NoRow
    BY <1>1, <1>8, CallAt DEF Move
  <2>2. dep[resch[c].row].status # "absent" /\ dep[resch[c].row].svc \notin Pinned
    BY <1>1, <2>1 DEF HandledRows, CallRows, DecisionsFit
  <2>3. QED
    BY <1>1, <1>4, <1>8, <2>1, <2>2, ReplaceEffects
<1>9. ASSUME NEW n \in Nodes, NEW r \in Rows, Promote(n, r) PROVE Table
  BY <1>1, <1>5, <1>9, CutoverEffects DEF Promote, HandledRows, Live
<1>10. ASSUME NEW n \in Nodes, NEW r \in Rows, Resume(n, r) PROVE Table
  BY <1>1, <1>2, <1>10, StatusEffects DEF Resume, HandledRows
<1>11. ASSUME NEW n \in Nodes, NEW r \in Rows, Reclaim(n, r) PROVE Table
  <2>1. dep[r].status # "absent" /\ Home[dep[r].svc] = n
    BY <1>1, <1>11 DEF Reclaim, HandledRows, DecisionsFit
  <2>2. QED
    BY <1>1, <1>4, <1>11, <2>1, ReplaceEffects
<1>12. ASSUME NEW n \in Nodes, Unstrand(n) PROVE Table
  BY <1>1, <1>3, <1>12, InsertEffects, BeatAt DEF Unstrand, DecisionsFit
<1>13. CASE DeployFinish
  BY <1>1, <1>5, <1>13, CutoverEffects DEF DeployFinish, HandledRows, Live, TypeOK
<1>14. CASE DeployFails
  BY <1>1, <1>2, <1>14, StatusEffects DEF DeployFails, HandledRows, TypeOK
<1>15. ASSUME NEW s \in Services, DeployBegin(s) PROVE Table
  BY <1>1, <1>3, <1>15, InsertEffects DEF Eligible
<1>16. ASSUME NEW r \in Rows, FailStaleBuild(r) PROVE Table
  BY <1>1, <1>2, <1>16, StatusEffects DEF FailStaleBuild
<1>17. CASE RemoveFinish
  BY <1>1, <1>17, RemoveEffect DEF RowsNamed, HoldsFit, PinnedStaysHome
<1>18. CASE dep' = dep
  BY <1>1, <1>18 DEF RowsNamed, HoldsFit, PinnedStaysHome
<1>19. ASSUME NEW n \in Nodes, WriteDrift(n) PROVE Table
  BY <1>1, <1>19, DriftEffect DEF Overwrite, RowsNamed, HoldsFit, PinnedStaysHome
<1>20. QED
  BY <1>6, <1>7, <1>8, <1>9, <1>10, <1>11, <1>12, <1>13, <1>14, <1>15, <1>16, <1>17, <1>18,
     <1>19, Writers

\* The build in flight is still building.
LEMMA NextDeploy ==
  ASSUME FailoverAssumption, IInv, [Next]_vars, deploy' # NoRow
  PROVE  dep'[deploy'].status = "building"
<1>1. TypeOK /\ HandledRows
  BY DEF IInv
<1>2. CASE deploy' = deploy /\ deploy # NoRow
  <2>1. deploy \in Rows /\ dep[deploy].status = "building"
    BY <1>1, <1>2 DEF TypeOK, HandledRows
  <2>2. ASSUME NEW r, NEW st, r # deploy, StatusSet(r, st)
        PROVE  dep'[deploy].status = "building"
    BY <2>1, <2>2 DEF StatusSet
  <2>3. ASSUME NEW f, NEW s, NEW n, NEW st, Inserted(f, s, n, st), f # deploy
        PROVE  dep'[deploy].status = "building"
    BY <2>1, <2>3 DEF Inserted
  <2>4. ASSUME NEW old, NEW f, NEW n, Replaced(old, f, n), f # deploy, old # deploy
        PROVE  dep'[deploy].status = "building"
    BY <2>1, <2>4 DEF Replaced
  <2>5. ASSUME NEW c \in Callers, NEW r \in CallRows(c) PROVE r # deploy
    BY <1>1, <2>1, <2>5 DEF HandledRows
  <2>6. ASSUME NEW n \in Nodes, NEW r \in hb[n].rows PROVE r # deploy
    BY <1>1, <2>1, <2>6 DEF HandledRows
  <2>7. ASSUME NEW c \in Callers, NEW r \in Rows, HoldPinned(c, r)
        PROVE  dep'[deploy].status = "building"
    BY <1>1, <2>2, <2>5, <2>7, StatusEffects DEF HoldPinned, CallRows
  <2>8. ASSUME NEW c \in Callers, Strand(c) \/ Move(c) PROVE dep'[deploy].status = "building"
    <3>1. resch[c].row \in CallRows(c)
      BY <2>8 DEF Strand, Move, CallRows
    <3>2. resch[c].row # deploy
      BY <2>5, <3>1
    <3>3. CASE Strand(c)
      BY <1>1, <2>2, <3>2, <3>3, StatusEffects
    <3>4. CASE Move(c)
      <4>1. Unused # {}
        BY <3>4 DEF Move, Replace
      <4>2. FreshRow # deploy
        BY <4>1, FreshRowApart
      <4>3. QED
        BY <1>1, <2>4, <3>2, <3>4, <4>2, ReplaceEffects
    <3>5. QED
      BY <2>8, <3>3, <3>4
  <2>9. ASSUME NEW n \in Nodes, NEW r \in Rows, Promote(n, r)
        PROVE  dep'[deploy].status = "building"
    BY <1>1, <2>1, <2>6, <2>9, CutoverEffects DEF Promote, Cutover, LiveRows, Live
  <2>10. ASSUME NEW n \in Nodes, NEW r \in Rows, Resume(n, r)
        PROVE  dep'[deploy].status = "building"
    BY <1>1, <2>2, <2>6, <2>10, StatusEffects DEF Resume
  <2>11. ASSUME NEW n \in Nodes, NEW r \in Rows, Reclaim(n, r)
        PROVE  dep'[deploy].status = "building"
    BY <1>1, <2>4, <2>6, <2>11, ReplaceEffects, FreshRowApart DEF Reclaim, Replace
  <2>12. ASSUME NEW n \in Nodes, Unstrand(n) PROVE dep'[deploy].status = "building"
    BY <1>1, <2>3, <2>12, InsertEffects, FreshRowApart DEF Unstrand
  <2>13. ASSUME NEW r \in Rows, FailStaleBuild(r) PROVE dep'[deploy].status = "building"
    BY <1>1, <2>2, <2>13, StatusEffects DEF FailStaleBuild
  <2>14. CASE RemoveFinish
    BY <1>1, <1>2, <2>1, <2>14, RemoveEffect
  <2>15. CASE dep' = dep
    BY <1>2, <2>1, <2>15
  <2>16. ~ DeployFinish /\ ~ DeployFails /\ \A s \in Services : ~ DeployBegin(s)
    BY <1>2 DEF DeployFinish, DeployFails, DeployBegin
  <2>17. ASSUME NEW n \in Nodes, WriteDrift(n) PROVE dep'[deploy].status = "building"
    BY <1>1, <2>1, <2>17, DriftEffect DEF Overwrite
  <2>18. QED
    BY <1>2, <2>7, <2>8, <2>9, <2>10, <2>11, <2>12, <2>13, <2>14, <2>15, <2>16, <2>17,
       Writers
<1>3. CASE \E s \in Services : DeployBegin(s)
  BY <1>1, <1>3, InsertEffects DEF DeployBegin, Inserted
<1>4. QED
  <2>1. deploy' \in {deploy, NoRow} \/ \E s \in Services : DeployBegin(s)
    BY DEF Next, vars, Sweeper, Call, Request, Operator, World, SweepRead, SweepMark,
       SweepNode, SweepDone, HoldPinned, Decide, Strand, Move, MoveFails, Beat, DriftBeat,
       Heard, Promote, ReadDrift, WriteDrift, Recover, ReadHeld, Resume, ReadCandidates, Reclaim, ReadStranded, DecideStranded,
       Unstrand, ReclaimFails, BeatDone, Cordon, Uncordon, RemoveBegin, RemoveFinish,
       DeployFinish, DeployFails, FailStaleBuild, FallSilent, ComeBack, Expire, Restart
  <2>2. QED
    BY <1>2, <1>3, <2>1

\* The parts of the invariant that speak of what handlers hold.
LEMMA NextHandled ==
  ASSUME FailoverAssumption, IInv, [Next]_vars
  PROVE  HandledRows' /\ InCustody'
<1>1. TypeOK /\ TypeOK' /\ RowsNamed
  BY NextTypes DEF IInv
<1>2. ASSUME NEW c \in Callers, NEW r \in CallRows(c)'
      PROVE  /\ dep'[r].status \notin {"absent", "building"}
             /\ dep'[r].svc \in Pinned => Kept(dep[r].svc)'
  <2>1. r \in Rows
    BY <1>1, <1>2, CallSources, CallAt DEF CallRows
  <2>2. CASE r \in CallRows(c)
    <3>1. dep'[r].svc = dep[r].svc /\ dep'[r].status \notin {"absent", "building"}
      BY <2>1, <2>2, HandledStays
    <3>2. ASSUME dep[r].svc \in Pinned PROVE Kept(dep[r].svc)'
      <4>1. PICK s \in Pinned : s = dep[r].svc /\ Kept(s)
        BY <2>2, <3>2 DEF IInv, InCustody
      <4>2. Kept(s)'
        BY <4>1, KeptStays
      <4>3. QED
        BY <3>1, <4>1, <4>2 DEF Kept, Has
    <3>3. QED
      BY <3>1, <3>2
  <2>3. CASE dep' = dep /\ dep[r].status \in Live
    BY <2>1, <2>3 DEF Kept, Has, Live
  <2>4. QED
    BY <1>1, <2>2, <2>3, CallSources
<1>3. ASSUME NEW n \in Nodes, NEW r \in hb'[n].rows
      PROVE  dep'[r].status \notin {"absent", "building"}
  <2>1. CASE r \in hb[n].rows
    BY <1>1, <2>1, HandledStays, BeatAt
  <2>2. CASE dep' = dep /\ dep[r].status \in Live \cup {"pinned_unavailable"}
    BY <2>2 DEF Live
  <2>3. QED
    BY <1>1, <1>3, <2>1, <2>2, BeatSources
<1>4. QED
  <2>1. deploy' # NoRow => dep'[deploy'].status = "building"
    BY NextDeploy
  <2>2. HandledRows'
    BY <1>2, <1>3, <2>1 DEF HandledRows
  <2>3. InCustody'
    BY <1>2 DEF InCustody
  <2>4. QED
    BY <2>2, <2>3

\* Where a call's decision comes from.
LEMMA DecisionSources ==
  ASSUME TypeOK, [Next]_vars, NEW c \in Callers
  PROVE  \/ resch'[c].row \in {resch[c].row, NoRow}
         \/ \E r \in Rows : Decide(c, r) /\ resch'[c].row = r
<1> DEFINE Source == \/ resch'[c].row \in {resch[c].row, NoRow}
                     \/ \E r \in Rows : Decide(c, r) /\ resch'[c].row = r
<1>1. ASSUME NEW d \in Callers, NEW r \in Rows, Decide(d, r) PROVE Source
  <2>1. CASE c = d
    <3>1. PICK t : resch' = [resch EXCEPT ![d].rows = @ \ {r}, ![d].row = r, ![d].target = t]
      BY <1>1 DEF Decide
    <3>2. resch'[c].row = r
      BY <2>1, <3>1, CallAt DEF TypeOK, CallState
    <3>3. QED
      BY <1>1, <2>1, <3>2
  <2>2. CASE c # d
    BY <1>1, <2>2 DEF Decide, TypeOK
  <2>3. QED
    BY <2>1, <2>2
<1>2. ASSUME NEW d \in Callers, NEW r \in Rows, HoldPinned(d, r) PROVE Source
  BY <1>2 DEF HoldPinned, TypeOK, CallState
<1>3. ASSUME NEW d \in Callers, Strand(d) \/ Move(d) \/ MoveFails(d) PROVE Source
  BY <1>3 DEF Strand, Move, MoveFails, NoCall, TypeOK, CallState
<1>4. ASSUME NEW n \in Nodes, SweepNode(n) \/ RemoveBegin(n) PROVE Source
  <2>1. PICK d \in Callers, rs \in SUBSET Rows :
          resch' = [resch EXCEPT ![d] = [NoCall EXCEPT !.node = n, !.rows = rs]]
    BY <1>4 DEF SweepNode, RemoveBegin, Callers, LiveOn
  <2>2. QED
    BY <2>1 DEF NoCall, TypeOK
<1>5. CASE SweepDone \/ RemoveFinish \/ Restart
  BY <1>5 DEF SweepDone, RemoveFinish, Restart, NoCall, TypeOK, CallState
<1>6. CASE UNCHANGED resch
  BY <1>6
<1>7. QED
  BY <1>1, <1>2, <1>3, <1>4, <1>5, <1>6
  DEF Next, vars, Sweeper, Call, Request, Operator, World, SweepRead, SweepMark,
     Beat, DriftBeat, Heard, Promote, ReadDrift, WriteDrift, Recover, ReadHeld, Resume,
     ReadCandidates, Reclaim, ReadStranded, DecideStranded, Unstrand, ReclaimFails, BeatDone, Cordon, Uncordon, DeployBegin,
     DeployFinish, DeployFails, FailStaleBuild, FallSilent, ComeBack, Expire

\* Where a late placement comes from.
LEMMA LateSources ==
  ASSUME TypeOK, [Next]_vars, NEW n \in Nodes
  PROVE  \/ hb'[n].svc = NoService
         \/ hb'[n].svc = hb[n].svc /\ hb'[n].target = hb[n].target
         \/ hb'[n].svc \in Services /\ hb'[n].target \in Placed(hb'[n].svc, NoNode)
<1> DEFINE Source == \/ hb'[n].svc = NoService
                     \/ hb'[n].svc = hb[n].svc /\ hb'[n].target = hb[n].target
                     \/ hb'[n].svc \in Services /\ hb'[n].target \in Placed(hb'[n].svc, NoNode)
<1>1. ASSUME NEW m \in Nodes, NEW s \in Services, DecideStranded(m, s) PROVE Source
  <2>1. PICK t \in Placed(s, NoNode) :
          hb' = [hb EXCEPT ![m].svcs = @ \ {s}, ![m].target = t,
                           ![m].svc = IF t = NoNode THEN NoService ELSE s]
    BY <1>1 DEF DecideStranded
  <2>2. CASE m = n
    <3>1. hb'[n].target = t /\ hb'[n].svc = IF t = NoNode THEN NoService ELSE s
      BY <2>1, <2>2, BeatAt DEF TypeOK, BeatState
    <3>2. QED
      BY <2>1, <3>1
  <2>3. CASE m # n
    BY <2>1, <2>3 DEF TypeOK
  <2>4. QED
    BY <2>2, <2>3
<1>2. ASSUME NEW m \in Nodes, NEW r \in Rows, Promote(m, r) \/ Resume(m, r) \/ Reclaim(m, r)
      PROVE  Source
  BY <1>2, BeatAt DEF Promote, Resume, Reclaim, TypeOK, BeatState
<1>3. ASSUME NEW m \in Nodes, hb'[m].svc = NoService \/
                              (hb'[m].svc = hb[m].svc /\ hb'[m].target = hb[m].target),
             \A k \in Nodes \ {m} : hb'[k] = hb[k]
      PROVE  Source
  BY <1>3
<1>4. ASSUME NEW m \in Nodes, Beat(m) \/ DriftBeat(m) PROVE Source
  <2>1. PICK b : hb' = [hb EXCEPT ![m] = b] /\ b.svc = NoService
    BY <1>4, BeatHeard
  <2>2. QED
    BY <1>3, <2>1 DEF TypeOK
<1>5. ASSUME NEW m \in Nodes, ReadDrift(m) \/ WriteDrift(m) \/ Recover(m) \/ ReadHeld(m)
      PROVE  Source
  <2>1. CASE Recover(m)
    BY <1>3, <2>1, BeatAt DEF Recover, NoBeat, TypeOK, BeatState
  <2>2. CASE ReadHeld(m)
    BY <1>3, <2>2, BeatAt DEF ReadHeld, NoBeat, TypeOK, BeatState
  <2>3. CASE ReadDrift(m) \/ WriteDrift(m)
    BY <1>3, <2>3, BeatAt DEF ReadDrift, WriteDrift, TypeOK, BeatState
  <2>4. QED
    BY <1>5, <2>1, <2>2, <2>3
<1>6. ASSUME NEW m \in Nodes, ReadCandidates(m) \/ ReadStranded(m) \/ Unstrand(m) PROVE Source
  BY <1>3, <1>6, BeatAt DEF ReadCandidates, ReadStranded, Unstrand, TypeOK, BeatState
<1>7. ASSUME NEW m \in Nodes, ReclaimFails(m) \/ BeatDone(m) PROVE Source
  BY <1>3, <1>7 DEF ReclaimFails, BeatDone, NoBeat, TypeOK
<1>8. CASE Restart
  BY <1>8 DEF Restart, NoBeat
<1>9. CASE UNCHANGED hb
  BY <1>9
<1>10. QED
  BY <1>1, <1>2, <1>4, <1>5, <1>6, <1>7, <1>8, <1>9
  DEF Next, vars, Sweeper, Call, Request, Operator, World, SweepRead, SweepMark, SweepNode,
     SweepDone, HoldPinned, Decide, Strand, Move, MoveFails, Cordon, Uncordon, RemoveBegin,
     RemoveFinish, DeployBegin, DeployFinish, DeployFails, FailStaleBuild, FallSilent,
     ComeBack, Expire

\* What handlers have decided keeps to the pin.
LEMMA NextDecisions ==
  ASSUME FailoverAssumption, IInv, [Next]_vars
  PROVE  DecisionsFit'
<1>1. TypeOK /\ TypeOK' /\ DecisionsFit
  BY NextTypes DEF IInv
<1>2. ASSUME NEW c \in Callers, resch'[c].row # NoRow
      PROVE  dep'[resch'[c].row].svc \notin Pinned
  <2>1. CASE resch'[c].row = resch[c].row
    <3>1. resch[c].row \in Rows /\ resch[c].row \in CallRows(c)
      BY <1>1, <1>2, <2>1, CallAt DEF CallRows
    <3>2. dep'[resch[c].row].svc = dep[resch[c].row].svc
      BY <3>1, HandledStays
    <3>3. QED
      BY <1>1, <1>2, <2>1, <3>2 DEF DecisionsFit
  <2>2. ASSUME NEW r \in Rows, Decide(c, r), resch'[c].row = r
        PROVE  dep'[resch'[c].row].svc \notin Pinned
    BY <2>2 DEF Decide, db
  <2>3. QED
    BY <1>1, <1>2, <2>1, <2>2, DecisionSources
<1>3. ASSUME NEW n \in Nodes, hb'[n].pc = "eager", NEW r \in hb'[n].rows
      PROVE  dep'[r].svc \in Services /\ Home[dep'[r].svc] = n
  <2>1. CASE r \in hb[n].rows /\ hb[n].pc = "eager"
    <3>1. dep'[r].svc = dep[r].svc
      BY <1>1, <2>1, HandledStays, BeatAt
    <3>2. QED
      BY <1>1, <2>1, <3>1 DEF DecisionsFit
  <2>2. CASE dep' = dep /\ dep[r].svc \in Eager /\ Home[dep[r].svc] = n
    BY <2>2 DEF FailoverAssumption
  <2>3. QED
    BY <1>1, <1>3, <2>1, <2>2, BeatSources
<1>4. ASSUME NEW n \in Nodes, hb'[n].svc \in Pinned
      PROVE  hb'[n].target \in {Home[hb'[n].svc], NoNode}
  <2>1. NoService \notin Pinned
    BY DEF FailoverAssumption
  <2>2. CASE hb'[n].svc = hb[n].svc /\ hb'[n].target = hb[n].target
    BY <1>1, <1>4, <2>2 DEF DecisionsFit
  <2>3. CASE hb'[n].target \in Placed(hb'[n].svc, NoNode)
    BY <1>4, <2>3 DEF Placed, Eligible
  <2>4. QED
    BY <1>1, <1>4, <2>1, <2>2, <2>3, LateSources
<1>5. QED
  BY <1>2, <1>3, <1>4 DEF DecisionsFit

\* The inductive invariant holds throughout.
THEOREM Invariance == Spec => []IInv
<1>1. FailoverAssumption /\ Init => IInv
  BY InitTypes, InitOneRunning, InitFits DEF IInv
<1>2. FailoverAssumption /\ IInv /\ [Next]_vars => IInv'
  <2> SUFFICES ASSUME FailoverAssumption, IInv, [Next]_vars PROVE IInv'
    OBVIOUS
  <2>1. TypeOK' /\ AtMostOneRunning'
    BY NextTypes, NextOneRunning DEF IInv
  <2>2. QED
    BY <2>1, NextTable, NextHandled, NextDecisions DEF IInv
<1>3. QED
  BY <1>1, <1>2, FailoverAssumption, PTL DEF Spec

\* A pinned service never gets a row on another node: not by failover, not by
\* reclaim, not by a late placement or a deploy.
THEOREM PinnedStays == Spec => []PinnedStaysHome
<1>1. IInv => PinnedStaysHome
  BY DEF IInv
<1>2. QED
  BY <1>1, Invariance, PTL

-----------------------------------------------------------------------------
(***************************************************************************)
(* Failover implements Custody                                             *)
(***************************************************************************)

\* The statuses custody is read from.
Answering == {"deploying", "running", "pinned_unavailable", "stranded"}

\* Custody depends on the answering rows of the service alone.
LEMMA CustodyReads ==
  ASSUME NEW s \in Services,
         \A st \in Answering : Has(s, {st})' <=> Has(s, {st})
  PROVE  CustodyOf'[s] = CustodyOf[s]
<1>1. Has(s, {"pinned_unavailable"})' <=> Has(s, {"pinned_unavailable"})
  BY DEF Answering
<1>2. Has(s, {"stranded"})' <=> Has(s, {"stranded"})
  BY DEF Answering
<1>3. Has(s, Live)' <=> Has(s, Live)
  <2>1. Has(s, Live) <=> Has(s, {"deploying"}) \/ Has(s, {"running"})
    BY DEF Has, Live
  <2>2. Has(s, Live)' <=> Has(s, {"deploying"})' \/ Has(s, {"running"})'
    BY DEF Has, Live
  <2>3. Has(s, {"deploying"})' <=> Has(s, {"deploying"})
    BY DEF Answering
  <2>4. Has(s, {"running"})' <=> Has(s, {"running"})
    BY DEF Answering
  <2>5. QED
    BY <2>1, <2>2, <2>3, <2>4
<1>4. QED
  BY <1>1, <1>2, <1>3 DEF CustodyOf

\* A write that neither makes nor unmakes an answering row of s, except that an
\* insert reuses an identity, leaves the custody of s as it was: an old strand is
\* reused only while a newer one stands.
LEMMA CustodyUntouched ==
  ASSUME NEW s \in Services, NEW f,
         f \in Rows => f \in Unused /\ (dep'[f].svc # s \/ dep'[f].status \notin Answering),
         \A q \in Rows \ {f} :
            /\ dep'[q].svc = dep[q].svc
            /\ \/ dep[q].svc # s
               \/ dep'[q].status = dep[q].status
               \/ dep[q].status \notin Answering /\ dep'[q].status \notin Answering
  PROVE  CustodyOf'[s] = CustodyOf[s]
<1>1. ASSUME NEW st \in Answering, NEW x \in Rows, dep'[x].svc = s, dep'[x].status = st
      PROVE  Has(s, {st})
  BY <1>1 DEF Has
<1>2. ASSUME NEW st \in Answering, NEW x \in Rows \ {f}, dep[x].svc = s, dep[x].status = st
      PROVE  Has(s, {st})'
  BY <1>2 DEF Has
<1>3. ASSUME NEW st \in Answering, f \in Rows, dep[f].svc = s, dep[f].status = st
      PROVE  \E x \in Rows \ {f} : dep[x].svc = s /\ dep[x].status = st
  BY <1>3 DEF Unused, OldStrand, Answering
<1>4. ASSUME NEW st \in Answering PROVE Has(s, {st})' <=> Has(s, {st})
  <2>1. ASSUME Has(s, {st})' PROVE Has(s, {st})
    BY <1>1, <2>1 DEF Has
  <2>2. ASSUME Has(s, {st}) PROVE Has(s, {st})'
    <3>1. PICK x \in Rows : dep[x].svc = s /\ dep[x].status = st
      BY <2>2 DEF Has
    <3>2. QED
      BY <1>2, <1>3, <3>1
  <2>3. QED
    BY <2>1, <2>2
<1>5. QED
  BY <1>4, CustodyReads

\* What Custody reads of Failover.
View == <<CustodyOf, DriftServices>>

\* One service changes custody in one of the ways Custody allows.
LEMMA CustodyMoves ==
  ASSUME NEW t \in Services, DriftServices' = DriftServices,
         \A s \in Services \ {t} : CustodyOf'[s] = CustodyOf[s],
         \/ CustodyOf'[t] \in {"live", CustodyOf[t]}
         \/ t \in Pinned /\ CustodyOf[t] = "live" /\ CustodyOf'[t] = "held"
         \/ /\ t \notin Pinned /\ CustodyOf[t] \in {"live", "absent"}
            /\ CustodyOf'[t] = "stranded"
  PROVE  [Promise!Next]_View
<1>1. CustodyOf' = [CustodyOf EXCEPT ![t] = CustodyOf'[t]]
  BY DEF CustodyOf
<1>2. CASE CustodyOf'[t] = CustodyOf[t]
  BY <1>1, <1>2 DEF CustodyOf, View
<1>3. CASE CustodyOf'[t] = "live"
  BY <1>1, <1>3 DEF Promise!Next, Promise!Revive
<1>4. CASE t \in Pinned /\ CustodyOf[t] = "live" /\ CustodyOf'[t] = "held"
  BY <1>1, <1>4 DEF Promise!Next, Promise!Hold
<1>5. CASE /\ t \notin Pinned /\ CustodyOf[t] \in {"live", "absent"}
           /\ CustodyOf'[t] = "stranded"
  BY <1>1, <1>5 DEF Promise!Next, Promise!Strand
<1>6. QED
  BY <1>2, <1>3, <1>4, <1>5

\* A service with a live row is live, one with none is not.
LEMMA CustodyLive ==
  ASSUME NEW s \in Services
  PROVE  /\ CustodyOf[s] = "live" <=> Has(s, Live)
         /\ CustodyOf'[s] = "live" <=> Has(s, Live)'
  BY DEF CustodyOf

\* The custody of a service, by the policy it has.
LEMMA CustodyFits ==
  ASSUME HoldsFit, NEW s \in Services
  PROVE  /\ s \in Pinned /\ Kept(s) => CustodyOf[s] \in {"live", "held"}
         /\ s \notin Pinned => CustodyOf[s] \in {"live", "stranded", "absent"}
<1>1. Kept(s) => Has(s, Live) \/ Has(s, {"pinned_unavailable"})
  BY DEF Kept, Has, Live
<1>2. s \notin Pinned => ~Has(s, {"pinned_unavailable"})
  BY DEF HoldsFit, Has
<1>3. QED
  BY <1>1, <1>2 DEF CustodyOf

\* Taking a live row away moves its service to the path its policy names, or to
\* none when another live row is left.
LEMMA CustodyParts ==
  ASSUME HoldsFit, HoldsFit', NEW r \in Rows, NEW st \in {"pinned_unavailable", "stranded"},
         StatusSet(r, st), dep[r].svc \in Services, dep[r].svc \in Pinned => Kept(dep[r].svc),
         DriftServices' = DriftServices
  PROVE  [Promise!Next]_View
<1>1. PICK t \in Services : t = dep[r].svc
  OBVIOUS
<1>2. \A s \in Services \ {t} : CustodyOf'[s] = CustodyOf[s]
  BY <1>1, FailoverAssumption, CustodyUntouched DEF StatusSet, FailoverAssumption
<1>3. Has(t, {st})'
  BY <1>1 DEF StatusSet, Has
<1>4. Has(t, Live)' => Has(t, Live)
  BY DEF StatusSet, Has, Live
<1>5. /\ t \in Pinned => CustodyOf[t] \in {"live", "held"}
      /\ t \notin Pinned => CustodyOf[t] \in {"live", "stranded", "absent"}
  BY <1>1, CustodyFits
<1>6. /\ t \in Pinned => CustodyOf'[t] \in {"live", "held"}
      /\ t \notin Pinned => CustodyOf'[t] \in {"live", "stranded"}
  <2>1. t \in Pinned => ~Has(t, {"stranded"})'
    BY DEF HoldsFit, Has
  <2>2. t \notin Pinned => ~Has(t, {"pinned_unavailable"})'
    BY DEF HoldsFit, Has
  <2>3. QED
    BY <1>3, <2>1, <2>2 DEF CustodyOf
<1>7. CustodyOf'[t] = "live" => CustodyOf[t] = "live"
  BY <1>4, CustodyLive
<1>8. QED
  BY <1>2, <1>5, <1>6, <1>7, CustodyMoves

\* A write that makes some row of a service live and touches no other service
\* revives it.
LEMMA CustodyRevives ==
  ASSUME NEW t \in Services, NEW f,
         f \in Rows => f \in Unused /\ dep'[f].svc = t,
         \A q \in Rows \ {f} :
            dep'[q].svc = dep[q].svc /\ (dep[q].svc = t \/ dep'[q].status = dep[q].status),
         \E x \in Rows : dep'[x].svc = t /\ dep'[x].status \in Live,
         DriftServices' = DriftServices
  PROVE  [Promise!Next]_View
<1>1. \A s \in Services \ {t} : CustodyOf'[s] = CustodyOf[s]
  BY CustodyUntouched
<1>2. Has(t, Live)'
  BY DEF Has
<1>3. QED
  BY <1>1, <1>2, CustodyLive, CustodyMoves

\* Failover's initial states are Custody's.
LEMMA InitCustody == FailoverAssumption /\ Init => Promise!Init
<1> SUFFICES ASSUME FailoverAssumption, Init PROVE Promise!Init
  OBVIOUS
<1>1. PICK host \in [Services -> Nodes \cup {NoNode}] :
        dep = [r \in Rows |->
                  IF \E s \in Services : FirstRow[s] = r /\ host[s] # NoNode
                  THEN LET s == CHOOSE s \in Services : FirstRow[s] = r /\ host[s] # NoNode
                       IN  NewRow(s, host[s], "running")
                  ELSE NewRow(NoService, NoNode, "absent")]
  BY DEF Init
<1>2. \A r \in Rows : dep[r].status \in {"running", "absent"}
  BY <1>1 DEF NewRow
<1>3. \A s \in Services : ~Has(s, {"pinned_unavailable"}) /\ ~Has(s, {"stranded"})
  BY <1>2 DEF Has
<1>4. DriftServices = {}
  BY DEF Init, NoBeat, DriftServices, DriftRows
<1>5. QED
  BY <1>3, <1>4 DEF Promise!Init, CustodyOf

\* Reports begin when drift is read, and end when it is written or with a restart.
LEMMA DriftStays ==
  ASSUME IInv, [Next]_vars, ~Restart, \A n \in Nodes : ~ReadDrift(n) /\ ~WriteDrift(n)
  PROVE  DriftServices' = DriftServices
<1> DEFINE Of(n) == IF hb[n].pc = "drift" THEN hb[n].rows ELSE {}
           Same == \A n \in Nodes : Of(n)' = Of(n)
<1>1. TypeOK
  BY DEF IInv
<1>2. ASSUME NEW m \in Nodes, \A k \in Nodes \ {m} : hb'[k] = hb[k],
             hb[m].pc # "drift" \/ hb[m].rows = {}, hb'[m].pc # "drift"
      PROVE  Same
  BY <1>2
<1>3. ASSUME NEW m \in Nodes, NEW b, hb' = [hb EXCEPT ![m] = b], b.pc # "drift",
             hb[m].pc # "drift" \/ hb[m].rows = {}
      PROVE  Same
  BY <1>1, <1>2, <1>3 DEF TypeOK
<1>4. ASSUME NEW m \in Nodes,
             Beat(m) \/ DriftBeat(m) \/ Recover(m) \/ ReadHeld(m) \/ ReclaimFails(m) \/ BeatDone(m)
      PROVE  Same
  <2>1. CASE Beat(m) \/ DriftBeat(m)
    <3>1. hb[m].pc = "idle"
      BY <2>1, BeatHeard
    <3>2. PICK b : hb' = [hb EXCEPT ![m] = b] /\ b.pc = "promote"
      BY <2>1, BeatHeard
    <3>3. QED
      BY <1>3, <3>1, <3>2
  <2>2. CASE Recover(m)
    BY <1>1, <1>2, <2>2, BeatAt DEF Recover, NoBeat, TypeOK, BeatState
  <2>3. CASE ReadHeld(m)
    BY <1>1, <1>2, <2>3, BeatAt DEF ReadHeld, NoBeat, TypeOK, BeatState
  <2>4. CASE BeatDone(m)
    BY <1>3, <2>4 DEF BeatDone, NoBeat
  <2>5. CASE ReclaimFails(m)
    <3>1. hb' = [hb EXCEPT ![m] = NoBeat] /\ hb[m].pc \in {"eager", "place"}
      BY <2>5 DEF ReclaimFails
    <3>2. QED
      BY <1>3, <3>1 DEF NoBeat
  <2>6. QED
    BY <1>4, <2>1, <2>2, <2>3, <2>4, <2>5
<1>5. ASSUME NEW m \in Nodes, ReadCandidates(m) \/ ReadStranded(m) PROVE Same
  BY <1>1, <1>2, <1>5, BeatAt DEF ReadCandidates, ReadStranded, TypeOK, BeatState
<1>6. ASSUME NEW m \in Nodes, NEW r \in Rows, Promote(m, r) \/ Resume(m, r) \/ Reclaim(m, r)
      PROVE  Same
  BY <1>1, <1>2, <1>6, BeatAt DEF Promote, Resume, Reclaim, TypeOK, BeatState
<1>7. ASSUME NEW m \in Nodes, Unstrand(m) PROVE Same
  BY <1>1, <1>2, <1>7, BeatAt DEF Unstrand, TypeOK, BeatState
<1>8. ASSUME NEW m \in Nodes, NEW s \in Services, DecideStranded(m, s) PROVE Same
  BY <1>1, <1>2, <1>8, BeatAt DEF DecideStranded, TypeOK, BeatState
<1>9. ASSUME hb' = hb PROVE Same
  <2>1. ASSUME NEW m \in Nodes PROVE Of(m)' = Of(m)
    <3>1. hb'[m] = hb[m]
      BY <1>9
    <3>2. QED
      BY <3>1
  <2>2. QED
    BY <2>1
<1>10. Same
  BY <1>4, <1>5, <1>6, <1>7, <1>8, <1>9
  DEF Next, vars, Sweeper, Call, Request, Operator, World, SweepRead, SweepMark, SweepNode,
     SweepDone, HoldPinned, Decide, Strand, Move, MoveFails, Cordon, Uncordon, RemoveBegin,
     RemoveFinish, DeployBegin, DeployFinish, DeployFails, FailStaleBuild, FallSilent,
     ComeBack, Expire
<1>11. DriftRows' = DriftRows
  BY <1>10 DEF DriftRows
<1>12. \A r \in DriftRows : dep'[r].svc = dep[r].svc
  BY <1>1, HandledStays, BeatAt DEF DriftRows
<1>13. QED
  BY <1>11, <1>12 DEF DriftServices

\* A report under way: custody is as it was, and only live services are named anew.
LEMMA DriftReported ==
  ASSUME FailoverAssumption, IInv, Restart \/ \E n \in Nodes : ReadDrift(n)
  PROVE  [Promise!Next]_View
<1>1. TypeOK /\ RowsNamed /\ dep' = dep
  BY DEF IInv, Restart, ReadDrift, db
<1>2. CustodyOf' = CustodyOf
  BY <1>1 DEF CustodyOf, Has
<1>3. CASE Restart
  <2>1. DriftServices' = {}
    BY <1>3 DEF Restart, NoBeat, DriftServices, DriftRows
  <2>2. QED
    BY <1>2, <2>1 DEF Promise!Next, Promise!Report
<1>4. ASSUME NEW n \in Nodes, ReadDrift(n) PROVE [Promise!Next]_View
  <2>1. hb'[n].rows \subseteq {q \in Rows : dep[q].status = "running"}
    <3> DEFINE rs == {q \in Rows : /\ dep[q].node = n /\ dep[q].status = "running"
                                  /\ dep[q].svc \in hb[n].svcs}
    <3>1. hb' = [hb EXCEPT ![n].pc = "drift", ![n].svcs = {}, ![n].rows = rs]
      BY <1>4 DEF ReadDrift
    <3>2. hb'[n].rows = rs
      BY <1>1, <3>1, BeatAt DEF TypeOK, BeatState
    <3>3. QED
      BY <3>2
  <2>2. \A m \in Nodes \ {n} : hb'[m] = hb[m]
    BY <1>1, <1>4 DEF ReadDrift, TypeOK
  <2>3. ASSUME NEW r \in DriftRows'
        PROVE  r \in DriftRows \/ (r \in Rows /\ dep[r].status = "running")
    BY <2>1, <2>2 DEF DriftRows
  <2>4. ASSUME NEW r \in Rows, dep[r].status = "running"
        PROVE  dep[r].svc \in {s \in Services : CustodyOf[s] = "live"}
    BY <1>1, <2>4 DEF RowsNamed, CustodyOf, Has, Live
  <2>5. DriftServices' \subseteq DriftServices \cup {s \in Services : CustodyOf[s] = "live"}
    BY <1>1, <2>3, <2>4 DEF DriftServices
  <2>6. QED
    BY <1>2, <2>5 DEF Promise!Next, Promise!Report
<1>5. QED
  BY <1>3, <1>4

\* A report written: the strands it was begun before are the only loss.
LEMMA DriftWritten ==
  ASSUME IInv, NEW n \in Nodes, WriteDrift(n)
  PROVE  [Promise!Next]_View
<1>1. TypeOK /\ Overwrite(hb[n].rows) /\ hb[n].rows \subseteq DriftRows
  BY DriftEffect DEF IInv, WriteDrift, DriftRows
<1>2. DriftServices' \subseteq DriftServices
  <2>1. DriftRows' \subseteq DriftRows
    BY <1>1, BeatAt DEF WriteDrift, DriftRows, TypeOK, BeatState
  <2>2. \A r \in DriftRows : dep'[r].svc = dep[r].svc
    BY <1>1, BeatAt DEF Overwrite, DriftRows
  <2>3. QED
    BY <2>1, <2>2 DEF DriftServices
<1>3. ASSUME NEW s \in Services
      PROVE  \/ CustodyOf'[s] = CustodyOf[s]
             \/ /\ s \in DriftServices /\ CustodyOf[s] = "stranded"
                /\ CustodyOf'[s] = "absent"
  <2>1. /\ Has(s, Live)' <=> Has(s, Live)
        /\ Has(s, {"pinned_unavailable"})' <=> Has(s, {"pinned_unavailable"})
    BY <1>1 DEF Overwrite, Has, Live
  <2>2. Has(s, {"stranded"})' => Has(s, {"stranded"})
    BY <1>1 DEF Overwrite, Has
  <2>3. CASE s \in DriftServices \/ ~Has(s, {"stranded"})
    BY <2>1, <2>2, <2>3 DEF CustodyOf
  <2>4. CASE s \notin DriftServices /\ Has(s, {"stranded"})
    <3>1. PICK q \in Rows : dep[q].svc = s /\ dep[q].status = "stranded"
      BY <2>4 DEF Has
    <3>2. q \notin hb[n].rows
      BY <1>1, <2>4, <3>1 DEF DriftServices
    <3>3. Has(s, {"stranded"})'
      BY <1>1, <3>1, <3>2 DEF Overwrite, Has
    <3>4. QED
      BY <2>1, <2>4, <3>3 DEF CustodyOf
  <2>5. QED
    BY <2>3, <2>4
<1> DEFINE lost == {s \in Services : CustodyOf'[s] # CustodyOf[s]}
<1>4. lost \subseteq {s \in DriftServices : CustodyOf[s] = "stranded"}
  BY <1>3
<1>5. CustodyOf' = [s \in Services |-> IF s \in lost THEN "absent" ELSE CustodyOf[s]]
  <2>1. CustodyOf' = [s \in Services |-> CustodyOf'[s]]
    BY DEF CustodyOf
  <2>2. QED
    BY <1>3, <2>1
<1>6. lost \in SUBSET Services
  OBVIOUS
<1>7. QED
  <2> HIDE DEF lost
  <2>1. Promise!Lose(lost)
    BY <1>2, <1>4, <1>5 DEF Promise!Lose
  <2>2. QED
    BY <1>6, <2>1 DEF Promise!Next

\* Every other step is one of Custody or leaves what Custody reads as it was.
LEMMA NextQuiet ==
  ASSUME FailoverAssumption, IInv, IInv', [Next]_vars,
         ~Restart, \A n \in Nodes : ~ReadDrift(n) /\ ~WriteDrift(n)
  PROVE  [Promise!Next]_View
<1> DEFINE Goal == [Promise!Next]_View
<1>1. /\ TypeOK /\ RowsNamed /\ HoldsFit /\ HoldsFit' /\ HandledRows /\ InCustody
      /\ DecisionsFit /\ NoRow \notin Rows /\ NoService \notin Services
      /\ DriftServices' = DriftServices
  BY DriftStays DEF IInv, FailoverAssumption
<1>2. ASSUME \A s \in Services : CustodyOf'[s] = CustodyOf[s] PROVE Goal
  BY <1>1, <1>2 DEF CustodyOf, View
<1>3. ASSUME NEW r \in Rows, dep[r].status = "building", StatusSet(r, "failed") PROVE Goal
  BY <1>1, <1>2, <1>3, CustodyUntouched DEF StatusSet, Answering
<1>4. ASSUME NEW old \in Rows, NEW n, Unused # {}, dep[old].svc \in Services,
             Replaced(old, FreshRow, n)
      PROVE  Goal
  BY <1>1, <1>4, FreshRowUnused, CustodyRevives DEF Replaced, Live
<1>5. ASSUME NEW r \in Rows, NEW st \in Live, NEW others, dep[r].svc \in Services,
             others \subseteq LiveRows(dep[r].svc), Cutover(r, st, others)
      PROVE  Goal
  <2>1. \A q \in Rows : /\ dep'[q].svc = dep[q].svc
                        /\ dep[q].svc = dep[r].svc \/ dep'[q].status = dep[q].status
    BY <1>5 DEF Cutover, LiveRows
  <2>2. dep'[r].svc = dep[r].svc /\ dep'[r].status \in Live
    BY <1>5 DEF Cutover
  <2>3. QED
    BY <1>1, <1>5, <2>1, <2>2, CustodyRevives
<1>6. ASSUME NEW c \in Callers, NEW r \in Rows, HoldPinned(c, r) PROVE Goal
  <2>1. r \in CallRows(c)
    BY <1>6 DEF HoldPinned, CallRows
  <2>2. dep[r].svc \in Services /\ (dep[r].svc \in Pinned => Kept(dep[r].svc))
    BY <1>1, <2>1 DEF HandledRows, RowsNamed, InCustody
  <2>3. QED
    BY <1>1, <1>6, <2>2, StatusEffects, CustodyParts
<1>7. ASSUME NEW c \in Callers, Strand(c) \/ Move(c) PROVE Goal
  <2>1. resch[c].row \in Rows /\ resch[c].row \in CallRows(c)
    BY <1>1, <1>7, CallAt DEF Strand, Move, CallRows
  <2>2. /\ dep[resch[c].row].svc \in Services
        /\ dep[resch[c].row].svc \in Pinned => Kept(dep[resch[c].row].svc)
    BY <1>1, <2>1 DEF HandledRows, RowsNamed, InCustody
  <2>3. CASE Strand(c)
    BY <1>1, <2>1, <2>2, <2>3, StatusEffects, CustodyParts
  <2>4. CASE Move(c)
    BY <1>1, <1>4, <2>1, <2>2, <2>4, ReplaceEffects DEF Move, Replace
  <2>5. QED
    BY <1>7, <2>3, <2>4
<1>8. ASSUME NEW n \in Nodes, NEW r \in hb[n].rows PROVE r \in Rows /\ dep[r].svc \in Services
  BY <1>1, <1>8, BeatAt DEF HandledRows, RowsNamed
<1>9. ASSUME NEW n \in Nodes, NEW r \in Rows, Promote(n, r) PROVE Goal
  BY <1>1, <1>5, <1>8, <1>9, CutoverEffects DEF Promote, Live
<1>10. ASSUME NEW n \in Nodes, NEW r \in Rows, Resume(n, r) PROVE Goal
  <2>1. Cutover(r, "deploying", {})
    BY <1>1, <1>10, StatusEffects DEF StatusSet, Cutover
  <2>2. QED
    BY <1>5, <1>8, <1>10, <2>1 DEF Resume, Live
<1>11. ASSUME NEW n \in Nodes, NEW r \in Rows, Reclaim(n, r) PROVE Goal
  BY <1>1, <1>4, <1>8, <1>11, ReplaceEffects DEF Reclaim, Replace
<1>12. ASSUME NEW n \in Nodes, Unstrand(n) PROVE Goal
  <2>1. hb[n].svc \in Services /\ Unused # {}
    BY <1>1, <1>12, BeatAt DEF Unstrand
  <2>2. Inserted(FreshRow, hb[n].svc, hb[n].target, "deploying")
    BY <1>1, <1>12, InsertEffects
  <2>3. QED
    BY <1>1, <2>1, <2>2, FreshRowUnused, CustodyRevives DEF Inserted, Live
<1>13. CASE DeployFinish
  BY <1>1, <1>5, <1>13, CutoverEffects DEF DeployFinish, HandledRows, RowsNamed, TypeOK, Live
<1>14. CASE DeployFails
  BY <1>1, <1>3, <1>14, StatusEffects DEF DeployFails, HandledRows, TypeOK
<1>15. ASSUME NEW s \in Services, DeployBegin(s) PROVE Goal
  <2>1. PICK n : Inserted(FreshRow, s, n, "building")
    BY <1>1, <1>15, InsertEffects
  <2>2. QED
    BY <1>2, <2>1, CustodyUntouched DEF Inserted, Answering
<1>16. ASSUME NEW r \in Rows, FailStaleBuild(r) PROVE Goal
  BY <1>1, <1>3, <1>16, StatusEffects DEF FailStaleBuild
<1>17. CASE RemoveFinish
  BY <1>1, <1>2, <1>17, RemoveEffect, CustodyUntouched
<1>18. CASE dep' = dep
  BY <1>2, <1>18 DEF CustodyOf, Has
<1>19. QED
  BY <1>6, <1>7, <1>9, <1>10, <1>11, <1>12, <1>13, <1>14, <1>15, <1>16, <1>17, <1>18, Writers

\* Every step of Failover does to a service what Custody allows.
LEMMA NextCustody ==
  ASSUME FailoverAssumption, IInv, IInv', [Next]_vars
  PROVE  [Promise!Next]_View
  BY NextQuiet, DriftReported, DriftWritten

\* Failover drops no service, whatever interleaves and whatever crashes, but one whose
\* strand a drift report begun before it writes over: it implements Custody, with the
\* path that answers for a service read off the table and the reports off the requests.
THEOREM CustodyKeeps == Spec => KeepsCustody
<1>1. FailoverAssumption /\ Init => Promise!Init
  BY InitCustody
<1>2. FailoverAssumption /\ IInv /\ IInv' /\ [Next]_vars => [Promise!Next]_View
  BY NextCustody
<1>3. QED
  BY <1>1, <1>2, FailoverAssumption, Invariance, PTL DEF Spec, KeepsCustody, Promise!Spec, View

-----------------------------------------------------------------------------
(***************************************************************************)
(* No copy of a pinned service                                             *)
(***************************************************************************)

\* What a request holds of a pinned service is of its own node: a row to resume is
\* still held, and one to reclaim is only ever read after the node was removed.
PinnedHeld ==
    \A n \in Nodes : \A r \in hb[n].rows :
        /\ hb[n].pc = "promote" /\ dep[r].svc \in Pinned => Home[dep[r].svc] = n
        /\ hb[n].pc = "resume" =>
              /\ dep[r].svc \in Pinned /\ Home[dep[r].svc] = n
              /\ dep[r].status = "pinned_unavailable"
        /\ hb[n].pc = "eager" /\ dep[r].svc \in Pinned => nodeStatus[n] = "removed"

\* A pinned row loses its node only with its home.
PinnedHomeless ==
    \A r \in Rows : dep[r].svc \in Pinned /\ dep[r].node = NoNode =>
        Home[dep[r].svc] # NoNode /\ nodeStatus[Home[dep[r].svc]] = "removed"

\* No late placement is of a pinned service.
LateUnpinned ==
    \A n \in Nodes : /\ hb[n].svc \notin Pinned
                     /\ hb[n].pc = "place" => hb[n].svcs \cap Pinned = {}

Pins == PinnedHeld /\ PinnedHomeless /\ LateUnpinned

\* Nothing is held, homeless or late in a quiet fleet.
LEMMA InitPins == FailoverAssumption /\ Init => Pins
<1> SUFFICES ASSUME FailoverAssumption, Init PROVE Pins
  OBVIOUS
<1>1. PICK host \in [Services -> Nodes \cup {NoNode}] :
        dep = [x \in Rows |->
                 IF \E s \in Services : FirstRow[s] = x /\ host[s] # NoNode
                 THEN LET s == CHOOSE s \in Services : FirstRow[s] = x /\ host[s] # NoNode
                      IN  NewRow(s, host[s], "running")
                 ELSE NewRow(NoService, NoNode, "absent")]
  BY DEF Init
<1>2. ASSUME NEW x \in Rows PROVE dep[x].svc = NoService \/ dep[x].node # NoNode
  <2> DEFINE t == CHOOSE s \in Services : FirstRow[s] = x /\ host[s] # NoNode
  <2>1. CASE \E s \in Services : FirstRow[s] = x /\ host[s] # NoNode
    <3>1. dep[x] = NewRow(t, host[t], "running")
      BY <1>1, <2>1
    <3>2. host[t] # NoNode
      BY <2>1
    <3>3. QED
      BY <3>1, <3>2 DEF NewRow
  <2>2. CASE ~ \E s \in Services : FirstRow[s] = x /\ host[s] # NoNode
    BY <1>1, <2>2 DEF NewRow
  <2>3. QED
    BY <2>1, <2>2
<1>3. QED
  BY <1>2 DEF Init, Pins, PinnedHeld, PinnedHomeless, LateUnpinned, NoBeat, FailoverAssumption

\* A removed node stays removed.
LEMMA RemovedStays ==
  ASSUME TypeOK, [Next]_vars, NEW n \in Nodes, nodeStatus[n] = "removed"
  PROVE  nodeStatus'[n] = "removed"
<1>1. CASE SweepMark
  BY <1>1 DEF SweepMark
<1>2. ASSUME NEW m \in Nodes, Recover(m) PROVE nodeStatus'[n] = "removed"
  BY <1>2 DEF Recover, TypeOK
<1>3. ASSUME NEW m \in Nodes, Cordon(m) \/ Uncordon(m) \/ RemoveBegin(m)
      PROVE  nodeStatus'[n] = "removed"
  BY <1>3 DEF Cordon, Uncordon, RemoveBegin, TypeOK
<1>4. CASE RemoveFinish
  BY <1>4 DEF RemoveFinish, TypeOK
<1>5. CASE UNCHANGED nodeStatus
  BY <1>5
<1>6. QED
  BY <1>1, <1>2, <1>3, <1>4, <1>5
  DEF Next, vars, db, Sweeper, Call, Request, Operator, World, SweepRead, SweepNode,
     SweepDone, HoldPinned, Decide, Strand, Move, MoveFails, Beat, DriftBeat, Heard,
     Promote, ReadDrift, WriteDrift, ReadHeld, Resume, ReadCandidates, Reclaim, ReadStranded, DecideStranded, Unstrand,
     ReclaimFails, BeatDone, DeployBegin, DeployFinish, DeployFails, FailStaleBuild,
     FallSilent, ComeBack, Expire, Restart

\* In which phase, and of which rows, a request reads.
LEMMA BeatReads ==
  ASSUME TypeOK, [Next]_vars, NEW n \in Nodes, NEW r \in hb'[n].rows
  PROVE  \/ r \in hb[n].rows /\ hb'[n].pc = hb[n].pc
         \/ /\ r \in Rows /\ UNCHANGED db
            /\ \/ hb'[n].pc = "drift"
               \/ hb'[n].pc = "promote" /\ dep[r].node = n
               \/ /\ hb'[n].pc = "resume" /\ dep[r].node = n
                  /\ dep[r].status = "pinned_unavailable"
               \/ hb'[n].pc = "eager" /\ dep[r].node # n /\ Home[dep[r].svc] = n
<1> DEFINE Source ==
      \/ r \in hb[n].rows /\ hb'[n].pc = hb[n].pc
      \/ /\ r \in Rows /\ UNCHANGED db
         /\ \/ hb'[n].pc = "drift"
            \/ hb'[n].pc = "promote" /\ dep[r].node = n
            \/ /\ hb'[n].pc = "resume" /\ dep[r].node = n
               /\ dep[r].status = "pinned_unavailable"
            \/ hb'[n].pc = "eager" /\ dep[r].node # n /\ Home[dep[r].svc] = n
<1>1. ASSUME NEW m \in Nodes, Beat(m) \/ DriftBeat(m) PROVE Source
  <2>1. PICK b \in BeatState :
          /\ hb' = [hb EXCEPT ![m] = b] /\ b.pc = "promote"
          /\ b.rows \subseteq {q \in LiveOn(m) : dep[q].status = "deploying"}
    BY <1>1, BeatHeard
  <2>2. UNCHANGED db
    BY <1>1, BeatHeard
  <2>3. CASE m = n
    <3>1. hb'[n] = b
      BY <2>1, <2>3 DEF TypeOK
    <3>2. r \in Rows /\ dep[r].node = n
      BY <2>1, <2>3, <3>1 DEF LiveOn
    <3>3. QED
      BY <2>1, <2>2, <3>1, <3>2
  <2>4. CASE m # n
    BY <2>1, <2>4 DEF TypeOK
  <2>5. QED
    BY <2>3, <2>4
<1>2. ASSUME NEW m \in Nodes, ReadHeld(m) \/ ReadCandidates(m) PROVE Source
  <2>1. CASE m # n
    BY <1>2, <2>1 DEF ReadHeld, ReadCandidates, TypeOK
  <2>2. CASE m = n /\ ReadHeld(m)
    <3>1. CASE nodeStatus[n] = "removed"
      BY <2>2, <3>1 DEF ReadHeld, NoBeat, TypeOK
    <3>2. CASE nodeStatus[n] # "removed"
      <4>1. /\ hb'[n].rows = {q \in Rows : dep[q].node = n /\
                                           dep[q].status = "pinned_unavailable"}
            /\ hb'[n].pc = "resume"
        BY <2>2, <3>2, BeatAt DEF ReadHeld, TypeOK, BeatState
      <4>2. UNCHANGED db
        BY <2>2 DEF ReadHeld
      <4>3. QED
        BY <4>1, <4>2
    <3>3. QED
      BY <3>1, <3>2
  <2>3. CASE m = n /\ ReadCandidates(m)
    <3>1. /\ hb'[n].rows = {q \in Rows : /\ dep[q].status \in Live /\ dep[q].node # n
                                         /\ dep[q].svc \in Eager /\ Home[dep[q].svc] = n}
          /\ hb'[n].pc = "eager"
      BY <2>3, BeatAt DEF ReadCandidates, TypeOK, BeatState
    <3>2. UNCHANGED db
      BY <2>3 DEF ReadCandidates
    <3>3. QED
      BY <3>1, <3>2
  <2>4. QED
    BY <1>2, <2>1, <2>2, <2>3
<1>3. ASSUME NEW m \in Nodes, NEW q \in Rows, Promote(m, q) \/ Resume(m, q) \/ Reclaim(m, q)
      PROVE  Source
  BY <1>3, BeatAt DEF Promote, Resume, Reclaim, TypeOK, BeatState
<1>4. ASSUME NEW m \in Nodes, hb'[m].rows \subseteq hb[m].rows,
             hb'[m].rows = {} \/ hb'[m].pc = hb[m].pc,
             \A k \in Nodes \ {m} : hb'[k] = hb[k]
      PROVE  Source
  BY <1>4
<1>5. ASSUME NEW m \in Nodes, ReadDrift(m) \/ WriteDrift(m) \/ Recover(m) PROVE Source
  <2>1. CASE Recover(m)
    BY <1>4, <2>1, BeatAt DEF Recover, NoBeat, TypeOK, BeatState
  <2>2. CASE WriteDrift(m)
    BY <1>4, <2>2, BeatAt DEF WriteDrift, TypeOK, BeatState
  <2>3. CASE ReadDrift(m)
    <3>1. UNCHANGED db /\ \A k \in Nodes \ {m} : hb'[k] = hb[k]
      BY <2>3 DEF ReadDrift, TypeOK
    <3>2. hb'[m].pc = "drift" /\ hb'[m].rows \subseteq Rows
      BY <2>3, BeatAt DEF ReadDrift, TypeOK, BeatState
    <3>3. QED
      BY <3>1, <3>2
  <2>4. QED
    BY <1>5, <2>1, <2>2, <2>3
<1>6. ASSUME NEW m \in Nodes, ReadStranded(m) \/ Unstrand(m) PROVE Source
  <2>1. CASE ReadStranded(m)
    BY <1>4, <2>1, BeatAt DEF ReadStranded, TypeOK, BeatState
  <2>2. CASE Unstrand(m)
    BY <1>4, <2>2, BeatAt DEF Unstrand, TypeOK, BeatState
  <2>3. QED
    BY <1>6, <2>1, <2>2
<1>7. ASSUME NEW m \in Nodes, ReclaimFails(m) \/ BeatDone(m) PROVE Source
  BY <1>4, <1>7 DEF ReclaimFails, BeatDone, NoBeat, TypeOK
<1>8. ASSUME NEW m \in Nodes, NEW s \in Services, DecideStranded(m, s) PROVE Source
  BY <1>4, <1>8, BeatAt DEF DecideStranded, TypeOK, BeatState
<1>9. CASE Restart
  BY <1>9 DEF Restart, NoBeat
<1>10. CASE UNCHANGED hb
  BY <1>10
<1>11. QED
  BY <1>1, <1>2, <1>3, <1>5, <1>6, <1>7, <1>8, <1>9, <1>10
  DEF Next, vars, Sweeper, Call, Request, Operator, World, SweepRead, SweepMark, SweepNode,
     SweepDone, HoldPinned, Decide, Strand, Move, MoveFails, Cordon, Uncordon, RemoveBegin,
     RemoveFinish, DeployBegin, DeployFinish, DeployFails, FailStaleBuild, FallSilent,
     ComeBack, Expire

\* Where a late placement, decided or still to decide, comes from.
LEMMA StrandSources ==
  ASSUME TypeOK, HoldsFit, [Next]_vars, NEW n \in Nodes
  PROVE  /\ \/ hb'[n].svc \in {hb[n].svc, NoService}
            \/ hb[n].pc = "place" /\ hb'[n].svc \in hb[n].svcs
         /\ hb'[n].pc = "place" =>
               \/ hb'[n].svcs \cap Pinned = {}
               \/ hb[n].pc = "place" /\ hb'[n].svcs \subseteq hb[n].svcs
<1> DEFINE Fits(m) == /\ \/ hb'[m].svc \in {hb[m].svc, NoService}
                         \/ hb[m].pc = "place" /\ hb'[m].svc \in hb[m].svcs
                      /\ hb'[m].pc = "place" =>
                            \/ hb'[m].svcs \cap Pinned = {}
                            \/ hb[m].pc = "place" /\ hb'[m].svcs \subseteq hb[m].svcs
           Source == Fits(n)
<1>1. ASSUME NEW m \in Nodes, \A k \in Nodes \ {m} : hb'[k] = hb[k], Fits(m)
      PROVE  Source
  BY <1>1
<1>2. ASSUME NEW m \in Nodes, ReadStranded(m) PROVE Source
  <2>1. \A s \in hb'[m].svcs : \E r \in Rows : dep[r].svc = s /\ dep[r].status = "stranded"
    BY <1>2, BeatAt DEF ReadStranded, TypeOK, BeatState
  <2>2. hb'[m].svcs \cap Pinned = {}
    BY <2>1 DEF HoldsFit
  <2>3. QED
    BY <1>1, <1>2, <2>2, BeatAt DEF ReadStranded, TypeOK, BeatState
<1>3. ASSUME NEW m \in Nodes, NEW s \in Services, DecideStranded(m, s) PROVE Source
  BY <1>1, <1>3, BeatAt DEF DecideStranded, TypeOK, BeatState
<1>4. ASSUME NEW m \in Nodes, NEW rs, hb' = [hb EXCEPT ![m].rows = rs] PROVE Source
  <2>1. hb'[m].svc = hb[m].svc /\ hb'[m].svcs = hb[m].svcs /\ hb'[m].pc = hb[m].pc
    BY <1>4, BeatAt DEF TypeOK, BeatState
  <2>2. QED
    BY <1>1, <1>4, <2>1 DEF TypeOK
<1>5. ASSUME NEW m \in Nodes, NEW q \in Rows, Promote(m, q) \/ Resume(m, q) \/ Reclaim(m, q)
      PROVE  Source
  BY <1>4, <1>5 DEF Promote, Resume, Reclaim
<1>6. ASSUME NEW m \in Nodes, WriteDrift(m) PROVE Source
  BY <1>4, <1>6 DEF WriteDrift
<1>7. ASSUME NEW m \in Nodes,
             Beat(m) \/ DriftBeat(m) \/ ReclaimFails(m) \/ BeatDone(m)
      PROVE  Source
  <2>1. ASSUME NEW b, hb' = [hb EXCEPT ![m] = b], b.svc = NoService, b.pc # "place"
        PROVE  Source
    <3>1. hb'[m] = b /\ \A k \in Nodes \ {m} : hb'[k] = hb[k]
      BY <2>1 DEF TypeOK
    <3>2. QED
      BY <1>1, <2>1, <3>1
  <2>2. CASE Beat(m) \/ DriftBeat(m)
    <3>1. PICK b : hb' = [hb EXCEPT ![m] = b] /\ b.pc = "promote" /\ b.svc = NoService
      BY <2>2, BeatHeard
    <3>2. QED
      BY <2>1, <3>1
  <2>3. CASE ReclaimFails(m) \/ BeatDone(m)
    <3>1. hb' = [hb EXCEPT ![m] = NoBeat]
      BY <2>3 DEF ReclaimFails, BeatDone
    <3>2. NoBeat.svc = NoService /\ NoBeat.pc # "place"
      BY DEF NoBeat
    <3>3. QED
      BY <2>1, <3>1, <3>2
  <2>4. QED
    BY <1>7, <2>2, <2>3
<1>8. ASSUME NEW m \in Nodes, Recover(m) PROVE Source
  <2>1. CASE nodeStatus[m] = "offline"
    BY <1>1, <1>8, <2>1, BeatAt DEF Recover, TypeOK, BeatState
  <2>2. CASE nodeStatus[m] # "offline"
    BY <1>1, <1>8, <2>2 DEF Recover, NoBeat, TypeOK
  <2>3. QED
    BY <2>1, <2>2
<1>9. ASSUME NEW m \in Nodes, ReadHeld(m) PROVE Source
  BY <1>1, <1>9, BeatAt DEF ReadHeld, NoBeat, TypeOK, BeatState
<1>10. ASSUME NEW m \in Nodes, ReadDrift(m) \/ ReadCandidates(m) PROVE Source
  BY <1>1, <1>10, BeatAt DEF ReadDrift, ReadCandidates, TypeOK, BeatState
<1>11. ASSUME NEW m \in Nodes, Unstrand(m) PROVE Source
  BY <1>1, <1>11, BeatAt DEF Unstrand, TypeOK, BeatState
<1>12. CASE Restart
  BY <1>12 DEF Restart, NoBeat
<1>13. CASE UNCHANGED hb
  BY <1>13
<1>14. QED
  BY <1>2, <1>3, <1>5, <1>6, <1>7, <1>8, <1>9, <1>10, <1>11, <1>12, <1>13
  DEF Next, vars, Sweeper, Call, Request, Operator, World, SweepRead, SweepMark, SweepNode,
     SweepDone, HoldPinned, Decide, Strand, Move, MoveFails, Cordon, Uncordon, RemoveBegin,
     RemoveFinish, DeployBegin, DeployFinish, DeployFails, FailStaleBuild, FallSilent,
     ComeBack, Expire

\* Only the removal of its node takes the node from a pinned row.
LEMMA NextHomeless ==
  ASSUME FailoverAssumption, IInv, Pins, [Next]_vars
  PROVE  PinnedHomeless'
<1>1. TypeOK /\ PinnedStaysHome /\ DecisionsFit /\ PinnedHomeless /\ LateUnpinned
      /\ NoNode \notin Nodes
  BY DEF IInv, Pins, FailoverAssumption
<1>2. \A n \in Nodes : nodeStatus[n] = "removed" => nodeStatus'[n] = "removed"
  BY <1>1, RemovedStays
<1>3. ASSUME NEW r \in Rows, dep[r].svc \in Pinned, dep[r].node = NoNode
      PROVE  Home[dep[r].svc] # NoNode /\ nodeStatus'[Home[dep[r].svc]] = "removed"
  <2>1. Home[dep[r].svc] \in Nodes
    BY <1>1, <1>3 DEF FailoverAssumption, PinnedHomeless
  <2>2. QED
    BY <1>1, <1>2, <1>3, <2>1 DEF PinnedHomeless
<1>4. ASSUME NEW f,
             \A r \in Rows \ {f} : dep'[r].svc = dep[r].svc /\ dep'[r].node = dep[r].node,
             f \in Rows => dep'[f].svc \notin Pinned \/ dep'[f].node # NoNode
      PROVE  PinnedHomeless'
  BY <1>3, <1>4 DEF PinnedHomeless
<1>5. ASSUME NEW r, NEW st, StatusSet(r, st) PROVE PinnedHomeless'
  BY <1>3, <1>5 DEF StatusSet, PinnedHomeless
<1>6. ASSUME NEW r, NEW st, NEW others, Cutover(r, st, others) PROVE PinnedHomeless'
  BY <1>3, <1>6 DEF Cutover, PinnedHomeless
<1>7. ASSUME NEW c \in Callers, Move(c) PROVE PinnedHomeless'
  <2>1. Replaced(resch[c].row, FreshRow, resch[c].target) /\ resch[c].target # NoNode
    BY <1>1, <1>7, ReplaceEffects DEF Move
  <2>2. QED
    BY <1>4, <2>1 DEF Replaced
<1>8. ASSUME NEW n \in Nodes, NEW r \in Rows, Reclaim(n, r) PROVE PinnedHomeless'
  <2>1. Replaced(r, FreshRow, n)
    BY <1>1, <1>8, ReplaceEffects
  <2>2. QED
    BY <1>1, <1>4, <2>1 DEF Replaced
<1>9. ASSUME NEW n \in Nodes, Unstrand(n) PROVE PinnedHomeless'
  BY <1>1, <1>4, <1>9, InsertEffects DEF Inserted, LateUnpinned
<1>10. ASSUME NEW s \in Services, DeployBegin(s) PROVE PinnedHomeless'
  <2>1. PICK n \in Nodes : Inserted(FreshRow, s, n, "building")
    BY <1>1, <1>10, InsertEffects DEF Eligible
  <2>2. QED
    BY <1>1, <1>4, <2>1 DEF Inserted
<1>11. CASE RemoveFinish
  <2>1. PICK n \in Nodes :
          /\ nodeStatus' = [nodeStatus EXCEPT ![n] = "removed"]
          /\ dep' = [r \in Rows |-> IF dep[r].node = n THEN [dep[r] EXCEPT !.node = NoNode]
                                   ELSE dep[r]]
    BY <1>1, <1>11, CallAt DEF RemoveFinish, Callers
  <2>2. ASSUME NEW r \in Rows, dep'[r].svc \in Pinned, dep'[r].node = NoNode
        PROVE  Home[dep'[r].svc] # NoNode /\ nodeStatus'[Home[dep'[r].svc]] = "removed"
    <3>1. dep'[r].svc = dep[r].svc
      BY <1>1, <2>1 DEF TypeOK, Row
    <3>2. CASE dep[r].node = n
      <4>1. Home[dep[r].svc] = n
        BY <1>1, <2>2, <3>1, <3>2 DEF PinnedStaysHome
      <4>2. QED
        BY <1>1, <2>1, <3>1, <4>1 DEF TypeOK
    <3>3. CASE dep[r].node # n
      BY <1>3, <2>1, <2>2, <3>1, <3>3
    <3>4. QED
      BY <3>2, <3>3
  <2>3. QED
    BY <2>2 DEF PinnedHomeless
<1>12. CASE dep' = dep
  BY <1>3, <1>12 DEF PinnedHomeless
<1>13. ASSUME NEW n \in Nodes, WriteDrift(n) PROVE PinnedHomeless'
  BY <1>1, <1>3, <1>13, DriftEffect DEF Overwrite, PinnedHomeless
<1>14. QED
  BY <1>1, <1>5, <1>6, <1>7, <1>8, <1>9, <1>10, <1>11, <1>12, <1>13, Writers, StatusEffects,
     CutoverEffects

\* A row held for its node's return stays held until it is resumed.
LEMMA HeldStays ==
  ASSUME FailoverAssumption, IInv, Pins, [Next]_vars, NEW n \in Nodes, hb[n].pc = "resume",
         NEW r \in hb[n].rows
  PROVE  dep'[r].status = "pinned_unavailable" \/ (Resume(n, r) /\ r \notin hb'[n].rows)
<1>1. /\ TypeOK /\ HandledRows /\ DecisionsFit /\ PinnedHeld /\ NoRow \notin Rows
      /\ r \in Rows
  BY BeatAt DEF IInv, Pins, FailoverAssumption
<1>2. /\ dep[r].status = "pinned_unavailable" /\ dep[r].svc \in Pinned
      /\ Home[dep[r].svc] = n
  BY <1>1 DEF PinnedHeld
<1>3. ASSUME NEW q, NEW st, q # r \/ st = "pinned_unavailable", StatusSet(q, st)
      PROVE  dep'[r].status = "pinned_unavailable"
  BY <1>1, <1>2, <1>3 DEF StatusSet
<1>4. ASSUME NEW q, q # r, NEW st, NEW others, others \subseteq {x \in Rows : dep[x].status \in Live},
             Cutover(q, st, others)
      PROVE  dep'[r].status = "pinned_unavailable"
  BY <1>1, <1>2, <1>4 DEF Cutover, Live
<1>5. Unused # {} => FreshRow # r
  BY FreshRowApart
<1>6. ASSUME NEW c \in Callers, Strand(c) \/ Move(c)
      PROVE  dep'[r].status = "pinned_unavailable"
  <2>1. resch[c].row # r
    BY <1>1, <1>2, <1>6 DEF Strand, Move, DecisionsFit
  <2>2. CASE Strand(c)
    BY <1>1, <1>3, <2>1, <2>2, StatusEffects
  <2>3. CASE Move(c)
    <3>1. Replaced(resch[c].row, FreshRow, resch[c].target) /\ Unused # {}
      BY <1>1, <2>3, ReplaceEffects DEF Move, Replace
    <3>2. QED
      BY <1>1, <1>2, <1>5, <2>1, <3>1 DEF Replaced
  <2>4. QED
    BY <1>6, <2>2, <2>3
<1>7. ASSUME NEW m \in Nodes, NEW q \in Rows, Promote(m, q)
      PROVE  dep'[r].status = "pinned_unavailable"
  <2>1. q # r
    BY <1>1, <1>2, <1>7 DEF Promote, PinnedHeld
  <2>2. Cutover(q, "running", LiveRows(dep[q].svc))
    BY <1>1, <1>7, CutoverEffects
  <2>3. QED
    BY <1>4, <2>1, <2>2 DEF LiveRows
<1>8. ASSUME NEW m \in Nodes, NEW q \in Rows, Resume(m, q)
      PROVE  \/ dep'[r].status = "pinned_unavailable"
             \/ Resume(n, r) /\ r \notin hb'[n].rows
  <2>1. CASE q = r
    <3>1. m = n
      BY <1>1, <1>2, <1>8, <2>1 DEF Resume, PinnedHeld
    <3>2. hb'[n].rows = hb[n].rows \ {r}
      BY <1>1, <1>8, <2>1, <3>1, BeatAt DEF Resume, TypeOK, BeatState
    <3>3. QED
      BY <1>8, <2>1, <3>1, <3>2
  <2>2. CASE q # r
    BY <1>1, <1>3, <1>8, <2>2, StatusEffects
  <2>3. QED
    BY <2>1, <2>2
<1>9. ASSUME NEW m \in Nodes, NEW q \in Rows, Reclaim(m, q)
      PROVE  dep'[r].status = "pinned_unavailable"
  <2>1. q # r
    BY <1>1, <1>2, <1>9 DEF Reclaim, PinnedHeld
  <2>2. Replaced(q, FreshRow, m) /\ Unused # {}
    BY <1>1, <1>9, ReplaceEffects DEF Reclaim, Replace
  <2>3. QED
    BY <1>1, <1>2, <1>5, <2>1, <2>2 DEF Replaced
<1>10. ASSUME NEW f, NEW s, NEW m, NEW st, Inserted(f, s, m, st), f # r
       PROVE  dep'[r].status = "pinned_unavailable"
  BY <1>1, <1>2, <1>10 DEF Inserted
<1>11. ASSUME NEW m \in Nodes, Unstrand(m) PROVE dep'[r].status = "pinned_unavailable"
  BY <1>1, <1>5, <1>10, <1>11, InsertEffects DEF Unstrand
<1>12. ASSUME NEW s \in Services, DeployBegin(s) PROVE dep'[r].status = "pinned_unavailable"
  BY <1>1, <1>5, <1>10, <1>12, InsertEffects DEF DeployBegin
<1>13. CASE DeployFinish \/ DeployFails
  <2>1. deploy # r
    BY <1>1, <1>2, <1>13 DEF DeployFinish, DeployFails, HandledRows
  <2>2. CASE DeployFinish
    BY <1>1, <1>4, <2>1, <2>2, CutoverEffects DEF LiveRows
  <2>3. CASE DeployFails
    BY <1>1, <1>3, <2>1, <2>3, StatusEffects
  <2>4. QED
    BY <1>13, <2>2, <2>3
<1>14. ASSUME NEW q \in Rows, FailStaleBuild(q) PROVE dep'[r].status = "pinned_unavailable"
  BY <1>1, <1>2, <1>3, <1>14, StatusEffects DEF FailStaleBuild
<1>15. CASE RemoveFinish
  BY <1>1, <1>2, <1>15, RemoveEffect
<1>16. CASE dep' = dep
  BY <1>2, <1>16
<1>17. ASSUME NEW m \in Nodes, WriteDrift(m) PROVE dep'[r].status = "pinned_unavailable"
  BY <1>1, <1>2, <1>17, DriftEffect DEF Overwrite
<1>18. QED
  BY <1>1, <1>3, <1>6, <1>7, <1>8, <1>9, <1>11, <1>12, <1>13, <1>14, <1>15, <1>16, <1>17,
     Writers, StatusEffects

\* What requests hold of pinned services keeps to their own nodes.
LEMMA NextPinnedHeld ==
  ASSUME FailoverAssumption, IInv, Pins, [Next]_vars
  PROVE  PinnedHeld'
<1>1. /\ TypeOK /\ PinnedStaysHome /\ HoldsFit /\ PinnedHeld /\ PinnedHomeless
      /\ NoNode \notin Nodes
  BY DEF IInv, Pins, FailoverAssumption
<1>2. SUFFICES ASSUME NEW n \in Nodes, NEW r \in hb'[n].rows
               PROVE  /\ hb'[n].pc = "promote" /\ dep'[r].svc \in Pinned => Home[dep'[r].svc] = n
                      /\ hb'[n].pc = "resume" =>
                            /\ dep'[r].svc \in Pinned /\ Home[dep'[r].svc] = n
                            /\ dep'[r].status = "pinned_unavailable"
                      /\ hb'[n].pc = "eager" /\ dep'[r].svc \in Pinned
                            => nodeStatus'[n] = "removed"
  BY DEF PinnedHeld
<1>3. CASE r \in hb[n].rows /\ hb'[n].pc = hb[n].pc
  <2>1. dep'[r].svc = dep[r].svc
    BY <1>1, <1>3, HandledStays, BeatAt
  <2>2. hb[n].pc = "resume" => dep'[r].status = "pinned_unavailable"
    BY <1>2, <1>3, HeldStays
  <2>3. nodeStatus[n] = "removed" => nodeStatus'[n] = "removed"
    BY <1>1, RemovedStays
  <2>4. QED
    BY <1>1, <1>3, <2>1, <2>2, <2>3 DEF PinnedHeld
<1>4. ASSUME r \in Rows, UNCHANGED db, dep[r].node = n
      PROVE  dep[r].svc \in Pinned => Home[dep[r].svc] = n
  BY <1>1, <1>4 DEF PinnedStaysHome
<1>5. CASE r \in Rows /\ UNCHANGED db /\ hb'[n].pc = "promote" /\ dep[r].node = n
  BY <1>4, <1>5 DEF db
<1>6. CASE /\ r \in Rows /\ UNCHANGED db /\ hb'[n].pc = "resume" /\ dep[r].node = n
           /\ dep[r].status = "pinned_unavailable"
  BY <1>1, <1>4, <1>6 DEF db, HoldsFit
<1>7. CASE /\ r \in Rows /\ UNCHANGED db /\ hb'[n].pc = "eager" /\ dep[r].node # n
           /\ Home[dep[r].svc] = n
  BY <1>1, <1>7 DEF db, PinnedStaysHome, PinnedHomeless
<1>8. CASE hb'[n].pc = "drift"
  BY <1>8
<1>9. QED
  BY <1>1, <1>2, <1>3, <1>5, <1>6, <1>7, <1>8, BeatReads

\* What requests hold, what has lost its node and what is placed late fit the pins.
LEMMA PinsThroughout == Spec => [](IInv /\ Pins)
<1>1. ASSUME FailoverAssumption, IInv, Pins, [Next]_vars PROVE Pins'
  <2>1. NoService \notin Pinned /\ TypeOK /\ HoldsFit /\ LateUnpinned
    BY <1>1 DEF FailoverAssumption, IInv, Pins
  <2>2. ASSUME NEW n \in Nodes
        PROVE  hb'[n].svc \notin Pinned /\ (hb'[n].pc = "place" => hb'[n].svcs \cap Pinned = {})
    <3>1. /\ \/ hb'[n].svc \in {hb[n].svc, NoService}
             \/ hb[n].pc = "place" /\ hb'[n].svc \in hb[n].svcs
          /\ hb'[n].pc = "place" =>
                \/ hb'[n].svcs \cap Pinned = {}
                \/ hb[n].pc = "place" /\ hb'[n].svcs \subseteq hb[n].svcs
      BY <1>1, <2>1, StrandSources
    <3>2. hb[n].svc \notin Pinned /\ (hb[n].pc = "place" => hb[n].svcs \cap Pinned = {})
      BY <2>1 DEF LateUnpinned
    <3>3. QED
      BY <2>1, <3>1, <3>2
  <2>3. LateUnpinned'
    BY <2>2 DEF LateUnpinned
  <2>4. QED
    BY <1>1, <2>3, NextHomeless, NextPinnedHeld DEF Pins
<1>2. FailoverAssumption /\ IInv /\ Pins /\ [Next]_vars => Pins'
  BY <1>1
<1>3. QED
  BY <1>2, FailoverAssumption, InitPins, Invariance, PTL DEF Spec

\* Failover makes no copy of a pinned service, whatever is read, held, removed and
\* resumed in any order: a row of it comes up only after its own build or its own hold.
THEOREM PinnedNotCopied == Spec => PinnedNeverCopied
<1> DEFINE Own(r) ==
      dep'[r].svc \in Pinned /\ dep'[r].status = "deploying" /\ dep'[r] # dep[r]
        => /\ dep[r].status \in {"deploying", "building", "pinned_unavailable"}
           /\ dep[r].svc = dep'[r].svc
<1>1. ASSUME FailoverAssumption, IInv, Pins, [Next]_vars, NEW r \in Rows PROVE Own(r)
  <2>1. /\ TypeOK /\ HandledRows /\ DecisionsFit /\ PinnedHeld /\ LateUnpinned
        /\ NoRow \notin Rows
    BY <1>1 DEF IInv, Pins, FailoverAssumption
  <2>2. ASSUME NEW q, NEW st, StatusSet(q, st),
               q = r => \/ st # "deploying"
                        \/ dep[q].status \in {"deploying", "building", "pinned_unavailable"}
        PROVE  Own(r)
    BY <2>2 DEF StatusSet
  <2>3. ASSUME NEW q, NEW st, NEW others, Cutover(q, st, others),
               q = r => st # "deploying" \/ dep[q].status = "building"
        PROVE  Own(r)
    BY <2>3 DEF Cutover
  <2>4. ASSUME NEW f, NEW s, NEW n, NEW st, Inserted(f, s, n, st),
               s \notin Pinned \/ st # "deploying"
        PROVE  Own(r)
    BY <2>4 DEF Inserted
  <2>5. ASSUME NEW old, NEW n, Replaced(old, FreshRow, n), dep[old].svc \notin Pinned
        PROVE  Own(r)
    BY <2>5 DEF Replaced
  <2>6. ASSUME NEW c \in Callers, Move(c) PROVE Own(r)
    BY <2>1, <2>5, <2>6, ReplaceEffects DEF Move, DecisionsFit
  <2>7. ASSUME NEW n \in Nodes, NEW q \in Rows, Reclaim(n, q) PROVE Own(r)
    BY <2>1, <2>5, <2>7, ReplaceEffects DEF Reclaim, PinnedHeld
  <2>8. ASSUME NEW n \in Nodes, NEW q \in Rows, Resume(n, q) PROVE Own(r)
    BY <2>1, <2>2, <2>8, StatusEffects DEF Resume, PinnedHeld
  <2>9. ASSUME NEW n \in Nodes, Unstrand(n) PROVE Own(r)
    BY <2>1, <2>4, <2>9, InsertEffects DEF LateUnpinned
  <2>10. CASE DeployFinish
    BY <2>1, <2>3, <2>10, CutoverEffects DEF DeployFinish, HandledRows
  <2>11. CASE RemoveFinish
    BY <2>1, <2>11, RemoveEffect
  <2>12. CASE dep' = dep
    BY <2>12
  <2>13. ASSUME NEW n \in Nodes, WriteDrift(n) PROVE Own(r)
    BY <2>1, <2>13, DriftEffect DEF Overwrite
  <2>14. QED
    BY <1>1, <2>1, <2>2, <2>3, <2>4, <2>6, <2>7, <2>8, <2>9, <2>10, <2>11, <2>12, <2>13,
       Writers, StatusEffects, InsertEffects, CutoverEffects
<1>2. FailoverAssumption /\ IInv /\ Pins /\ [Next]_vars
        => [\A r \in Rows : Own(r)]_vars
  BY <1>1
<1>3. QED
  BY <1>2, FailoverAssumption, PinsThroughout, PTL DEF Spec, PinnedNeverCopied
=============================================================================
