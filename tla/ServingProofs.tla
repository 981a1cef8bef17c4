---------------------------- MODULE ServingProofs ----------------------------
(***************************************************************************)
(* What holds of the copies of a service, for any fleet, any number of     *)
(* rows and nodes, and any events: the replica pass never makes more than  *)
(* were asked for, and a deploy adds one.  What is live stays in order,    *)
(* and a build belongs to its deploy alone.  Serving implements Releases,  *)
(* so that one copy runs at most; and each is where the scheduler, asked   *)
(* about a fleet without this service, would let it be.                    *)
(***************************************************************************)
EXTENDS Serving, FiniteSetTheorems, TLAPS

\* What the argument needs of the constants.
Given == IsFiniteSet(Ids) /\ \A n \in Counts : n \in Nat /\ n > 0

Deploys == Cardinality(Happened("deploys"))

\* Copies the pass has counted as missing and not inserted yet.
Coming == IF pass.pc \in {"place", "insert"} THEN pass.short ELSE 0

\* Releases that are being built, and will be live without another count.
Building == IF flight = {} THEN 0 ELSE 1

Rows == [Ids -> [node : Nodes \cup {NoNode}, status : RowStatus]]

\* The tables and the handlers, as far as the proofs read them.
Shape ==
    /\ row \in Rows
    /\ wanted \in Counts
    /\ DOMAIN pass = {"pc", "want", "short", "taken", "target", "excess"}
    /\ pass.target \in Nodes \cup {NoNode}
    /\ pass.pc = "count" => pass.want \in Counts
    /\ pass.pc \in {"place", "insert"} => pass.short \in Nat \ {0}
    /\ IsFiniteSet(used)

\* Events of one kind are numbered from 0, so that each is counted.
Numbered ==
    \A e \in Happened("deploys") : e[2] \in Nat /\ e[2] < Deploys

\* What is live, what the pass will add and what is building fit together under the
\* bound; and as the pass adds only where something is live, it adds less than n: a
\* promotion that leaves one row, of whatever was live, leaves room for it.
Room(n) ==
    /\ Cardinality(LiveRows) + Coming + Building <= n + Deploys
    /\ Coming < n

IInv ==
    /\ Shape /\ Numbered /\ Building <= Deploys
    /\ \A n \in Counts : (\A m \in Counts : m <= n) => Room(n)

\* What is counted is finite, so the counts are numbers.
LEMMA CountsAreNumbers ==
  ASSUME Given, Shape
  PROVE  /\ IsFiniteSet(LiveRows) /\ Cardinality(LiveRows) \in Nat
         /\ IsFiniteSet(Happened("deploys")) /\ Deploys \in Nat
         /\ Coming \in Nat /\ Building \in Nat
<1>1. IsFiniteSet(LiveRows)
  <2>1. LiveRows \in SUBSET Ids
    BY DEF LiveRows
  <2>2. QED
    BY <2>1, FS_Subset DEF Given
<1>2. IsFiniteSet(Happened("deploys"))
  <2>1. Happened("deploys") \in SUBSET used
    BY DEF Happened
  <2>2. QED
    BY <2>1, FS_Subset DEF Shape
<1>3. QED
  BY <1>1, <1>2, FS_CardinalityType DEF Deploys, Coming, Building, Shape

\* An event that is spent is one more of its kind, and none of another.
LEMMA SpendCounts ==
  ASSUME Given, Shape, Numbered, NEW kind, Spend(kind)
  PROVE  /\ IsFiniteSet(used') /\ Numbered'
         /\ Deploys' = IF kind = "deploys" THEN Deploys + 1 ELSE Deploys
<1> DEFINE e == <<kind, Cardinality({u \in used : u[1] = kind})>>
<1>1. used' = used \cup {e}
  BY DEF Spend
<1>2. IsFiniteSet(used')
  BY <1>1, FS_AddElement DEF Shape
<1>3. IsFiniteSet(Happened("deploys")) /\ Deploys \in Nat
  BY CountsAreNumbers
<1>4. CASE kind = "deploys"
  <2>1. e = <<"deploys", Deploys>>
    BY <1>4 DEF Deploys, Happened
  <2>2. Happened("deploys")' = Happened("deploys") \cup {e}
    BY <1>1, <2>1 DEF Happened
  <2>3. e \notin Happened("deploys")
    BY <1>3, <2>1 DEF Numbered
  <2>4. Deploys' = Deploys + 1
    BY <1>3, <2>2, <2>3, FS_AddElement DEF Deploys
  <2>5. \A f \in Happened("deploys") : f[2] \in Nat /\ f[2] < Deploys
    BY DEF Numbered
  <2>6. \A f \in Happened("deploys") \cup {e} : f[2] \in Nat /\ f[2] < Deploys + 1
    BY <1>3, <2>1, <2>5
  <2>7. Numbered'
    BY <2>2, <2>4, <2>6 DEF Numbered
  <2>8. QED
    BY <1>2, <1>4, <2>4, <2>7
<1>5. CASE kind # "deploys"
  <2>1. Happened("deploys")' = Happened("deploys")
    BY <1>1, <1>5 DEF Happened
  <2>2. QED
    BY <1>2, <1>5, <2>1 DEF Deploys, Numbered
<1>6. QED
  BY <1>4, <1>5

\* Fewer live rows are no more.
LEMMA LiveFewer ==
  ASSUME Given, Shape, LiveRows' \subseteq LiveRows
  PROVE  Cardinality(LiveRows') \in Nat /\ Cardinality(LiveRows') <= Cardinality(LiveRows)
<1>1. IsFiniteSet(LiveRows)
  BY CountsAreNumbers
<1>2. QED
  BY <1>1, FS_Subset, FS_CardinalityType

\* A row that becomes live is one more at most.
LEMMA LiveOneMore ==
  ASSUME Given, Shape, NEW i, LiveRows' \subseteq LiveRows \cup {i}
  PROVE  Cardinality(LiveRows') \in Nat /\ Cardinality(LiveRows') <= Cardinality(LiveRows) + 1
<1>1. IsFiniteSet(LiveRows) /\ Cardinality(LiveRows) \in Nat
  BY CountsAreNumbers
<1>2. /\ IsFiniteSet(LiveRows \cup {i})
      /\ Cardinality(LiveRows \cup {i}) = IF i \in LiveRows THEN Cardinality(LiveRows)
                                           ELSE Cardinality(LiveRows) + 1
  BY <1>1, FS_AddElement
<1>3. IsFiniteSet(LiveRows') /\ Cardinality(LiveRows') <= Cardinality(LiveRows \cup {i})
  BY <1>2, FS_Subset
<1>4. QED
  BY <1>1, <1>2, <1>3, FS_CardinalityType

\* A set within a singleton has one element at most.
LEMMA AtMostOne ==
  ASSUME NEW i, NEW S, S \subseteq {i}
  PROVE  Cardinality(S) \in Nat /\ Cardinality(S) <= 1
<1>1. IsFiniteSet({i}) /\ Cardinality({i}) = 1
  BY FS_Singleton
<1>2. QED
  BY <1>1, FS_Subset, FS_CardinalityType

\* A write by id supersedes, forgets, or leaves a row what it was.
LEMMA SupersedeShrinks ==
  ASSUME Shape, NEW rows, Supersede(rows)
  PROVE  row' \in Rows /\ LiveRows' \subseteq LiveRows
<1> DEFINE new == [i \in Ids |-> IF i \in rows /\ row[i] # NoRow
                                 THEN [row[i] EXCEPT !.status = "superseded"] ELSE row[i]]
<1>1. row' = [i \in Ids |-> IF new[i].status = "superseded" /\ i \notin Promised
                            THEN NoRow ELSE new[i]]
  BY DEF Supersede, Write
<1>2. new \in Rows /\ \A i \in Ids : new[i].status \in Live => row[i].status \in Live
  BY DEF Shape, Rows, RowStatus, Live
<1>3. NoRow \in [node : Nodes \cup {NoNode}, status : RowStatus] /\ NoRow.status \notin Live
  BY DEF NoRow, RowStatus, Live
<1>4. row' \in Rows
  BY <1>1, <1>2, <1>3 DEF Rows
<1>5. \A i \in Ids : row'[i].status \in Live => row[i].status \in Live
  BY <1>1, <1>2, <1>3
<1>6. QED
  BY <1>4, <1>5 DEF LiveRows

\* The cutover leaves one live row at most, whatever was live before.
LEMMA PromoteLeavesOne ==
  ASSUME Shape, NEW n \in Nodes, Promote(n)
  PROVE  row' \in Rows /\ \E i : LiveRows' \subseteq {i}
<1>1. PICK i \in hb[n].todo :
        Write([j \in Ids |->
                IF j = i THEN [row[j] EXCEPT !.status = "running"]
                ELSE IF j \in LiveRows THEN [row[j] EXCEPT !.status = "superseded"]
                ELSE row[j]])
  BY DEF Promote
<1> DEFINE new == [j \in Ids |->
                IF j = i THEN [row[j] EXCEPT !.status = "running"]
                ELSE IF j \in LiveRows THEN [row[j] EXCEPT !.status = "superseded"]
                ELSE row[j]]
<1>2. row' = [j \in Ids |-> IF new[j].status = "superseded" /\ j \notin Promised
                            THEN NoRow ELSE new[j]]
  BY <1>1 DEF Write
<1>3. new \in Rows /\ \A j \in Ids : j # i => new[j].status \notin Live
  BY DEF Shape, Rows, RowStatus, Live, LiveRows
<1>4. NoRow \in [node : Nodes \cup {NoNode}, status : RowStatus] /\ NoRow.status \notin Live
  BY DEF NoRow, RowStatus, Live
<1>5. row' \in Rows
  BY <1>2, <1>3, <1>4 DEF Rows
<1>6. \A j \in Ids : j # i => row'[j].status \notin Live
  BY <1>2, <1>3, <1>4
<1>7. QED
  BY <1>5, <1>6 DEF LiveRows

\* An insert adds its row and changes no other.
LEMMA InsertAddsOne ==
  ASSUME Shape, NEW n \in Nodes \cup {NoNode}, NEW status \in RowStatus, Insert(n, status)
  PROVE  /\ row' \in Rows /\ \E i : LiveRows' \subseteq LiveRows \cup {i}
         /\ status \notin Live => LiveRows' \subseteq LiveRows
         /\ flight' = flight \/ (status = "building" /\ flight' # {})
<1>1. PICK i \in Ids : /\ row' = [row EXCEPT ![i] = [node |-> n, status |-> status]]
                       /\ flight' = IF status = "building" THEN flight \cup {i} ELSE flight
  BY DEF Insert, Unused
<1>2. row' \in Rows
  BY <1>1 DEF Shape, Rows
<1>3. \A j \in Ids : row'[j].status \in Live =>
        row[j].status \in Live \/ (j = i /\ status \in Live)
  BY <1>1 DEF Shape, Rows
<1>4. QED
  BY <1>1, <1>2, <1>3 DEF LiveRows

\* What is chosen is a node of the snapshot.
LEMMA PlacedInFleet ==
  ASSUME NEW load, NEW n \in Placed(load)
  PROVE  n \in DOMAIN load
BY DEF Placed, place, filterNodes, Snapshot

\* The arithmetic of the bound: what is live, coming and building, against the deploys.
LEMMA Slack ==
  ASSUME NEW a \in Nat, NEW b \in Nat, NEW c \in Nat, NEW d \in Nat, NEW n \in Nat,
         NEW a2 \in Nat, NEW b2 \in Nat, NEW c2 \in Nat, NEW d2 \in Nat,
         a + b + c <= n + d, a2 + b2 + c2 + d <= a + b + c + d2
  PROVE  a2 + b2 + c2 <= n + d2
OBVIOUS

\* The same for a copy that was coming and is there.
LEMMA OneForOne ==
  ASSUME NEW a \in Nat, NEW b \in Nat, NEW c \in Nat, NEW d \in Nat,
         NEW a2 \in Nat, NEW b2 \in Nat, a2 <= a + 1, b2 + 1 = b
  PROVE  a2 + b2 + c + d <= a + b + c + d /\ b2 <= b
OBVIOUS

\* A step after which nothing has grown by more than the deploys it counts keeps the
\* bound.
LEMMA RoomKept ==
  ASSUME Given, IInv, Shape', Numbered',
         Cardinality(LiveRows') \in Nat, Coming' \in Nat, Building' \in Nat, Deploys' \in Nat,
         Cardinality(LiveRows') + Coming' + Building' + Deploys
            <= Cardinality(LiveRows) + Coming + Building + Deploys',
         Coming' <= Coming, Building' <= Deploys'
  PROVE  IInv'
<1>1. /\ Cardinality(LiveRows) \in Nat /\ Deploys \in Nat
      /\ Coming \in Nat /\ Building \in Nat
  BY CountsAreNumbers DEF IInv
<1>2. ASSUME NEW n \in Counts, \A m \in Counts : m <= n PROVE Room(n)'
  <2>1. n \in Nat /\ Room(n)
    BY <1>2 DEF IInv, Given
  <2>2. Coming' < n
    BY <1>1, <2>1 DEF Room
  <2>3. Cardinality(LiveRows') + Coming' + Building' <= n + Deploys'
    BY <1>1, <2>1, Slack DEF Room
  <2>4. QED
    BY <2>2, <2>3 DEF Room
<1>3. QED
  BY <1>2 DEF IInv

\* So does one that writes no row and no build, and after which no more is coming.
LEMMA QuietKeeps ==
  ASSUME Given, IInv, Shape', UNCHANGED <<row, flight, used>>, Coming' <= Coming
  PROVE  IInv'
<1>1. /\ Cardinality(LiveRows) \in Nat /\ Deploys \in Nat
      /\ Coming \in Nat /\ Building \in Nat
  BY CountsAreNumbers DEF IInv
<1>2. LiveRows' = LiveRows /\ Building' = Building /\ Deploys' = Deploys
  BY DEF LiveRows, Building, Deploys, Happened
<1>3. Numbered'
  BY <1>2 DEF IInv, Numbered, Happened
<1>4. Coming' \in Nat
  BY DEF Coming, Shape
<1>5. Building' <= Deploys'
  BY <1>2 DEF IInv
<1>6. QED
  BY <1>1, <1>2, <1>3, <1>4, <1>5, RoomKept

\* One row at most is live at first, and nothing has happened.
LEMMA InitHolds == Given /\ Init => IInv
<1> SUFFICES ASSUME Given, Init PROVE IInv
  OBVIOUS
<1>1. PICK i \in Ids, n \in Nodes, deployed \in BOOLEAN :
        row = [j \in Ids |-> IF j = i /\ deployed THEN [node |-> n, status |-> "running"]
                             ELSE NoRow]
  BY DEF Init
<1>2. Shape
  BY <1>1, FS_EmptySet DEF Init, Shape, Rows, RowStatus, NoRow, IdlePass
<1>3. Happened("deploys") = {} /\ Deploys = 0
  BY FS_EmptySet DEF Init, Happened, Deploys
<1>4. Cardinality(LiveRows) \in Nat /\ Cardinality(LiveRows) <= 1
  <2>1. LiveRows \subseteq {i}
    BY <1>1 DEF LiveRows, NoRow, Live
  <2>2. QED
    BY <2>1, AtMostOne
<1>5. Coming = 0 /\ Building = 0
  BY DEF Init, IdlePass, Coming, Building
<1>6. \A k \in Counts : k \in Nat /\ k > 0
  BY DEF Given
<1>7. \A k \in Counts : Room(k)
  BY <1>3, <1>4, <1>5, <1>6 DEF Room
<1>8. Building <= Deploys
  BY <1>3, <1>5
<1>9. QED
  BY <1>2, <1>3, <1>7, <1>8 DEF IInv, Numbered

\* Every step keeps it.
LEMMA NextHolds == Given /\ IInv /\ [Next]_vars => IInv'
<1> SUFFICES ASSUME Given, IInv, [Next]_vars PROVE IInv'
  OBVIOUS
<1>1. Shape /\ Numbered /\ Building <= Deploys
  BY DEF IInv
<1>2. /\ Cardinality(LiveRows) \in Nat /\ Deploys \in Nat
      /\ Coming \in Nat /\ Building \in Nat
  BY <1>1, CountsAreNumbers
<1>3. ASSUME PassBegin PROVE IInv'
  <2>1. Shape' /\ Coming' <= Coming
    BY <1>1, <1>3 DEF PassBegin, IdlePass, table, Shape, Coming
  <2>2. QED
    BY <1>3, <2>1, QuietKeeps DEF PassBegin, table
<1>4. ASSUME PassCount PROVE IInv'
  <2>1. LiveRows' = LiveRows /\ Building' = Building /\ Deploys' = Deploys /\ Numbered'
    BY <1>1, <1>4 DEF PassCount, table, LiveRows, Building, Deploys, Happened, Numbered
  <2>2. IsFiniteSet(LiveRows) /\ (LiveRows # {} => Cardinality(LiveRows) # 0)
    BY <1>1, CountsAreNumbers, FS_EmptySet
  <2>3. pass.want \in Nat /\ pass.want \in Counts
    BY <1>1, <1>4 DEF PassCount, Shape, Given
  <2>4. Shape'
    BY <1>1, <1>2, <1>4, <2>3 DEF PassCount, IdlePass, table, Shape
  <2>5. \/ Coming' = 0
        \/ /\ Coming' = pass.want - Cardinality(LiveRows) /\ Coming' \in Nat
           /\ Cardinality(LiveRows) > 0
    BY <1>1, <1>2, <1>4, <2>2, <2>3 DEF PassCount, IdlePass, Coming, Shape
  <2>6. ASSUME NEW n \in Counts, \A m \in Counts : m <= n PROVE Room(n)'
    <3>1. n \in Nat /\ n > 0 /\ pass.want <= n
      BY <2>3, <2>6 DEF Given
    <3>2. Room(n)
      BY <2>6 DEF IInv
    <3>3. QED
      BY <1>1, <1>2, <2>1, <2>3, <2>5, <3>1, <3>2 DEF Room
  <2>7. QED
    BY <1>1, <2>1, <2>4, <2>6 DEF IInv
<1>5. ASSUME PassExcess PROVE IInv'
  <2>1. Shape' /\ Coming' <= Coming
    BY <1>1, <1>5 DEF PassExcess, table, Shape, Coming
  <2>2. QED
    BY <1>5, <2>1, QuietKeeps DEF PassExcess, table
<1>6. ASSUME PassRemove PROVE IInv'
  <2>1. row' \in Rows /\ LiveRows' \subseteq LiveRows
    BY <1>1, <1>6, SupersedeShrinks DEF PassRemove
  <2>2. Shape' /\ Coming' = 0 /\ Building' = Building /\ Deploys' = Deploys /\ Numbered'
    BY <1>1, <1>6, <2>1
    DEF PassRemove, Shape, Coming, Building, Deploys, Happened, Numbered
  <2>3. QED
    BY <1>1, <1>2, <2>1, <2>2, LiveFewer, RoomKept
<1>7. ASSUME PassPlace PROVE IInv'
  <2>1. pass'.target \in Nodes \cup {NoNode}
    BY <1>1, <1>7, PlacedInFleet DEF PassPlace, Shape
  <2>2. /\ pass'.short = pass.short /\ pass'.pc \in {"invalidate", "insert"}
        /\ DOMAIN pass' = DOMAIN pass /\ UNCHANGED <<row, wanted, used>>
    BY <1>1, <1>7 DEF PassPlace, table, Shape
  <2>3. pass.pc = "place" /\ pass.short \in Nat \ {0} /\ Coming = pass.short
    BY <1>1, <1>7 DEF PassPlace, Shape, Coming
  <2>4. Shape'
    BY <1>1, <2>1, <2>2, <2>3 DEF Shape
  <2>5. Coming' <= Coming
    BY <2>2, <2>3 DEF Coming
  <2>6. QED
    BY <1>7, <2>4, <2>5, QuietKeeps DEF PassPlace, table
<1>8. ASSUME PassInsert PROVE IInv'
  <2>1. /\ row' \in Rows /\ \E i : LiveRows' \subseteq LiveRows \cup {i}
        /\ flight' = flight
    BY <1>1, <1>8, InsertAddsOne DEF PassInsert, Shape, RowStatus
  <2>2. /\ Shape' /\ Building' = Building /\ Deploys' = Deploys /\ Numbered'
        /\ Coming' + 1 = Coming /\ Coming' \in Nat
    BY <1>1, <1>8, <2>1
    DEF PassInsert, Shape, Coming, Building, Deploys, Happened, Numbered
  <2>3. Cardinality(LiveRows') \in Nat /\ Cardinality(LiveRows') <= Cardinality(LiveRows) + 1
    BY <1>1, <2>1, LiveOneMore
  <2>4. Cardinality(LiveRows') + Coming' + Building' + Deploys
          <= Cardinality(LiveRows) + Coming + Building + Deploys'
    BY <1>2, <2>2, <2>3, OneForOne
  <2>5. Coming' <= Coming
    BY <1>2, <2>2, <2>3, OneForOne
  <2>6. Building' <= Deploys'
    BY <1>1, <2>2
  <2>7. QED
    BY <1>2, <2>2, <2>3, <2>4, <2>5, <2>6, RoomKept
<1>9. ASSUME PassInvalidate PROVE IInv'
  <2>1. Shape' /\ Coming' <= Coming
    BY <1>1, <1>9 DEF PassInvalidate, IdlePass, table, Shape, Coming
  <2>2. QED
    BY <1>9, <2>1, QuietKeeps DEF PassInvalidate, table
<1>10. ASSUME DeployFinish PROVE IInv'
  <2>1. PICK i \in flight : row' = [row EXCEPT ![i].status = "deploying"]
    BY <1>10 DEF DeployFinish
  <2>2. row' \in Rows /\ LiveRows' \subseteq LiveRows \cup {i}
    BY <1>1, <2>1 DEF Shape, Rows, RowStatus, LiveRows
  <2>3. /\ Shape' /\ Coming' = Coming /\ Building = 1 /\ Building' = 0
        /\ Deploys' = Deploys /\ Numbered'
    BY <1>1, <1>10, <2>1, <2>2
    DEF DeployFinish, Shape, Coming, Building, Deploys, Happened, Numbered
  <2>4. Cardinality(LiveRows') \in Nat /\ Cardinality(LiveRows') <= Cardinality(LiveRows) + 1
    BY <1>1, <2>2, LiveOneMore
  <2>5. QED
    BY <1>2, <2>3, <2>4, RoomKept
<1>11. ASSUME StopWrite PROVE IInv'
  <2>1. row' \in Rows /\ LiveRows' \subseteq LiveRows
    BY <1>1, <1>11, SupersedeShrinks DEF StopWrite
  <2>2. Shape' /\ Coming' = Coming /\ Building' = Building /\ Deploys' = Deploys /\ Numbered'
    BY <1>1, <1>11, <2>1
    DEF StopWrite, Shape, Coming, Building, Deploys, Happened, Numbered
  <2>3. QED
    BY <1>1, <1>2, <2>1, <2>2, LiveFewer, RoomKept
<1>12. ASSUME NEW n \in Nodes, Promote(n) PROVE IInv'
  <2>1. row' \in Rows /\ \E i : LiveRows' \subseteq {i}
    BY <1>1, <1>12, PromoteLeavesOne
  <2>2. Cardinality(LiveRows') \in Nat /\ Cardinality(LiveRows') <= 1
    BY <2>1, AtMostOne
  <2>3. Shape' /\ Coming' = Coming /\ Building' = Building /\ Deploys' = Deploys /\ Numbered'
    BY <1>1, <1>12, <2>1
    DEF Promote, Shape, Coming, Building, Deploys, Happened, Numbered
  <2>4. ASSUME NEW k \in Counts, \A m \in Counts : m <= k PROVE Room(k)'
    <3>1. k \in Nat /\ Room(k)
      BY <2>4 DEF Given, IInv
    <3>2. QED
      BY <1>1, <1>2, <2>2, <2>3, <3>1 DEF Room
  <2>5. QED
    BY <1>1, <2>3, <2>4 DEF IInv
<1>13. ASSUME Deploy PROVE IInv'
  <2>1. PICK n \in Nodes : Insert(n, "building")
    BY <1>13, PlacedInFleet DEF Deploy
  <2>2. row' \in Rows /\ LiveRows' \subseteq LiveRows
    BY <1>1, <2>1, InsertAddsOne DEF RowStatus, Live
  <2>3. IsFiniteSet(used') /\ Numbered' /\ Deploys' = Deploys + 1
    BY <1>1, <1>13, SpendCounts DEF Deploy
  <2>4. Shape' /\ Coming' = Coming /\ Building = 0 /\ Building' \in {0, 1}
    BY <1>1, <1>13, <2>2, <2>3 DEF Deploy, Shape, Coming, Building
  <2>5. Cardinality(LiveRows') \in Nat /\ Cardinality(LiveRows') <= Cardinality(LiveRows)
    BY <1>1, <2>2, LiveFewer
  <2>6. Cardinality(LiveRows') + Coming' + Building' + Deploys
          <= Cardinality(LiveRows) + Coming + Building + Deploys'
    BY <1>2, <2>3, <2>4, <2>5
  <2>7. Coming' <= Coming /\ Building' <= Deploys'
    BY <1>2, <2>3, <2>4
  <2>8. /\ Building' \in Nat /\ Coming' \in Nat /\ Deploys' \in Nat
    BY <1>2, <2>3, <2>4
  <2>9. QED
    BY <2>3, <2>4, <2>5, <2>6, <2>7, <2>8, RoomKept
<1>14. ASSUME Scale PROVE IInv'
  <2>1. IsFiniteSet(used') /\ Numbered' /\ Deploys' = Deploys
    BY <1>1, <1>14, SpendCounts DEF Scale
  <2>2. /\ Shape' /\ LiveRows' = LiveRows /\ Coming' = Coming /\ Building' = Building
    BY <1>1, <1>14, <2>1 DEF Scale, handlers, Shape, LiveRows, Coming, Building
  <2>3. QED
    BY <1>1, <1>2, <2>1, <2>2, RoomKept
<1>15. ASSUME Stop PROVE IInv'
  <2>1. IsFiniteSet(used') /\ Numbered' /\ Deploys' = Deploys
    BY <1>1, <1>15, SpendCounts DEF Stop
  <2>2. /\ Shape' /\ LiveRows' = LiveRows /\ Coming' = Coming /\ Building' = Building
    BY <1>1, <1>15, <2>1 DEF Stop, table, Shape, LiveRows, Coming, Building
  <2>3. QED
    BY <1>1, <1>2, <2>1, <2>2, RoomKept
<1>16. ASSUME Restart PROVE IInv'
  <2>1. IsFiniteSet(used') /\ Numbered' /\ Deploys' = Deploys
    BY <1>1, <1>16, SpendCounts DEF Restart
  <2>2. /\ Shape' /\ LiveRows' = LiveRows /\ Coming' = 0 /\ Building' = 0
    BY <1>1, <1>16, <2>1 DEF Restart, IdlePass, table, Shape, LiveRows, Coming, Building
  <2>3. QED
    BY <1>1, <1>2, <2>1, <2>2, RoomKept
<1>17. ASSUME UNCHANGED <<row, wanted, pass, flight, used>> PROVE IInv'
  <2>1. Shape' /\ Coming' <= Coming
    BY <1>1, <1>2, <1>17 DEF Shape, Coming
  <2>2. QED
    BY <1>17, <2>1, QuietKeeps
<1>18. CASE \/ \E n \in Nodes : Beat(n) \/ BeatInvalidate(n)
            \/ \E q \in Requests : Lookup(q) \/ Store(q)
            \/ StopInvalidate \/ Expire \/ OtherNodes \/ UNCHANGED vars
  BY <1>17, <1>18
  DEF Beat, BeatInvalidate, Lookup, Store, StopInvalidate, Expire, OtherNodes, vars, table,
      handlers
<1>19. QED
  BY <1>3, <1>4, <1>5, <1>6, <1>7, <1>8, <1>9, <1>10, <1>11, <1>12, <1>13, <1>14, <1>15,
     <1>16, <1>18
  DEF Next, Sweeper, Handler, Heartbeat

\* The replica pass never runs away, whatever promotions, stops, deploys and restarts
\* fall between its count and its inserts.
THEOREM PassBounded == Spec => []NoOvershoot
<1>1. Given /\ IInv => NoOvershoot
  <2> SUFFICES ASSUME Given, IInv PROVE NoOvershoot
    OBVIOUS
  <2>1. /\ Cardinality(LiveRows) \in Nat /\ Deploys \in Nat
        /\ Coming \in Nat /\ Building \in Nat
    BY CountsAreNumbers DEF IInv
  <2>2. ASSUME NEW n \in Counts, \A m \in Counts : m <= n
        PROVE  Cardinality(LiveRows) <= n + Deploys
    <3>1. n \in Nat /\ Room(n)
      BY <2>2 DEF IInv, Given
    <3>2. QED
      BY <2>1, <3>1 DEF Room
  <2>3. QED
    BY <2>2 DEF NoOvershoot, Deploys
<1>2. Given
  BY ServingAssumption DEF ServingAssumption, Given
<1>3. QED
  BY <1>1, <1>2, InitHolds, NextHolds, PTL DEF Spec

-----------------------------------------------------------------------------
\* The rows that a handler is going to write to by id.
Named == pass.excess \cup stopping.rows \cup Promised

\* Where the rows are, and what the handlers know of those they name: a build is none of
\* them, and what a heartbeat promotes has not been forgotten.
Sound ==
    /\ \A i \in Ids : row[i] # NoRow => row[i].node \in Nodes /\ row[i].status # "absent"
    /\ \A i \in Ids : i \in Named => row[i].status # "building"
    /\ \A i \in Ids : i \in Promised => row[i] # NoRow
    /\ \A i \in flight : row[i].status = "building"
    /\ pass.pc = "insert" => pass.target \in Nodes

TInv == IInv /\ TypeOK /\ Sound

\* A row that goes takes its place in the order with it.
LEMMA ForgetKeepsOrder ==
  ASSUME newer \subseteq Ids \X Ids, InOrder,
         \A i \in Ids : row'[i] # NoRow => row[i] # NoRow,
         newer' = {p \in newer : row'[p[1]] # NoRow /\ row'[p[2]] # NoRow}
  PROVE  newer' \subseteq Ids \X Ids /\ InOrder'
  BY DEF InOrder

\* A row that comes is newer than every other.
LEMMA InsertKeepsOrder ==
  ASSUME newer \subseteq Ids \X Ids, InOrder, NEW i \in Ids, row[i] = NoRow,
         row'[i] # NoRow, \A j \in Ids \ {i} : row'[j] = row[j],
         newer' = newer \cup {i} \X {j \in Ids : row[j] # NoRow}
  PROVE  newer' \subseteq Ids \X Ids /\ InOrder'
  BY DEF InOrder

\* A write by id brings no row into being, moves none, and leaves the builds alone if
\* what it supersedes is none.
LEMMA WriteEffect ==
  ASSUME TypeOK, Sound, NEW rows \in Rows, Write(rows),
         \A i \in Ids : rows[i].status = "building" <=> row[i].status = "building",
         \A i \in Ids : rows[i].node = row[i].node,
         \A i \in Ids : rows[i].status = "absent" <=> row[i].status = "absent"
  PROVE  /\ row' \in Rows /\ newer' \subseteq Ids \X Ids /\ InOrder'
         /\ \A i \in Ids : /\ row'[i].status = "building" <=> row[i].status = "building"
                           /\ row'[i] # NoRow => /\ row'[i].node = row[i].node
                                                 /\ row'[i].status # "absent"
                                                 /\ row[i] # NoRow
                           /\ i \in Promised => row'[i] # NoRow
<1>1. NoRow \in [node : Nodes \cup {NoNode}, status : RowStatus]
      /\ NoRow.status = "absent" /\ NoRow.node = NoNode
  BY DEF NoRow, RowStatus
<1>2. row' = [i \in Ids |-> IF rows[i].status = "superseded" /\ i \notin Promised
                            THEN NoRow ELSE rows[i]]
  BY DEF Write
<1>3. row' \in Rows
  BY <1>1, <1>2 DEF Rows
<1>4. ASSUME NEW i \in Ids
      PROVE  row[i] = NoRow => rows[i] = NoRow
  <2>1. rows[i] = [node |-> rows[i].node, status |-> rows[i].status]
    BY DEF Rows
  <2>2. QED
    BY <1>1, <2>1 DEF NoRow
<1>5. \A i \in Ids : /\ row'[i].status = "building" <=> row[i].status = "building"
                     /\ row'[i] # NoRow => /\ row'[i].node = row[i].node
                                           /\ row'[i].status # "absent"
                                           /\ row[i] # NoRow
                     /\ i \in Promised => row'[i] # NoRow
  BY <1>1, <1>2, <1>4 DEF Sound
<1>6. newer' = {p \in newer : row'[p[1]] # NoRow /\ row'[p[2]] # NoRow}
  BY DEF Write
<1>7. newer' \subseteq Ids \X Ids /\ InOrder'
  BY <1>5, <1>6, ForgetKeepsOrder DEF TypeOK
<1>8. QED
  BY <1>3, <1>5, <1>7

\* What supersedes rows by id is such a write.
LEMMA SupersedeEffect ==
  ASSUME TypeOK, Sound, NEW ids \in SUBSET Ids, \A i \in ids : row[i].status # "building",
         Supersede(ids)
  PROVE  /\ row' \in Rows /\ newer' \subseteq Ids \X Ids /\ InOrder'
         /\ \A i \in Ids : /\ row'[i].status = "building" <=> row[i].status = "building"
                           /\ row'[i] # NoRow => /\ row'[i].node = row[i].node
                                                 /\ row'[i].status # "absent"
                                                 /\ row[i] # NoRow
                           /\ i \in Promised => row'[i] # NoRow
<1> DEFINE rows == [i \in Ids |-> IF i \in ids /\ row[i] # NoRow
                                  THEN [row[i] EXCEPT !.status = "superseded"] ELSE row[i]]
<1>1. row \in Rows
  BY DEF TypeOK, Rows
<1>2. rows \in Rows
  BY <1>1 DEF Rows, RowStatus
<1>3. \A i \in Ids : /\ rows[i].status = "building" <=> row[i].status = "building"
                     /\ rows[i].node = row[i].node
                     /\ rows[i].status = "absent" <=> row[i].status = "absent"
  BY <1>1 DEF Rows, Sound
<1>4. Write(rows)
  BY DEF Supersede
<1> HIDE DEF rows
<1>5. QED
  BY <1>2, <1>3, <1>4, WriteEffect

\* So is the cutover.
LEMMA PromoteEffect ==
  ASSUME TypeOK, Sound, NEW n \in Nodes, Promote(n)
  PROVE  /\ row' \in Rows /\ newer' \subseteq Ids \X Ids /\ InOrder'
         /\ \A i \in Ids : /\ row'[i].status = "building" <=> row[i].status = "building"
                           /\ row'[i] # NoRow => /\ row'[i].node = row[i].node
                                                 /\ row'[i].status # "absent"
                                                 /\ row[i] # NoRow
                           /\ i \in Promised => row'[i] # NoRow
<1>1. PICK i \in hb[n].todo :
        Write([j \in Ids |->
                IF j = i THEN [row[j] EXCEPT !.status = "running"]
                ELSE IF j \in LiveRows THEN [row[j] EXCEPT !.status = "superseded"]
                ELSE row[j]])
  BY DEF Promote
<1> DEFINE rows == [j \in Ids |->
                IF j = i THEN [row[j] EXCEPT !.status = "running"]
                ELSE IF j \in LiveRows THEN [row[j] EXCEPT !.status = "superseded"]
                ELSE row[j]]
<1>2. row \in Rows
  BY DEF TypeOK, Rows
<1>3. i \in Promised /\ i \in Ids
  BY DEF Promised, TypeOK
<1>4. row[i].status \notin {"absent", "building"}
  BY <1>3 DEF Sound, Named
<1>5. rows \in Rows
  BY <1>2 DEF Rows, RowStatus
<1>6. \A j \in Ids : /\ rows[j].status = "building" <=> row[j].status = "building"
                     /\ rows[j].node = row[j].node
                     /\ rows[j].status = "absent" <=> row[j].status = "absent"
  BY <1>2, <1>4 DEF Rows, LiveRows, Live
<1>7. Write(rows)
  BY <1>1
<1> HIDE DEF rows
<1>8. QED
  BY <1>5, <1>6, <1>7, WriteEffect

\* What the variables other than the table may be.
PassType == [pc : {"idle", "count", "excess", "remove", "place", "insert", "invalidate"},
             want : Counts \cup {0}, short : Nat, taken : SUBSET Nodes,
             target : Nodes \cup {NoNode}, excess : SUBSET Ids]

StopType == [pc : {"idle", "write", "invalidate"}, rows : SUBSET Ids]

HandlersTyped ==
    /\ wanted \in Counts /\ silent \in BOOLEAN /\ pass \in PassType
    /\ hb \in [Nodes -> [todo : SUBSET Ids, invalidate : BOOLEAN]]
    /\ stopping \in StopType
    /\ cache \in {Absent} \cup {Answer(rows) : rows \in SUBSET Ids}
    /\ looking \in [Requests -> [busy : BOOLEAN, rows : SUBSET Ids]]
    /\ used \subseteq Events \X Nat

\* A handler that reads, on which the table and the builds stay as they are.
LEMMA ReadersKeep ==
  ASSUME TypeOK, Sound, UNCHANGED <<row, newer, flight>>, HandlersTyped', used \subseteq used',
         \A i \in Ids : i \in Promised' => i \in Promised \/ row[i].status = "deploying",
         \A i \in Ids : i \in Named' => i \in Named \/ row[i].status \in Live,
         pass'.pc = "insert" => pass'.target \in Nodes
  PROVE  TypeOK' /\ Sound'
<1>1. InOrder'
  BY DEF TypeOK, InOrder
<1>2. Happened("restarts")' = {} => Happened("restarts") = {}
  BY DEF Happened
<1>3. TypeOK'
  BY <1>1, <1>2 DEF TypeOK, HandlersTyped, PassType, StopType
<1>4. \A i \in Ids : row[i].status = "deploying" => row[i] # NoRow
  BY DEF NoRow
<1>5. Sound'
  BY <1>4 DEF Sound, Live
<1>6. QED
  BY <1>3, <1>5

\* A write by id, after which fewer rows are named.
LEMMA WritersKeep ==
  ASSUME TypeOK, Sound, row' \in Rows, newer' \subseteq Ids \X Ids, InOrder',
         \A i \in Ids : /\ row'[i].status = "building" <=> row[i].status = "building"
                        /\ row'[i] # NoRow => /\ row'[i].node = row[i].node
                                              /\ row'[i].status # "absent"
                                              /\ row[i] # NoRow
                        /\ i \in Promised => row'[i] # NoRow,
         UNCHANGED <<flight, used>>, HandlersTyped', Named' \subseteq Named,
         Promised' \subseteq Promised, pass'.pc # "insert"  \/ UNCHANGED pass
  PROVE  TypeOK' /\ Sound'
<1>1. Happened("restarts")' = Happened("restarts")
  BY DEF Happened
<1>2. TypeOK'
  BY <1>1 DEF TypeOK, HandlersTyped, PassType, StopType, Rows
<1>3. Sound'
  BY DEF Sound, TypeOK
<1>4. QED
  BY <1>2, <1>3

\* What happens is one of the events.
LEMMA SpendTypes ==
  ASSUME ServingAssumption, used \subseteq Events \X Nat, IsFiniteSet(used),
         NEW kind, Spend(kind)
  PROVE  used' \subseteq Events \X Nat /\ used \subseteq used'
<1>1. IsFiniteSet({u \in used : u[1] = kind})
  BY FS_Subset
<1>2. Cardinality({u \in used : u[1] = kind}) \in Nat
  BY <1>1, FS_CardinalityType
<1>3. kind \in Events
  BY DEF Spend, ServingAssumption
<1>4. used' = used \cup {<<kind, Cardinality({u \in used : u[1] = kind})>>}
  BY DEF Spend
<1>5. QED
  BY <1>2, <1>3, <1>4

\* The inserted row was nothing and is named by nothing that writes to rows.
LEMMA InsertEffect ==
  ASSUME TypeOK, Sound, NEW n \in Nodes, NEW status \in {"building", "deploying"},
         Insert(n, status)
  PROVE  \E i \in Ids :
           /\ row[i] = NoRow /\ i \notin Named /\ i \notin flight
           /\ row' \in Rows /\ row'[i] = [node |-> n, status |-> status] /\ row'[i] # NoRow
           /\ \A j \in Ids \ {i} : row'[j] = row[j]
           /\ newer' \subseteq Ids \X Ids /\ InOrder'
           /\ flight' = IF status = "building" THEN flight \cup {i} ELSE flight
<1>1. PICK i \in Unused :
        /\ row' = [row EXCEPT ![i] = [node |-> n, status |-> status]]
        /\ newer' = newer \cup {i} \X {j \in Ids : row[j] # NoRow}
        /\ flight' = IF status = "building" THEN flight \cup {i} ELSE flight
  BY DEF Insert
<1>2. i \in Ids /\ row[i] = NoRow /\ i \notin pass.excess \cup stopping.rows
  BY DEF Unused
<1>3. i \notin Named /\ i \notin flight
  BY <1>2 DEF Named, Sound, NoRow
<1>4. /\ row' \in Rows /\ row'[i] = [node |-> n, status |-> status] /\ row'[i] # NoRow
      /\ \A j \in Ids \ {i} : row'[j] = row[j]
  BY <1>1, <1>2 DEF TypeOK, Rows, RowStatus, NoRow
<1>5. newer' \subseteq Ids \X Ids /\ InOrder'
  BY <1>1, <1>2, <1>4, InsertKeepsOrder DEF TypeOK
<1>6. QED
  BY <1>1, <1>2, <1>3, <1>4, <1>5

\* At first one row is live at most, and nothing is under way.
LEMMA InitTyped == ServingAssumption /\ Init => TypeOK /\ Sound
<1> SUFFICES ASSUME ServingAssumption, Init PROVE TypeOK /\ Sound
  OBVIOUS
<1>1. PICK i \in Ids, n \in Nodes, deployed \in BOOLEAN :
        /\ row = [j \in Ids |-> IF j = i /\ deployed THEN [node |-> n, status |-> "running"]
                                ELSE NoRow]
        /\ newer = {}
  BY DEF Init
<1>2. /\ row \in [Ids -> [node : Nodes \cup {NoNode}, status : RowStatus]]
      /\ \A j \in Ids : row[j].status # "building"
      /\ \A j \in Ids : row[j] # NoRow => row[j].node \in Nodes /\ row[j].status # "absent"
  BY <1>1 DEF NoRow, RowStatus
<1>3. InOrder
  BY <1>1 DEF InOrder
<1>4. HandlersTyped
  BY DEF Init, HandlersTyped, PassType, StopType, IdlePass, IdleBeat, IdleStop, NotLooking
<1>5. Named = {} /\ Promised = {}
  BY DEF Init, Named, Promised, IdlePass, IdleBeat, IdleStop
<1>6. flight = {} /\ pass.pc = "idle"
  BY DEF Init, IdlePass
<1>7. Cardinality(flight) <= 1
  BY <1>6, FS_EmptySet
<1>8. TypeOK
  BY <1>1, <1>2, <1>3, <1>4, <1>6, <1>7 DEF TypeOK, HandlersTyped, PassType, StopType
<1>9. Sound
  BY <1>2, <1>5, <1>6 DEF Sound
<1>10. QED
  BY <1>8, <1>9

\* Every step keeps the types and what the handlers know.
LEMMA NextTyped ==
  ServingAssumption /\ IInv /\ TypeOK /\ Sound /\ [Next]_vars => TypeOK' /\ Sound'
<1> SUFFICES ASSUME ServingAssumption, IInv, TypeOK, Sound, [Next]_vars
             PROVE  TypeOK' /\ Sound'
  OBVIOUS
<1>1. Given /\ Shape
  BY DEF ServingAssumption, Given, IInv
<1>2. HandlersTyped
  BY DEF TypeOK, HandlersTyped, PassType, StopType
<1>3. IsFiniteSet(used) /\ used \subseteq Events \X Nat
  BY <1>1 DEF Shape, TypeOK
<1>4. ASSUME PassBegin PROVE TypeOK' /\ Sound'
  <2>1. UNCHANGED <<row, newer, flight, wanted, silent, hb, stopping, cache, looking, used>>
    BY <1>4 DEF PassBegin, table, ingress, handlers
  <2>2. pass' \in PassType /\ pass'.excess = {} /\ pass'.pc # "insert"
    BY <1>2, <1>4 DEF PassBegin, IdlePass, HandlersTyped, PassType
  <2>3. HandlersTyped'
    BY <1>2, <2>1, <2>2 DEF HandlersTyped
  <2>4. Promised' = Promised /\ Named' \subseteq Named
    BY <1>2, <1>4, <2>1, <2>2 DEF Promised, Named
  <2>5. QED
    BY <2>1, <2>2, <2>3, <2>4, ReadersKeep DEF Sound
<1>5. ASSUME PassExcess PROVE TypeOK' /\ Sound'
  <2>1. UNCHANGED <<row, newer, flight, wanted, silent, hb, stopping, cache, looking, used>>
    BY <1>5 DEF PassExcess, table, ingress, handlers
  <2>2. Newest(LiveRows, pass.short) \subseteq LiveRows /\ LiveRows \subseteq Ids
    BY <1>2, <1>5 DEF Newest, LiveRows
  <2>3. /\ pass' \in PassType /\ pass'.pc # "insert"
        /\ pass'.excess = Newest(LiveRows, pass.short)
    BY <1>2, <1>5, <2>2 DEF PassExcess, HandlersTyped, PassType
  <2>4. HandlersTyped'
    BY <1>2, <2>1, <2>2, <2>3 DEF HandlersTyped
  <2>5. /\ Promised' = Promised
        /\ \A i \in Ids : i \in Named' => i \in Named \/ row[i].status \in Live
    BY <1>2, <1>5, <2>1, <2>2, <2>3 DEF Promised, Named, LiveRows
  <2>6. QED
    BY <2>1, <2>2, <2>3, <2>4, <2>5, ReadersKeep DEF Sound
<1>6. ASSUME PassInvalidate PROVE TypeOK' /\ Sound'
  <2>1. UNCHANGED <<row, newer, flight, wanted, silent, hb, stopping, looking, used>>
    BY <1>6 DEF PassInvalidate, table, ingress, handlers
  <2>2. pass' \in PassType /\ pass'.excess = {} /\ pass'.pc # "insert"
    BY <1>2, <1>6 DEF PassInvalidate, IdlePass, HandlersTyped, PassType
  <2>3. cache' = Absent
    BY <1>2, <1>6 DEF PassInvalidate, Invalidate
  <2>4. HandlersTyped'
    BY <1>2, <2>1, <2>2, <2>3 DEF HandlersTyped
  <2>5. Promised' = Promised /\ Named' \subseteq Named
    BY <1>2, <1>6, <2>1, <2>2 DEF Promised, Named
  <2>6. QED
    BY <2>1, <2>2, <2>3, <2>4, <2>5, ReadersKeep DEF Sound
<1>7. ASSUME NEW n \in Nodes, Beat(n) PROVE TypeOK' /\ Sound'
  <2>1. UNCHANGED <<row, newer, flight, wanted, silent, pass, stopping, cache, looking, used>>
    BY <1>7 DEF Beat, table, ingress, handlers
  <2>2. /\ hb' \in [Nodes -> [todo : SUBSET Ids, invalidate : BOOLEAN]]
        /\ \A m \in Nodes : \A i \in hb'[m].todo :
             i \in hb[m].todo \/ row[i].status = "deploying"
    BY <1>2, <1>7 DEF Beat, HandlersTyped
  <2>3. HandlersTyped'
    BY <1>2, <2>1, <2>2 DEF HandlersTyped
  <2>4. /\ \A i \in Ids : i \in Promised' => i \in Promised \/ row[i].status = "deploying"
        /\ \A i \in Ids : i \in Named' => i \in Named \/ row[i].status \in Live
    BY <1>2, <1>7, <2>1, <2>2 DEF Promised, Named, Live
  <2>5. QED
    BY <2>1, <2>2, <2>3, <2>4, ReadersKeep DEF Sound
<1>8. ASSUME NEW n \in Nodes, BeatInvalidate(n) PROVE TypeOK' /\ Sound'
  <2>1. UNCHANGED <<row, newer, flight, wanted, silent, pass, stopping, looking, used>>
    BY <1>8 DEF BeatInvalidate, table, ingress, handlers
  <2>2. /\ hb' \in [Nodes -> [todo : SUBSET Ids, invalidate : BOOLEAN]]
        /\ \A m \in Nodes : hb'[m].todo = hb[m].todo
    BY <1>2, <1>8 DEF BeatInvalidate, HandlersTyped
  <2>3. cache' = Absent
    BY <1>2, <1>8 DEF BeatInvalidate, Invalidate
  <2>4. HandlersTyped'
    BY <1>2, <2>1, <2>2, <2>3 DEF HandlersTyped
  <2>5. Promised' = Promised /\ Named' = Named
    BY <1>2, <1>8, <2>1, <2>2 DEF Promised, Named
  <2>6. QED
    BY <2>1, <2>2, <2>3, <2>4, <2>5, ReadersKeep DEF Sound
<1>9. ASSUME Stop PROVE TypeOK' /\ Sound'
  <2>1. UNCHANGED <<row, newer, flight, wanted, silent, pass, hb, cache, looking>>
    BY <1>9 DEF Stop, table, ingress, handlers
  <2>2. stopping' \in StopType /\ stopping'.rows = LiveRows
    BY <1>2, <1>9 DEF Stop, LiveRows, StopType
  <2>3. used' \subseteq Events \X Nat /\ used \subseteq used'
    BY <1>3, <1>9, SpendTypes DEF Stop
  <2>4. HandlersTyped'
    BY <1>2, <2>1, <2>2, <2>3 DEF HandlersTyped
  <2>5. /\ Promised' = Promised
        /\ \A i \in Ids : i \in Named' => i \in Named \/ row[i].status \in Live
    BY <1>2, <1>9, <2>1, <2>2 DEF Promised, Named, LiveRows
  <2>6. QED
    BY <2>1, <2>2, <2>3, <2>4, <2>5, ReadersKeep DEF Sound
<1>10. ASSUME StopInvalidate PROVE TypeOK' /\ Sound'
  <2>1. UNCHANGED <<row, newer, flight, wanted, silent, pass, hb, looking, used>>
    BY <1>10 DEF StopInvalidate, table, ingress, handlers
  <2>2. stopping' \in StopType /\ stopping'.rows = {}
    BY <1>2, <1>10 DEF StopInvalidate, IdleStop, StopType
  <2>3. cache' = Absent
    BY <1>2, <1>10 DEF StopInvalidate, Invalidate
  <2>4. HandlersTyped'
    BY <1>2, <2>1, <2>2, <2>3 DEF HandlersTyped
  <2>5. Promised' = Promised /\ Named' \subseteq Named
    BY <1>2, <1>10, <2>1, <2>2 DEF Promised, Named
  <2>6. QED
    BY <2>1, <2>2, <2>3, <2>4, <2>5, ReadersKeep DEF Sound
<1>11. ASSUME Scale PROVE TypeOK' /\ Sound'
  <2>1. UNCHANGED <<row, newer, silent, flight, pass, hb, stopping, cache, looking>>
    BY <1>11 DEF Scale, table, ingress, handlers
  <2>2. wanted' \in Counts
    BY <1>2, <1>11 DEF Scale
  <2>3. used' \subseteq Events \X Nat /\ used \subseteq used'
    BY <1>3, <1>11, SpendTypes DEF Scale
  <2>4. HandlersTyped'
    BY <1>2, <2>1, <2>2, <2>3 DEF HandlersTyped
  <2>5. Promised' = Promised /\ Named' = Named
    BY <1>2, <1>11, <2>1 DEF Promised, Named
  <2>6. QED
    BY <2>1, <2>2, <2>3, <2>4, <2>5, ReadersKeep DEF Sound
<1>12. ASSUME NEW q \in Requests, Lookup(q) PROVE TypeOK' /\ Sound'
  <2>1. UNCHANGED <<row, newer, flight, wanted, silent, pass, hb, stopping, cache, used>>
    BY <1>12 DEF Lookup, table, ingress, handlers
  <2>2. Best \in SUBSET Ids
    BY <1>2, <1>12 DEF Best, LiveRows
  <2>3. looking' \in [Requests -> [busy : BOOLEAN, rows : SUBSET Ids]]
    BY <1>2, <1>12, <2>2 DEF Lookup, HandlersTyped
  <2>4. HandlersTyped'
    BY <1>2, <2>1, <2>2, <2>3 DEF HandlersTyped
  <2>5. Promised' = Promised /\ Named' = Named
    BY <1>2, <1>12, <2>1 DEF Promised, Named
  <2>6. QED
    BY <2>1, <2>2, <2>3, <2>4, <2>5, ReadersKeep DEF Sound
<1>13. ASSUME NEW q \in Requests, Store(q) PROVE TypeOK' /\ Sound'
  <2>1. UNCHANGED <<row, newer, flight, wanted, silent, pass, hb, stopping, used>>
    BY <1>13 DEF Store, table, ingress, handlers
  <2>2. looking' \in [Requests -> [busy : BOOLEAN, rows : SUBSET Ids]]
    BY <1>2, <1>13 DEF Store, NotLooking, HandlersTyped
  <2>3. cache' = Answer(looking[q].rows) /\ looking[q].rows \in SUBSET Ids
    BY <1>2, <1>13 DEF Store, HandlersTyped
  <2>4. HandlersTyped'
    BY <1>2, <2>1, <2>2, <2>3 DEF HandlersTyped
  <2>5. Promised' = Promised /\ Named' = Named
    BY <1>2, <1>13, <2>1 DEF Promised, Named
  <2>6. QED
    BY <2>1, <2>2, <2>3, <2>4, <2>5, ReadersKeep DEF Sound
<1>14. ASSUME Expire PROVE TypeOK' /\ Sound'
  <2>1. UNCHANGED <<row, newer, flight, wanted, silent, pass, hb, stopping, looking, used>>
    BY <1>14 DEF Expire, table, ingress, handlers
  <2>2. cache' = Absent
    BY <1>2, <1>14 DEF Expire
  <2>3. HandlersTyped'
    BY <1>2, <2>1, <2>2 DEF HandlersTyped
  <2>4. Promised' = Promised /\ Named' = Named
    BY <1>2, <1>14, <2>1 DEF Promised, Named
  <2>5. QED
    BY <2>1, <2>2, <2>3, <2>4, ReadersKeep DEF Sound
<1>15. ASSUME PassCount PROVE TypeOK' /\ Sound'
  <2>1. Cardinality(LiveRows) \in Nat /\ pass.want \in Nat /\ pass.want \in Counts
    BY <1>1, <1>15, CountsAreNumbers DEF PassCount, Shape, Given
  <2>2. {row[i].node : i \in LiveRows} \subseteq Nodes
    BY DEF Sound, LiveRows, Live, NoRow
  <2>3. pass' \in PassType /\ pass'.pc # "insert" /\ pass'.excess \subseteq pass.excess
    <3>1. CASE pass' = IdlePass
      BY <1>2, <3>1 DEF IdlePass, HandlersTyped, PassType
    <3>2. CASE /\ Cardinality(LiveRows) > pass.want
               /\ pass' = [pass EXCEPT !.pc = "excess",
                                       !.short = Cardinality(LiveRows) - pass.want]
      <4>1. Cardinality(LiveRows) - pass.want \in Nat
        BY <2>1, <3>2
      <4>2. QED
        BY <1>2, <3>2, <4>1 DEF HandlersTyped, PassType
    <3>3. CASE /\ Cardinality(LiveRows) <= pass.want
               /\ pass' = [pass EXCEPT !.pc = "place",
                                       !.short = pass.want - Cardinality(LiveRows),
                                       !.taken = {row[i].node : i \in LiveRows}]
      <4>1. pass.want - Cardinality(LiveRows) \in Nat
        BY <2>1, <3>3
      <4>2. QED
        BY <1>2, <2>2, <3>3, <4>1 DEF HandlersTyped, PassType
    <3>4. QED
      BY <1>15, <2>1, <3>1, <3>2, <3>3 DEF PassCount
  <2>4. HandlersTyped' /\ Promised' = Promised /\ UNCHANGED <<row, newer, flight, used>>
    BY <1>2, <1>15, <2>3 DEF PassCount, table, ingress, HandlersTyped, Promised
  <2>5. Named' \subseteq Named
    BY <1>15, <2>3 DEF PassCount, Named, Promised
  <2>6. QED
    BY <2>3, <2>4, <2>5, ReadersKeep
<1>16. ASSUME PassPlace PROVE TypeOK' /\ Sound'
  <2>1. /\ pass' = [pass EXCEPT !.pc = "invalidate"]
        \/ \E n \in Nodes : pass' = [pass EXCEPT !.pc = "insert", !.target = n]
    BY <1>16, PlacedInFleet DEF PassPlace
  <2>2. /\ pass' \in PassType /\ pass'.excess = pass.excess
        /\ pass'.pc = "insert" => pass'.target \in Nodes
    BY <1>2, <2>1 DEF HandlersTyped, PassType
  <2>3. UNCHANGED <<row, newer, wanted, silent, hb, flight, stopping, cache, looking, used>>
    BY <1>16 DEF PassPlace, table, ingress
  <2>4. HandlersTyped' /\ Promised' = Promised /\ Named' = Named
    BY <1>2, <2>2, <2>3 DEF HandlersTyped, Promised, Named
  <2>5. QED
    BY <2>2, <2>3, <2>4, ReadersKeep
<1>17. ASSUME PassRemove PROVE TypeOK' /\ Sound'
  <2>1. /\ pass' \in PassType /\ pass'.excess = pass.excess /\ pass'.pc # "insert"
    BY <1>2, <1>17 DEF PassRemove, HandlersTyped, PassType
  <2>2. UNCHANGED <<wanted, silent, hb, flight, stopping, cache, looking, used>>
    BY <1>17 DEF PassRemove, ingress
  <2>3. HandlersTyped' /\ Promised' = Promised /\ Named' = Named
    BY <1>2, <2>1, <2>2 DEF HandlersTyped, Promised, Named
  <2>4. pass.excess \in SUBSET Ids /\ \A i \in pass.excess : row[i].status # "building"
    BY <1>2 DEF HandlersTyped, PassType, Sound, Named
  <2>5. Supersede(pass.excess)
    BY <1>17 DEF PassRemove
  <2>6. QED
    BY <2>1, <2>2, <2>3, <2>4, <2>5, SupersedeEffect, WritersKeep
<1>18. ASSUME StopWrite PROVE TypeOK' /\ Sound'
  <2>1. stopping' \in StopType /\ stopping'.rows = stopping.rows
    BY <1>2, <1>18 DEF StopWrite, HandlersTyped, StopType
  <2>2. UNCHANGED <<wanted, silent, pass, hb, flight, cache, looking, used>>
    BY <1>18 DEF StopWrite, ingress
  <2>3. HandlersTyped' /\ Promised' = Promised /\ Named' = Named
    BY <1>2, <2>1, <2>2 DEF HandlersTyped, Promised, Named
  <2>4. stopping.rows \in SUBSET Ids /\ \A i \in stopping.rows : row[i].status # "building"
    BY <1>2 DEF HandlersTyped, StopType, Sound, Named
  <2>5. Supersede(stopping.rows)
    BY <1>18 DEF StopWrite
  <2>6. QED
    BY <2>2, <2>3, <2>4, <2>5, SupersedeEffect, WritersKeep
<1>19. ASSUME NEW n \in Nodes, Promote(n) PROVE TypeOK' /\ Sound'
  <2>1. /\ hb' \in [Nodes -> [todo : SUBSET Ids, invalidate : BOOLEAN]]
        /\ \A m \in Nodes : hb'[m].todo \subseteq hb[m].todo
    BY <1>2, <1>19 DEF Promote, HandlersTyped
  <2>2. UNCHANGED <<wanted, silent, pass, flight, stopping, cache, looking, used>>
    BY <1>19 DEF Promote, ingress
  <2>3. Promised' \subseteq Promised
    BY <2>1 DEF Promised
  <2>4. HandlersTyped' /\ Named' \subseteq Named
    BY <1>2, <2>1, <2>2, <2>3 DEF HandlersTyped, Named
  <2>5. QED
    BY <1>19, <2>2, <2>3, <2>4, PromoteEffect, WritersKeep
<1>20. ASSUME PassInsert PROVE TypeOK' /\ Sound'
  <2>1. pass.pc = "insert" /\ pass.target \in Nodes /\ Insert(pass.target, "deploying")
    BY <1>20 DEF PassInsert, Sound
  <2>2. PICK i \in Ids :
           /\ row[i] = NoRow /\ i \notin Named /\ i \notin flight
           /\ row' \in Rows /\ row'[i] = [node |-> pass.target, status |-> "deploying"]
           /\ row'[i] # NoRow
           /\ \A j \in Ids \ {i} : row'[j] = row[j]
           /\ newer' \subseteq Ids \X Ids /\ InOrder' /\ flight' = flight
    BY <2>1, InsertEffect
  <2>3. pass' \in PassType /\ pass'.excess = pass.excess /\ pass'.pc # "insert"
    <3>1. pass.short - 1 \in Nat
      BY <1>1, <2>1 DEF Shape
    <3>2. pass' = [pass EXCEPT !.pc = IF pass.short = 1 THEN "invalidate" ELSE "place",
                               !.short = pass.short - 1,
                               !.taken = pass.taken \cup {pass.target}]
      BY <1>20 DEF PassInsert
    <3>3. pass.taken \cup {pass.target} \in SUBSET Nodes
      BY <1>2, <2>1 DEF HandlersTyped, PassType
    <3>4. QED
      BY <1>2, <3>1, <3>2, <3>3 DEF HandlersTyped, PassType
  <2>4. UNCHANGED <<wanted, silent, hb, stopping, cache, looking, used>>
    BY <1>20 DEF PassInsert, ingress
  <2>5. HandlersTyped' /\ Promised' = Promised /\ Named' = Named
    BY <1>2, <2>3, <2>4 DEF HandlersTyped, Promised, Named
  <2>6. row[i].status = "absent"
    BY <2>2 DEF NoRow
  <2>7. {j \in Ids : row'[j].status = "building"} = {j \in Ids : row[j].status = "building"}
    BY <2>2, <2>6
  <2>8. TypeOK'
    BY <2>2, <2>4, <2>5, <2>7 DEF TypeOK, HandlersTyped, PassType, StopType, Rows, Happened
  <2>9. Sound'
    <3>1. \A j \in Ids : row'[j] # NoRow =>
            row'[j].node \in Nodes /\ row'[j].status # "absent"
      BY <2>1, <2>2 DEF Sound
    <3>2. \A j \in Ids : j \in Named' => row'[j].status # "building"
      BY <2>2, <2>5 DEF Sound
    <3>3. \A j \in Ids : j \in Promised' => row'[j] # NoRow
      BY <2>2, <2>5 DEF Sound
    <3>4. \A j \in flight' : row'[j].status = "building"
      BY <2>2 DEF Sound, TypeOK
    <3>5. QED
      BY <2>3, <3>1, <3>2, <3>3, <3>4 DEF Sound
  <2>10. QED
    BY <2>8, <2>9
<1>21. ASSUME Deploy PROVE TypeOK' /\ Sound'
  <2>1. PICK n \in Nodes : Insert(n, "building")
    BY <1>21, PlacedInFleet DEF Deploy
  <2>2. PICK i \in Ids :
           /\ row[i] = NoRow /\ i \notin Named /\ i \notin flight
           /\ row' \in Rows /\ row'[i] = [node |-> n, status |-> "building"]
           /\ row'[i] # NoRow
           /\ \A j \in Ids \ {i} : row'[j] = row[j]
           /\ newer' \subseteq Ids \X Ids /\ InOrder' /\ flight' = flight \cup {i}
    BY <2>1, InsertEffect
  <2>3. flight = {} /\ UNCHANGED <<wanted, silent, pass, hb, stopping, cache, looking>>
    BY <1>21 DEF Deploy, ingress
  <2>4. used' \subseteq Events \X Nat /\ used \subseteq used'
    BY <1>3, <1>21, SpendTypes DEF Deploy
  <2>5. HandlersTyped' /\ Promised' = Promised /\ Named' = Named
    BY <1>2, <2>3, <2>4 DEF HandlersTyped, Promised, Named
  <2>6. flight' = {i} /\ Cardinality(flight') <= 1
    <3>1. flight' = {i}
      BY <2>2, <2>3
    <3>2. Cardinality({i}) = 1
      BY FS_Singleton
    <3>3. QED
      BY <3>1, <3>2
  <2>7. {j \in Ids : row'[j].status = "building"}
          = {j \in Ids : row[j].status = "building"} \cup {i}
    BY <2>2
  <2>8. Happened("restarts")' = {} => Happened("restarts") = {}
    BY <2>4 DEF Happened
  <2>9. TypeOK'
    BY <2>2, <2>3, <2>5, <2>6, <2>7, <2>8
    DEF TypeOK, HandlersTyped, PassType, StopType, Rows
  <2>10. Sound'
    BY <2>2, <2>3, <2>5, <2>6 DEF Sound
  <2>11. QED
    BY <2>9, <2>10
<1>22. ASSUME DeployFinish PROVE TypeOK' /\ Sound'
  <2>1. PICK i \in flight : row' = [row EXCEPT ![i].status = "deploying"]
    BY <1>22 DEF DeployFinish
  <2>2. /\ flight' = {}
        /\ UNCHANGED <<newer, wanted, silent, pass, hb, stopping, cache, looking, used>>
    BY <1>22 DEF DeployFinish, ingress
  <2>3. i \in Ids /\ row[i].status = "building" /\ row[i] # NoRow
    BY <2>1 DEF TypeOK, Sound, NoRow
  <2>4. /\ row' \in Rows /\ row'[i].status = "deploying" /\ row'[i].node = row[i].node
        /\ \A j \in Ids \ {i} : row'[j] = row[j]
    <3>1. row \in Rows /\ "deploying" \in RowStatus
      BY DEF TypeOK, Rows, RowStatus
    <3>2. QED
      BY <2>1, <2>3, <3>1 DEF Rows
  <2>5. \A j \in Ids : row'[j] = NoRow <=> row[j] = NoRow
    BY <2>3, <2>4 DEF NoRow
  <2>6. InOrder'
    BY <2>2, <2>5 DEF TypeOK, InOrder
  <2>7. IsFiniteSet(flight)
    BY <1>1, FS_Subset DEF TypeOK, Given
  <2>8. flight = {i}
    <3>1. ASSUME NEW j \in flight, j # i PROVE FALSE
      <4>1. {i, j} \subseteq flight
        BY <3>1
      <4>2. Cardinality({i, j}) = 2
        <5>1. IsFiniteSet({i}) /\ Cardinality({i}) = 1 /\ j \notin {i}
          BY <3>1, FS_Singleton
        <5>2. Cardinality({i} \cup {j}) = Cardinality({i}) + 1
          BY <5>1, FS_AddElement
        <5>3. {i, j} = {i} \cup {j}
          OBVIOUS
        <5>4. QED
          BY <5>1, <5>2, <5>3
      <4>3. Cardinality({i, j}) <= Cardinality(flight) /\ Cardinality(flight) \in Nat
        BY <2>7, <4>1, FS_Subset, FS_CardinalityType
      <4>4. QED
        BY <4>2, <4>3 DEF TypeOK
    <3>2. QED
      BY <3>1
  <2>9. Happened("restarts")' = {} => {j \in Ids : row'[j].status = "building"} = {}
    BY <2>2, <2>4, <2>8 DEF TypeOK, Happened
  <2>10. HandlersTyped' /\ Promised' = Promised /\ Named' = Named
    BY <1>2, <2>2 DEF HandlersTyped, Promised, Named
  <2>11. Cardinality(flight') <= 1
    BY <2>2, FS_EmptySet
  <2>12. TypeOK'
    BY <2>2, <2>4, <2>6, <2>9, <2>10, <2>11
    DEF TypeOK, HandlersTyped, PassType, StopType, Rows
  <2>13. Sound'
    BY <2>2, <2>3, <2>4, <2>5, <2>10 DEF Sound
  <2>14. QED
    BY <2>12, <2>13
<1>23. ASSUME Restart PROVE TypeOK' /\ Sound'
  <2>1. UNCHANGED <<row, newer, wanted, silent, cache>> /\ flight' = {} /\ pass'.pc = "idle"
    BY <1>23 DEF Restart, table, IdlePass
  <2>2. used' \subseteq Events \X Nat
    BY <1>3, <1>23, SpendTypes DEF Restart
  <2>3. Happened("restarts")' # {}
    <3>1. PICK c : used' = used \cup {<<"restarts", c>>}
      BY <1>23 DEF Restart, Spend
    <3>2. <<"restarts", c>> \in Happened("restarts")'
      BY <3>1 DEF Happened
    <3>3. QED
      BY <3>2
  <2>4. HandlersTyped'
    BY <1>2, <1>23, <2>1, <2>2
    DEF Restart, HandlersTyped, PassType, StopType, IdlePass, IdleBeat, IdleStop, NotLooking
  <2>5. Named' = {} /\ Promised' = {}
    BY <1>23 DEF Restart, Named, Promised, IdlePass, IdleBeat, IdleStop
  <2>6. InOrder' /\ Cardinality(flight') <= 1
    BY <2>1, FS_EmptySet DEF TypeOK, InOrder
  <2>7. TypeOK'
    BY <2>1, <2>3, <2>4, <2>6 DEF TypeOK, HandlersTyped, PassType, StopType
  <2>8. Sound'
    BY <2>1, <2>5 DEF Sound
  <2>9. QED
    BY <2>7, <2>8
<1>24. CASE UNCHANGED vars
  BY <1>2, <1>24, ReadersKeep
  DEF vars, HandlersTyped, PassType, StopType, Named, Promised, Sound
<1>25. ASSUME OtherNodes PROVE TypeOK' /\ Sound'
  <2>1. /\ UNCHANGED <<row, newer, wanted, flight, pass, hb, stopping, cache, looking, used>>
        /\ silent' = ~silent
    BY <1>25 DEF OtherNodes, ingress, handlers
  <2>2. HandlersTyped'
    BY <1>2, <2>1 DEF HandlersTyped
  <2>3. Promised' = Promised /\ Named' = Named
    BY <2>1 DEF Promised, Named
  <2>4. QED
    BY <2>1, <2>2, <2>3, ReadersKeep DEF Sound
<1>26. QED
  BY <1>4, <1>5, <1>6, <1>7, <1>8, <1>9, <1>10, <1>11, <1>12, <1>13, <1>14, <1>15, <1>16,
     <1>17, <1>18, <1>19, <1>20, <1>21, <1>22, <1>23, <1>24, <1>25
  DEF Next, Sweeper, Handler, Heartbeat

\* The types, the bound and what the handlers know hold throughout.
LEMMA Invariance == Spec => []TInv
<1>1. ServingAssumption => Given
  BY DEF ServingAssumption, Given
<1>2. Init => TInv
  BY <1>1, InitHolds, InitTyped, ServingAssumption DEF TInv
<1>3. TInv /\ [Next]_vars => TInv'
  BY <1>1, NextHolds, NextTyped, ServingAssumption DEF TInv
<1>4. QED
  BY <1>2, <1>3, PTL DEF Spec

\* The variables keep their types: of two rows that exist one is the newer, so that the
\* newest k are k rows, and as long as the process lives what is building is in flight.
THEOREM ServingTypes == Spec => []TypeOK
<1>1. TInv => TypeOK
  BY DEF TInv
<1>2. QED
  BY <1>1, Invariance, PTL

-----------------------------------------------------------------------------
(***************************************************************************)
(* Serving implements Releases                                             *)
(***************************************************************************)

\* What each status means to a release.
LEMMA Phases ==
  /\ PhaseOf("building") = "build" /\ PhaseOf("deploying") = "rollout"
  /\ PhaseOf("running") = "serving"
  /\ PhaseOf("absent") = "none" /\ PhaseOf("superseded") = "none"
  /\ \A s \in RowStatus :
        /\ PhaseOf(s) \in {"none", "build", "rollout", "serving"}
        /\ PhaseOf(s) = "build" <=> s = "building"
        /\ PhaseOf(s) = "serving" <=> s = "running"
        /\ PhaseOf(s) \in {"rollout", "serving"} <=> s \in Live
  BY DEF PhaseOf, RowStatus, Live

\* A step after which rows are what they were, or are over and were no builds.
LEMMA Ends ==
  ASSUME TypeOK, TypeOK',
         \A i \in Ids :
            \/ row'[i].status = row[i].status
            \/ row[i].status # "building" /\ row'[i].status \in {"absent", "superseded"}
  PROVE  Release!Next
<1> DEFINE ended == {i \in LiveRows : row'[i].status \notin Live}
<1>1. ended \subseteq Release!Alive
  BY Phases DEF Release!Alive, Release!Active, LiveRows, TypeOK
<1>2. ASSUME NEW i \in Ids
      PROVE  PhaseOf(row'[i].status) = IF i \in ended THEN "none" ELSE PhaseOf(row[i].status)
  <2>1. CASE row'[i].status = row[i].status
    BY <2>1 DEF LiveRows
  <2>2. CASE row[i].status # "building" /\ row'[i].status \in {"absent", "superseded"}
    <3>1. PhaseOf(row'[i].status) = "none" /\ row'[i].status \notin Live
      BY <2>2, Phases DEF Live
    <3>2. i \in ended <=> row[i].status \in Live
      BY <3>1 DEF LiveRows
    <3>3. row[i].status \in RowStatus
      BY DEF TypeOK
    <3>4. row[i].status \notin Live => PhaseOf(row[i].status) = "none"
      BY <2>2, <3>3, Phases DEF RowStatus, Live
    <3>5. QED
      BY <3>1, <3>2, <3>4
  <2>3. QED
    BY <2>1, <2>2
<1>3. [i \in Ids |-> PhaseOf(row[i].status)]'
         = [i \in Ids |-> IF i \in ended THEN "none"
                          ELSE [j \in Ids |-> PhaseOf(row[j].status)][i]]
  BY <1>2 DEF PhaseOf
<1>4. Release!End(ended)
  BY <1>1, <1>3 DEF Release!End
<1>5. QED
  BY <1>1, <1>4 DEF Release!Next, Release!Alive

\* One row enters a build or a rollout, and the others are what they were.
LEMMA Enters ==
  ASSUME TypeOK, NEW i \in Ids, \A j \in Ids \ {i} : row'[j].status = row[j].status,
         \/ row[i].status = "absent" /\ row'[i].status \in {"building", "deploying"}
         \/ row[i].status = "building" /\ row'[i].status = "deploying"
  PROVE  Release!Next
<1>1. ASSUME NEW j \in Ids
      PROVE  PhaseOf(row'[j].status) = IF j = i THEN PhaseOf(row'[i].status)
                                       ELSE PhaseOf(row[j].status)
  OBVIOUS
<1>2. CASE row[i].status = "absent" /\ row'[i].status = "building"
  <2>1. [j \in Ids |-> PhaseOf(row[j].status)]'
           = [[j \in Ids |-> PhaseOf(row[j].status)] EXCEPT ![i] = "build"]
    <3>1. \A j \in Ids : PhaseOf(row'[j].status) = IF j = i THEN "build" ELSE PhaseOf(row[j].status)
      BY <1>1, <1>2, Phases
    <3>2. QED
      BY <3>1 DEF PhaseOf
  <2>2. Release!Open(i)
    BY <1>2, <2>1, Phases DEF Release!Open
  <2>3. QED
    BY <2>2 DEF Release!Next
<1>3. CASE row[i].status \in {"absent", "building"} /\ row'[i].status = "deploying"
  <2>1. [j \in Ids |-> PhaseOf(row[j].status)]'
           = [j \in Ids |-> IF j = i THEN "rollout"
                            ELSE IF j \in {} THEN "none"
                            ELSE [k \in Ids |-> PhaseOf(row[k].status)][j]]
    <3>1. \A j \in Ids : PhaseOf(row'[j].status) = IF j = i THEN "rollout" ELSE PhaseOf(row[j].status)
      BY <1>1, <1>3, Phases
    <3>2. QED
      BY <3>1 DEF PhaseOf
  <2>2. Release!Roll(i, {})
    BY <1>3, <2>1, Phases DEF Release!Roll
  <2>3. QED
    BY <2>2 DEF Release!Next
<1>4. QED
  BY <1>2, <1>3

\* What is superseded by id is over, and the builds are not among it.
LEMMA SupersedeEnds ==
  ASSUME TypeOK, TypeOK', NEW ids, \A i \in ids : row[i].status # "building", Supersede(ids)
  PROVE  Release!Next
<1> DEFINE rows == [i \in Ids |-> IF i \in ids /\ row[i] # NoRow
                                  THEN [row[i] EXCEPT !.status = "superseded"] ELSE row[i]]
<1>1. row' = [i \in Ids |-> IF rows[i].status = "superseded" /\ i \notin Promised
                            THEN NoRow ELSE rows[i]]
  BY DEF Supersede, Write
<1>2. ASSUME NEW i \in Ids
      PROVE  \/ row'[i].status = row[i].status
             \/ row[i].status # "building" /\ row'[i].status \in {"absent", "superseded"}
  <2>1. rows[i].status = IF i \in ids /\ row[i] # NoRow THEN "superseded" ELSE row[i].status
    BY DEF TypeOK
  <2>2. row'[i].status = IF rows[i].status = "superseded" /\ i \notin Promised
                         THEN "absent" ELSE rows[i].status
    BY <1>1 DEF NoRow
  <2>3. QED
    BY <2>1, <2>2
<1>3. QED
  BY <1>2, Ends

\* The cutover, of a row that may be over by now.
LEMMA PromoteCuts ==
  ASSUME TypeOK, TypeOK', Sound, NEW n \in Nodes, Promote(n)
  PROVE  Release!Next
<1>1. PICK i \in hb[n].todo :
        Write([j \in Ids |->
                IF j = i THEN [row[j] EXCEPT !.status = "running"]
                ELSE IF j \in LiveRows THEN [row[j] EXCEPT !.status = "superseded"]
                ELSE row[j]])
  BY DEF Promote
<1> DEFINE rows == [j \in Ids |->
                IF j = i THEN [row[j] EXCEPT !.status = "running"]
                ELSE IF j \in LiveRows THEN [row[j] EXCEPT !.status = "superseded"]
                ELSE row[j]]
<1>2. i \in Ids /\ row[i].status # "building"
  BY DEF Sound, Named, Promised, TypeOK
<1>3. row' = [j \in Ids |-> IF rows[j].status = "superseded" /\ j \notin Promised
                            THEN NoRow ELSE rows[j]]
  BY <1>1 DEF Write
<1>4. ASSUME NEW j \in Ids
      PROVE  PhaseOf(row'[j].status)
                = IF j = i THEN "serving"
                  ELSE IF PhaseOf(row[j].status) = "build" THEN "build" ELSE "none"
  <2>1. rows[j].status = IF j = i THEN "running"
                         ELSE IF row[j].status \in Live THEN "superseded" ELSE row[j].status
    BY DEF TypeOK, LiveRows
  <2>2. row'[j].status = IF rows[j].status = "superseded" /\ j \notin Promised
                         THEN "absent" ELSE rows[j].status
    BY <1>3 DEF NoRow
  <2>3. row[j].status \in RowStatus
    BY DEF TypeOK
  <2>4. QED
    BY <2>1, <2>2, <2>3, Phases DEF RowStatus, Live
<1>5. [j \in Ids |-> PhaseOf(row[j].status)]'
         = [j \in Ids |-> IF j = i THEN "serving"
                          ELSE IF [k \in Ids |-> PhaseOf(row[k].status)][j] = "build"
                               THEN "build" ELSE "none"]
  BY <1>4 DEF PhaseOf
<1>6. PhaseOf(row[i].status) # "build"
  BY <1>2, Phases DEF TypeOK
<1>7. Release!Cutover(i)
  BY <1>2, <1>5, <1>6 DEF Release!Cutover
<1>8. QED
  BY <1>2, <1>7 DEF Release!Next

\* The service starts with one release that serves, or none.
LEMMA InitReleases == Init => Release!Init
<1> SUFFICES ASSUME Init PROVE Release!Init
  OBVIOUS
<1>1. PICK i \in Ids, n \in Nodes, deployed \in BOOLEAN :
        row = [j \in Ids |-> IF j = i /\ deployed THEN [node |-> n, status |-> "running"]
                             ELSE NoRow]
  BY DEF Init
<1>2. \A j \in Ids : /\ row[j].status \in {"running", "absent"}
                     /\ row[j].status = "running" => j = i
  BY <1>1 DEF NoRow
<1>3. QED
  BY <1>2 DEF Release!Init, Release!OneServing, PhaseOf

\* Every step is one of Releases', or none.
LEMMA NextReleases ==
  TInv /\ TInv' /\ [Next]_vars
    => [Release!Next]_<<[i \in Ids |-> PhaseOf(row[i].status)], {}>>
<1> SUFFICES ASSUME TInv, TInv', [Next]_vars PROVE Release!Next \/ row' = row
  BY DEF PhaseOf
<1>t. TypeOK /\ TypeOK' /\ Sound
  BY DEF TInv
<1>1. ASSUME PassRemove PROVE Release!Next
  BY <1>1, <1>t, SupersedeEnds DEF PassRemove, TypeOK, Sound, Named
<1>2. ASSUME StopWrite PROVE Release!Next
  BY <1>2, <1>t, SupersedeEnds DEF StopWrite, TypeOK, Sound, Named
<1>3. ASSUME NEW n \in Nodes, Promote(n) PROVE Release!Next
  BY <1>3, <1>t, PromoteCuts
<1>4. ASSUME NEW n \in Nodes, NEW status \in {"building", "deploying"}, Insert(n, status)
      PROVE  Release!Next
  <2>1. PICK i \in Ids :
           /\ row[i] = NoRow /\ row'[i] = [node |-> n, status |-> status]
           /\ \A j \in Ids \ {i} : row'[j] = row[j]
    BY <1>4, <1>t, InsertEffect
  <2>2. QED
    BY <2>1, <1>t, Enters DEF NoRow
<1>5. ASSUME PassInsert PROVE Release!Next
  BY <1>4, <1>5, <1>t DEF PassInsert, Sound
<1>6. ASSUME Deploy PROVE Release!Next
  BY <1>4, <1>6, PlacedInFleet DEF Deploy
<1>7. ASSUME DeployFinish PROVE Release!Next
  <2>1. PICK i \in flight : row' = [row EXCEPT ![i].status = "deploying"]
    BY <1>7 DEF DeployFinish
  <2>2. i \in Ids /\ row[i].status = "building"
    BY <1>t DEF TypeOK, Sound
  <2>3. row'[i].status = "deploying" /\ \A j \in Ids \ {i} : row'[j] = row[j]
    BY <2>1, <2>2, <1>t DEF TypeOK
  <2>4. QED
    BY <2>2, <2>3, <1>t, Enters
<1>8. CASE \/ PassBegin \/ PassCount \/ PassExcess \/ PassPlace \/ PassInvalidate
           \/ StopInvalidate \/ Expire \/ Stop \/ Scale \/ OtherNodes \/ Restart
           \/ UNCHANGED vars
           \/ \E n \in Nodes : Beat(n) \/ BeatInvalidate(n)
           \/ \E q \in Requests : Store(q) \/ Lookup(q)
  BY <1>8
  DEF PassBegin, PassCount, PassExcess, PassPlace, PassInvalidate, StopInvalidate, Expire,
      Stop, Scale, OtherNodes, Restart, Beat, BeatInvalidate, Store, Lookup, vars, table
<1>9. QED
  BY <1>1, <1>2, <1>3, <1>5, <1>6, <1>7, <1>8 DEF Next, Sweeper, Handler, Heartbeat

\* The replica pass, the promotions it provokes, deploys and stops do to the releases of
\* a service what module Releases allows, and never a rescue.
THEOREM ServingKeepsReleases == Spec => KeepsReleases
<1>1. QED
  BY Invariance, InitReleases, NextReleases, PTL DEF Spec, KeepsReleases, Release!Spec

\* Without a rescue, what Releases allows leaves one release serving.
LEMMA OneServingKept ==
  Release!OneServing /\ [Release!Next]_<<[i \in Ids |-> PhaseOf(row[i].status)], {}>>
    => Release!OneServing'
<1> DEFINE phase == [i \in Ids |-> PhaseOf(row[i].status)]
<1> SUFFICES ASSUME \A q, r \in Ids : phase[q] = "serving" /\ phase[r] = "serving" => q = r,
                    Release!Next \/ phase' = phase
             PROVE  \A q, r \in Ids : phase'[q] = "serving" /\ phase'[r] = "serving" => q = r
  BY DEF Release!OneServing, PhaseOf
<1> DEFINE OneLeft ==
      \A q, r \in Ids : phase'[q] = "serving" /\ phase'[r] = "serving" => q = r
<1>1. CASE \E r \in Ids : Release!Cutover(r)
  <2>1. PICK r \in Ids :
          phase' = [q \in Ids |-> IF q = r THEN "serving"
                                 ELSE IF phase[q] = "build" THEN "build" ELSE "none"]
    BY <1>1 DEF Release!Cutover
  <2>2. \A q \in Ids : phase'[q] = "serving" => q = r
    <3> HIDE DEF phase
    <3>1. QED
      BY <2>1
  <2>3. QED
    BY <2>2
<1> DEFINE Kept == \A q \in Ids : phase'[q] = "serving" => phase[q] = "serving"
<1>2. CASE phase' = phase \/ Release!Judge
  BY <1>2 DEF Release!Judge
<1>3. ASSUME NEW r \in Ids, Release!Open(r) \/ Release!Abandon(r) PROVE Kept
  BY <1>3 DEF Release!Open, Release!Abandon
<1>4. ASSUME NEW r \in Ids, Release!Rescue(r) PROVE FALSE
  BY <1>4 DEF Release!Rescue
<1>5. ASSUME NEW ended \in SUBSET Ids, Release!End(ended) PROVE Kept
  BY <1>5 DEF Release!End
<1>6. ASSUME NEW ended \in SUBSET Ids, NEW r \in Ids, Release!Roll(r, ended) PROVE Kept
  BY <1>6 DEF Release!Roll
<1>7. QED
  <2>1. (Release!Next \/ phase' = phase) /\ (Kept => OneLeft)
    OBVIOUS
  <2>2. QED
    BY <1>1, <1>2, <1>3, <1>4, <1>5, <1>6, <2>1, Zenon DEF Release!Next

\* A service never has two running copies: no manifest that asks for more can be met.
THEOREM NeverTwo == Spec => []OneRunning
<1>1. Init => Release!OneServing
  BY InitReleases DEF Release!Init
<1>2. TypeOK => (Release!OneServing => OneRunning)
  BY Phases DEF Release!OneServing, OneRunning, Running, TypeOK
<1>3. TInv => TypeOK
  BY DEF TInv
<1>4. QED
  BY <1>1, <1>2, <1>3, Invariance, NextReleases, OneServingKept, PTL DEF Spec

-----------------------------------------------------------------------------
(***************************************************************************)
(* Where the copies are                                                    *)
(***************************************************************************)
\* The node meets every hard constraint of the service, whatever of it is there already.
Meets(n) == Rejections(Service, n, Fleet[n], Others, Shuns) = {}

\* Every copy is where the scheduler would put it, and so is the one that is chosen.
WellPlaced ==
    /\ \A i \in Ids : row[i] # NoRow => Meets(row[i].node)
    /\ pass.pc = "insert" => Meets(pass.target)

\* A node with more committed is refused for all it was refused for; its load is no reason.
LEMMA CommittedRejects ==
  ASSUME NEW service, service.ram \in Nat, NEW id, NEW placements, NEW shuns,
         NEW node, NEW snap, node.ram \in Nat, node.committed \in Nat, snap.committed \in Nat,
         snap.status = node.status, snap.arch = node.arch, snap.gpu = node.gpu,
         snap.tier = node.tier, snap.tags = node.tags, snap.ram = node.ram,
         node.committed <= snap.committed
  PROVE  Rejections(service, id, node, placements, shuns)
            \subseteq Rejections(service, id, snap, placements, shuns)
<1>1. freeRam(snap) <= freeRam(node) /\ freeRam(snap) \in Nat /\ freeRam(node) \in Nat
  BY DEF freeRam
<1>2. freeRam(node) < service.ram => freeRam(snap) < service.ram
  BY <1>1
<1>3. QED
  BY <1>2 DEF Rejections

\* What is chosen for the service meets its constraints.
LEMMA PlacedMeets ==
  ASSUME ServingAssumption, Given, Shape, NEW load, DOMAIN load \subseteq Nodes,
         NEW n \in Placed(load)
  PROVE  n \in Nodes /\ Meets(n)
<1> DEFINE here == {i \in LiveRows : row[i].node = n}
<1>1. n \in DOMAIN load /\ n \in Nodes
  BY PlacedInFleet
<1>2. Rejections(Service, n, Snapshot(load)[n], Others, Shuns) = {}
  BY DEF Placed, place, filterNodes
<1>3. Snapshot(load)[n]
        = [Fleet[n] EXCEPT !.load = load[n], !.committed = @ + Service.ram * Cardinality(here)]
  BY <1>1 DEF Snapshot
<1>4. Cardinality(here) \in Nat
  <2>1. IsFiniteSet(LiveRows)
    BY CountsAreNumbers
  <2>2. QED
    BY <2>1, FS_Subset, FS_CardinalityType
<1>5. Service.ram * Cardinality(here) \in Nat
  BY <1>4 DEF ServingAssumption
<1>6. Fleet[n] \in NodeSnapshot /\ Service.ram \in Nat
  BY <1>1 DEF ServingAssumption
<1>7. /\ Snapshot(load)[n].status = Fleet[n].status /\ Snapshot(load)[n].arch = Fleet[n].arch
      /\ Snapshot(load)[n].gpu = Fleet[n].gpu /\ Snapshot(load)[n].tier = Fleet[n].tier
      /\ Snapshot(load)[n].tags = Fleet[n].tags /\ Snapshot(load)[n].ram = Fleet[n].ram
      /\ Snapshot(load)[n].committed = Fleet[n].committed + Service.ram * Cardinality(here)
      /\ Fleet[n].ram \in Nat /\ Fleet[n].committed \in Nat
  BY <1>3, <1>6 DEF NodeSnapshot
<1>8. /\ Snapshot(load)[n].committed \in Nat
      /\ Fleet[n].committed <= Snapshot(load)[n].committed
  BY <1>5, <1>7
<1>9. Rejections(Service, n, Fleet[n], Others, Shuns)
        \subseteq Rejections(Service, n, Snapshot(load)[n], Others, Shuns)
  BY <1>6, <1>7, <1>8, CommittedRejects
<1>10. QED
  BY <1>1, <1>2, <1>9 DEF Meets

\* At first the one release is where it may be.
LEMMA InitPlaced == Init => WellPlaced
<1> SUFFICES ASSUME Init PROVE WellPlaced
  OBVIOUS
<1>1. PICK i \in Ids, n \in Nodes, deployed \in BOOLEAN :
        /\ Rejections(Service, n, Fleet[n], Others, Shuns) = {}
        /\ row = [j \in Ids |-> IF j = i /\ deployed THEN [node |-> n, status |-> "running"]
                                ELSE NoRow]
  BY DEF Init
<1>2. QED
  BY <1>1 DEF Init, WellPlaced, Meets, IdlePass

\* Every step keeps the copies where they may be.
LEMMA NextPlaced ==
  ServingAssumption /\ Given /\ TInv /\ WellPlaced /\ [Next]_vars => WellPlaced'
<1> SUFFICES ASSUME ServingAssumption, Given, TInv, WellPlaced, [Next]_vars PROVE WellPlaced'
  OBVIOUS
<1>t. TypeOK /\ Sound /\ Shape
  BY DEF TInv, IInv
<1>p. pass \in PassType
  BY <1>t DEF TypeOK, PassType
<1>k. ASSUME \A i \in Ids : row'[i] # NoRow => row[i] # NoRow /\ row'[i].node = row[i].node,
             pass'.pc = "insert" => pass' = pass
      PROVE  WellPlaced'
  BY <1>k DEF WellPlaced, Meets
<1>1. ASSUME PassRemove PROVE WellPlaced'
  <2>1. pass.excess \in SUBSET Ids /\ \A i \in pass.excess : row[i].status # "building"
    BY <1>t DEF TypeOK, Sound, Named
  <2>2. Supersede(pass.excess) /\ pass'.pc # "insert"
    BY <1>1, <1>t DEF PassRemove, TypeOK
  <2>3. QED
    BY <1>k, <1>t, <2>1, <2>2, SupersedeEffect
<1>2. ASSUME StopWrite PROVE WellPlaced'
  <2>1. stopping.rows \in SUBSET Ids /\ \A i \in stopping.rows : row[i].status # "building"
    BY <1>t DEF TypeOK, Sound, Named
  <2>2. Supersede(stopping.rows) /\ pass' = pass
    BY <1>2 DEF StopWrite
  <2>3. QED
    BY <1>k, <1>t, <2>1, <2>2, SupersedeEffect
<1>3. ASSUME NEW n \in Nodes, Promote(n) PROVE WellPlaced'
  <2>1. pass' = pass
    BY <1>3 DEF Promote
  <2>2. QED
    BY <1>3, <1>k, <1>t, <2>1, PromoteEffect
<1>4. ASSUME NEW n \in Nodes, NEW status \in {"building", "deploying"}, Insert(n, status),
             Meets(n), pass'.pc # "insert" \/ pass' = pass
      PROVE  WellPlaced'
  <2>1. PICK i \in Ids :
           /\ row'[i] = [node |-> n, status |-> status]
           /\ \A j \in Ids \ {i} : row'[j] = row[j]
    BY <1>4, <1>t, InsertEffect
  <2>2. QED
    BY <1>4, <2>1 DEF WellPlaced, Meets
<1>5. ASSUME PassInsert PROVE WellPlaced'
  <2>1. pass.target \in Nodes /\ Meets(pass.target) /\ Insert(pass.target, "deploying")
    BY <1>5, <1>t DEF PassInsert, Sound, WellPlaced
  <2>2. pass'.pc # "insert"
    BY <1>5, <1>t DEF PassInsert, TypeOK
  <2>3. QED
    BY <1>4, <2>1, <2>2
<1>6. ASSUME Deploy PROVE WellPlaced'
  <2>1. PICK load \in [Nodes -> Loads] : \E n \in Placed(load) : Insert(n, "building")
    BY <1>6 DEF Deploy
  <2>2. PICK n \in Placed(load) : Insert(n, "building")
    BY <2>1
  <2>3. n \in Nodes /\ Meets(n)
    BY <1>t, <2>2, PlacedMeets
  <2>4. pass' = pass
    BY <1>6 DEF Deploy
  <2>5. QED
    BY <1>4, <2>2, <2>3, <2>4
<1>7. ASSUME DeployFinish PROVE WellPlaced'
  <2>1. PICK i \in flight : row' = [row EXCEPT ![i].status = "deploying"]
    BY <1>7 DEF DeployFinish
  <2>2. i \in Ids /\ row[i].status = "building" /\ row[i] # NoRow
    BY <1>t DEF TypeOK, Sound, NoRow
  <2>3. row'[i].node = row[i].node /\ \A j \in Ids \ {i} : row'[j] = row[j]
    BY <2>1, <2>2, <1>t DEF TypeOK
  <2>4. pass' = pass
    BY <1>7 DEF DeployFinish
  <2>5. QED
    BY <1>k, <2>2, <2>3, <2>4
<1>8. ASSUME PassPlace PROVE WellPlaced'
  <2>1. PICK load \in [Nodes \ pass.taken -> Loads] :
          \/ pass' = [pass EXCEPT !.pc = "invalidate"]
          \/ \E n \in Placed(load) : pass' = [pass EXCEPT !.pc = "insert", !.target = n]
    BY <1>8 DEF PassPlace
  <2>2. pass'.pc = "insert" => Meets(pass'.target)
    <3>1. DOMAIN load \subseteq Nodes
      OBVIOUS
    <3>2. \A n \in Placed(load) : Meets(n)
      BY <3>1, <1>t, PlacedMeets
    <3>3. QED
      BY <2>1, <3>2, <1>p DEF PassType
  <2>3. row' = row
    BY <1>8 DEF PassPlace, table
  <2>4. QED
    BY <2>2, <2>3 DEF WellPlaced, Meets
<1>9. CASE \/ PassBegin \/ PassCount \/ PassExcess \/ PassInvalidate
           \/ StopInvalidate \/ Expire \/ Stop \/ Scale \/ OtherNodes \/ Restart
           \/ UNCHANGED vars
           \/ \E n \in Nodes : Beat(n) \/ BeatInvalidate(n)
           \/ \E q \in Requests : Store(q) \/ Lookup(q)
  <2>1. row' = row
    BY <1>9
    DEF PassBegin, PassCount, PassExcess, PassInvalidate, StopInvalidate, Expire, Stop,
        Scale, OtherNodes, Restart, Beat, BeatInvalidate, Store, Lookup, vars, table
  <2>2. CASE PassBegin \/ PassCount \/ PassExcess \/ PassInvalidate \/ Restart
    <3>1. CASE PassBegin \/ PassInvalidate \/ Restart
      <4>1. pass'.pc \in {"idle", "count"}
        <5>1. CASE PassBegin
          <6>1. pass' = [IdlePass EXCEPT !.pc = "count", !.want = wanted]
            BY <5>1 DEF PassBegin
          <6>2. QED
            BY <6>1 DEF IdlePass
        <5>2. CASE pass' = IdlePass
          BY <5>2 DEF IdlePass
        <5>3. QED
          BY <3>1, <5>1, <5>2 DEF PassInvalidate, Restart
      <4>2. QED
        BY <1>k, <2>1, <4>1
    <3>2. CASE PassCount
      <4>1. pass'.pc \in {"idle", "excess", "place"}
        BY <3>2, <1>p DEF PassCount, IdlePass, PassType
      <4>2. QED
        BY <1>k, <2>1, <4>1
    <3>3. CASE PassExcess
      BY <1>k, <2>1, <3>3, <1>p DEF PassExcess, PassType
    <3>4. QED
      BY <2>2, <3>1, <3>2, <3>3
  <2>3. CASE pass' = pass
    BY <1>k, <2>1, <2>3
  <2>4. QED
    BY <1>9, <2>2, <2>3
    DEF StopInvalidate, Expire, Stop, Scale, OtherNodes, Beat, BeatInvalidate, Store,
        Lookup, vars, handlers
<1>10. QED
  BY <1>1, <1>2, <1>3, <1>5, <1>6, <1>7, <1>8, <1>9 DEF Next, Sweeper, Handler, Heartbeat

\* No copy is ever on a node that fails one of the service's hard constraints, however
\* old the snapshot was by which the node was chosen.
THEOREM CopiesWellPlaced == Spec => []WellPlaced
<1>1. ServingAssumption => Given
  BY DEF ServingAssumption, Given
<1>2. QED
  BY <1>1, ServingAssumption, Invariance, InitPlaced, NextPlaced, PTL DEF Spec

\* In particular, whichever of two services declares it, they are kept apart.
THEOREM ServingKeptApart == Spec => []KeptApart
<1>1. WellPlaced => KeptApart
  <2> SUFFICES ASSUME WellPlaced, NEW i \in Ids, row[i] # NoRow,
                      NEW other \in DOMAIN Others,
                      other \in Service.antiAffinity \/ Service.name \in Shuns[other],
                      row[i].node = Others[other]
               PROVE  FALSE
    BY DEF KeptApart
  <2>1. other \in Conflicts(Service, Others, Shuns)
    BY DEF Conflicts
  <2>2. "anti_affinity" \in Rejections(Service, row[i].node, Fleet[row[i].node], Others, Shuns)
    BY <2>1 DEF Rejections
  <2>3. QED
    BY <2>2 DEF WellPlaced, Meets
<1>2. QED
  BY <1>1, CopiesWellPlaced, PTL
=============================================================================
