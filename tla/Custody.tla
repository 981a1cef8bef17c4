------------------------------ MODULE Custody ------------------------------
(***************************************************************************)
(* What failover promises about a service the fleet has accepted.          *)
(*                                                                         *)
(* Node failures, recoveries, deploys and restarts of the control plane    *)
(* may move a service, make it wait, or record that nothing can take it;   *)
(* they do not drop it.  In each case some row of the deployments table is *)
(* one a recovery path reads: rescheduleFromNode reads `deploying` and     *)
(* `running`, reclaimToNode `pinned_unavailable`, placeStranded the        *)
(* `failed` rows whose reason starts with `no_eligible_node`.  A service   *)
(* with none of them is one nothing will ever bring back.                  *)
(*                                                                         *)
(* There is one way to lose a service, and it is spelled out: a report     *)
(* that its container is not running, begun while it was live and written  *)
(* over the reason of the strand that was made of it meanwhile.            *)
(***************************************************************************)
CONSTANTS
    Services,   \* the services of the fleet
    Pinned      \* those whose placement policy is `pinned`

VARIABLES
    custody,    \* custody[s]: which recovery path answers for service s
    reported    \* the services a drift report in progress names

Custodies == {"absent", "live", "held", "stranded"}

TypeOK == custody \in [Services -> Custodies] /\ reported \subseteq Services

Init == custody \in [Services -> {"absent", "live"}] /\ reported = {}

\* A deploy, a resume, a late placement: the service is live from here on.
Revive(s) ==
    /\ custody' = [custody EXCEPT ![s] = "live"]
    /\ UNCHANGED reported

\* Its node is gone and it may not move.
Hold(s) ==
    /\ s \in Pinned
    /\ custody[s] = "live"
    /\ custody' = [custody EXCEPT ![s] = "held"]
    /\ UNCHANGED reported

\* Its node is gone, it may move, and nothing can take it.  A failover that still
\* holds a row of a lost service finds it again.
Strand(s) ==
    /\ s \notin Pinned
    /\ custody[s] \in {"live", "absent"}
    /\ custody' = [custody EXCEPT ![s] = "stranded"]
    /\ UNCHANGED reported

\* Reports begin, with live services only, and end.
Report ==
    /\ reported' \subseteq reported \cup {s \in Services : custody[s] = "live"}
    /\ UNCHANGED custody

\* A report is written over the strands of the services it names.
Lose(lost) ==
    /\ lost \subseteq {s \in reported : custody[s] = "stranded"}
    /\ custody' = [s \in Services |-> IF s \in lost THEN "absent" ELSE custody[s]]
    /\ reported' \subseteq reported

Next ==
    \/ Report
    \/ \E s \in Services : Revive(s) \/ Hold(s) \/ Strand(s)
    \/ \E lost \in SUBSET Services : Lose(lost)

Spec == Init /\ [][Next]_<<custody, reported>>
=============================================================================
