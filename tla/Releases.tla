------------------------------ MODULE Releases ------------------------------
(***************************************************************************)
(* What may become of the releases of one service, whoever acts on them:   *)
(* deploy handlers, heartbeats, the sweeper, operators, the replica pass.  *)
(*                                                                         *)
(* Builds are out of everyone's reach but their own handler's.  A cutover  *)
(* leaves one release serving and no other alive, and what serves is never *)
(* put back into a rollout.  Only a rescue, of a release the sweeper has   *)
(* found up after its window, lets a second one serve, until the next      *)
(* cutover.                                                                *)
(***************************************************************************)
CONSTANT Rows    \* row identities of the deployments table

VARIABLES
    phase,       \* of each row: what its release is doing, "none" once it is over
    due          \* rows the sweeper is about to rescue

Active == {"rollout", "serving"}

Alive == {r \in Rows : phase[r] \in Active}

TypeOK == phase \in [Rows -> Active \cup {"none", "build"}] /\ due \subseteq Rows

OneServing == \A q, r \in Rows : phase[q] = "serving" /\ phase[r] = "serving" => q = r

Init ==
    /\ phase \in [Rows -> {"none", "build", "serving"}]
    /\ OneServing
    /\ due = {}

\* A deploy begins.
Open(r) ==
    /\ phase[r] = "none"
    /\ phase' = [phase EXCEPT ![r] = "build"]
    /\ UNCHANGED due

\* A release is to come up, after its build or without one, and may replace others.
Roll(r, ended) ==
    /\ phase[r] \in {"none", "build"} /\ ended \subseteq Alive
    /\ phase' = [q \in Rows |-> IF q = r THEN "rollout"
                                ELSE IF q \in ended THEN "none" ELSE phase[q]]
    /\ UNCHANGED due

\* It serves, and every other is over.  The row is written by id: what it was, a
\* build excepted, does not matter.
Cutover(r) ==
    /\ phase[r] # "build"
    /\ phase' = [q \in Rows |-> IF q = r THEN "serving"
                                ELSE IF phase[q] = "build" THEN "build" ELSE "none"]
    /\ UNCHANGED due

\* The sweeper makes up its mind, or is restarted.
Judge ==
    /\ due' \in SUBSET Rows
    /\ UNCHANGED phase

Rescue(r) ==
    /\ r \in due /\ phase[r] # "build"
    /\ phase' = [phase EXCEPT ![r] = "serving"]
    /\ due' = due \ {r}

\* Replaced, stopped or failed.
End(ended) ==
    /\ ended \subseteq Alive
    /\ phase' = [q \in Rows |-> IF q \in ended THEN "none" ELSE phase[q]]
    /\ UNCHANGED due

Abandon(r) ==
    /\ phase[r] = "build"
    /\ phase' = [phase EXCEPT ![r] = "none"]
    /\ UNCHANGED due

Next ==
    \/ Judge
    \/ \E r \in Rows : Open(r) \/ Cutover(r) \/ Rescue(r) \/ Abandon(r)
    \/ \E ended \in SUBSET Rows : End(ended) \/ \E r \in Rows : Roll(r, ended)

Spec == Init /\ [][Next]_<<phase, due>>
=============================================================================
