------------------------------ MODULE Handover ------------------------------
(***************************************************************************)
(* How a node's agent comes by another binary: what is published is        *)
(* fetched, waits, and takes the binary's place in one step.  What waits   *)
(* goes only when it is installed, or for something published later.       *)
(***************************************************************************)
CONSTANTS
    Builds,    \* the builds ever published for the platform
    None       \* nothing waits

VARIABLES
    published, \* what the control plane serves
    binary,    \* what the node starts
    waiting    \* what it is to start next

TypeOK == published \in Builds /\ binary \in Builds /\ waiting \in Builds \cup {None}

Init == published \in Builds /\ binary = published /\ waiting = None

Publish ==
    /\ published' \in Builds
    /\ UNCHANGED <<binary, waiting>>

Fetch ==
    /\ waiting' = published
    /\ UNCHANGED <<published, binary>>

Install ==
    /\ waiting # None
    /\ binary' = waiting
    /\ UNCHANGED <<published, waiting>>

Clear ==
    /\ waiting = binary
    /\ waiting' = None
    /\ UNCHANGED <<published, binary>>

\* By the operator, over whatever is there.
Reinstall ==
    /\ binary' = published
    /\ UNCHANGED <<published, waiting>>

Next == Publish \/ Fetch \/ Install \/ Clear \/ Reinstall

Spec == Init /\ [][Next]_<<published, binary, waiting>>
=============================================================================
