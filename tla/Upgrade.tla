------------------------------ MODULE Upgrade ------------------------------
(***************************************************************************)
(* The agent that replaces its own binary: the check against the published *)
(* checksum, the download and its staging, what it remembers between       *)
(* restarts (agent/cmd/agent/main.go, agent/internal/upgrade/upgrade.go,   *)
(* agent/internal/state), and the installation before a start, by the unit *)
(* as root or by the agent itself (scripts/install.sh, InstallStaged).     *)
(*                                                                         *)
(* One node.  A build stands for its bytes and for their SHA-256.  A       *)
(* process may be killed between any two steps, and comes back.            *)
(***************************************************************************)
EXTENDS Naturals, FiniteSets

CONSTANTS
    Builds,       \* the builds ever published for the platform
    Half,         \* a file that was not written to its end
    None,         \* no file, no process
    MaxAttempts,  \* upgrade.MaxAttempts
    Allowed,      \* the kinds of event a behaviour may contain
    Budget        \* and how many of them in all

Events == {"publish", "opt", "transfer", "save", "io", "crash", "reinstall"}

ASSUME UpgradeAssumption ==
    /\ None \notin Builds /\ Half \notin Builds /\ None # Half
    /\ MaxAttempts \in Nat \ {0} /\ Budget \in Nat /\ Allowed \subseteq Events

VARIABLES
    host,       \* its supervisor, and whether the binary's directory can be written
    published,  \* what SHA256SUMS names and the control plane serves
    optedIn,    \* agent_auto_upgrade of the fleet
    file,       \* the binary on disk
    new,        \* the copy beside it
    staged,     \* agent.staged
    disk,       \* State of agent.json
    saved,      \* State in the process
    image,      \* the build whose process runs
    pc,         \* where the supervisor or the process is
    want,       \* the checksum the check has read
    used        \* the events that have happened

vars == <<host, published, optedIn, file, new, staged, disk, saved, image, pc, want, used>>
outside == <<host, published, optedIn>>

State == [LastStaged : Builds \cup {None}, Attempts : Nat]

TypeOK ==
    /\ host \in [supervisor : {"systemd", "launchd"}, writable : BOOLEAN]
    /\ published \in Builds /\ optedIn \in BOOLEAN
    /\ file \in Builds \cup {Half}
    /\ new \in Builds \cup {None, Half} /\ staged \in Builds \cup {None, Half}
    /\ disk \in State /\ saved \in State
    /\ image \in Builds \cup {None, Half} /\ want \in Builds \cup {None}
    /\ pc \in {"down", "install", "copy", "renamed", "run", "download", "record", "exit"}
    /\ pc = "down" => image = None
    /\ pc \in {"run", "download", "record", "exit"} => image # None
    /\ used \subseteq Events \X Nat

\* At most Budget events, each of an allowed kind; which ones is remembered.
Spend(kind) ==
    /\ kind \in Allowed /\ Cardinality(used) < Budget
    /\ used' = used \cup {<<kind, Cardinality({u \in used : u[1] = kind})>>}

Happened(kinds) == \E u \in used : u[1] \in kinds

-----------------------------------------------------------------------------
(***************************************************************************)
(* Installation.  Under systemd it comes before the process, as root; under *)
(* launchd it is the first thing the process does.                         *)
(***************************************************************************)
ByUnit == host.supervisor = "systemd"

\* RestartSec after the last end, or the relaunch by KeepAlive.
Start ==
    /\ pc = "down"
    /\ pc' = "install" /\ image' = IF ByUnit THEN None ELSE file
    /\ UNCHANGED <<outside, file, new, staged, disk, saved, want, used>>

\* The process loads its state and goes on.
Run(program) ==
    /\ pc' = "run" /\ image' = program /\ saved' = disk /\ want' = None

\* Nothing is staged.
InstallNothing ==
    /\ pc = "install" /\ staged = None
    /\ Run(file)
    /\ UNCHANGED <<outside, file, new, staged, disk, used>>

InstallMove ==     \* seeded bug: the staged file is moved beside the binary, not copied
    /\ pc = "install" /\ staged # None /\ host.writable
    /\ new' = Half /\ pc' = "copy" /\ staged' = None
    /\ UNCHANGED <<outside, file, disk, saved, image, want, used>>

\* The copy is begun beside the binary, whatever is left there.
InstallCopy ==
    /\ pc = "install" /\ staged # None /\ host.writable
    /\ new' = Half /\ pc' = "copy"
    /\ UNCHANGED <<outside, file, staged, disk, saved, image, want, used>>

InstallInPlace ==     \* seeded bug: a copy cut short counts as whole
    /\ pc = "copy"
    /\ \E bytes \in {new, staged} : file' = bytes
    /\ new' = None /\ pc' = "renamed"
    /\ UNCHANGED <<outside, staged, disk, saved, image, want, used>>

\* Whole, it is renamed over the binary.
InstallRename ==
    /\ pc = "copy"
    /\ file' = staged /\ new' = None /\ pc' = "renamed"
    /\ UNCHANGED <<outside, staged, disk, saved, image, want, used>>

\* A unit whose pre-start step fails is not started; an agent that cannot install
\* says so and goes on as it is.
NotInstalled ==
    IF ByUnit THEN pc' = "down" /\ UNCHANGED <<saved, image, want>> ELSE Run(image)

\* The directory of the binary cannot be written, now or ever.
InstallFails ==
    /\ \/ pc = "install" /\ staged # None /\ ~host.writable /\ UNCHANGED used
       \/ pc = "copy" /\ Spend("io")
    /\ NotInstalled
    /\ UNCHANGED <<outside, file, new, staged, disk>>

\* Only now the staged file goes.  The unit starts the new binary; an agent exits
\* to be started on it.
InstallRemove ==
    /\ pc = "renamed"
    /\ staged' = None
    /\ IF ByUnit THEN Run(file)
       ELSE pc' = "down" /\ image' = None /\ UNCHANGED <<saved, want>>
    /\ UNCHANGED <<outside, file, new, disk, used>>

\* Installed, but the staged file cannot be removed.
RemoveFails ==
    /\ pc = "renamed" /\ Spend("io")
    /\ NotInstalled
    /\ UNCHANGED <<outside, file, new, staged, disk>>

(***************************************************************************)
(* The check                                                               *)
(***************************************************************************)
\* upgrade.Decide, of the binary on disk and what the process remembers
DecideCounting(running, sum, st) ==     \* seeded bug: whichever build was staged
    CASE running = sum -> "up_to_date"
      [] running # sum /\ st.LastStaged = None -> "upgrade"
      [] running # sum /\ st.LastStaged # None /\ st.Attempts < MaxAttempts -> "already_staged"
      [] OTHER -> "failed"

DecideForgetful(running, sum, st) ==     \* seeded bug: nothing is remembered
    IF running = sum THEN "up_to_date" ELSE "upgrade"

Decide(running, sum, st) ==
    CASE running = sum -> "up_to_date"
      [] running # sum /\ st.LastStaged # sum -> "upgrade"
      [] running # sum /\ st.LastStaged = sum /\ st.Attempts < MaxAttempts -> "already_staged"
      [] OTHER -> "failed"

Decision == Decide(file, published, saved)

\* A check finds another build published; the checksum is kept.
CheckUpgrade ==
    /\ pc = "run" /\ optedIn /\ Decision = "upgrade"
    /\ pc' = "download" /\ want' = published
    /\ UNCHANGED <<outside, file, new, staged, disk, saved, image, used>>

\* state.Save, by write and rename: all of it or nothing.
Save == disk' = saved'

\* A check finds the build staged and not running, and counts.
CheckStaged ==
    /\ pc = "run" /\ optedIn /\ Decision = "already_staged"
    /\ saved' = [saved EXCEPT !.Attempts = @ + 1]
    /\ \/ Save /\ UNCHANGED used
       \/ Spend("save") /\ UNCHANGED disk
    /\ UNCHANGED <<outside, file, new, staged, image, pc, want>>

\* upgrade.Stage: into a temporary file, and renamed if it is what was published.
Stage(bytes) ==
    IF bytes = want THEN staged' = bytes /\ pc' = "record" ELSE UNCHANGED staged /\ pc' = "run"

\* The binary is served as it is by now; what arrives may be cut short, or nothing.
Download ==
    /\ pc = "download"
    /\ \/ Stage(published) /\ UNCHANGED used
       \/ Stage(Half) /\ Spend("transfer")
    /\ UNCHANGED <<outside, file, new, disk, saved, image, want>>

RecordStays ==     \* seeded bug: nobody asks for the restart
    /\ pc = "record"
    /\ saved' = [LastStaged |-> want, Attempts |-> 1]
    /\ Save /\ pc' = "run"
    /\ UNCHANGED <<outside, file, new, staged, image, want, used>>

\* What was staged is remembered, and the process ends; if it cannot be saved it
\* goes on with the old binary.
Record ==
    /\ pc = "record"
    /\ saved' = [LastStaged |-> want, Attempts |-> 1]
    /\ \/ Save /\ pc' = "exit" /\ UNCHANGED used
       \/ Spend("save") /\ pc' = "run" /\ UNCHANGED disk
    /\ UNCHANGED <<outside, file, new, staged, image, want>>

ExitRunning ==     \* seeded bug: the loop stops and the process stays
    /\ pc = "exit"
    /\ pc' = "down"
    /\ UNCHANGED <<outside, file, new, staged, disk, saved, image, want, used>>

\* ExitUpgradeStaged: the loop has stopped, and the supervisor is to start it again.
Exit ==
    /\ pc = "exit"
    /\ pc' = "down" /\ image' = None
    /\ UNCHANGED <<outside, file, new, staged, disk, saved, want, used>>

(***************************************************************************)
(* The world                                                               *)
(***************************************************************************)
Crash ==
    /\ pc # "down" /\ Spend("crash")
    /\ pc' = "down" /\ image' = None
    /\ UNCHANGED <<outside, file, new, staged, disk, saved, want>>

\* A control plane with other binaries.
Publish(b) ==
    /\ b # published /\ Spend("publish")
    /\ published' = b
    /\ UNCHANGED <<host, optedIn, file, new, staged, disk, saved, image, pc, want>>

\* The setting of the fleet, read by every check.
Opt ==
    /\ Spend("opt")
    /\ optedIn' = ~optedIn
    /\ UNCHANGED <<host, published, file, new, staged, disk, saved, image, pc, want>>

\* install.sh run again over an existing installation: the binary of now, a restart.
Reinstall ==
    /\ host.writable /\ Spend("reinstall")
    /\ file' = published /\ pc' = "down" /\ image' = None
    /\ UNCHANGED <<outside, new, staged, disk, saved, want>>

-----------------------------------------------------------------------------
Forgotten == [LastStaged |-> None, Attempts |-> 0]

Init ==
    /\ host \in [supervisor : {"systemd", "launchd"}, writable : BOOLEAN]
    /\ published \in Builds /\ optedIn = TRUE
    /\ file = published /\ new = None /\ staged = None
    /\ disk = Forgotten /\ saved = Forgotten
    /\ image = None /\ pc = "down" /\ want = None /\ used = {}

Install ==
    InstallNothing \/ InstallCopy \/ InstallRename \/ InstallFails \/ InstallRemove \/ RemoveFails

Check == CheckUpgrade \/ CheckStaged \/ Download \/ Record \/ Exit

World == Crash \/ (\E b \in Builds : Publish(b)) \/ Opt \/ Reinstall

Next == Start \/ Install \/ Check \/ World

Spec == Init /\ [][Next]_vars

\* The supervisor starts what ended, and the timer of the checks fires for ever.
Fairness == WF_vars(Start) /\ WF_vars(Install) /\ WF_vars(Check)

FairSpec == Spec /\ Fairness

-----------------------------------------------------------------------------
(***************************************************************************)
(* Properties                                                              *)
(***************************************************************************)

\* A restart in the middle of a download or of an installation never finds half a
\* binary: neither the one that is started nor the one that waits (Stage,
\* installStagedInto, ExecStartPre), whatever was cut short, killed or republished.
OnlyWhole == file # Half /\ staged # Half

Agent == INSTANCE Handover WITH binary <- file, waiting <- staged

\* The two renames, the copy between them and the removal, cut short anywhere, by
\* processes killed and restarted on either side, amount to one step: what is staged
\* goes only when it is the binary ("Only now the staged file goes", installStagedInto;
\* ExecStartPre), and nothing is staged or started that was not published.  See module
\* Handover.
HandsOver == Agent!Spec

\* A node that cannot upgrade keeps running the version it has: restarts and
\* downloads come to an end, also when nothing staged is ever installed (MaxAttempts).
\* The exception is a unit whose pre-start step fails for ever.
Settles == host.writable \/ ~ByUnit => <>[](pc = "run")

\* What the agent calls staged and waiting, or given up, is waiting (Decide's comment on
\* AlreadyStaged); what it remembers is not lost but in a crash or a failed save, and
\* does not tell of a binary somebody else has put there.
StagedIsWaiting ==
    pc = "run" /\ Decision \in {"already_staged", "failed"}
        => staged = published \/ Happened({"crash", "save", "reinstall"})

\* A fleet that opts in runs what is published in the end, however often that
\* changes while it is fetched, staged and installed.
Converges ==
    <>[]optedIn /\ host.writable
        => <>[](\/ image = published
                \/ Happened({"crash", "save", "reinstall"})
                \/ Happened({"io"}) /\ ~ByUnit)
=============================================================================
