--------------------------- MODULE UpgradeProofs ---------------------------
(***************************************************************************)
(* What holds of Upgrade for any builds, any number of attempts and any    *)
(* events: its type invariant, that no half binary is ever started or      *)
(* waits to be, and that what is remembered as staged is.                  *)
(***************************************************************************)
EXTENDS Upgrade, FiniteSetTheorems, TLAPS

\* What the steps of an installation and of a check know of the files.
Steps ==
    /\ pc \in {"copy", "renamed"} => staged # None
    /\ pc = "renamed" => file = staged
    /\ pc = "download" => want # None
    /\ pc = "record" => staged = want /\ want # None
    /\ pc \in {"install", "copy", "renamed"} => (ByUnit <=> image = None)

Clean == ~Happened({"crash", "save", "reinstall"})

\* What was staged last either waits still or has become the binary, and the process
\* knows it as its file does.
Memory ==
    Clean => /\ pc # "record" => \/ staged = disk.LastStaged
                                 \/ staged = None /\ file = disk.LastStaged
             /\ pc \in {"run", "download", "record", "exit"} => saved = disk

IInv == TypeOK /\ IsFiniteSet(used) /\ Steps /\ OnlyWhole /\ Memory

\* An event is recorded with a natural number, and there are finitely many.
LEMMA SpendTypes ==
  ASSUME UpgradeAssumption, used \subseteq Events \X Nat, IsFiniteSet(used),
         NEW kind, Spend(kind)
  PROVE  used' \subseteq Events \X Nat /\ IsFiniteSet(used')
<1>1. IsFiniteSet({u \in used : u[1] = kind})
  BY FS_Subset
<1>2. Cardinality({u \in used : u[1] = kind}) \in Nat
  BY <1>1, FS_CardinalityType
<1>3. kind \in Events
  BY DEF Spend, UpgradeAssumption
<1>4. used' = used \cup {<<kind, Cardinality({u \in used : u[1] = kind})>>}
  BY DEF Spend
<1>5. IsFiniteSet(used')
  BY <1>4, FS_AddElement
<1>6. QED
  BY <1>2, <1>3, <1>4, <1>5

\* No event is forgotten: what is clean was clean before, and neither a crash nor a
\* failed save nor a new installation has just happened.
LEMMA SpendClean ==
  ASSUME NEW kind, Spend(kind), Clean'
  PROVE  Clean /\ kind \notin {"crash", "save", "reinstall"}
<1>1. PICK e : e[1] = kind /\ used' = used \cup {e}
  BY DEF Spend
<1>2. \A u \in used' : u[1] \notin {"crash", "save", "reinstall"}
  BY DEF Clean, Happened
<1>3. kind \notin {"crash", "save", "reinstall"}
  BY <1>1, <1>2
<1>4. Clean
  BY <1>1, <1>2 DEF Clean, Happened
<1>5. QED
  BY <1>3, <1>4

\* A node starts with the published binary, and without anything staged.
LEMMA InitHolds == UpgradeAssumption /\ Init => IInv
<1> SUFFICES ASSUME UpgradeAssumption, Init PROVE IInv
  OBVIOUS
<1>1. TypeOK
  BY DEF Init, TypeOK, State, Forgotten, UpgradeAssumption
<1>2. IsFiniteSet(used)
  BY FS_EmptySet DEF Init
<1>3. Steps /\ OnlyWhole /\ Memory
  BY DEF Init, ByUnit, Steps, OnlyWhole, Memory, Forgotten, UpgradeAssumption
<1>4. QED
  BY <1>1, <1>2, <1>3 DEF IInv

\* Every step keeps it.
LEMMA NextHolds == UpgradeAssumption /\ IInv /\ [Next]_vars => IInv'
<1> SUFFICES ASSUME UpgradeAssumption, IInv, [Next]_vars PROVE IInv'
  OBVIOUS
<1> USE DEF IInv
<1>1. (UNCHANGED used \/ \E kind : Spend(kind)) => used' \subseteq Events \X Nat /\ IsFiniteSet(used')
  BY SpendTypes DEF TypeOK
<1>2. ASSUME InstallNothing PROVE IInv'
  <2>1. used' \subseteq Events \X Nat /\ IsFiniteSet(used')
    BY <1>1, <1>2 DEF InstallNothing
  <2>2. TypeOK' /\ OnlyWhole'
    BY <1>2 DEF InstallNothing, Run, outside, TypeOK, OnlyWhole
  <2>3. Steps'
    BY <1>2 DEF InstallNothing, Run, Steps
  <2>4. Memory'
    BY <1>2 DEF InstallNothing, Run, Memory, Clean, Happened
  <2>5. QED
    BY <2>1, <2>2, <2>3, <2>4
<1>3. ASSUME InstallCopy PROVE IInv'
  <2>1. used' \subseteq Events \X Nat /\ IsFiniteSet(used')
    BY <1>1, <1>3 DEF InstallCopy
  <2>2. TypeOK' /\ OnlyWhole'
    BY <1>3 DEF InstallCopy, outside, TypeOK, OnlyWhole
  <2>3. Steps'
    BY <1>3 DEF InstallCopy, outside, Steps, ByUnit
  <2>4. Memory'
    BY <1>3 DEF InstallCopy, Memory, Clean, Happened
  <2>5. QED
    BY <2>1, <2>2, <2>3, <2>4
<1>4. ASSUME InstallRename PROVE IInv'
  <2>1. used' \subseteq Events \X Nat /\ IsFiniteSet(used')
    BY <1>1, <1>4 DEF InstallRename
  <2>2. TypeOK' /\ OnlyWhole'
    BY <1>4 DEF InstallRename, outside, TypeOK, OnlyWhole, Steps
  <2>3. Steps'
    BY <1>4 DEF InstallRename, outside, Steps, ByUnit
  <2>4. Memory'
    BY <1>4 DEF InstallRename, Memory, Steps, Clean, Happened
  <2>5. QED
    BY <2>1, <2>2, <2>3, <2>4
<1>5. ASSUME InstallFails PROVE IInv'
  <2>1. used' \subseteq Events \X Nat /\ IsFiniteSet(used')
    BY <1>1, <1>5 DEF InstallFails
  <2>2. TypeOK' /\ OnlyWhole'
    <3>1. CASE ByUnit
      BY <1>5, <2>1, <3>1 DEF InstallFails, NotInstalled, outside, TypeOK, OnlyWhole, Steps
    <3>2. CASE ~ByUnit
      <4>1. image # None /\ Run(image)
        BY <1>5, <3>2 DEF InstallFails, NotInstalled, Steps
      <4>2. QED
        BY <1>5, <2>1, <4>1 DEF InstallFails, Run, outside, TypeOK, OnlyWhole
    <3>3. QED
      BY <3>1, <3>2
  <2>3. Steps'
    BY <1>5 DEF InstallFails, NotInstalled, Run, Steps
  <2>4. Memory'
    BY <1>5, SpendClean DEF InstallFails, NotInstalled, Run, Memory, Clean, Happened
  <2>5. QED
    BY <2>1, <2>2, <2>3, <2>4
<1>6. ASSUME InstallRemove PROVE IInv'
  <2>1. used' \subseteq Events \X Nat /\ IsFiniteSet(used')
    BY <1>1, <1>6 DEF InstallRemove
  <2>2. TypeOK' /\ OnlyWhole'
    BY <1>6 DEF InstallRemove, Run, outside, TypeOK, OnlyWhole
  <2>3. Steps'
    BY <1>6 DEF InstallRemove, Run, Steps
  <2>4. Memory'
    BY <1>6 DEF InstallRemove, Run, Memory, Steps, Clean, Happened
  <2>5. QED
    BY <2>1, <2>2, <2>3, <2>4
<1>7. ASSUME RemoveFails PROVE IInv'
  <2>1. used' \subseteq Events \X Nat /\ IsFiniteSet(used')
    BY <1>1, <1>7 DEF RemoveFails
  <2>2. TypeOK' /\ OnlyWhole'
    <3>1. CASE ByUnit
      BY <1>7, <2>1, <3>1 DEF RemoveFails, NotInstalled, outside, TypeOK, OnlyWhole, Steps
    <3>2. CASE ~ByUnit
      <4>1. image # None /\ Run(image)
        BY <1>7, <3>2 DEF RemoveFails, NotInstalled, Steps
      <4>2. QED
        BY <1>7, <2>1, <4>1 DEF RemoveFails, Run, outside, TypeOK, OnlyWhole
    <3>3. QED
      BY <3>1, <3>2
  <2>3. Steps'
    BY <1>7 DEF RemoveFails, NotInstalled, Run, Steps
  <2>4. Memory'
    BY <1>7, SpendClean DEF RemoveFails, NotInstalled, Run, Memory
  <2>5. QED
    BY <2>1, <2>2, <2>3, <2>4
<1>8. ASSUME Start PROVE IInv'
  <2>1. used' \subseteq Events \X Nat /\ IsFiniteSet(used')
    BY <1>1, <1>8 DEF Start
  <2>2. TypeOK' /\ OnlyWhole'
    BY <1>8 DEF Start, outside, TypeOK, OnlyWhole
  <2>3. Steps'
    BY <1>8 DEF Start, ByUnit, outside, Steps, TypeOK
  <2>4. Memory'
    BY <1>8 DEF Start, Memory, Clean, Happened
  <2>5. QED
    BY <2>1, <2>2, <2>3, <2>4
<1>9. ASSUME CheckUpgrade PROVE IInv'
  <2>1. used' \subseteq Events \X Nat /\ IsFiniteSet(used')
    BY <1>1, <1>9 DEF CheckUpgrade
  <2>2. TypeOK' /\ OnlyWhole'
    BY <1>9 DEF CheckUpgrade, outside, TypeOK, OnlyWhole
  <2>3. Steps'
    BY <1>9 DEF CheckUpgrade, Steps, TypeOK
  <2>4. Memory'
    BY <1>9 DEF CheckUpgrade, Memory, Clean, Happened
  <2>5. QED
    BY <2>1, <2>2, <2>3, <2>4
<1>10. ASSUME CheckStaged PROVE IInv'
  <2>1. used' \subseteq Events \X Nat /\ IsFiniteSet(used')
    BY <1>1, <1>10 DEF CheckStaged
  <2>2. TypeOK' /\ OnlyWhole'
    BY <1>10, <2>1 DEF CheckStaged, Save, outside, TypeOK, State, OnlyWhole
  <2>3. Steps'
    BY <1>10 DEF CheckStaged, Steps
  <2>4. Memory'
    BY <1>10, SpendClean DEF CheckStaged, Save, Memory, Clean, Happened, TypeOK, State
  <2>5. QED
    BY <2>1, <2>2, <2>3, <2>4
<1>11. ASSUME Download PROVE IInv'
  <2>1. used' \subseteq Events \X Nat /\ IsFiniteSet(used')
    BY <1>1, <1>11 DEF Download
  <2>2. TypeOK' /\ OnlyWhole'
    BY <1>11, <2>1 DEF Download, Stage, outside, TypeOK, OnlyWhole
  <2>3. Steps'
    BY <1>11 DEF Download, Stage, Steps
  <2>4. Memory'
    BY <1>11, SpendClean DEF Download, Stage, Memory, Clean, Happened
  <2>5. QED
    BY <2>1, <2>2, <2>3, <2>4
<1>12. ASSUME Record PROVE IInv'
  <2>1. used' \subseteq Events \X Nat /\ IsFiniteSet(used')
    BY <1>1, <1>12 DEF Record
  <2>2. TypeOK' /\ OnlyWhole'
    BY <1>12, <2>1 DEF Record, Save, outside, TypeOK, State, OnlyWhole
  <2>3. Steps'
    BY <1>12 DEF Record, Steps
  <2>4. Memory'
    BY <1>12, SpendClean DEF Record, Save, Memory, Steps
  <2>5. QED
    BY <2>1, <2>2, <2>3, <2>4
<1>13. ASSUME Exit PROVE IInv'
  <2>1. used' \subseteq Events \X Nat /\ IsFiniteSet(used')
    BY <1>1, <1>13 DEF Exit
  <2>2. TypeOK' /\ OnlyWhole'
    BY <1>13 DEF Exit, outside, TypeOK, OnlyWhole
  <2>3. Steps'
    BY <1>13 DEF Exit, Steps
  <2>4. Memory'
    BY <1>13 DEF Exit, Memory, Clean, Happened
  <2>5. QED
    BY <2>1, <2>2, <2>3, <2>4
<1>14. ASSUME Crash PROVE IInv'
  <2>1. used' \subseteq Events \X Nat /\ IsFiniteSet(used')
    BY <1>1, <1>14 DEF Crash
  <2>2. TypeOK' /\ OnlyWhole'
    BY <1>14, <2>1 DEF Crash, outside, TypeOK, OnlyWhole
  <2>3. Steps'
    BY <1>14 DEF Crash, Steps
  <2>4. Memory'
    BY <1>14, SpendClean DEF Crash, Memory
  <2>5. QED
    BY <2>1, <2>2, <2>3, <2>4
<1>15. ASSUME NEW b \in Builds, Publish(b) PROVE IInv'
  <2>1. used' \subseteq Events \X Nat /\ IsFiniteSet(used')
    BY <1>1, <1>15 DEF Publish
  <2>2. TypeOK' /\ OnlyWhole'
    BY <1>15, <2>1 DEF Publish, TypeOK, OnlyWhole
  <2>3. Steps'
    BY <1>15 DEF Publish, Steps, ByUnit
  <2>4. Memory'
    BY <1>15, SpendClean DEF Publish, Memory
  <2>5. QED
    BY <2>1, <2>2, <2>3, <2>4
<1>16. ASSUME Opt PROVE IInv'
  <2>1. used' \subseteq Events \X Nat /\ IsFiniteSet(used')
    BY <1>1, <1>16 DEF Opt
  <2>2. TypeOK' /\ OnlyWhole'
    BY <1>16, <2>1 DEF Opt, TypeOK, OnlyWhole
  <2>3. Steps'
    BY <1>16 DEF Opt, Steps, ByUnit
  <2>4. Memory'
    BY <1>16, SpendClean DEF Opt, Memory
  <2>5. QED
    BY <2>1, <2>2, <2>3, <2>4
<1>17. ASSUME Reinstall PROVE IInv'
  <2>1. used' \subseteq Events \X Nat /\ IsFiniteSet(used')
    BY <1>1, <1>17 DEF Reinstall
  <2>2. TypeOK' /\ OnlyWhole'
    BY <1>17, <2>1 DEF Reinstall, outside, TypeOK, OnlyWhole
  <2>3. Steps'
    BY <1>17 DEF Reinstall, Steps
  <2>4. Memory'
    BY <1>17, SpendClean DEF Reinstall, Memory
  <2>5. QED
    BY <2>1, <2>2, <2>3, <2>4
<1>18. CASE UNCHANGED vars
  BY <1>18 DEF vars, ByUnit, TypeOK, Steps, OnlyWhole, Memory, Clean, Happened
<1>19. QED
  BY <1>2, <1>3, <1>4, <1>5, <1>6, <1>7, <1>8, <1>9, <1>10, <1>11, <1>12, <1>13, <1>14,
     <1>15, <1>16, <1>17, <1>18
  DEF Next, Install, Check, World

\* Every reachable state is well typed; a process runs where it should and nowhere else.
THEOREM UpgradeTypes == Spec => []TypeOK
<1>1. IInv => TypeOK
  BY DEF IInv
<1>2. QED
  BY <1>1, UpgradeAssumption, InitHolds, NextHolds, PTL DEF Spec

\* Whatever is killed, cut short or republished, no half binary is started or waits to be.
THEOREM WholeOnly == Spec => []OnlyWhole
<1>1. IInv => OnlyWhole
  BY DEF IInv
<1>2. QED
  BY <1>1, UpgradeAssumption, InitHolds, NextHolds, PTL DEF Spec

\* What the agent takes for staged or given up is waiting, unless a crash, a failed
\* save or a new installation came in between.
THEOREM WaitingIsStaged == Spec => []StagedIsWaiting
<1>1. ASSUME IInv PROVE StagedIsWaiting
  <2>1. SUFFICES ASSUME pc = "run", Decision \in {"already_staged", "failed"}, Clean
                 PROVE  staged = published
    BY DEF StagedIsWaiting, Clean, Happened
  <2>2. saved = disk /\ (staged = disk.LastStaged \/ file = disk.LastStaged)
    BY <1>1, <2>1 DEF IInv, Memory
  <2>3. file # published /\ saved.LastStaged = published
    BY <2>1 DEF Decision, Decide
  <2>4. QED
    BY <2>2, <2>3
<1>2. QED
  BY <1>1, UpgradeAssumption, InitHolds, NextHolds, PTL DEF Spec

-----------------------------------------------------------------------------
\* A node that has just been installed has nothing to hand over.
LEMMA InitHandover == Init => Agent!Init
  BY DEF Init, Agent!Init

\* Every step hands over, or is hidden from whoever looks at the two files only.
LEMMA NextHandover ==
  UpgradeAssumption /\ IInv /\ [Next]_vars => [Agent!Next]_<<published, file, staged>>
<1> SUFFICES ASSUME UpgradeAssumption, IInv, [Next]_vars
             PROVE  Agent!Next \/ UNCHANGED <<published, file, staged>>
  OBVIOUS
<1> USE DEF outside
<1>1. ASSUME Install PROVE Agent!Next \/ UNCHANGED <<published, file, staged>>
  <2>1. CASE InstallRename
    <3>1. staged # None
      BY <2>1 DEF InstallRename, IInv, Steps
    <3>2. Agent!Install
      BY <2>1, <3>1 DEF InstallRename, Agent!Install
    <3>3. QED
      BY <3>2 DEF Agent!Next
  <2>2. CASE InstallRemove
    <3>1. staged = file
      BY <2>2 DEF InstallRemove, IInv, Steps
    <3>2. Agent!Clear
      BY <2>2, <3>1 DEF InstallRemove, Agent!Clear
    <3>3. QED
      BY <3>2 DEF Agent!Next
  <2>3. CASE InstallNothing \/ InstallCopy \/ InstallFails \/ RemoveFails
    BY <2>3 DEF InstallNothing, InstallCopy, InstallFails, RemoveFails
  <2>4. QED
    BY <1>1, <2>1, <2>2, <2>3 DEF Install
<1>2. ASSUME Check PROVE Agent!Next \/ UNCHANGED <<published, file, staged>>
  <2>1. CASE Download
    <3>1. want \in Builds /\ Half # want
      BY <2>1 DEF Download, IInv, Steps, TypeOK, UpgradeAssumption
    <3>2. UNCHANGED staged \/ staged' = published
      BY <2>1, <3>1 DEF Download, Stage
    <3>3. Agent!Fetch \/ UNCHANGED <<published, file, staged>>
      BY <2>1, <3>2 DEF Download, Agent!Fetch
    <3>4. QED
      BY <3>3 DEF Agent!Next
  <2>2. CASE CheckUpgrade \/ CheckStaged \/ Record \/ Exit
    BY <2>2 DEF CheckUpgrade, CheckStaged, Record, Exit
  <2>3. QED
    BY <1>2, <2>1, <2>2 DEF Check
<1>3. ASSUME World PROVE Agent!Next \/ UNCHANGED <<published, file, staged>>
  <2>1. ASSUME NEW b \in Builds, Publish(b) PROVE Agent!Next
    BY <2>1 DEF Publish, Agent!Next, Agent!Publish
  <2>2. CASE Reinstall
    BY <2>2 DEF Reinstall, Agent!Next, Agent!Reinstall
  <2>3. CASE Crash \/ Opt
    BY <2>3 DEF Crash, Opt
  <2>4. QED
    BY <1>3, <2>1, <2>2, <2>3 DEF World
<1>4. CASE Start \/ UNCHANGED vars
  BY <1>4 DEF Start, vars
<1>5. QED
  BY <1>1, <1>2, <1>3, <1>4 DEF Next

\* However the replacement of the binary is cut short and taken up again, it amounts to
\* one step of module Handover: Upgrade implements it.
THEOREM UpgradeHandsOver == Spec => HandsOver
<1>1. Spec => []IInv
  BY UpgradeAssumption, InitHolds, NextHolds, PTL DEF Spec
<1>2. QED
  BY <1>1, UpgradeAssumption, InitHandover, NextHandover, PTL DEF Spec, HandsOver, Agent!Spec
=============================================================================
