SPECIFICATION FairSpec
CONSTANTS
  Nodes = {n1, n2}
  Rows = {r1, r2, r3}
  NoNode = NoNode
  Stateful = FALSE
  Checked = TRUE
  Allowed = {"deploys", "pushes", "operations", "crashes", "silences", "restarts", "upgrades"}
  Budget = 1
INVARIANT TypeOK
INVARIANT BuildsUntouched
PROPERTY KeepsReleases
PROPERTY RolloutResolves
PROPERTY Reaped
PROPERTY BuildResolves
CHECK_DEADLOCK FALSE
