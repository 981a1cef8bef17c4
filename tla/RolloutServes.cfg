SPECIFICATION Spec
CONSTANTS
  Nodes = {n1, n2}
  Rows = {r1, r2, r3}
  NoNode = NoNode
  Stateful = FALSE
  Checked = TRUE
  Allowed = {"deploys"}
  Budget = 1
PROPERTY ServesThroughout
CHECK_DEADLOCK FALSE
