SPECIFICATION Spec
CONSTANTS
  n1 = n1
  n2 = n2
  postgres = postgres
  web = web
  NoNode = NoNode
  NoRow = NoRow
  NoService = NoService
  Rows = {r1, r2, r3, r4}
  Nodes <- MCNodes
  Flaky = {n1}
  Services <- MCServices
  Pinned <- MCPinned
  Eager <- MCEager
  Volumes <- MCVolumes
  Home <- MCHome
  Suits <- MCSuits
  Slots <- MCSlots
  Allowed = {"silences", "cordons", "deploys", "restarts", "removals", "drifts"}
  Budget = 2
INVARIANT TypeOK
INVARIANT AtMostOneRunning
INVARIANT PinnedStaysHome
PROPERTY PinnedNeverCopied
PROPERTY KeepsCustody
CHECK_DEADLOCK FALSE
