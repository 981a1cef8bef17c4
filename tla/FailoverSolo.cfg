SPECIFICATION FairSpec
CONSTANTS
  n1 = n1
  n2 = n2
  postgres = postgres
  web = web
  NoNode = NoNode
  NoRow = NoRow
  NoService = NoService
  Rows = {r1, r2, r3, r4}
  Nodes <- SoloNodes
  Flaky = {n1}
  Services <- MCServices
  Pinned <- MCPinned
  Eager <- MCEager
  Volumes <- MCVolumes
  Home <- MCHome
  Suits <- SoloSuits
  Slots <- SoloSlots
  Allowed = {"silences", "cordons", "deploys", "drifts"}
  Budget = 2
PROPERTY HeldResumes
PROPERTY StrandClears
PROPERTY NodeDownPathRuns
CHECK_DEADLOCK FALSE
