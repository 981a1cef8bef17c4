SPECIFICATION FairSpec
CONSTANTS
  Nodes = {n1, n2, n3}
  Ids = {d1, d2, d3, d4}
  NoNode = NoNode
  Requests = {q1}
  Service <- MCService
  Fleet <- MCFleet
  Others <- MCOthers
  Shuns <- MCShuns
  Before <- MCBefore
  Loads = {0, 100}
  Counts = {1, 2}
  Allowed = {"deploys", "stops", "scales", "restarts"}
  Budget = 1
INVARIANT TypeOK
INVARIANT NoOvershoot
INVARIANT OneRunning
INVARIANT KeptApart
PROPERTY KeepsReleases
PROPERTY RouteCorrected
PROPERTY ScaledBack
CHECK_DEADLOCK FALSE
