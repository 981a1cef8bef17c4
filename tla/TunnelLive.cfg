SPECIFICATION FairSpec
CONSTANTS
  Nodes = {n1, n2}
  Socks = {s1, s2, s3}
  Reqs = {q1}
  None = None
  Allowed = {"removals", "breaks", "timeouts", "crashes", "outages", "restarts"}
  Budget = 1
INVARIANT TypeOK
INVARIANT OnlyItsOwn
INVARIANT RevokedClosed
INVARIANT OpenIsRegistered
PROPERTY RequestsEnd
PROPERTY TunnelRestored
PROPERTY DeadDropped
CHECK_DEADLOCK FALSE
