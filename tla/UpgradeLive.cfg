SPECIFICATION FairSpec
CONSTANTS
  Builds = {b1, b2, b3}
  Half = Half
  None = None
  MaxAttempts = 2
  Allowed = {"publish", "opt", "transfer", "save", "io", "crash", "reinstall"}
  Budget = 4
INVARIANT TypeOK
INVARIANT OnlyWhole
INVARIANT StagedIsWaiting
PROPERTY HandsOver
PROPERTY Settles
PROPERTY Converges
CHECK_DEADLOCK FALSE
