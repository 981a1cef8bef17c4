SPECIFICATION FairSpec
CONSTANTS
  Ids = {b1, b2}
  Tickets = {t1}
  None = None
  Keep = 1
  Allowed = {"asks", "deletes", "restores", "operations", "outages", "losses", "faults", "crashes", "restarts"}
  Budget = 2
INVARIANT TypeOK
INVARIANT CompleteHasArchive
INVARIANT RestoresStopped
PROPERTY LastGoodKept
PROPERTY BackupSettles
PROPERTY RestoreSettles
CHECK_DEADLOCK FALSE
