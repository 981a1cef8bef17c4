SPECIFICATION FairSpec
CONSTANTS
  Ids = {b1, b2}
  Tickets = {t1}
  None = None
  Keep = 1
  Allowed = {"asks", "crashes"}
  Budget = 2
PROPERTY BackupEnds
CHECK_DEADLOCK FALSE
