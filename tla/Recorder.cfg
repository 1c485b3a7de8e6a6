SPECIFICATION FairSpec
CONSTANTS
  Tx = {t1}
  MaxQueuedOps = 2
  QueueLimit = 1
  MaxSession = 1
  MaxBody = 1
  MaxTapQueue = 1
  DiskFails = TRUE
CHECK_DEADLOCK FALSE
INVARIANTS
  RecorderIsSound
PROPERTIES
  
  ImplementsIndexLog
  RecorderSettles
