SPECIFICATION FairSpec
CONSTANTS
  Threads = {cron, full, incr, manual}
  Routed = {full, incr}
  LateRaisers = {manual}
  NoThread = nobody
INVARIANTS CancelIsForThisRun
PROPERTIES LockIsReleased ImplementsMutex
