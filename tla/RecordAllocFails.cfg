\* malloc may fail: the full list is never written.
CONSTANTS
  Worker = {t1, t2}
  Entry = {e1, e2, e3}
  NoEntry = NoEntry
  Configuration <- MCRecordUrls
  EngineCount = 0
  Request <- MCRequestBrowse
  AllocMayFail = TRUE
  Free = Free
  Destroyed = Destroyed
  NoRequest = NoRequest
SPECIFICATION FairSpec

PROPERTY FullBatchWritten
