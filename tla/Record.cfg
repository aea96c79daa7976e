\* Two workers, a list of two, four requests: two full batches, or one and a rest. Liveness, so no symmetry.
CONSTANTS
  Worker = {t1, t2}
  Entry = {e1, e2, e3, e4}
  NoEntry = NoEntry
  Configuration <- MCRecordAll
  EngineCount = 1
  Request <- MCRequestBrowse
  AllocMayFail = FALSE
  Free = Free
  Destroyed = Destroyed
  NoRequest = NoRequest
SPECIFICATION FairSpec

INVARIANTS TypeOK NeverRefused RecordAccounted BatchesAreConsecutive
PROPERTIES LogSpec LockReleased FullBatchWritten RecordSettles
