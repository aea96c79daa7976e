\* Gaps that fit a half and gaps that do not, in one page.
CONSTANTS
  PageCount = 5
  Window = 2
  Half = 2
  Graphs <- MCGraphs
  Exist = 2
  LinkCounts = {2}
  CacheSize = 2
  LimitUp = 1
  LimitDown = 2
SPECIFICATION FairSpec
INVARIANT RestIsWritten
