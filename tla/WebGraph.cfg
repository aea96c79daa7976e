\* Five pages, read or made up, a cache of two, numbers split at 2.
CONSTANTS
  PageCount = 5
  Window = 2
  Half = 2
  Graphs <- MCGraphs
  Exist = 2
  LinkCounts = {2, 3}
  CacheSize = 2
  LimitUp = 1
  LimitDown = 2
SPECIFICATION FairSpec
INVARIANTS LinksAreSimple WritableOnly Lossless CodesAreRead CacheIsRight
PROPERTY LinkStoreSpec
