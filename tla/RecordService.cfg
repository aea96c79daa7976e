\* Seven files and none; a service of two workers that malloc may fail.
CONSTANTS
  File <- MCFile
  NoFile = NoFile
  READ_BUF_SIZE = 8
  CONF_ENTRY_SIZE = 3
  Default <- MCDefault
  Room <- MCRoom
  Damage <- MCDamage
  MallocMayFail = TRUE
  Number <- MCNumber
  Configuration = {}
  Worker = {t1, t2}
  Entry = {e1, e2, e3}
  NoEntry = NoEntry
  EngineCount = 1
  Request <- MCRequest
  AllocMayFail = TRUE
  Free = Free
  Destroyed = Destroyed
  NoRequest = NoRequest
SPECIFICATION ServiceSpec
SYMMETRY Symmetry
INVARIANTS ConfiguredAsDeclared OnlyStreamLeft ServedAsConfigured RecordsKept RequestsAsConfigured
