\* Files that do not end in a newline; a service without requests.
CONSTANTS
  File <- MCUnterminated
  NoFile = NoFile
  READ_BUF_SIZE = 8
  CONF_ENTRY_SIZE = 3
  Default <- MCDefault
  Room <- MCRoom
  Damage <- MCDamage
  MallocMayFail = FALSE
  Number <- MCNumber
  Configuration = {}
  Worker = {t1}
  Entry = {}
  NoEntry = NoEntry
  EngineCount = 1
  Request <- MCRequest
  AllocMayFail = FALSE
  Free = Free
  Destroyed = Destroyed
  NoRequest = NoRequest
SPECIFICATION ServiceSpec
INVARIANT OnlyNewlinesCut
