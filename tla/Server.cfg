\* Three clients and an absolute, a relative, the root and no working directory in the file.
CONSTANTS
  File <- MCFile
  NoFile = NoFile
  READ_BUF_SIZE = 9
  CONF_ENTRY_SIZE = 1
  Default <- MCDefault
  Room <- MCRoom
  Damage <- MCDamage
  MallocMayFail = TRUE
  Child = {c1, c2, c3}
  Start <- MCStart
  MaxRemovals = 2
  SystemMayFail = TRUE
SPECIFICATION Spec
INVARIANTS Restored DescriptorsApart LogsApart
PROPERTIES StoresWhereNamed
