\* Two clients that want the same name.
CONSTANTS
  c1 = c1
  c2 = c2
  mine1 = mine1
  mine2 = mine2
  old = old
  Client = {c1, c2}
  Truncated = truncated
  Name = {mine1, mine2, old, truncated}
  Secret = secret
  Wrong = wrong
  LongInput = longInput
  OldFiles = {old}
  Wanted <- WantedSame
  FileLength = 2
  Window = 1
  NumVerify = 2
  Backlog = 1
  LongTyped = {}
  ServerFails = FALSE
  NoChunk = NoChunk
SPECIFICATION Spec
INVARIANT GrantedIsNew
CHECK_DEADLOCK FALSE
