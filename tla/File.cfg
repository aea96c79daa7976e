\* Two clients with names of their own, one of them also after a name that is taken; everything may fail.
CONSTANTS
  c1 = c1
  c2 = c2
  mine1 = mine1
  mine2 = mine2
  old = old
  Client = {c1, c2}
  Truncated = truncated
  Name = {mine1, mine2, old, truncated}
  Secret = secret
  Wrong = wrong
  LongInput = longInput
  OldFiles = {old}
  Wanted <- WantedOwn
  FileLength = 2
  Window = 1
  NumVerify = 2
  Backlog = 1
  LongTyped = {c1}
  ServerFails = TRUE
  NoChunk = NoChunk
SPECIFICATION FairSpec
INVARIANTS StoredIsVerified AttemptsLimited EndsAgree StoredIsPrefix
PROPERTIES ChildLeaves ClientAnswered
CHECK_DEADLOCK FALSE
