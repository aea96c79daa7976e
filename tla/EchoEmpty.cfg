\* A compressed page whose text is empty.
CONSTANTS
  Response <- MCEmpty
  MinLength = 2
  PreviewSize = 2
  ScriptLength = 1
  InitialSize = 2
  MaxRead = 2
  AllocMayFail = FALSE
  NoBuffer = NoBuffer
  NotSent = NotSent
SPECIFICATION Spec
INVARIANT LengthIsTrue
