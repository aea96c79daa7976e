\* Every branch of the handlers and of the decompression, in memory that may run out.
CONSTANTS
  Response <- MCResponses
  MinLength = 2
  PreviewSize = 2
  ScriptLength = 1
  InitialSize = 2
  MaxRead = 2
  AllocMayFail = TRUE
  NoBuffer = NoBuffer
  NotSent = NotSent
  Word = 16
  Guess = 6
  MaxInput = 4
  MaxText = 9
SPECIFICATION EchoSpec
INVARIANTS WithinBlock TextIsWhole BlocksFreed EchoedAsSent LengthIsTrue NotCutOff
PROPERTIES HeadIsFinal WorkEnds
