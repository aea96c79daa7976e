\* Two vectors that grow by half a byte at a time to a byte and a half.
CONSTANTS
  Vector = {result, code}
  Chunk <- MCChunk
  Position = {0, 4}
  MaxLength = 12
  Unwritten = Unwritten
SPECIFICATION Spec
INVARIANTS BitsInside CopyInside
PROPERTY SequenceSpec
