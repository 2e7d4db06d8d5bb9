CONSTANTS
  Size = 2
  Lengths = {3, 4, 6}
  ReadSizes = {1, 2, 3}
  Readers = {r1, r2}
  Chunk = 3
  BufferSize = 7
  Overlapping = TRUE
  MaxSentences = 3
SPECIFICATION Spec
INVARIANTS TypeOK WholeSentences FitsBuffer
CHECK_DEADLOCK FALSE
