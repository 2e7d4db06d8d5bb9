CONSTANTS
  ReaderThreads = {r1, r2}
  Nobody = Nobody
  Size = 2
  MaxLength = 4
  PrefixLength = 2
  ReadSizes = {3}
  MayInterrupt = FALSE
  MaxSentences = 3
SPECIFICATION Spec
INVARIANTS Exclusive SharedInOrder
