CONSTANTS
  ReaderThreads = {r1}
  Nobody = Nobody
  Size = 2
  MaxLength = 5
  PrefixLength = 2
  ReadSizes = {3, 4}
  MayInterrupt = TRUE
  MaxSentences = 4
SPECIFICATION Spec
INVARIANTS TypeOK WithinBuffers ReadsWholeSentences
PROPERTIES ImplementsQueue
