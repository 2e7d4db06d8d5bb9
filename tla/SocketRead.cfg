CONSTANTS
  Block = 3
  LineLengths = {1, 2, 3, 4, 5, 6, 7}
  MaxLines = 3
SPECIFICATION FairSpec
INVARIANTS OneLine MissesFullBlocksOnly
PROPERTIES RequestsServed ReadsReturn
CHECK_DEADLOCK FALSE
