CONSTANTS
  Knots = {0, 5}
  Capacity = 1
  MaxSentences = 3
  MaxSessions = 2
SPECIFICATION Spec
INVARIANTS SpeedsValidated
CHECK_DEADLOCK FALSE
