CONSTANTS
  Knots = {0, 5}
  Capacity = 1
  MaxSentences = 3
  MaxSessions = 2
SPECIFICATION FairSpec
INVARIANTS TypeOK SpeedNotAhead TimestampOfSession ReportOfSession
PROPERTIES SamplesAdvance KeepsContract
CHECK_DEADLOCK FALSE
