CONSTANTS
  Signals = {sigterm, sigint}
  MaxSignals = 4
SPECIFICATION FairSpec
PROPERTIES SignalsEnd
CHECK_DEADLOCK FALSE
