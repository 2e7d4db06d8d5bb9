CONSTANTS
  Readers = {r1, r2}
  Requests = {"STATE_INIT", "REQUEST_STATUS"}
  MaxInbox = 1
  MaxBad = 2
  Capacity = 1
  PatientClient = TRUE
  MayDisconnect = FALSE
  MaySignal = TRUE
SPECIFICATION FairSpec
PROPERTIES TeardownCompletes
CHECK_DEADLOCK FALSE

