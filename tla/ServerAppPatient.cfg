CONSTANTS
  Readers = {r1, r2}
  Requests = {"STATE_INIT", "REQUEST_ABORT", "REQUEST_STATUS"}
  MaxInbox = 2
  MaxBad = 2
  Capacity = 1
  PatientClient = TRUE
  MayDisconnect = FALSE
  MaySignal = FALSE
SPECIFICATION FairSpec
INVARIANTS CleanStart NoBadJoin
PROPERTIES AbortAnswered UsesOneReader SessionTerminates SessionsFollow IdleStartServed
CHECK_DEADLOCK FALSE
