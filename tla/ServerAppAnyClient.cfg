CONSTANTS
  Readers = {r1, r2}
  Requests = {"STATE_INIT", "REQUEST_ABORT", "REQUEST_STATUS"}
  MaxInbox = 1
  MaxBad = 2
  Capacity = 1
  PatientClient = FALSE
  MayDisconnect = TRUE
  MaySignal = FALSE
SPECIFICATION Spec
INVARIANTS TypeOK TimerArmed  BufferAlive  IdleListens NoDoubleListener
CHECK_DEADLOCK FALSE
SYMMETRY ReaderSymmetry
VIEW ImpatientView
