----------------------- MODULE ServerAppPatientProofs -----------------------
(***************************************************************************)
(* The server with a client that waits for the end of a session before it  *)
(* asks for another, for any number of readers and any bounds: a session   *)
(* starts from nothing, its readers keep to ReaderContract, and only the   *)
(* handler of an abort can join a thread that is not there.                *)
(***************************************************************************)
EXTENDS ServerAppProofs, FiniteSetTheorems

(***************************************************************************)
(* The way of a request: in the inbox, taken by the listener, accepted as  *)
(* the state, and, for an abort, being answered by its handler.            *)
(***************************************************************************)
StartWaits == \E i \in 1..Len(inbox) : inbox[i] = "STATE_INIT"
AbortWaits == \E i \in 1..Len(inbox) : inbox[i] = "REQUEST_ABORT"

AbortLabels == {"abort_join", "abort_set", "abort_send"}
StartAccepted == state = "START_REQUESTED" /\ spc # "start_set"
AbortAccepted == state = "ABORT_REQUESTED" \/ spc \in AbortLabels
StartTaken == lpc = "start" \/ StartAccepted
AbortTaken == lpc = "abort" \/ AbortAccepted

\* At most one request of either kind is in the inbox, the start before its abort.
InboxInOrder ==
  \A i, j \in 1..Len(inbox) :
    /\ inbox[i] = inbox[j] /\ inbox[i] \in {"STATE_INIT", "REQUEST_ABORT"} => i = j
    /\ inbox[i] = "STATE_INIT" /\ inbox[j] = "REQUEST_ABORT" => i < j

\* A request is in one place only, and no start follows an abort not yet answered.
Apart ==
  /\ StartWaits => ~StartTaken /\ ~AbortTaken
  /\ AbortWaits => ~AbortTaken
  /\ lpc = "start" => ~StartAccepted /\ ~AbortAccepted
  /\ lpc = "abort" => ~AbortAccepted
  /\ spc \in AbortLabels => state # "START_REQUESTED"
  /\ spc = "abort_send" => state \in {"DONE", "UNEXPECTED_ERROR"}

\* Nothing is left of a session, and the server thread is not in another.
Cleared == timer = "off" /\ ~accelOn /\ readers = {}
EndLabels == {"finish_set", "done_join", "teardown_join", "teardown_listener",
              "leaving", "exited"}
Over ==
  /\ Cleared
  /\ \/ spc \in EndLabels
     \/ spc \in {"top", "dispatch"} /\ state \notin {"POLL_SIGNAL"} \cup Reporting

\* What a client that waits knows: when it has no session, and when it has not
\* asked for an abort.
Knows ==
  /\ client = "idle" => ~StartWaits /\ ~StartTaken
  /\ client = "idle" \/ StartWaits \/ StartTaken => Over
  /\ client # "aborting" => ~AbortWaits /\ ~AbortTaken

\* What a session has cleared before the message that ends it.
LastLabels == {"nosignal_send", "idle_send", "status_on", "status_off", "status_send",
               "results0", "results1", "results2", "results_end", "abort_set", "abort_send"}
Stages ==
  /\ spc \in LastLabels => Cleared
  /\ spc \in {"start_set", "nosignal_join", "idle_join", "error_join"} => ~accelOn
  /\ spc \in {"top", "dispatch"} /\ state = "POLL_SIGNAL" => ~accelOn
  /\ spc \in {"nosignal_join", "idle_join", "error_join", "nodata_join", "measured_join",
              "measured_set", "abort_join"} => timer = "off"
  /\ spc = "measured_set" => readers = {}
  /\ spc = "fix_send" => state \notin {"POLL_SIGNAL", "ANALYZE"}
  /\ spc \in {"top", "dispatch"} /\ state = "ANALYZE" => timer = "off" /\ readers = {}

\* A teardown disturbs what the server thread does from its next handler on.
Undisturbed == ~teardown \/ spc = "dispatch"
Orderly == InboxInOrder /\ Apart /\ Knows /\ Stages

PatientInv ==
  PatientClient => readers \subseteq {handle} /\ (Undisturbed => Orderly)

-----------------------------------------------------------------------------
LEMMA PatientInit == Init => PatientInv
<1> SUFFICES ASSUME Init PROVE readers \subseteq {handle} /\ Orderly
  BY DEF PatientInv
<1>1. Len(inbox) = 0
  BY DEF Init
<1>2. ~StartWaits /\ ~AbortWaits /\ InboxInOrder
  BY <1>1 DEF StartWaits, AbortWaits, InboxInOrder
<1>3. QED
  BY <1>2 DEF Init, Orderly, Apart, Knows, Stages, StartTaken, AbortTaken, StartAccepted,
              AbortAccepted, AbortLabels, LastLabels, Cleared, Over, EndLabels, Reporting

\* A step that leaves the inbox alone keeps what is said of it.
LEMMA SameInbox ==
  ASSUME inbox' = inbox
  PROVE  (StartWaits' <=> StartWaits) /\ (AbortWaits' <=> AbortWaits)
         /\ (InboxInOrder' <=> InboxInOrder)
BY DEF StartWaits, AbortWaits, InboxInOrder

-----------------------------------------------------------------------------
(***************************************************************************)
(* The server thread.  It leaves the inbox alone; what is said of a session*)
(* that is over must hold again when its last message is sent.             *)
(***************************************************************************)
LEMMA OneHandle == ASSUME TypeOK, PatientClient, PatientInv, ServerStep PROVE readers' \subseteq {handle'}
<1> USE DEF At, gnss, accel, net, threads
<1> readers \subseteq {handle} /\ (Undisturbed => Orderly)
  BY DEF PatientInv
<1>1. CASE StateStartRequested
  <2>1. readers = {}
    BY <1>1 DEF StateStartRequested, Undisturbed, Orderly, Knows, StartTaken, StartAccepted, Over, Cleared
  <2>2. QED BY <1>1, <2>1 DEF StateStartRequested
<1>2. CASE JoinReader
  BY <1>2 DEF JoinReader, GnssJoined
<1>3. CASE ~StateStartRequested /\ ~JoinReader
  <2>1. UNCHANGED <<readers, handle>>
    BY <1>3 DEF ServerStep, LoopTop, StateInit, StateWait, PollFix,
        PollTimeout, StateWorking, WaitAccelStarted, WaitAccelTimeout, WaitAccelPoll,
        WaitAccelBail, Tolerate, MeasureFinal, MeasurePass, MeasureSlow, MeasureBail,
        StateAnalyze, StateAbortRequested, StateFinished, StateDone, StateUnexpectedError,
        SetState, ServerStatusOn, ServerStatusOff, ServerSend,
        DoneJoined, TeardownByServer, ServerReturns, GnssStop, StatusOn, StatusOff
  <2>2. QED BY <2>1
<1>4. QED BY <1>1, <1>2, <1>3

LEMMA PatientServer ==
  ASSUME TypeOK, MainAsleep, PatientClient, PatientInv, ServerStep PROVE PatientInv'
<1> DEFINE J == Apart /\ Knows /\ Stages
<1> readers \subseteq {handle} /\ (Undisturbed => InboxInOrder /\ J)
  BY DEF PatientInv, Orderly
<1>0. SUFFICES ASSUME Undisturbed' PROVE InboxInOrder' /\ J'
  BY OneHandle DEF PatientInv, Orderly
<1> USE DEF Undisturbed, Apart, Knows, Stages, StartTaken, AbortTaken, StartAccepted,
        AbortAccepted, AbortLabels, LastLabels, Cleared, Over, EndLabels, Reporting,
        At, ToTop, gnss, accel, net, threads
<1>1. CASE LoopTop BY <1>0, <1>1, SameInbox DEF LoopTop
<1>2. CASE StateInit BY <1>0, <1>2, SameInbox DEF StateInit
<1>3. CASE StateWait BY <1>0, <1>3, SameInbox DEF StateWait
<1>4. CASE StateStartRequested BY <1>0, <1>4, SameInbox DEF StateStartRequested, TimerStart
<1>5. CASE PollFix BY <1>0, <1>5, SameInbox DEF PollFix, TimerStop
<1>6. CASE PollTimeout BY <1>0, <1>6, SameInbox DEF PollTimeout, TimerStop, GnssStop
<1>7. CASE StateWorking BY <1>0, <1>7, SameInbox DEF StateWorking, TimerStart, AccelStart
<1>8. CASE WaitAccelTimeout
  BY <1>0, <1>8, SameInbox DEF WaitAccelTimeout, TimerStop, AccelStop, GnssStop
<1>9. CASE WaitAccelBail BY <1>0, <1>9, SameInbox DEF WaitAccelBail, TimerStop, GnssStop
<1>10. CASE MeasureBail BY <1>0, <1>10, SameInbox DEF MeasureBail, TimerStop, GnssStop
<1>11. ASSUME NEW new \in BOOLEAN, WaitAccelStarted(new) PROVE InboxInOrder' /\ J'
  BY <1>0, <1>11, SameInbox DEF WaitAccelStarted
<1>12. ASSUME NEW new \in BOOLEAN, WaitAccelPoll(new) PROVE InboxInOrder' /\ J'
  BY <1>0, <1>12, SameInbox DEF WaitAccelPoll
<1>13. ASSUME NEW new \in BOOLEAN, MeasureFinal(new) PROVE InboxInOrder' /\ J'
  BY <1>0, <1>13, SameInbox DEF MeasureFinal, TimerStop, GnssStop
<1>14. ASSUME NEW new \in BOOLEAN, MeasurePass(new) PROVE InboxInOrder' /\ J'
  BY <1>0, <1>14, SameInbox DEF MeasurePass
<1>15. ASSUME NEW new \in BOOLEAN, MeasureSlow(new) PROVE InboxInOrder' /\ J'
  BY <1>0, <1>15, SameInbox DEF MeasureSlow, TimerStop, GnssStop
<1>16. ASSUME NEW st \in {"WAIT_ACCEL", "MEASURE"}, Tolerate(st) PROVE InboxInOrder' /\ J'
  BY <1>0, <1>16, SameInbox DEF Tolerate
<1>17. CASE StateAnalyze BY <1>0, <1>17, SameInbox DEF StateAnalyze, AccelStop
<1>18. CASE StateAbortRequested
  BY <1>0, <1>18, SameInbox DEF StateAbortRequested, TimerStop, GnssStop
<1>19. CASE StateFinished BY <1>0, <1>19, SameInbox DEF StateFinished
<1>20. CASE StateDone BY <1>0, <1>20, SameInbox DEF StateDone
<1>21. CASE StateUnexpectedError BY <1>0, <1>21, SameInbox DEF StateUnexpectedError, GnssStop
<1>22. CASE JoinReader
  <2>1. /\ spc \in JoinLabels /\ spc' = AfterJoin[spc] /\ readers' = readers
        /\ UNCHANGED <<lpc, mpc, state, timer, inbox, client, teardown>>
        /\ accelOn' = IF spc \in {"abort_join", "nodata_join"} THEN FALSE ELSE accelOn
    BY <1>22, Domains DEF JoinReader, GnssJoined, AccelStop
  <2>2. spc' \in LastLabels \cup {"measured_set", "teardown_listener"} /\ ~teardown
    BY <1>0, <2>1, JoinTable DEF JoinLabels
  <2>3. readers = {}
    BY <1>22, <2>2, HandleAssumption DEF JoinReader, GnssJoined, MainAsleep, TypeOK
  <2>4. Apart'
    BY <1>0, <2>1, <2>2, JoinTable, SameInbox DEF JoinLabels
  <2>5. Knows'
    BY <1>0, <2>1, <2>2, JoinTable, SameInbox DEF JoinLabels
  <2>6. Stages'
    BY <1>0, <2>1, <2>2, <2>3, JoinTable DEF JoinLabels
  <2>7. QED BY <1>0, <2>1, <2>2, <2>4, <2>5, <2>6, SameInbox
<1>23. CASE SetState
  <2>1. /\ spc \in SetLabels /\ state' = NewState[spc] /\ spc' = AfterSet(spc)
        /\ UNCHANGED <<lpc, readers, timer, accelOn, inbox, client, teardown>>
    BY <1>23, Domains DEF SetState
  <2>2. ~teardown
    BY <1>0, <2>1 DEF AfterSet
  <2>3. Apart'
    BY <1>0, <2>1, <2>2, SetTable, SameInbox DEF AfterSet, SetLabels
  <2>4. Knows'
    BY <1>0, <2>1, <2>2, SetTable, SameInbox DEF AfterSet, SetLabels
  <2>5. Stages'
    BY <1>0, <2>1, <2>2, SetTable DEF AfterSet, SetLabels
  <2>6. QED BY <1>0, <2>1, <2>2, <2>3, <2>4, <2>5, SameInbox
<1>24. CASE ServerStatusOn BY <1>0, <1>24, SameInbox DEF ServerStatusOn, StatusOn
<1>25. CASE ServerStatusOff BY <1>0, <1>25, SameInbox DEF ServerStatusOff, StatusOff
<1>26. CASE ServerSend
  <2>1. /\ spc \in SendLabels /\ spc' = AfterSend[spc]
        /\ UNCHANGED <<lpc, readers, timer, accelOn, inbox, teardown>>
        /\ client' \in {client, Belief(spc)} /\ state' \in {state, "UNEXPECTED_ERROR"}
    BY <1>26, Domains DEF ServerSend, Transmit
  <2>2. ~teardown
    BY <1>0, <2>1, SendTable DEF SendLabels
  <2>3. Apart'
    BY <1>0, <2>1, <2>2, SendTable, SameInbox DEF SendLabels
  <2>4. Knows'
    BY <1>0, <2>1, <2>2, SendTable, SameInbox DEF SendLabels, Belief
  <2>5. Stages'
    BY <1>0, <2>1, <2>2, SendTable DEF SendLabels
  <2>6. QED BY <1>0, <2>1, <2>2, <2>3, <2>4, <2>5, SameInbox
<1>27. CASE DoneJoined BY <1>0, <1>27, SameInbox DEF DoneJoined, ListenerJoined
<1>28. CASE TeardownByServer BY <1>0, <1>28, SameInbox DEF TeardownByServer, ListenerJoined
<1>29. CASE ServerReturns BY <1>0, <1>29, SameInbox DEF ServerReturns
<1>30. QED BY <1>1, <1>2, <1>3, <1>4, <1>5, <1>6, <1>7, <1>8, <1>9, <1>10, <1>11, <1>12,
             <1>13, <1>14, <1>15, <1>16, <1>17, <1>18, <1>19, <1>20, <1>21, <1>22, <1>23,
             <1>24, <1>25, <1>26, <1>27, <1>28, <1>29, Zenon DEF ServerStep

-----------------------------------------------------------------------------
(***************************************************************************)
(* The listener, which moves requests on.                                  *)
(***************************************************************************)
\* Taking the first message: what is left, and what it was.
LEMMA TakeFirst ==
  ASSUME inbox \in Seq(Requests), inbox # << >>, inbox' = Tail(inbox), InboxInOrder
  PROVE  /\ InboxInOrder'
         /\ (StartWaits' => StartWaits) /\ (AbortWaits' => AbortWaits)
         /\ Head(inbox) = "STATE_INIT" => StartWaits /\ ~StartWaits'
         /\ Head(inbox) = "REQUEST_ABORT" => AbortWaits /\ ~AbortWaits' /\ ~StartWaits'
<1>1. /\ Len(inbox) \in Nat /\ Len(inbox) > 0 /\ Len(inbox') = Len(inbox) - 1
      /\ \A i \in 1..Len(inbox') : inbox'[i] = inbox[i + 1]
      /\ Head(inbox) = inbox[1]
  <2>1. Len(inbox) \in Nat /\ Len(inbox) > 0
    BY EmptySeq, LenProperties
  <2>2. QED BY <2>1, HeadTailProperties
<1>2. \A i \in 1..Len(inbox') : i + 1 \in 1..Len(inbox) /\ i + 1 # 1 /\ ~(i + 1 < 1)
  BY <1>1
<1>3. 1 \in 1..Len(inbox)
  BY <1>1
<1>4. \A i, j \in 1..Len(inbox') : (i + 1 = j + 1 => i = j) /\ (i + 1 < j + 1 => i < j)
  BY <1>1
<1>5. InboxInOrder'
  BY <1>1, <1>2, <1>4 DEF InboxInOrder
<1>6. (StartWaits' => StartWaits) /\ (AbortWaits' => AbortWaits)
  BY <1>1, <1>2 DEF StartWaits, AbortWaits
<1>7. \A i \in 1..Len(inbox') :
        /\ inbox'[i] = inbox[1] => inbox[1] \notin {"STATE_INIT", "REQUEST_ABORT"}
        /\ ~(inbox'[i] = "STATE_INIT" /\ inbox[1] = "REQUEST_ABORT")
  BY <1>1, <1>2, <1>3 DEF InboxInOrder
<1>8. QED
  BY <1>1, <1>3, <1>5, <1>6, <1>7 DEF StartWaits, AbortWaits

LEMMA PatientListener ==
  ASSUME TypeOK, PatientClient, PatientInv, ListenerStep PROVE PatientInv'
<1> DEFINE J == Apart /\ Knows /\ Stages
<1> readers \subseteq {handle} /\ (Undisturbed => InboxInOrder /\ J)
  BY DEF PatientInv, Orderly
<1>0. /\ UNCHANGED <<spc, teardown, readers, handle, timer, accelOn>> /\ (Undisturbed' => Undisturbed)
  BY DEF ListenerStep, ListenerCheck, ListenerMessage, ListenerTimeout, ListenerError,
         ListenerEndOfStream, ListenerAbort, ListenerStart, ListenerStatus, ListenerSend,
         ListenerGoes, StatusOn, StatusOff, gnss, accel, Undisturbed
<1> SUFFICES ASSUME InboxInOrder, J PROVE InboxInOrder' /\ J'
  BY <1>0 DEF PatientInv, Orderly
<1> USE DEF Apart, Knows, Stages, StartTaken, AbortTaken, StartAccepted,
        AbortAccepted, AbortLabels, LastLabels, Cleared, Over, EndLabels, Reporting,
        gnss, accel, net, threads, ListenerGoes
<1>1. CASE ListenerCheck BY <1>0, <1>1, SameInbox DEF ListenerCheck
<1>2. CASE ListenerMessage
  <2>1. /\ inbox # << >> /\ inbox' = Tail(inbox) /\ UNCHANGED <<state, client>>
        /\ lpc = "read" /\ lpc' = Reaction(Head(inbox)) /\ inbox \in Seq(Requests)
    BY <1>2 DEF ListenerMessage, TypeOK
  <2>2. /\ lpc' = "start" => Head(inbox) = "STATE_INIT"
        /\ lpc' = "abort" => Head(inbox) = "REQUEST_ABORT"
    BY <2>1 DEF Reaction
  <2>3. QED BY <1>0, <2>1, <2>2, TakeFirst
<1>3. CASE ListenerTimeout BY <1>0, <1>3, SameInbox DEF ListenerTimeout
<1>4. CASE ListenerError BY <1>0, <1>4, SameInbox DEF ListenerError
<1>5. CASE ListenerEndOfStream BY <1>0, <1>5, SameInbox DEF ListenerEndOfStream
<1>6. CASE ListenerAbort BY <1>0, <1>6, SameInbox DEF ListenerAbort
<1>7. CASE ListenerStart BY <1>0, <1>7, SameInbox DEF ListenerStart
<1>8. CASE ListenerStatus BY <1>0, <1>8, SameInbox DEF ListenerStatus
<1>9. CASE ListenerSend BY <1>0, <1>9, SameInbox DEF ListenerSend, Transmit
<1>10. QED BY <1>1, <1>2, <1>3, <1>4, <1>5, <1>6, <1>7, <1>8, <1>9, Zenon DEF ListenerStep

-----------------------------------------------------------------------------
(***************************************************************************)
(* The main thread, the readers, the client and the operator.              *)
(***************************************************************************)
\* A message behind the others: the ones before it stay where they are.
LEMMA SendLast ==
  ASSUME inbox \in Seq(Requests), NEW m \in Requests, inbox' = Append(inbox, m), InboxInOrder,
         m = "STATE_INIT" => ~StartWaits /\ ~AbortWaits,
         m = "REQUEST_ABORT" => ~AbortWaits
  PROVE  /\ InboxInOrder'
         /\ StartWaits' <=> (StartWaits \/ m = "STATE_INIT")
         /\ AbortWaits' <=> (AbortWaits \/ m = "REQUEST_ABORT")
<1> DEFINE n == Len(inbox) + 1
<1>1. /\ Len(inbox) \in Nat /\ Len(inbox') = n /\ inbox'[n] = m
      /\ \A i \in 1..Len(inbox) : inbox'[i] = inbox[i]
  BY AppendProperties, LenProperties
<1>2. /\ n \in 1..n
      /\ \A i \in 1..n : i = n \/ (i \in 1..Len(inbox) /\ i < n)
      /\ \A i \in 1..Len(inbox) : i \in 1..n
  BY <1>1
<1> HIDE DEF n
<1>3. InboxInOrder'
  <2> SUFFICES ASSUME NEW i \in 1..n, NEW j \in 1..n
               PROVE  /\ inbox'[i] = inbox'[j] /\ inbox'[i] \in {"STATE_INIT", "REQUEST_ABORT"} => i = j
                      /\ inbox'[i] = "STATE_INIT" /\ inbox'[j] = "REQUEST_ABORT" => i < j
    BY <1>1 DEF InboxInOrder
  <2>1. CASE i # n /\ j # n
    BY <1>1, <1>2, <2>1 DEF InboxInOrder
  <2>2. CASE i = n /\ j # n
    BY <1>1, <1>2, <2>2 DEF StartWaits, AbortWaits
  <2>3. CASE i # n /\ j = n
    BY <1>1, <1>2, <2>3 DEF StartWaits, AbortWaits
  <2>4. CASE i = n /\ j = n
    BY <1>1, <2>4
  <2>5. QED BY <2>1, <2>2, <2>3, <2>4
<1>4. QED
  BY <1>1, <1>2, <1>3 DEF StartWaits, AbortWaits

LEMMA PatientMain ==
  ASSUME TypeOK, PatientClient, PatientInv, MainStep PROVE PatientInv'
<1> DEFINE J == Apart /\ Knows /\ Stages
<1> readers \subseteq {handle} /\ (Undisturbed => InboxInOrder /\ J)
  BY DEF PatientInv, Orderly
<1>1. /\ UNCHANGED <<spc, teardown, readers, timer, accelOn, state, inbox, client>>
      /\ (Undisturbed' => Undisturbed)
  BY DEF MainStep, MainTeardown, MainJoinReader, MainJoinListener, MainLeave,
         MainGoes, GnssStop, GnssJoined, gnss, accel, net, Undisturbed
<1>2. lpc' = lpc \/ lpc' = "none"
  BY DEF MainStep, MainTeardown, MainJoinReader, MainJoinListener, MainLeave, ListenerJoined
<1>3. readers' \subseteq {handle'}
  BY DEF MainStep, MainTeardown, MainJoinReader, MainJoinListener, MainLeave,
         GnssStop, GnssJoined, gnss
<1>4. ASSUME InboxInOrder, J PROVE InboxInOrder' /\ J'
  BY <1>1, <1>2, <1>4, SameInbox
     DEF Apart, Knows, Stages, StartTaken, AbortTaken, StartAccepted,
         AbortAccepted, AbortLabels, LastLabels, Cleared, Over, EndLabels, Reporting
<1>5. QED BY <1>1, <1>3, <1>4 DEF PatientInv, Orderly

LEMMA PatientEnvironment ==
  ASSUME TypeOK, PatientClient, PatientInv, EnvironmentStep PROVE PatientInv'
<1> DEFINE J == Apart /\ Knows /\ Stages
<1> readers \subseteq {handle} /\ (Undisturbed => InboxInOrder /\ J)
  BY DEF PatientInv, Orderly
<1>0. /\ UNCHANGED <<spc, lpc, state, handle, accelOn>> /\ (teardown' = FALSE => teardown = FALSE)
      /\ readers' \subseteq readers /\ (timer = "off" => timer' = "off") /\ teardown' \in BOOLEAN
  BY Zenon DEF EnvironmentStep, ReaderFail, ReaderExit, ReaderStatus, ReaderUnsupported, Tick,
         ClientSend, ClientLeave, Signal, threads, gnss, accel, TypeOK
<1>1. Undisturbed' => Undisturbed
  BY <1>0 DEF Undisturbed, TypeOK
<1> SUFFICES ASSUME InboxInOrder, J PROVE InboxInOrder' /\ J'
  BY <1>0, <1>1 DEF PatientInv, Orderly
<1> USE DEF Apart, Knows, Stages, StartTaken, AbortTaken, StartAccepted,
        AbortAccepted, AbortLabels, LastLabels, Cleared, Over, EndLabels, Reporting
<1>2. ASSUME NEW m \in Requests, ClientSend(m) PROVE InboxInOrder' /\ J'
  <2>1. /\ inbox' = Append(inbox, m) /\ inbox \in Seq(Requests) /\ UNCHANGED <<readers, timer>>
        /\ m = "STATE_INIT" => client = "idle" /\ client' = "busy"
        /\ m = "REQUEST_ABORT" => client = "busy" /\ client' = "aborting"
        /\ m \notin {"STATE_INIT", "REQUEST_ABORT"} => client' = client
    BY <1>2 DEF ClientSend, TypeOK, gnss
  <2>2. InboxInOrder' /\ (StartWaits' <=> (StartWaits \/ m = "STATE_INIT"))
        /\ (AbortWaits' <=> (AbortWaits \/ m = "REQUEST_ABORT"))
    BY <2>1, SendLast
  <2>3. QED BY <1>0, <2>1, <2>2
<1>3. CASE \A m \in Requests : ~ClientSend(m)
  <2>1. inbox' = inbox /\ client' = client
    BY <1>3 DEF EnvironmentStep, ReaderFail, ReaderExit, ReaderStatus, ReaderUnsupported, Tick,
           ClientLeave, Signal, net
  <2>2. QED BY <1>0, <2>1, SameInbox
<1>4. QED BY <1>2, <1>3

LEMMA PatientNext == PatientInv /\ IInv /\ [Next]_vars => PatientInv'
<1> SUFFICES ASSUME PatientClient, PatientInv, IInv, [Next]_vars PROVE PatientInv'
  BY DEF PatientInv
<1>1. TypeOK /\ MainAsleep
  BY Zenon DEF IInv
<1>2. CASE ServerStep BY <1>1, <1>2, PatientServer
<1>3. CASE ListenerStep BY <1>1, <1>3, PatientListener
<1>4. CASE MainStep BY <1>1, <1>4, PatientMain
<1>5. CASE EnvironmentStep BY <1>1, <1>5, PatientEnvironment
<1>6. CASE UNCHANGED vars
  <2>1. InboxInOrder' <=> InboxInOrder
    BY <1>6, SameInbox DEF vars, net
  <2>2. (Apart /\ Knows /\ Stages => (Apart /\ Knows /\ Stages)') /\ (Undisturbed' <=> Undisturbed)
    BY <1>6, SameInbox
       DEF vars, net, threads, gnss, accel, Apart, Knows, Stages, StartTaken, AbortTaken,
           StartAccepted, AbortAccepted, AbortLabels, LastLabels, Cleared, Over, EndLabels,
           Reporting, Undisturbed
  <2>3. readers' \subseteq {handle'} <=> readers \subseteq {handle}
    BY <1>6 DEF vars, gnss
  <2>4. QED BY <2>1, <2>2, <2>3 DEF PatientInv, Orderly
<1>7. QED BY <1>2, <1>3, <1>4, <1>5, <1>6 DEF Next

LEMMA PatientAlways == Spec => []PatientInv
BY PatientInit, PatientNext, Inductive, PTL DEF Spec

\* A session starts with no timer running, no samples and no reader left of the one
\* before, whichever way that one ended, whether the client stays or leaves
\* (:217-226 finds what :201-216, :402-471 have left).
THEOREM StartSafety == Spec => []CleanStart
<1>1. PatientInv => CleanStart
  BY DEF PatientInv, Undisturbed, Orderly, Knows, StartTaken, StartAccepted, Over, Cleared,
         CleanStart, Settled
<1>2. QED BY <1>1, PatientAlways, PTL

-----------------------------------------------------------------------------
(***************************************************************************)
(* The readers of a client that waits keep to ReaderContract.              *)
(***************************************************************************)
LEMMA ContractServer ==
  ASSUME PatientClient, PatientInv, ServerStep
  PROVE  Contract!Next \/ UNCHANGED <<grun, flag, fix, readers>>
<1> USE DEF gnss, accel, At
<1>1. CASE StateStartRequested
  <2>1. readers = {} /\ readers' # {} /\ grun' = TRUE /\ flag' = TRUE /\ fix' = FALSE
    BY <1>1 DEF StateStartRequested, PatientInv, Undisturbed, Orderly, Knows, StartTaken,
           StartAccepted, Over, Cleared
  <2>2. QED BY <2>1 DEF Contract!Next, Contract!Start
<1>2. CASE ~StateStartRequested
  <2>1. UNCHANGED <<fix, readers>> /\ \/ UNCHANGED <<grun, flag>>
                                      \/ grun' = FALSE /\ flag' = FALSE
                                      \/ grun' = grun /\ flag' \in BOOLEAN
    BY <1>2 DEF ServerStep, LoopTop, StateInit, StateWait, PollFix,
        PollTimeout, StateWorking, WaitAccelStarted, WaitAccelTimeout, WaitAccelPoll,
        WaitAccelBail, Tolerate, MeasureFinal, MeasurePass, MeasureSlow, MeasureBail,
        StateAnalyze, StateAbortRequested, StateFinished, StateDone, StateUnexpectedError,
        JoinReader, SetState, ServerStatusOn, ServerStatusOff, ServerSend,
        DoneJoined, TeardownByServer, ServerReturns, GnssStop, StatusOn, StatusOff, GnssJoined
  <2>2. QED BY <2>1 DEF Contract!Next, Contract!Stop, Contract!Ask
<1>3. QED BY <1>1, <1>2

LEMMA ContractElsewhere ==
  ASSUME PatientClient, PatientInv, IInv, ListenerStep \/ MainStep \/ EnvironmentStep
  PROVE  Contract!Next \/ UNCHANGED <<grun, flag, fix, readers>>
<1> USE DEF gnss
<1>1. CASE ListenerStep
  <2>1. UNCHANGED <<grun, fix, readers>> /\ (flag' = flag \/ flag' \in BOOLEAN)
    BY <1>1 DEF ListenerStep, ListenerCheck, ListenerMessage, ListenerTimeout, ListenerError,
        ListenerEndOfStream, ListenerAbort, ListenerStart, ListenerStatus, ListenerSend,
        StatusOn, StatusOff
  <2>2. QED BY <2>1 DEF Contract!Next, Contract!Ask
<1>2. CASE MainStep
  <2>1. UNCHANGED <<fix, readers>> /\ \/ UNCHANGED <<grun, flag>>
                                      \/ grun' = FALSE /\ flag' = FALSE
    BY <1>2 DEF MainStep, MainTeardown, MainJoinReader, MainJoinListener, MainLeave,
        GnssStop, GnssJoined
  <2>2. QED BY <2>1 DEF Contract!Next, Contract!Stop
<1>3. CASE ReaderFail
  BY <1>3 DEF ReaderFail, Contract!Next, Contract!Fail
<1>4. CASE ReaderStatus
  BY <1>4 DEF ReaderStatus, Contract!Next, Contract!Status
<1>5. ASSUME NEW r \in Readers, ReaderExit(r)
      PROVE  Contract!Next \/ UNCHANGED <<grun, flag, fix, readers>>
  <2>1. r \in readers /\ readers \subseteq {handle}
    BY <1>5 DEF ReaderExit, PatientInv
  <2>2. readers # {} /\ readers' = {} /\ ~grun /\ UNCHANGED <<grun, flag, fix>>
    BY <1>5, <2>1 DEF ReaderExit
  <2>3. QED BY <2>2 DEF Contract!Next, Contract!Exit
<1>6. CASE ReaderUnsupported \/ Tick \/ ClientLeave \/ Signal \/ (\E m \in Requests : ClientSend(m))
  BY <1>6 DEF ReaderUnsupported, Tick, ClientLeave, Signal, ClientSend
<1>7. QED BY <1>1, <1>2, <1>3, <1>4, <1>5, <1>6 DEF EnvironmentStep

\* The server uses the readers of a client that waits one at a time, each as
\* ReaderContract has it and only after the one before has ended, also when the
\* client leaves or a teardown runs beside it (gnssdata_start and gnssdata_stop as
\* gnssposget-server.c calls them).
THEOREM ContractUse == PatientClient => (Spec => UsesOneReader)
<1> SUFFICES ASSUME PatientClient PROVE Spec => UsesOneReader
  OBVIOUS
<1>1. Init => Contract!Init
  BY DEF Init, Contract!Init
<1>2. PatientInv /\ IInv /\ [Next]_vars => [Contract!Next]_(Contract!vars)
  <2> SUFFICES ASSUME PatientInv, IInv, [Next]_vars
               PROVE  Contract!Next \/ UNCHANGED <<grun, flag, fix, readers>>
    BY DEF Contract!vars
  <2>1. CASE UNCHANGED vars
    BY <2>1 DEF vars, gnss
  <2>2. QED BY <2>1, ContractServer, ContractElsewhere DEF Next
<1>3. QED
  BY <1>1, <1>2, PatientAlways, Inductive, PTL DEF Spec, UsesOneReader, Contract!Spec

-----------------------------------------------------------------------------
(***************************************************************************)
(* A client that waits and stays.  The connection is never found closed, so*)
(* no error ends a session early; whenever STATE_DONE joins the listener   *)
(* there is one, and whenever a handler other than an abort's joins the    *)
(* reader, it is the one its session has started.                          *)
(***************************************************************************)
Staying == PatientClient /\ ~MayDisconnect /\ ~MaySignal

ErrorLabels == {"teardown_join", "teardown_listener", "leaving", "exited"}
NoError == /\ conn = "open" /\ ~teardown /\ state # "UNEXPECTED_ERROR"
           /\ spc \notin ErrorLabels

SessionJoins == {"nosignal_join", "idle_join", "error_join", "nodata_join", "measured_join"}
Joinable ==
  /\ spc \in SessionJoins => handle \in Readers
  /\ lpc = "none" => state \in {"INIT", "FINISHED"} /\ spc \in {"top", "dispatch"}

StayingInv == Staying => NoError /\ Joinable /\ (proc = "crashed" => spc = "abort_set")

LEMMA StayingInit == Init => StayingInv
BY DEF Init, StayingInv, NoError, Joinable, ErrorLabels, SessionJoins

LEMMA NoErrorServer == ASSUME IInv, NoError, ServerStep PROVE NoError'
<1> USE DEF At, ToTop, net, NoError, ErrorLabels
<1>1. CASE JoinReader
  BY <1>1, Domains, JoinTable DEF JoinReader, JoinLabels
<1>2. CASE SetState
  BY <1>2, Domains, SetTable DEF SetState, AfterSet, SetLabels
<1>3. CASE ServerSend
  BY <1>3, Domains, SendTable DEF ServerSend, Transmit, SendLabels
<1>4. CASE ~JoinReader /\ ~SetState /\ ~ServerSend
  BY <1>4 DEF ServerStep, LoopTop, StateInit, StateWait, StateStartRequested, PollFix,
        PollTimeout, StateWorking, WaitAccelStarted, WaitAccelTimeout, WaitAccelPoll,
        WaitAccelBail, Tolerate, MeasureFinal, MeasurePass, MeasureSlow, MeasureBail,
        StateAnalyze, StateAbortRequested, StateFinished, StateDone, StateUnexpectedError,
        ServerStatusOn, ServerStatusOff, DoneJoined, TeardownByServer, ServerReturns
<1>5. QED BY <1>1, <1>2, <1>3, <1>4

LEMMA NoErrorElsewhere ==
  ASSUME IInv, NoError, Staying, ListenerStep \/ MainStep \/ EnvironmentStep PROVE NoError'
<1> USE DEF threads, net, NoError, ErrorLabels
<1>1. CASE ListenerStep
  BY <1>1 DEF ListenerStep, ListenerCheck, ListenerMessage, ListenerTimeout, ListenerError,
        ListenerEndOfStream, ListenerAbort, ListenerStart, ListenerStatus, ListenerSend,
        ListenerGoes, Transmit
<1>2. CASE MainStep
  BY <1>2 DEF MainStep, MainTeardown, MainJoinReader, MainJoinListener, MainLeave, MainGoes
<1>3. CASE EnvironmentStep
  BY <1>3 DEF EnvironmentStep, ReaderFail, ReaderExit, ReaderStatus, ReaderUnsupported, Tick,
        ClientSend, ClientLeave, Signal, Staying
<1>4. QED BY <1>1, <1>2, <1>3

\* The handlers of a session lead to the join of the reader it has started.
LEMMA JoinableServer == ASSUME IInv, NoError, Joinable, ServerStep PROVE Joinable'
<1> MainAsleep /\ SessionOwnsReader /\ Prepared
  BY Zenon DEF IInv
<1> USE DEF At, ToTop, gnss, NoError, ErrorLabels, Joinable, SessionJoins
<1>1. CASE JoinReader
  <2>1. spc' \in LastLabels \cup {"measured_set", "teardown_listener"} /\ UNCHANGED <<lpc, state>>
    BY <1>1, Domains, JoinTable DEF JoinReader, JoinLabels, LastLabels
  <2>2. spc \notin {"top", "dispatch"}
    BY <1>1, Domains DEF JoinReader, JoinLabels
  <2>3. QED BY <2>1, <2>2 DEF LastLabels
<1>2. CASE SetState
  BY <1>2, Domains, SetTable DEF SetState, AfterSet, SetLabels
<1>3. CASE ServerSend
  BY <1>3, Domains, SendTable DEF ServerSend, Transmit, SendLabels
<1>4. CASE DoneJoined
  BY <1>4 DEF DoneJoined, ListenerJoined
<1>5. CASE spc = "dispatch"
  <2>1. lpc = "none" => state \in {"INIT", "FINISHED"}
    BY <1>5
  <2>2. state \in {"POLL_SIGNAL", "WORKING", "WAIT_ACCEL", "MEASURE"} => handle \in Readers
    BY <1>5 DEF SessionOwnsReader, Settled
  <2>3. ASSUME PollTimeout \/ WaitAccelTimeout \/ WaitAccelBail \/ MeasureBail
               \/ \E new \in BOOLEAN : MeasureFinal(new) \/ MeasureSlow(new)
        PROVE  UNCHANGED <<lpc, handle>> /\ state \in {"POLL_SIGNAL", "WAIT_ACCEL", "MEASURE"}
    BY <2>3 DEF PollTimeout, WaitAccelTimeout, WaitAccelBail, MeasureBail, MeasureFinal,
        MeasureSlow, GnssStop
  <2>4. ASSUME StateInit \/ StateFinished PROVE Joinable'
    BY <2>4 DEF StateInit, StateFinished
  <2>5. ASSUME StateWait \/ StateStartRequested \/ PollFix \/ StateWorking
               \/ (\E new \in BOOLEAN : WaitAccelStarted(new) \/ WaitAccelPoll(new) \/ MeasurePass(new))
               \/ (\E st \in {"WAIT_ACCEL", "MEASURE"} : Tolerate(st))
               \/ StateAnalyze \/ StateAbortRequested \/ StateDone
        PROVE  /\ lpc' = lpc /\ state \notin {"INIT", "FINISHED"}
               /\ spc' \notin SessionJoins
    BY <2>5 DEF StateWait, StateStartRequested, PollFix, StateWorking, WaitAccelStarted,
        WaitAccelPoll, MeasurePass, Tolerate, StateAnalyze, StateAbortRequested, StateDone
  <2>6. ~(LoopTop \/ JoinReader \/ SetState \/ ServerStatusOn \/ ServerStatusOff \/ ServerSend
          \/ DoneJoined \/ TeardownByServer \/ ServerReturns \/ StateUnexpectedError)
    BY <1>5, Domains DEF LoopTop, JoinReader, SetState, ServerStatusOn, ServerStatusOff, ServerSend,
        DoneJoined, TeardownByServer, ServerReturns, StateUnexpectedError, JoinLabels, SetLabels,
        SendLabels
  <2>7. CASE StateInit \/ StateFinished
    BY <2>4, <2>7
  <2>8. CASE UNCHANGED <<lpc, handle>> /\ state \in {"POLL_SIGNAL", "WAIT_ACCEL", "MEASURE"}
    BY <2>1, <2>2, <2>8
  <2>9. CASE lpc' = lpc /\ state \notin {"INIT", "FINISHED"} /\ spc' \notin SessionJoins
    BY <2>1, <2>9
  <2>10. QED
    BY <2>3, <2>5, <2>6, <2>7, <2>8, <2>9, Zenon DEF ServerStep
<1>6. CASE spc # "dispatch" /\ ~JoinReader /\ ~SetState /\ ~ServerSend /\ ~DoneJoined
  BY <1>6 DEF ServerStep, LoopTop, StateInit, StateWait, StateStartRequested, PollFix,
        PollTimeout, StateWorking, WaitAccelStarted, WaitAccelTimeout, WaitAccelPoll,
        WaitAccelBail, Tolerate, MeasureFinal, MeasurePass, MeasureSlow, MeasureBail,
        StateAnalyze, StateAbortRequested, StateFinished, StateDone, StateUnexpectedError,
        ServerStatusOn, ServerStatusOff, TeardownByServer, ServerReturns
<1>7. QED BY <1>1, <1>2, <1>3, <1>4, <1>5, <1>6

LEMMA JoinableElsewhere ==
  ASSUME IInv, NoError, Joinable, Staying, ListenerStep \/ MainStep \/ EnvironmentStep
  PROVE  Joinable'
<1> MainAsleep /\ mpc = "sleep" /\ ~teardown
  BY Zenon DEF IInv, NoError, MainAsleep
<1> USE DEF threads, gnss, net, NoError, Joinable, SessionJoins
<1>1. CASE ListenerStep
  BY <1>1 DEF ListenerStep, ListenerCheck, ListenerMessage, ListenerTimeout, ListenerError,
        ListenerEndOfStream, ListenerAbort, ListenerStart, ListenerStatus, ListenerSend,
        ListenerGoes, Transmit, Reaction, StatusOn, StatusOff
<1>2. CASE MainStep
  BY <1>2 DEF MainStep, MainTeardown, MainJoinReader, MainJoinListener, MainLeave, MainGoes
<1>3. CASE EnvironmentStep
  BY <1>3 DEF EnvironmentStep, ReaderFail, ReaderExit, ReaderStatus, ReaderUnsupported, Tick,
        ClientSend, ClientLeave, Signal, Staying
<1>4. QED BY <1>1, <1>2, <1>3

\* Which steps can end the process.
LEMMA Crashes ==
  ASSUME IInv, PatientInv, NoError, Joinable, Staying, Next PROVE proc' = "crashed" => spc' = "abort_set"
<1> MainAsleep /\ mpc = "sleep" /\ ~teardown /\ proc = "running" /\ TypeOK
  BY Zenon DEF IInv, NoError, MainAsleep, Next
<1> USE DEF NoError, ErrorLabels
<1>1. CASE JoinReader
  <2>1. CASE spc \in SessionJoins
    <3>1. handle \in Readers /\ handle \notin {"never", "joined"}
      BY <2>1, HandleAssumption DEF Joinable
    <3>2. QED BY <1>1, <3>1 DEF JoinReader, GnssJoined
  <2>2. CASE spc = "abort_join"
    BY <1>1, <2>2, JoinTable DEF JoinReader
  <2>3. QED BY <1>1, <2>1, <2>2, Domains DEF JoinReader, JoinLabels, SessionJoins
<1>2. CASE DoneJoined
  <2>1. lpc # "none"
    BY <1>2 DEF DoneJoined, Joinable
  <2>2. QED BY <1>2, <2>1 DEF DoneJoined, ListenerJoined
<1>3. CASE ServerStep /\ ~JoinReader /\ ~DoneJoined
  <2>1. ~TeardownByServer
    BY DEF TeardownByServer
  <2>2. CASE ServerSend
    BY <2>2 DEF ServerSend, Transmit
  <2>3. CASE ~ServerSend
    <3>1. proc' = proc
      BY <1>3, <2>1, <2>3 DEF ServerStep, LoopTop, StateInit, StateWait, StateStartRequested,
        PollFix, PollTimeout, StateWorking, WaitAccelStarted, WaitAccelTimeout, WaitAccelPoll,
        WaitAccelBail, Tolerate, MeasureFinal, MeasurePass, MeasureSlow, MeasureBail,
        StateAnalyze, StateAbortRequested, StateFinished, StateDone, StateUnexpectedError,
        SetState, ServerStatusOn, ServerStatusOff, ServerReturns
    <3>2. QED BY <3>1
  <2>4. QED BY <2>2, <2>3
<1>4. CASE ListenerStep
  BY <1>4 DEF ListenerStep, ListenerCheck, ListenerMessage, ListenerTimeout, ListenerError,
        ListenerEndOfStream, ListenerAbort, ListenerStart, ListenerStatus, ListenerSend, Transmit
<1>5. CASE MainStep
  BY <1>5 DEF MainStep, MainTeardown, MainJoinReader, MainJoinListener, MainLeave, MainGoes
<1>6. CASE ReaderUnsupported
  <2>1. readers \subseteq {handle}
    BY DEF PatientInv, Staying
  <2>2. IsFiniteSet({handle}) /\ Cardinality({handle}) = 1
    BY FS_Singleton
  <2>3. Cardinality(readers) \in Nat /\ Cardinality(readers) <= 1
    BY <2>1, <2>2, FS_Subset, FS_CardinalityType
  <2>4. QED BY <1>6, <2>3 DEF ReaderUnsupported
<1>7. CASE EnvironmentStep /\ ~ReaderUnsupported
  BY <1>7 DEF EnvironmentStep, ReaderFail, ReaderExit, ReaderStatus, Tick, ClientSend,
        ClientLeave, Signal
<1>8. QED BY <1>1, <1>2, <1>3, <1>4, <1>5, <1>6, <1>7 DEF Next

LEMMA StayingNext == StayingInv /\ PatientInv /\ IInv /\ [Next]_vars => StayingInv'
<1> SUFFICES ASSUME StayingInv, PatientInv, IInv, [Next]_vars, Staying
             PROVE  NoError' /\ Joinable' /\ (proc' = "crashed" => spc' = "abort_set")
  BY DEF StayingInv, Staying
<1> NoError /\ Joinable /\ (proc = "crashed" => spc = "abort_set")
  BY DEF StayingInv
<1>1. CASE UNCHANGED vars
  BY <1>1 DEF vars, threads, gnss, net, NoError, Joinable
<1>2. CASE Next
  <2>1. ServerStep \/ ListenerStep \/ MainStep \/ EnvironmentStep
    BY <1>2 DEF Next
  <2>2. NoError' /\ Joinable'
    BY <2>1, NoErrorServer, NoErrorElsewhere, JoinableServer, JoinableElsewhere
  <2>3. QED BY <1>2, <2>2, Crashes
<1>3. QED BY <1>1, <1>2

\* A client that waits and stays can crash the process only by an abort, and only in
\* the handler of that abort (:402-417 joins a reader that a timeout, an error or the
\* last checkpoint has stopped already); no other handler joins a thread that is not
\* there, in any number of sessions.
THEOREM JoinSafety == Spec => []NoBadJoin
<1>1. StayingInv => NoBadJoin
  BY DEF StayingInv, Staying, NoBadJoin
<1>2. StayingInv /\ PatientInv /\ IInv /\ [Next]_vars => StayingInv'
  BY StayingNext
<1>3. QED BY <1>1, <1>2, StayingInit, PatientAlways, Inductive, PTL DEF Spec
=============================================================================
