-------------------------- MODULE ServerAppProofs --------------------------
(***************************************************************************)
(* Safety of the server state machine, for any number of readers, any set  *)
(* of requests and any bounds.                                             *)
(***************************************************************************)
EXTENDS ServerApp, TLAPS, SequenceTheorems

(***************************************************************************)
(* The inductive invariant.  While no teardown is requested the main thread*)
(* is asleep; what a settled state promises has been established by the    *)
(* handler that leads to it, before its set_state.                         *)
(***************************************************************************)
MainAsleep == ~teardown => mpc = "sleep"

\* What a handler has set up when it reaches the set_state at its end.
Prepared ==
  ~teardown =>
    /\ spc = "start_set" =>
         /\ timer # "off" /\ handle \in Readers /\ mutexes /\ flag
         /\ state \in {"START_REQUESTED", "ABORT_REQUESTED", "UNEXPECTED_ERROR"}
    /\ spc \in {"fix_set", "working_set", "accel_set"} => handle \in Readers /\ mutexes
    /\ spc \in {"working_set", "accel_set"} => timer # "off" /\ accelOn
    /\ spc \in {"measured_join", "measured_set"} => accelOn
    /\ spc \in {"accel_set", "measured_join", "measured_set"} => size > 0

\* Between two sessions only the server thread moves, at the top of its loop.
BetweenSessions ==
  ~teardown =>
    /\ state \in {"FINISHED", "INIT"} => spc \in {"top", "dispatch"} /\ lpc = "none"
    /\ state = "WAITING_FOR_CLIENT" =>
         spc \in {"top", "dispatch"} /\ run /\ lpc \notin {"none", "exited"}

\* A status report under way excludes the poll for a fix.
ReportExcludesPoll ==
  ~teardown /\ lpc \in {"status_on", "status_off"}
    => state \notin {"START_REQUESTED", "POLL_SIGNAL"} /\ spc # "start_set"

IInv == /\ TypeOK /\ MainAsleep /\ Prepared /\ BetweenSessions /\ ReportExcludesPoll
        /\ TimerArmed /\ SessionOwnsReader /\ BufferAlive /\ PollSeesStatus

-----------------------------------------------------------------------------
(***************************************************************************)
(* The tables, spelled out.                                                *)
(***************************************************************************)
JoinLabels == {"nosignal_join", "idle_join", "error_join", "nodata_join",
               "measured_join", "abort_join", "teardown_join"}
SetLabels == {"start_set", "fix_set", "working_set", "accel_set",
              "measured_set", "abort_set", "finish_set"}
SendLabels == {"results0", "results1", "results2", "results_end", "nosignal_send",
               "idle_send", "status_send", "fix_send", "abort_send"}

LEMMA Domains ==
  /\ DOMAIN AfterJoin = JoinLabels
  /\ DOMAIN NewState = SetLabels
  /\ DOMAIN AfterSend = SendLabels
BY DEF AfterJoin, NewState, AfterSend, JoinLabels, SetLabels, SendLabels

LEMMA JoinTable ==
  /\ AfterJoin["nosignal_join"] = "nosignal_send"
  /\ AfterJoin["idle_join"] = "idle_send"
  /\ AfterJoin["error_join"] = "status_on"
  /\ AfterJoin["nodata_join"] = "status_on"
  /\ AfterJoin["measured_join"] = "measured_set"
  /\ AfterJoin["abort_join"] = "abort_set"
  /\ AfterJoin["teardown_join"] = "teardown_listener"
BY DEF AfterJoin

LEMMA SetTable ==
  /\ NewState["start_set"] = "POLL_SIGNAL"
  /\ NewState["fix_set"] = "WORKING"
  /\ NewState["working_set"] = "WAIT_ACCEL"
  /\ NewState["accel_set"] = "MEASURE"
  /\ NewState["measured_set"] = "ANALYZE"
  /\ NewState["abort_set"] = "DONE"
  /\ NewState["finish_set"] = "DONE"
BY DEF NewState

LEMMA SendTable ==
  /\ AfterSend["results0"] = "results1"
  /\ AfterSend["results1"] = "results2"
  /\ AfterSend["results2"] = "results_end"
  /\ \A l \in {"results_end", "nosignal_send", "idle_send", "status_send"} :
        AfterSend[l] = "finish_set"
  /\ \A l \in {"fix_send", "abort_send"} : AfterSend[l] = "top"
BY DEF AfterSend

LEMMA TablesTyped ==
  /\ \A l \in JoinLabels : AfterJoin[l] \in ServerLabels
  /\ \A l \in SetLabels : NewState[l] \in States
  /\ \A l \in SendLabels : AfterSend[l] \in ServerLabels
<1>1. ASSUME NEW l \in JoinLabels PROVE AfterJoin[l] \in ServerLabels
  BY JoinTable, Domains DEF JoinLabels, SendLabels, SetLabels, ServerLabels
<1>2. ASSUME NEW l \in SetLabels PROVE NewState[l] \in States
  BY SetTable DEF SetLabels, States, Abortable
<1>3. ASSUME NEW l \in SendLabels PROVE AfterSend[l] \in ServerLabels
  BY SendTable, Domains DEF SendLabels, SetLabels, ServerLabels
<1>4. QED BY <1>1, <1>2, <1>3

LEMMA Labels ==
  /\ SetLabels \cup JoinLabels \cup SendLabels \subseteq ServerLabels
  /\ {"top", "dispatch", "status_on", "status_off", "done_join",
      "teardown_listener", "leaving", "exited"} \subseteq ServerLabels
BY Domains DEF ServerLabels

-----------------------------------------------------------------------------
(***************************************************************************)
(* Type correctness, the Boolean variables first.                          *)
(***************************************************************************)
BooleansOK == /\ run \in BOOLEAN /\ grun \in BOOLEAN /\ flag \in BOOLEAN
              /\ fix \in BOOLEAN /\ mutexes \in BOOLEAN
              /\ accelOn \in BOOLEAN /\ teardown \in BOOLEAN

LEMMA TypeInit == Init => TypeOK
<1> SUFFICES ASSUME Init PROVE TypeOK
  OBVIOUS
<1>1. BooleansOK BY Zenon DEF Init, BooleansOK
<1>2. inbox \in Seq(Requests) BY DEF Init
<1>3. QED BY <1>1, <1>2, BoundsAssumption, Labels
          DEF Init, TypeOK, BooleansOK, ListenerLabels, MainLabels, States, Abortable

LEMMA BooleansServer == ASSUME BooleansOK, ServerStep PROVE BooleansOK'
<1> USE DEF BooleansOK, At, gnss, accel, ListenerGoes, MainGoes, threads
<1>1. CASE LoopTop BY <1>1 DEF LoopTop
<1>2. CASE StateInit BY <1>2 DEF StateInit
<1>3. CASE StateWait BY <1>3 DEF StateWait
<1>4. CASE StateStartRequested BY <1>4 DEF StateStartRequested, TimerStart
<1>5. CASE PollFix BY <1>5 DEF PollFix, TimerStop
<1>6. CASE PollTimeout BY <1>6 DEF PollTimeout, TimerStop, GnssStop
<1>7. CASE StateWorking BY <1>7 DEF StateWorking, TimerStart, AccelStart
<1>8. CASE WaitAccelTimeout BY <1>8 DEF WaitAccelTimeout, TimerStop, AccelStop, GnssStop
<1>9. CASE WaitAccelBail
  BY <1>9 DEF WaitAccelBail, TimerStop, GnssStop, IncorrectData, IncorrectCount, Saturated
<1>10. CASE MeasureBail
  BY <1>10 DEF MeasureBail, TimerStop, GnssStop, IncorrectData, IncorrectCount, Saturated
<1>11. ASSUME NEW new \in BOOLEAN, WaitAccelStarted(new) PROVE BooleansOK'
  BY <1>11 DEF WaitAccelStarted, AddData, GrownSize, Saturated, TimerRestart
<1>12. ASSUME NEW new \in BOOLEAN, WaitAccelPoll(new) PROVE BooleansOK'
  BY <1>12 DEF WaitAccelPoll, AddData, GrownSize, Saturated
<1>13. ASSUME NEW new \in BOOLEAN, MeasureFinal(new) PROVE BooleansOK'
  BY <1>13 DEF MeasureFinal, AddData, GrownSize, Saturated, TimerStop, GnssStop
<1>14. ASSUME NEW new \in BOOLEAN, MeasurePass(new) PROVE BooleansOK'
  BY <1>14 DEF MeasurePass, AddData, GrownSize, Saturated, TimerRestart
<1>15. ASSUME NEW new \in BOOLEAN, MeasureSlow(new) PROVE BooleansOK'
  BY <1>15 DEF MeasureSlow, AddData, GrownSize, Saturated, TimerStop, GnssStop
<1>16. ASSUME NEW st \in {"WAIT_ACCEL", "MEASURE"}, Tolerate(st) PROVE BooleansOK'
  BY <1>16 DEF Tolerate, IncorrectData, IncorrectCount, Saturated
<1>17. CASE StateAnalyze BY <1>17 DEF StateAnalyze, AccelStop
<1>18. CASE StateAbortRequested BY <1>18 DEF StateAbortRequested, TimerStop, GnssStop
<1>19. CASE StateFinished BY <1>19 DEF StateFinished
<1>20. CASE StateDone BY <1>20 DEF StateDone
<1>21. CASE StateUnexpectedError BY <1>21 DEF StateUnexpectedError, GnssStop
<1>22. CASE JoinReader BY <1>22 DEF JoinReader, GnssJoined, AccelStop
<1>23. CASE SetState BY <1>23 DEF SetState, AfterSet
<1>24. CASE ServerStatusOn BY <1>24 DEF ServerStatusOn, StatusOn
<1>25. CASE ServerStatusOff BY <1>25 DEF ServerStatusOff, StatusOff
<1>26. CASE ServerSend BY <1>26 DEF ServerSend, Transmit, Belief
<1>27. CASE DoneJoined BY <1>27 DEF DoneJoined, ListenerJoined
<1>28. CASE TeardownByServer BY <1>28 DEF TeardownByServer, ListenerJoined
<1>29. CASE ServerReturns BY <1>29 DEF ServerReturns
<1>30. QED BY <1>1, <1>2, <1>3, <1>4, <1>5, <1>6, <1>7, <1>8, <1>9, <1>10, <1>11, <1>12,
             <1>13, <1>14, <1>15, <1>16, <1>17, <1>18, <1>19, <1>20, <1>21, <1>22, <1>23,
             <1>24, <1>25, <1>26, <1>27, <1>28, <1>29, Zenon DEF ServerStep

LEMMA TypeServer == ASSUME TypeOK, ServerStep PROVE TypeOK'
<1> USE BoundsAssumption, Labels DEF TypeOK, At, ToTop, gnss, accel, net, threads,
        SetLabels, JoinLabels, SendLabels, ListenerGoes, MainGoes
<1> BooleansOK'
  BY BooleansServer DEF BooleansOK
<1> USE DEF BooleansOK
<1>1. CASE LoopTop BY <1>1 DEF LoopTop
<1>2. CASE StateInit BY <1>2 DEF StateInit, States, ListenerLabels
<1>3. CASE StateWait BY <1>3 DEF StateWait
<1>4. CASE StateStartRequested BY <1>4 DEF StateStartRequested, TimerStart
<1>5. CASE PollFix BY <1>5 DEF PollFix, TimerStop
<1>6. CASE PollTimeout BY <1>6 DEF PollTimeout, TimerStop, GnssStop
<1>7. CASE StateWorking BY <1>7 DEF StateWorking, TimerStart, AccelStart
<1>8. CASE WaitAccelTimeout BY <1>8 DEF WaitAccelTimeout, TimerStop, AccelStop, GnssStop
<1>9. CASE WaitAccelBail
  BY <1>9 DEF WaitAccelBail, TimerStop, GnssStop, IncorrectData, IncorrectCount, Saturated
<1>10. CASE MeasureBail
  BY <1>10 DEF MeasureBail, TimerStop, GnssStop, IncorrectData, IncorrectCount, Saturated
<1>11. ASSUME NEW new \in BOOLEAN, WaitAccelStarted(new) PROVE TypeOK'
  BY <1>11 DEF WaitAccelStarted, AddData, GrownSize, Saturated, TimerRestart
<1>12. ASSUME NEW new \in BOOLEAN, WaitAccelPoll(new) PROVE TypeOK'
  BY <1>12 DEF WaitAccelPoll, AddData, GrownSize, Saturated
<1>13. ASSUME NEW new \in BOOLEAN, MeasureFinal(new) PROVE TypeOK'
  BY <1>13 DEF MeasureFinal, AddData, GrownSize, Saturated, TimerStop, GnssStop
<1>14. ASSUME NEW new \in BOOLEAN, MeasurePass(new) PROVE TypeOK'
  BY <1>14 DEF MeasurePass, AddData, GrownSize, Saturated, TimerRestart
<1>15. ASSUME NEW new \in BOOLEAN, MeasureSlow(new) PROVE TypeOK'
  BY <1>15 DEF MeasureSlow, AddData, GrownSize, Saturated, TimerStop, GnssStop
<1>16. ASSUME NEW st \in {"WAIT_ACCEL", "MEASURE"}, Tolerate(st) PROVE TypeOK'
  BY <1>16 DEF Tolerate, IncorrectData, IncorrectCount, Saturated
<1>17. CASE StateAnalyze BY <1>17 DEF StateAnalyze, AccelStop
<1>18. CASE StateAbortRequested BY <1>18 DEF StateAbortRequested, TimerStop, GnssStop
<1>19. CASE StateFinished BY <1>19 DEF StateFinished, States
<1>20. CASE StateDone BY <1>20 DEF StateDone
<1>21. CASE StateUnexpectedError BY <1>21 DEF StateUnexpectedError, GnssStop
<1>22. CASE JoinReader BY <1>22, Domains, TablesTyped DEF JoinReader, GnssJoined, AccelStop
<1>23. CASE SetState BY <1>23, Domains, TablesTyped DEF SetState, AfterSet
<1>24. CASE ServerStatusOn BY <1>24 DEF ServerStatusOn, StatusOn
<1>25. CASE ServerStatusOff BY <1>25 DEF ServerStatusOff, StatusOff
<1>26. CASE ServerSend BY <1>26, Domains, TablesTyped DEF ServerSend, Transmit, Belief, States
<1>27. CASE DoneJoined BY <1>27 DEF DoneJoined, ListenerJoined, States, ListenerLabels
<1>28. CASE TeardownByServer BY <1>28 DEF TeardownByServer, ListenerJoined, ListenerLabels
<1>29. CASE ServerReturns BY <1>29 DEF ServerReturns
<1>30. QED BY <1>1, <1>2, <1>3, <1>4, <1>5, <1>6, <1>7, <1>8, <1>9, <1>10, <1>11, <1>12,
             <1>13, <1>14, <1>15, <1>16, <1>17, <1>18, <1>19, <1>20, <1>21, <1>22, <1>23,
             <1>24, <1>25, <1>26, <1>27, <1>28, <1>29, Zenon DEF ServerStep

LEMMA BooleansListener == ASSUME BooleansOK, ListenerStep PROVE BooleansOK'
<1> USE DEF BooleansOK, At, gnss, accel, ListenerGoes, MainGoes, threads
<1>1. CASE ListenerCheck BY <1>1 DEF ListenerCheck
<1>2. CASE ListenerMessage BY <1>2 DEF ListenerMessage, Reaction
<1>3. CASE ListenerTimeout BY <1>3 DEF ListenerTimeout
<1>4. CASE ListenerError BY <1>4 DEF ListenerError
<1>5. CASE ListenerEndOfStream BY <1>5 DEF ListenerEndOfStream
<1>6. CASE ListenerAbort BY <1>6 DEF ListenerAbort
<1>7. CASE ListenerStart BY <1>7 DEF ListenerStart
<1>8. CASE ListenerStatus BY <1>8 DEF ListenerStatus, StatusOn, StatusOff
<1>9. CASE ListenerSend BY <1>9 DEF ListenerSend, Transmit
<1>10. QED BY <1>1, <1>2, <1>3, <1>4, <1>5, <1>6, <1>7, <1>8, <1>9, Zenon DEF ListenerStep

LEMMA TypeListener == ASSUME TypeOK, ListenerStep PROVE TypeOK'
<1> USE BoundsAssumption, Labels DEF TypeOK, At, ToTop, gnss, accel, net, threads,
        SetLabels, JoinLabels, SendLabels, ListenerGoes, MainGoes
<1> BooleansOK'
  BY BooleansListener DEF BooleansOK
<1> USE DEF BooleansOK
<1>1. CASE ListenerCheck BY <1>1 DEF ListenerCheck, ListenerLabels
<1>2. CASE ListenerMessage BY <1>2 DEF ListenerMessage, Reaction, ListenerLabels
<1>3. CASE ListenerTimeout BY <1>3 DEF ListenerTimeout, ListenerLabels
<1>4. CASE ListenerError BY <1>4 DEF ListenerError, ListenerLabels, States, Abortable
<1>5. CASE ListenerEndOfStream BY <1>5 DEF ListenerEndOfStream, ListenerLabels
<1>6. CASE ListenerAbort BY <1>6 DEF ListenerAbort, ListenerLabels, States, Abortable
<1>7. CASE ListenerStart BY <1>7 DEF ListenerStart, ListenerLabels, States, Abortable
<1>8. CASE ListenerStatus BY <1>8 DEF ListenerStatus, StatusOn, StatusOff, ListenerLabels
<1>9. CASE ListenerSend BY <1>9 DEF ListenerSend, Transmit, ListenerLabels, States, Abortable
<1>10. QED BY <1>1, <1>2, <1>3, <1>4, <1>5, <1>6, <1>7, <1>8, <1>9, Zenon DEF ListenerStep

LEMMA BooleansMain == ASSUME BooleansOK, MainStep PROVE BooleansOK'
<1> USE DEF BooleansOK, At, gnss, accel, ListenerGoes, MainGoes, threads
<1>1. CASE MainTeardown BY <1>1 DEF MainTeardown, GnssStop
<1>2. CASE MainJoinReader BY <1>2 DEF MainJoinReader, GnssJoined
<1>3. CASE MainJoinListener BY <1>3 DEF MainJoinListener, ListenerJoined
<1>4. CASE MainLeave BY <1>4 DEF MainLeave
<1>5. QED BY <1>1, <1>2, <1>3, <1>4, Zenon DEF MainStep

LEMMA TypeMain == ASSUME TypeOK, MainStep PROVE TypeOK'
<1> USE BoundsAssumption, Labels DEF TypeOK, At, ToTop, gnss, accel, net, threads,
        SetLabels, JoinLabels, SendLabels, ListenerGoes, MainGoes
<1> BooleansOK'
  BY BooleansMain DEF BooleansOK
<1> USE DEF BooleansOK
<1>1. CASE MainTeardown BY <1>1 DEF MainTeardown, GnssStop, MainLabels
<1>2. CASE MainJoinReader BY <1>2 DEF MainJoinReader, GnssJoined, MainLabels
<1>3. CASE MainJoinListener BY <1>3 DEF MainJoinListener, ListenerJoined, MainLabels, ListenerLabels
<1>4. CASE MainLeave BY <1>4 DEF MainLeave, MainLabels
<1>5. QED BY <1>1, <1>2, <1>3, <1>4, Zenon DEF MainStep

LEMMA BooleansEnvironment == ASSUME BooleansOK, EnvironmentStep PROVE BooleansOK'
<1> USE DEF BooleansOK, At, gnss, accel, ListenerGoes, MainGoes, threads
<1>1. CASE ReaderFail BY <1>1 DEF ReaderFail
<1>2. CASE ReaderStatus BY <1>2 DEF ReaderStatus
<1>3. ASSUME NEW r \in Readers, ReaderExit(r) PROVE BooleansOK'
  BY <1>3 DEF ReaderExit
<1>4. CASE Tick BY <1>4 DEF Tick
<1>5. ASSUME NEW m \in Requests, ClientSend(m) PROVE BooleansOK'
  BY <1>5 DEF ClientSend
<1>6. CASE ClientLeave BY <1>6 DEF ClientLeave
<1>7. CASE Signal BY <1>7 DEF Signal
<1>8. CASE ReaderUnsupported BY <1>8 DEF ReaderUnsupported
<1>9. QED BY <1>1, <1>2, <1>3, <1>4, <1>5, <1>6, <1>7, <1>8, Zenon DEF EnvironmentStep

LEMMA TypeEnvironment == ASSUME TypeOK, EnvironmentStep PROVE TypeOK'
<1> USE BoundsAssumption, Labels DEF TypeOK, At, ToTop, gnss, accel, net, threads,
        SetLabels, JoinLabels, SendLabels, ListenerGoes, MainGoes
<1> BooleansOK'
  BY BooleansEnvironment DEF BooleansOK
<1> USE DEF BooleansOK
<1>1. CASE ReaderFail BY <1>1 DEF ReaderFail
<1>2. CASE ReaderStatus BY <1>2 DEF ReaderStatus
<1>3. ASSUME NEW r \in Readers, ReaderExit(r) PROVE TypeOK'
  BY <1>3 DEF ReaderExit
<1>4. CASE Tick BY <1>4 DEF Tick
<1>5. ASSUME NEW m \in Requests, ClientSend(m) PROVE TypeOK'
  BY <1>5 DEF ClientSend
<1>6. CASE ClientLeave BY <1>6 DEF ClientLeave
<1>7. CASE Signal BY <1>7 DEF Signal
<1>8. CASE ReaderUnsupported BY <1>8 DEF ReaderUnsupported
<1>9. QED BY <1>1, <1>2, <1>3, <1>4, <1>5, <1>6, <1>7, <1>8, Zenon DEF EnvironmentStep

-----------------------------------------------------------------------------
(***************************************************************************)
(* The inductive invariant.  A step outside the server thread leaves the   *)
(* timer, the buffer and the reader's handle alone while no teardown is    *)
(* requested; a step of the server thread keeps what its handler prepared. *)
(***************************************************************************)
LEMMA InvInit == Init => IInv
BY TypeInit, Zenon DEF Init, IInv, MainAsleep, Prepared, BetweenSessions, ReportExcludesPoll,
           TimerArmed, SessionOwnsReader, BufferAlive, PollSeesStatus, Settled

LEMMA InvServer == ASSUME IInv, ServerStep PROVE IInv'
<1> TypeOK /\ TypeOK'
  BY TypeServer, Zenon DEF IInv
<1> DEFINE J == MainAsleep /\ Prepared /\ BetweenSessions /\ ReportExcludesPoll /\ TimerArmed
                /\ SessionOwnsReader /\ BufferAlive /\ PollSeesStatus
<1> J
  BY Zenon DEF IInv
<1> SUFFICES J'
  BY Zenon DEF IInv
<1> size \in 0..(Capacity + 1)
  BY DEF TypeOK
<1> USE BoundsAssumption
<1> USE DEF MainAsleep, Prepared, BetweenSessions, ReportExcludesPoll, Settled,
        TimerArmed, SessionOwnsReader, BufferAlive, PollSeesStatus,
        At, ToTop, gnss, accel, net, threads, ListenerGoes, MainGoes
<1>1. CASE LoopTop BY <1>1 DEF LoopTop
<1>2. CASE StateInit BY <1>2 DEF StateInit
<1>3. CASE StateWait BY <1>3 DEF StateWait
<1>4. CASE StateStartRequested BY <1>4 DEF StateStartRequested, TimerStart
<1>5. CASE PollFix BY <1>5 DEF PollFix, TimerStop
<1>6. CASE PollTimeout BY <1>6 DEF PollTimeout, TimerStop, GnssStop
<1>7. CASE StateWorking BY <1>7 DEF StateWorking, TimerStart, AccelStart
<1>8. CASE WaitAccelTimeout BY <1>8 DEF WaitAccelTimeout, TimerStop, AccelStop, GnssStop
<1>9. CASE WaitAccelBail
  BY <1>9 DEF WaitAccelBail, TimerStop, GnssStop, IncorrectData, IncorrectCount, Saturated
<1>10. CASE MeasureBail
  BY <1>10 DEF MeasureBail, TimerStop, GnssStop, IncorrectData, IncorrectCount, Saturated
<1>11. ASSUME NEW new \in BOOLEAN, WaitAccelStarted(new) PROVE J'
  BY <1>11 DEF WaitAccelStarted, AddData, GrownSize, Saturated, TimerRestart
<1>12. ASSUME NEW new \in BOOLEAN, WaitAccelPoll(new) PROVE J'
  BY <1>12 DEF WaitAccelPoll, AddData, GrownSize, Saturated
<1>13. ASSUME NEW new \in BOOLEAN, MeasureFinal(new) PROVE J'
  BY <1>13 DEF MeasureFinal, AddData, GrownSize, Saturated, TimerStop, GnssStop
<1>14. ASSUME NEW new \in BOOLEAN, MeasurePass(new) PROVE J'
  BY <1>14 DEF MeasurePass, AddData, GrownSize, Saturated, TimerRestart
<1>15. ASSUME NEW new \in BOOLEAN, MeasureSlow(new) PROVE J'
  BY <1>15 DEF MeasureSlow, AddData, GrownSize, Saturated, TimerStop, GnssStop
<1>16. ASSUME NEW st \in {"WAIT_ACCEL", "MEASURE"}, Tolerate(st) PROVE J'
  BY <1>16 DEF Tolerate, IncorrectData, IncorrectCount, Saturated
<1>17. CASE StateAnalyze BY <1>17 DEF StateAnalyze, AccelStop
<1>18. CASE StateAbortRequested BY <1>18 DEF StateAbortRequested, TimerStop, GnssStop
<1>19. CASE StateFinished BY <1>19 DEF StateFinished
<1>20. CASE StateDone BY <1>20 DEF StateDone
<1>21. CASE StateUnexpectedError BY <1>21 DEF StateUnexpectedError, GnssStop
<1>22. CASE JoinReader
  BY <1>22, Domains, JoinTable DEF JoinReader, GnssJoined, AccelStop, JoinLabels
<1>23. CASE SetState BY <1>23, Domains, SetTable DEF SetState, AfterSet, SetLabels
<1>24. CASE ServerStatusOn BY <1>24 DEF ServerStatusOn, StatusOn
<1>25. CASE ServerStatusOff BY <1>25 DEF ServerStatusOff, StatusOff
<1>26. CASE ServerSend BY <1>26, Domains, SendTable DEF ServerSend, Transmit, Belief, SendLabels
<1>27. CASE DoneJoined BY <1>27 DEF DoneJoined, ListenerJoined
<1>28. CASE TeardownByServer BY <1>28 DEF TeardownByServer, ListenerJoined
<1>29. CASE ServerReturns BY <1>29 DEF ServerReturns
<1>30. QED BY <1>1, <1>2, <1>3, <1>4, <1>5, <1>6, <1>7, <1>8, <1>9, <1>10, <1>11, <1>12,
             <1>13, <1>14, <1>15, <1>16, <1>17, <1>18, <1>19, <1>20, <1>21, <1>22, <1>23,
             <1>24, <1>25, <1>26, <1>27, <1>28, <1>29, Zenon DEF ServerStep

LEMMA InvListener == ASSUME IInv, ListenerStep PROVE IInv'
<1> TypeOK /\ TypeOK'
  BY TypeListener, Zenon DEF IInv
<1> DEFINE J == MainAsleep /\ Prepared /\ BetweenSessions /\ ReportExcludesPoll /\ TimerArmed
                /\ SessionOwnsReader /\ BufferAlive /\ PollSeesStatus
<1> J
  BY Zenon DEF IInv
<1> SUFFICES J'
  BY Zenon DEF IInv
<1> USE DEF MainAsleep, Prepared, BetweenSessions, ReportExcludesPoll, Settled,
        TimerArmed, SessionOwnsReader, BufferAlive, PollSeesStatus,
        At, ToTop, gnss, accel, net, threads, ListenerGoes, MainGoes
<1>1. CASE ListenerCheck BY <1>1 DEF ListenerCheck
<1>2. CASE ListenerMessage BY <1>2 DEF ListenerMessage, Reaction, Abortable, Reporting
<1>3. CASE ListenerTimeout BY <1>3 DEF ListenerTimeout
<1>4. CASE ListenerError BY <1>4 DEF ListenerError
<1>5. CASE ListenerEndOfStream BY <1>5 DEF ListenerEndOfStream
<1>6. CASE ListenerAbort BY <1>6 DEF ListenerAbort
<1>7. CASE ListenerStart BY <1>7 DEF ListenerStart
<1>8. CASE ListenerStatus BY <1>8 DEF ListenerStatus, StatusOn, StatusOff
<1>9. CASE ListenerSend BY <1>9 DEF ListenerSend, Transmit
<1>10. QED BY <1>1, <1>2, <1>3, <1>4, <1>5, <1>6, <1>7, <1>8, <1>9, Zenon DEF ListenerStep

LEMMA InvMain == ASSUME IInv, MainStep PROVE IInv'
<1> TypeOK /\ TypeOK'
  BY TypeMain, Zenon DEF IInv
<1> DEFINE J == MainAsleep /\ Prepared /\ BetweenSessions /\ ReportExcludesPoll /\ TimerArmed
                /\ SessionOwnsReader /\ BufferAlive /\ PollSeesStatus
<1> J
  BY Zenon DEF IInv
<1> SUFFICES J'
  BY Zenon DEF IInv
<1> USE DEF MainAsleep, Prepared, BetweenSessions, ReportExcludesPoll, Settled,
        TimerArmed, SessionOwnsReader, BufferAlive, PollSeesStatus,
        At, ToTop, gnss, accel, net, threads, ListenerGoes, MainGoes
<1>1. CASE MainTeardown BY <1>1 DEF MainTeardown, GnssStop
<1>2. CASE MainJoinReader BY <1>2 DEF MainJoinReader, GnssJoined
<1>3. CASE MainJoinListener BY <1>3 DEF MainJoinListener, ListenerJoined
<1>4. CASE MainLeave BY <1>4 DEF MainLeave
<1>5. QED BY <1>1, <1>2, <1>3, <1>4, Zenon DEF MainStep

LEMMA InvEnvironment == ASSUME IInv, EnvironmentStep PROVE IInv'
<1> TypeOK /\ TypeOK'
  BY TypeEnvironment, Zenon DEF IInv
<1> DEFINE J == MainAsleep /\ Prepared /\ BetweenSessions /\ ReportExcludesPoll /\ TimerArmed
                /\ SessionOwnsReader /\ BufferAlive /\ PollSeesStatus
<1> J
  BY Zenon DEF IInv
<1> SUFFICES J'
  BY Zenon DEF IInv
<1> USE DEF MainAsleep, Prepared, BetweenSessions, ReportExcludesPoll, Settled,
        TimerArmed, SessionOwnsReader, BufferAlive, PollSeesStatus,
        At, ToTop, gnss, accel, net, threads, ListenerGoes, MainGoes
<1>1. CASE ReaderFail BY <1>1 DEF ReaderFail
<1>2. CASE ReaderStatus BY <1>2 DEF ReaderStatus
<1>3. ASSUME NEW r \in Readers, ReaderExit(r) PROVE J'
  BY <1>3 DEF ReaderExit
<1>4. CASE Tick BY <1>4 DEF Tick
<1>5. ASSUME NEW m \in Requests, ClientSend(m) PROVE J'
  BY <1>5 DEF ClientSend
<1>6. CASE ClientLeave BY <1>6 DEF ClientLeave
<1>7. CASE Signal BY <1>7 DEF Signal
<1>8. CASE ReaderUnsupported BY <1>8 DEF ReaderUnsupported
<1>9. QED BY <1>1, <1>2, <1>3, <1>4, <1>5, <1>6, <1>7, <1>8, Zenon DEF EnvironmentStep

LEMMA InvStutter == ASSUME IInv, UNCHANGED vars PROVE IInv'
<1> USE DEF vars, threads, gnss, accel, net, IInv
<1>0. BooleansOK' BY DEF TypeOK, BooleansOK
<1>1. TypeOK' BY <1>0 DEF TypeOK, BooleansOK
<1>2. (MainAsleep /\ Prepared /\ BetweenSessions /\ ReportExcludesPoll)'
  BY DEF MainAsleep, Prepared, BetweenSessions, ReportExcludesPoll
<1>3. (TimerArmed /\ SessionOwnsReader /\ BufferAlive /\ PollSeesStatus)'
  BY DEF TimerArmed, SessionOwnsReader, BufferAlive, PollSeesStatus, Settled
<1>4. QED BY <1>1, <1>2, <1>3, Zenon

LEMMA InvNext == IInv /\ [Next]_vars => IInv'
<1> SUFFICES ASSUME IInv, [Next]_vars PROVE IInv'
  OBVIOUS
<1>1. CASE ServerStep BY <1>1, InvServer
<1>2. CASE ListenerStep BY <1>2, InvListener
<1>3. CASE MainStep BY <1>3, InvMain
<1>4. CASE EnvironmentStep BY <1>4, InvEnvironment
<1>5. CASE UNCHANGED vars BY <1>5, InvStutter
<1>6. QED BY <1>1, <1>2, <1>3, <1>4, <1>5 DEF Next

\* IInv holds in every reachable state: the fact the theorems below all rest on.
THEOREM Inductive == Spec => []IInv
BY InvInit, InvNext, PTL DEF Spec

-----------------------------------------------------------------------------
\* Every variable keeps to the values serverapp_states, the labels of the three
\* threads and the bounds of the buffers allow.
THEOREM TypeCorrect == Spec => []TypeOK
<1>1. IInv => TypeOK BY Zenon DEF IInv
<1>2. QED BY <1>1, Inductive, PTL

\* STATE_WAITING_FOR_CLIENT always has a listener to wait for (:211-216).
THEOREM IdleSafety == Spec => []IdleListens
<1>1. IInv => IdleListens BY Zenon DEF IInv, BetweenSessions, IdleListens, Settled
<1>2. QED BY <1>1, Inductive, PTL

\* STATE_INIT never creates a second listener beside the one of the session before,
\* whatever ended that one (:203-210, :463-471).
THEOREM ListenerSafety == Spec => []NoDoubleListener
<1>1. IInv => NoDoubleListener BY Zenon DEF IInv, BetweenSessions, NoDoubleListener, Settled
<1>2. QED BY <1>1, Inductive, PTL

\* A state that waits with a timeout has its timer running, for every client,
\* whatever requests interrupt and restart the session (:217-279, :344-400).
THEOREM TimerSafety == Spec => []TimerArmed
<1>1. IInv => TimerArmed BY Zenon DEF IInv
<1>2. QED BY <1>1, Inductive, PTL

\* A session in progress has a reader it can join, and the mutexes of the data it
\* reads (gnssdata_start), however often it was aborted and restarted.
THEOREM ReaderSafety == Spec => []SessionOwnsReader
<1>1. IInv => SessionOwnsReader BY Zenon DEF IInv
<1>2. QED BY <1>1, Inductive, PTL

\* A session that takes or analyses samples has the buffer for them, and one that
\* measures has the sample it starts from (:300-319, :418-431).
THEOREM BufferSafety == Spec => []BufferAlive
<1>1. IInv => BufferAlive BY Zenon DEF IInv
<1>2. QED BY <1>1, Inductive, PTL

\* No status report clears gnssdata_get_status_flag under the poll for a fix
\* (:228-262, :602-613).
THEOREM PollSafety == Spec => []PollSeesStatus
<1>1. IInv => PollSeesStatus BY Zenon DEF IInv
<1>2. QED BY <1>1, Inductive, PTL
=============================================================================
