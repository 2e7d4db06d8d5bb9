----------------------------- MODULE ServerApp -----------------------------
(***************************************************************************)
(* The application state machine of gnssposget-server.c: the server thread *)
(* (server_run), the client listener thread (listener_task) and the main   *)
(* thread (gnssposget_server_mainloop), together with what they share: the *)
(* application state, the client connection, the timer, the acceleration   *)
(* buffer and the NMEA reader threads started by gnssdata_start.           *)
(*                                                                         *)
(* A handler of server_run is cut where another thread can see or disturb  *)
(* it: at every set_state, at every message sent, and at every             *)
(* pthread_join.  The tables AfterJoin, NewState and AfterSend say in which *)
(* order a handler does them.  What only the server thread touches (timer, *)
(* acceleration buffer) happens in the step that enters the handler.       *)
(***************************************************************************)
EXTENDS Naturals, Sequences, FiniteSets

CONSTANTS Readers,        \* identities of NMEA reader threads
          Requests,       \* the messages the client may send
          MaxInbox,       \* bound: messages in flight to the server
          MaxBad,         \* ACCELMETER_APP_MAX_INCORRECT_DATA_INSTANCES
          Capacity,       \* ACCELMETER_APP_INITIAL_CAPACITY
          PatientClient,  \* the client waits for the end of a session
          MayDisconnect,  \* the client may close or reset the connection
          MaySignal       \* SIGTERM or SIGINT may arrive

ASSUME BoundsAssumption == MaxInbox \in Nat /\ MaxBad \in Nat /\ Capacity \in Nat
ASSUME SwitchAssumption == {PatientClient, MayDisconnect, MaySignal} \subseteq BOOLEAN
ASSUME HandleAssumption == Readers \cap {"never", "joined"} = {}

VARIABLES
  spc, lpc, mpc,   \* where the server, listener and main threads are
  state,           \* sm_params.current_state
  run,             \* sm_params.run_listener
  grun,            \* run_listener of gnssdata.c
  flag,            \* gnssdata_get_status_flag
  fix,             \* cur_status.fix_valid
  readers,         \* reader threads that have not returned
  handle,          \* listener_thread of gnssdata.c: the last thread created
  mutexes,         \* the mutexes of gnssdata.c are initialised
  timer,           \* not running, or how long it has been
  accelOn,         \* is_running of accelmeter-app.c
  size, bad,       \* accel.size, accel.incorrect_data_count (saturating)
  passed,          \* how many of accel.checkpoint1..3 are set
  inbox,           \* messages sent by the client and not yet received
  client,          \* what the client believes: "idle", "busy" or "aborting"
  conn,            \* the client connection as the server would find it
  teardown,        \* teardown_requested
  proc             \* the process: "running", "crashed" or "ended"

threads == <<spc, lpc, mpc>>
gnss  == <<grun, flag, fix, readers, handle, mutexes>>
accel == <<accelOn, size, bad, passed>>
net   == <<inbox, client, conn>>
vars  == <<threads, state, run, gnss, timer, accel, net, teardown, proc>>

(***************************************************************************)
(* serverapp_states.  STATE_ERROR is never assigned and has the handler of *)
(* STATE_UNEXPECTED_ERROR, so it is left out.                              *)
(***************************************************************************)
Abortable == {"START_REQUESTED", "POLL_SIGNAL", "WORKING", "WAIT_ACCEL",
              "MEASURE", "ANALYZE"}
Reporting == {"WORKING", "WAIT_ACCEL", "MEASURE", "ANALYZE"}
States == Abortable \cup {"INIT", "WAITING_FOR_CLIENT", "ABORT_REQUESTED",
                          "FINISHED", "DONE", "UNEXPECTED_ERROR"}

(***************************************************************************)
(* The order of the steps of each handler.                                 *)
(***************************************************************************)
\* pthread_join of the NMEA reader, inside gnssdata_stop.
AfterJoin ==
  [nosignal_join |-> "nosignal_send", idle_join |-> "idle_send",
   error_join |-> "status_on", nodata_join |-> "status_on",
   measured_join |-> "measured_set", abort_join |-> "abort_set",
   teardown_join |-> "teardown_listener"]

\* set_state at the end of a handler.
NewState ==
  [start_set |-> "POLL_SIGNAL", fix_set |-> "WORKING",
   working_set |-> "WAIT_ACCEL", accel_set |-> "MEASURE",
   measured_set |-> "ANALYZE", abort_set |-> "DONE", finish_set |-> "DONE"]

AfterSet(l) == CASE l = "fix_set" -> "fix_send"
                 [] l = "abort_set" -> "abort_send"
                 [] OTHER -> "top"

\* send_to_client; the first four send the results of an analysis.
AfterSend ==
  [results0 |-> "results1", results1 |-> "results2", results2 |-> "results_end",
   results_end |-> "finish_set", nosignal_send |-> "finish_set",
   idle_send |-> "finish_set", status_send |-> "finish_set",
   fix_send |-> "top", abort_send |-> "top"]

ServerLabels == DOMAIN AfterJoin \cup DOMAIN NewState \cup DOMAIN AfterSend
                \cup {"top", "dispatch", "status_on", "status_off", "done_join",
                      "teardown_listener", "leaving", "exited"}
ListenerLabels == {"none", "check", "read", "abort", "start", "status_on",
                   "status_off", "status_send", "spin", "exited"}
MainLabels == {"sleep", "gnss_join", "listener_join", "server_join", "left"}

Init ==
  /\ spc = "top" /\ lpc = "none" /\ mpc = "sleep"
  /\ state = "INIT" /\ run = TRUE
  /\ grun = FALSE /\ flag = FALSE /\ fix = FALSE
  /\ readers = {} /\ handle = "never" /\ mutexes = FALSE
  /\ timer = "off"
  /\ accelOn = FALSE /\ size = 0 /\ bad = 0 /\ passed = 0
  /\ inbox = << >> /\ client = "idle" /\ conn = "open"
  /\ teardown = FALSE /\ proc = "running"

TypeOK ==
  /\ spc \in ServerLabels /\ lpc \in ListenerLabels /\ mpc \in MainLabels
  /\ state \in States /\ run \in BOOLEAN
  /\ grun \in BOOLEAN /\ flag \in BOOLEAN /\ fix \in BOOLEAN
  /\ readers \subseteq Readers /\ handle \in Readers \cup {"never", "joined"}
  /\ mutexes \in BOOLEAN
  /\ timer \in {"off", "young", "over15", "over30"}
  /\ accelOn \in BOOLEAN /\ size \in 0..(Capacity + 1)
  /\ bad \in 0..(MaxBad + 1) /\ passed \in 0..3
  /\ inbox \in Seq(Requests) /\ client \in {"idle", "busy", "aborting"}
  /\ conn \in {"open", "fin", "reset", "dead", "closed"}
  /\ teardown \in BOOLEAN /\ proc \in {"running", "crashed", "ended"}

-----------------------------------------------------------------------------
(***************************************************************************)
(* What the handlers are built from.                                       *)
(***************************************************************************)
\* aesdtimer.c.
TimerStart   == timer' = IF timer = "off" THEN "young" ELSE timer
TimerStop    == timer' = "off"
TimerRestart == timer' = "young"
PollElapsed  == timer \in {"over15", "over30"}
AccelElapsed == timer = "over30"

\* accelmeter-app.c.
AccelStart == IF accelOn
              THEN UNCHANGED accel
              ELSE accelOn' = TRUE /\ size' = 0 /\ bad' = 0 /\ passed' = 0
AccelStop == /\ accelOn' = FALSE
             /\ size' = IF accelOn THEN 0 ELSE size
             /\ UNCHANGED <<bad, passed>>
Saturated(n, bound) == IF n < bound THEN n + 1 ELSE n
Added(new) == accelOn /\ (size = 0 \/ new)
GrownSize(new) == IF Added(new) THEN Saturated(size, Capacity + 1) ELSE size
AddData(new) == size' = GrownSize(new)
IncorrectCount == Saturated(bad, MaxBad + 1)
IncorrectData == bad' = IncorrectCount

\* gnssdata_stop up to its pthread_join.
GnssStop == grun' = FALSE /\ flag' = FALSE /\ UNCHANGED <<fix, readers, handle, mutexes>>

\* The rest of gnssdata_stop.  The join waits for the reader; joining a
\* thread twice, or while another thread joins it, is undefined, and joining
\* one that was never created reads through a null handle.
GnssJoined(contended) ==
  \/ /\ handle \in Readers /\ handle \notin readers
     /\ handle' = "joined" /\ mutexes' = FALSE
     /\ UNCHANGED <<grun, flag, fix, readers, proc>>
  \/ /\ handle = "joined" \/ (contended /\ handle \in readers)
     /\ mutexes' = FALSE
     /\ UNCHANGED <<grun, flag, fix, readers, handle>>
     /\ proc' \in {"running", "crashed"}
  \/ /\ handle = "never"
     /\ proc' = "crashed"
     /\ UNCHANGED gnss

\* pthread_join of the client listener.
ListenerJoined(contended) ==
  \/ lpc = "exited" /\ lpc' = "none" /\ UNCHANGED proc
  \/ /\ lpc = "none" \/ (contended /\ lpc # "exited")
     /\ proc' \in {"running", "crashed"}
     /\ UNCHANGED lpc

\* send_to_client: a message that fails to go out is an unexpected error.  The
\* first send after the peer has closed is accepted and answered by a reset;
\* one after that raises SIGPIPE, which nothing handles.
Transmit(belief) ==
  \/ conn = "open" /\ client' = belief /\ UNCHANGED <<conn, state, run, proc>>
  \/ conn = "fin" /\ conn' \in {"fin", "dead"} /\ UNCHANGED <<client, state, run, proc>>
  \/ /\ conn \in {"reset", "closed"}
     /\ conn' = IF conn = "reset" THEN "dead" ELSE conn
     /\ state' = "UNEXPECTED_ERROR" /\ run' = FALSE
     /\ UNCHANGED <<client, proc>>
  \/ conn = "dead" /\ proc' = "crashed" /\ UNCHANGED <<client, conn, state, run>>

-----------------------------------------------------------------------------
(***************************************************************************)
(* The server thread.  At the top of its loop it leaves if a teardown has  *)
(* been requested by then; else it takes the handler of the state it reads *)
(* next.  A handler that changes no state goes back to the top.            *)
(***************************************************************************)
At(st) == spc = "dispatch" /\ state = st /\ UNCHANGED <<lpc, mpc, teardown>>
ToTop == spc' = "top"

LoopTop ==
  /\ spc = "top"
  /\ IF teardown THEN spc' = "leaving" /\ run' = FALSE
                 ELSE spc' = "dispatch" /\ UNCHANGED run
  /\ UNCHANGED <<lpc, mpc, state, gnss, timer, accel, net, teardown, proc>>

\* Mutant: run_listener is not set again after the session before cleared it.
StateInitKeepsRun ==
  /\ spc = "dispatch" /\ state = "INIT" /\ ToTop
  /\ state' = "WAITING_FOR_CLIENT" /\ lpc' = "check"
  /\ UNCHANGED <<mpc, run, gnss, timer, accel, net, teardown, proc>>

StateInit ==
  /\ spc = "dispatch" /\ state = "INIT" /\ ToTop
  /\ run' = TRUE /\ state' = "WAITING_FOR_CLIENT" /\ lpc' = "check"
  /\ UNCHANGED <<mpc, gnss, timer, accel, net, teardown, proc>>

\* Nothing to do; or no fix yet, and time left to wait for one.
StateWait ==
  /\ At("WAITING_FOR_CLIENT") \/ (At("POLL_SIGNAL") /\ ~fix /\ ~PollElapsed)
  /\ ToTop
  /\ UNCHANGED <<state, run, gnss, timer, accel, net, proc>>

\* Mutant: gnssdata_start initialises the mutexes in the first session only.
StateStartOnce ==
  /\ At("START_REQUESTED")
  /\ \E r \in Readers \ readers : readers' = readers \cup {r} /\ handle' = r
  /\ grun' = TRUE /\ flag' = TRUE /\ fix' = FALSE /\ mutexes' = (mutexes \/ handle = "never")
  /\ TimerStart
  /\ spc' = "start_set"
  /\ UNCHANGED <<state, run, accel, net, proc>>

\* gnssdata_start: a reader is created whatever became of the one before.
StateStartRequested ==
  /\ At("START_REQUESTED")
  /\ \E r \in Readers \ readers : readers' = readers \cup {r} /\ handle' = r
  /\ grun' = TRUE /\ flag' = TRUE /\ fix' = FALSE /\ mutexes' = TRUE
  /\ TimerStart
  /\ spc' = "start_set"
  /\ UNCHANGED <<state, run, accel, net, proc>>

PollFix ==
  /\ At("POLL_SIGNAL") /\ fix
  /\ flag' = FALSE /\ TimerStop
  /\ spc' = "fix_set"
  /\ UNCHANGED <<state, run, grun, fix, readers, handle, mutexes, accel, net, proc>>

PollTimeout ==
  /\ At("POLL_SIGNAL") /\ ~fix /\ PollElapsed
  /\ TimerStop /\ GnssStop
  /\ spc' = "nosignal_join"
  /\ UNCHANGED <<state, run, accel, net, proc>>

\* Mutant: the timer that the fix stopped is not started again.
StateWorkingNoTimer ==
  /\ At("WORKING")
  /\ AccelStart
  /\ spc' = "working_set"
  /\ UNCHANGED <<state, run, gnss, timer, net, proc>>

StateWorking ==
  /\ At("WORKING")
  /\ TimerStart /\ AccelStart
  /\ spc' = "working_set"
  /\ UNCHANGED <<state, run, gnss, net, proc>>

\* A sample is valid when its timestamp is: the test of the speed never fails,
\* for gnssdata_get_speed scales the -1.0 that marks an invalid speed.
WaitAccelStarted(new) ==
  /\ At("WAIT_ACCEL") /\ Added(new)
  /\ AddData(new) /\ TimerRestart
  /\ spc' = "accel_set"
  /\ UNCHANGED <<state, run, gnss, accelOn, bad, passed, net, proc>>

WaitAccelTimeout ==
  /\ At("WAIT_ACCEL") /\ AccelElapsed
  /\ TimerStop /\ AccelStop /\ GnssStop
  /\ spc' = "idle_join"
  /\ UNCHANGED <<state, run, net, proc>>

\* Mutant: a full buffer is freed and not allocated again.
WaitAccelPollFreed(new) ==
  /\ At("WAIT_ACCEL") /\ ~AccelElapsed
  /\ IF GrownSize(new) > Capacity
     THEN AccelStop
     ELSE AddData(new) /\ UNCHANGED <<accelOn, bad, passed>>
  /\ ToTop
  /\ UNCHANGED <<state, run, gnss, timer, net, proc>>

\* Nothing happened; a full buffer is emptied.
WaitAccelPoll(new) ==
  /\ At("WAIT_ACCEL") /\ ~AccelElapsed
  /\ IF GrownSize(new) > Capacity
     THEN accelOn' = TRUE /\ size' = 0 /\ bad' = 0 /\ passed' = 0
     ELSE AddData(new) /\ UNCHANGED <<accelOn, bad, passed>>
  /\ ToTop
  /\ UNCHANGED <<state, run, gnss, timer, net, proc>>

\* An invalid sample that is tolerated, in either state that reads samples.
Tolerate(st) ==
  /\ At(st) /\ IncorrectCount < MaxBad
  /\ IncorrectData /\ ToTop
  /\ UNCHANGED <<state, run, gnss, timer, accelOn, size, passed, net, proc>>

WaitAccelBail ==
  /\ At("WAIT_ACCEL") /\ IncorrectCount >= MaxBad
  /\ IncorrectData /\ accelOn' = FALSE /\ size' = IF accelOn THEN 0 ELSE size
  /\ TimerStop /\ GnssStop
  /\ spc' = "error_join"
  /\ UNCHANGED <<state, run, passed, net, proc>>

MeasureFinal(new) ==
  /\ At("MEASURE") /\ passed = 3 /\ Added(new)
  /\ AddData(new) /\ TimerStop /\ GnssStop
  /\ spc' = "measured_join"
  /\ UNCHANGED <<state, run, accelOn, bad, passed, net, proc>>

\* Mutant: a fast sample passes a checkpoint when none is left.
MeasurePassAlways(new) ==
  /\ At("MEASURE") /\ Added(new)
  /\ AddData(new) /\ passed' = passed + 1 /\ TimerRestart
  /\ ToTop
  /\ UNCHANGED <<state, run, gnss, accelOn, bad, net, proc>>

MeasurePass(new) ==
  /\ At("MEASURE") /\ passed < 3 /\ Added(new)
  /\ AddData(new) /\ passed' = passed + 1 /\ TimerRestart
  /\ ToTop
  /\ UNCHANGED <<state, run, gnss, accelOn, bad, net, proc>>

\* Mutant: the timeout is not looked at while there is no checkpoint.
MeasureSlowForever(new) ==
  /\ At("MEASURE") /\ ~(passed = 3 /\ Added(new))
  /\ AddData(new) /\ ToTop
  /\ UNCHANGED <<state, run, gnss, timer, accelOn, bad, passed, net, proc>>

\* No checkpoint: a sample that is old, or new and too slow.
MeasureSlow(new) ==
  /\ At("MEASURE") /\ ~(passed = 3 /\ Added(new))
  /\ AddData(new)
  /\ IF AccelElapsed
     THEN TimerStop /\ GnssStop /\ spc' = "measured_join"
     ELSE ToTop /\ UNCHANGED <<timer, gnss>>
  /\ UNCHANGED <<state, run, accelOn, bad, passed, net, proc>>

\* accelmeter_app_get_current_checkpoint is 0.0 when all three are passed.
MeasureBail ==
  /\ At("MEASURE") /\ IncorrectCount >= MaxBad
  /\ IncorrectData /\ TimerStop /\ GnssStop
  /\ spc' = IF passed < 3 THEN "measured_join" ELSE "nodata_join"
  /\ UNCHANGED <<state, run, accelOn, size, passed, net, proc>>

\* Mutant: the buffer of an analysed session is not freed.
StateAnalyzeKeepsBuffer ==
  /\ At("ANALYZE")
  /\ spc' = "results0"
  /\ UNCHANGED <<state, run, gnss, timer, accel, net, proc>>

\* Mutant: the session is stopped, reader and all, once more before its results.
StateAnalyzeStopsReader ==
  /\ At("ANALYZE")
  /\ AccelStop /\ GnssStop
  /\ spc' = "idle_join"
  /\ UNCHANGED <<state, run, timer, net, proc>>

StateAnalyze ==
  /\ At("ANALYZE")
  /\ AccelStop
  /\ spc' = "results0"
  /\ UNCHANGED <<state, run, gnss, timer, net, proc>>

\* Mutant: the handler of an abort joins a reader that nobody has told to stop.
StateAbortKeepsReader ==
  /\ At("ABORT_REQUESTED")
  /\ run' = FALSE /\ TimerStop
  /\ spc' = "abort_join"
  /\ UNCHANGED <<state, gnss, accel, net, proc>>

StateAbortRequested ==
  /\ At("ABORT_REQUESTED")
  /\ run' = FALSE /\ TimerStop /\ GnssStop
  /\ spc' = "abort_join"
  /\ UNCHANGED <<state, accel, net, proc>>

StateFinished ==
  /\ At("FINISHED") /\ state' = "INIT" /\ ToTop
  /\ UNCHANGED <<run, gnss, timer, accel, net, proc>>

\* Mutant: the listener is joined and has not been told to stop.
StateDoneKeepsListener ==
  /\ At("DONE")
  /\ spc' = "done_join"
  /\ UNCHANGED <<state, run, gnss, timer, accel, net, proc>>

StateDone ==
  /\ At("DONE")
  /\ run' = FALSE /\ spc' = "done_join"
  /\ UNCHANGED <<state, gnss, timer, accel, net, proc>>

StateUnexpectedError ==
  /\ At("UNEXPECTED_ERROR")
  /\ GnssStop /\ spc' = "teardown_join"
  /\ UNCHANGED <<state, run, timer, accel, net, proc>>

-----------------------------------------------------------------------------
(***************************************************************************)
(* The rest of a handler, as the tables order it.                          *)
(***************************************************************************)
\* Mutant: the reader is taken for joined without waiting for its end.
JoinReaderUnwaited ==
  /\ spc \in DOMAIN AfterJoin
  /\ handle' = "joined" /\ mutexes' = FALSE
  /\ spc' = AfterJoin[spc]
  /\ IF spc \in {"abort_join", "nodata_join"} THEN AccelStop ELSE UNCHANGED accel
  /\ UNCHANGED <<lpc, mpc, state, run, grun, flag, fix, readers, timer, net, teardown, proc>>

JoinReader ==
  /\ spc \in DOMAIN AfterJoin
  /\ GnssJoined(mpc = "gnss_join")
  /\ spc' = AfterJoin[spc]
  /\ IF spc \in {"abort_join", "nodata_join"} THEN AccelStop ELSE UNCHANGED accel
  /\ UNCHANGED <<lpc, mpc, state, run, timer, net, teardown>>

SetState ==
  /\ spc \in DOMAIN NewState
  /\ state' = NewState[spc] /\ spc' = AfterSet(spc)
  /\ UNCHANGED <<lpc, mpc, run, gnss, timer, accel, net, teardown, proc>>

\* send_status_data_to_client before its message, by either thread.
StatusOn == flag' = TRUE /\ UNCHANGED <<grun, fix, readers, handle, mutexes>>
StatusOff == flag' = FALSE /\ UNCHANGED <<grun, fix, readers, handle, mutexes>>

ServerStatusOn ==
  /\ spc = "status_on" /\ spc' = "status_off" /\ StatusOn
  /\ UNCHANGED <<lpc, mpc, state, run, timer, accel, net, teardown, proc>>

ServerStatusOff ==
  /\ spc = "status_off" /\ spc' = "status_send" /\ StatusOff
  /\ UNCHANGED <<lpc, mpc, state, run, timer, accel, net, teardown, proc>>

\* What the client believes after a message: ABORTED answers its abort, and
\* each other last message of a session ends the session it waits for.
Belief(l) ==
  CASE l = "abort_send" -> "idle"
    [] l \in {"nosignal_send", "idle_send", "status_send", "results_end"}
         -> IF client = "busy" THEN "idle" ELSE client
    [] OTHER -> client

ServerSend ==
  /\ spc \in DOMAIN AfterSend
  /\ Transmit(Belief(spc))
  /\ spc' = AfterSend[spc]
  /\ UNCHANGED <<lpc, mpc, gnss, timer, accel, inbox, teardown>>

\* Mutant: STATE_DONE does not wait for the listener it has told to stop.
DoneWithoutJoin ==
  /\ spc = "done_join"
  /\ spc' = "top" /\ state' = "FINISHED"
  /\ UNCHANGED <<lpc, mpc, run, gnss, timer, accel, net, teardown, proc>>

\* STATE_DONE after its join.
DoneJoined ==
  /\ spc = "done_join"
  /\ ListenerJoined(mpc = "listener_join")
  /\ spc' = "top" /\ state' = "FINISHED"
  /\ UNCHANGED <<mpc, run, gnss, timer, accel, net, teardown>>

\* teardown() called by the server thread, whose pthread_join of itself fails at
\* once.
TeardownByServer ==
  /\ spc = "teardown_listener"
  /\ ListenerJoined(mpc = "listener_join")
  /\ spc' = "leaving"
  /\ UNCHANGED <<mpc, state, run, gnss, timer, accel, net, teardown>>

\* Mutant: the thread returns and leaves the connection open.
ServerReturnsOpen ==
  /\ spc = "leaving" /\ spc' = "exited"
  /\ run' \in BOOLEAN
  /\ UNCHANGED <<lpc, mpc, state, gnss, timer, accel, net, teardown, proc>>

\* The thread returns and the connection is closed.  sm_params, which was on its
\* stack, is dead from here on: a listener still running reads what is left there.
ServerReturns ==
  /\ spc = "leaving" /\ spc' = "exited"
  /\ conn' = "closed" /\ run' \in BOOLEAN
  /\ UNCHANGED <<lpc, mpc, state, gnss, timer, accel, inbox, client, teardown, proc>>

ServerStep ==
  \/ LoopTop \/ StateInit \/ StateWait \/ StateStartRequested \/ PollFix \/ PollTimeout
  \/ StateWorking \/ WaitAccelTimeout \/ WaitAccelBail \/ MeasureBail
  \/ \E new \in BOOLEAN : \/ WaitAccelStarted(new) \/ WaitAccelPoll(new)
                          \/ MeasureFinal(new) \/ MeasurePass(new) \/ MeasureSlow(new)
  \/ \E st \in {"WAIT_ACCEL", "MEASURE"} : Tolerate(st)
  \/ StateAnalyze \/ StateAbortRequested \/ StateFinished \/ StateDone
  \/ StateUnexpectedError
  \/ JoinReader \/ SetState \/ ServerStatusOn \/ ServerStatusOff \/ ServerSend
  \/ DoneJoined \/ TeardownByServer \/ ServerReturns

-----------------------------------------------------------------------------
(***************************************************************************)
(* The listener thread.                                                    *)
(***************************************************************************)
ListenerGoes(from, to) == lpc = from /\ lpc' = to /\ UNCHANGED <<spc, mpc, teardown>>

ListenerCheck ==
  /\ \/ run /\ ListenerGoes("check", "read")
     \/ ~run /\ ListenerGoes("check", "exited")
  /\ UNCHANGED <<state, run, gnss, timer, accel, net, proc>>

\* Mutant: the status is reported in every state.
ReactionAlwaysReporting(m) ==
  CASE m = "REQUEST_ABORT" /\ state \in Abortable -> "abort"
    [] m = "REQUEST_STATUS" -> "status_on"
    [] m = "STATE_INIT" -> "start"
    [] OTHER -> "check"

\* Mutant: a session is started in STATE_INIT only.
ReactionInInit(m) ==
  CASE m = "REQUEST_ABORT" /\ state \in Abortable -> "abort"
    [] m = "REQUEST_STATUS" /\ state \in Reporting -> "status_on"
    [] m = "STATE_INIT" /\ state = "INIT" -> "start"
    [] OTHER -> "check"

\* A message and the state read after it decide what the listener does.
Reaction(m) ==
  CASE m = "REQUEST_ABORT" /\ state \in Abortable -> "abort"
    [] m = "REQUEST_STATUS" /\ state \in Reporting -> "status_on"
    [] m = "STATE_INIT" -> "start"
    [] OTHER -> "check"

ListenerMessage ==
  /\ inbox # << >> /\ conn # "closed"
  /\ ListenerGoes("read", Reaction(Head(inbox)))
  /\ inbox' = Tail(inbox)
  /\ UNCHANGED <<state, run, gnss, timer, accel, client, conn, proc>>

ListenerTimeout ==
  /\ inbox = << >> /\ conn = "open"
  /\ ListenerGoes("read", "check")
  /\ UNCHANGED <<state, run, gnss, timer, accel, net, proc>>

\* recv or select fails: read_client_error, then the loop ends.
ListenerError ==
  /\ \/ conn = "reset" /\ inbox = << >> /\ conn' = "dead" /\ ListenerGoes("read", "check")
     \/ conn = "closed" /\ UNCHANGED conn
        /\ (ListenerGoes("read", "check") \/ ListenerGoes("spin", "check"))
  /\ state' = "UNEXPECTED_ERROR" /\ run' = FALSE
  /\ UNCHANGED <<gnss, timer, accel, inbox, client, proc>>

\* recv returns 0 at the end of the stream, which is not FAIL: the read loop
\* goes round for ever, or until the descriptor is closed under it.
ListenerEndOfStream ==
  /\ inbox = << >> /\ conn \in {"fin", "dead"}
  /\ ListenerGoes("read", "spin")
  /\ UNCHANGED <<state, run, gnss, timer, accel, net, proc>>

ListenerAbort ==
  /\ ListenerGoes("abort", "check") /\ state' = "ABORT_REQUESTED"
  /\ UNCHANGED <<run, gnss, timer, accel, net, proc>>

ListenerStart ==
  /\ ListenerGoes("start", "check") /\ state' = "START_REQUESTED"
  /\ UNCHANGED <<run, gnss, timer, accel, net, proc>>

ListenerStatus ==
  /\ \/ ListenerGoes("status_on", "status_off") /\ StatusOn
     \/ ListenerGoes("status_off", "status_send") /\ StatusOff
  /\ UNCHANGED <<state, run, timer, accel, net, proc>>

ListenerSend ==
  /\ ListenerGoes("status_send", "check")
  /\ Transmit(client)
  /\ UNCHANGED <<gnss, timer, accel, inbox>>

ListenerStep == \/ ListenerCheck \/ ListenerMessage \/ ListenerTimeout
                \/ ListenerError \/ ListenerEndOfStream \/ ListenerAbort
                \/ ListenerStart \/ ListenerStatus \/ ListenerSend

-----------------------------------------------------------------------------
(***************************************************************************)
(* The main thread: it sleeps until a teardown is requested, then runs     *)
(* teardown() beside whatever the server thread is doing.                  *)
(***************************************************************************)
MainGoes(from, to) == mpc = from /\ mpc' = to /\ UNCHANGED <<spc, teardown>>

MainTeardown ==
  /\ teardown /\ MainGoes("sleep", "gnss_join")
  /\ GnssStop
  /\ UNCHANGED <<lpc, state, run, timer, accel, net, proc>>

MainJoinReader ==
  /\ MainGoes("gnss_join", "listener_join")
  /\ GnssJoined(spc \in DOMAIN AfterJoin)
  /\ UNCHANGED <<lpc, state, run, timer, accel, net>>

MainJoinListener ==
  /\ MainGoes("listener_join", "server_join")
  /\ ListenerJoined(spc \in {"done_join", "teardown_listener"})
  /\ UNCHANGED <<state, run, gnss, timer, accel, net>>

\* The last join; main then frees the address list the signal handler has
\* freed already, and the process ends one way or the other.
MainLeave ==
  /\ spc = "exited" /\ MainGoes("server_join", "left")
  /\ proc' \in {"ended", "crashed"}
  /\ UNCHANGED <<lpc, state, run, gnss, timer, accel, net>>

MainStep == MainTeardown \/ MainJoinReader \/ MainJoinListener \/ MainLeave

(***************************************************************************)
(* The NMEA reader threads, as the server sees them.  They read sentences  *)
(* without end, so one that is told to stop returns.                       *)
(***************************************************************************)
ReaderFail ==
  /\ readers # {} /\ grun' = FALSE
  /\ UNCHANGED <<threads, state, run, flag, fix, readers, handle, mutexes, timer,
                 accel, net, teardown, proc>>

ReaderExit(r) ==
  /\ r \in readers /\ ~grun /\ readers' = readers \ {r}
  /\ UNCHANGED <<threads, state, run, grun, flag, fix, handle, mutexes, timer,
                 accel, net, teardown, proc>>

\* An RMC sentence updates the fix only while the status is asked for.
ReaderStatus ==
  /\ readers # {} /\ flag /\ fix' \in BOOLEAN
  /\ UNCHANGED <<threads, state, run, grun, flag, readers, handle, mutexes, timer,
                 accel, net, teardown, proc>>

\* Two readers on one device each get pieces of its sentences.  What one puts
\* together starts with no known prefix: extract_nmea frees it, calls gnssdata_stop
\* from the reader itself, whose join of itself fails, and frees it again.
ReaderUnsupported ==
  /\ Cardinality(readers) > 1 /\ proc' = "crashed"
  /\ UNCHANGED <<threads, state, run, gnss, timer, accel, net, teardown>>

(***************************************************************************)
(* The clock, the client and the operator.                                 *)
(***************************************************************************)
Tick ==
  /\ \/ timer = "young" /\ timer' = "over15"
     \/ timer = "over15" /\ timer' = "over30"
  /\ UNCHANGED <<threads, state, run, gnss, accel, net, teardown, proc>>

ClientSend(m) ==
  /\ conn = "open" /\ Len(inbox) < MaxInbox
  /\ PatientClient => /\ m = "STATE_INIT" => client = "idle"
                      /\ m = "REQUEST_ABORT" => client = "busy"
  /\ inbox' = Append(inbox, m)
  /\ client' = CASE m = "STATE_INIT" /\ client = "idle" -> "busy"
                 [] m = "REQUEST_ABORT" /\ client = "busy" -> "aborting"
                 [] OTHER -> client
  /\ UNCHANGED <<threads, state, run, gnss, timer, accel, conn, teardown, proc>>

ClientLeave ==
  /\ MayDisconnect
  /\ \/ conn = "open" /\ conn' \in {"fin", "reset"}
     \/ conn = "fin" /\ conn' = "dead"
  /\ UNCHANGED <<threads, state, run, gnss, timer, accel, inbox, client, teardown, proc>>

Signal ==
  /\ MaySignal /\ ~teardown /\ teardown' = TRUE
  /\ UNCHANGED <<threads, state, run, gnss, timer, accel, net, proc>>

EnvironmentStep ==
  \/ ReaderFail \/ ReaderStatus \/ ReaderUnsupported \/ \E r \in Readers : ReaderExit(r)
  \/ Tick \/ (\E m \in Requests : ClientSend(m)) \/ ClientLeave \/ Signal

Next == proc = "running" /\ (ServerStep \/ ListenerStep \/ MainStep \/ EnvironmentStep)

Spec == Init /\ [][Next]_vars

\* Every thread is scheduled, time passes, and the GNSS module keeps sending,
\* so that a reader told to stop comes back from its read and sees it.
Fairness ==
  /\ WF_vars(proc = "running" /\ ServerStep)
  /\ WF_vars(proc = "running" /\ ListenerStep)
  /\ WF_vars(proc = "running" /\ MainStep)
  /\ WF_vars(proc = "running" /\ Tick)
  /\ \A r \in Readers : WF_vars(proc = "running" /\ ReaderExit(r))

FairSpec == Spec /\ Fairness

-----------------------------------------------------------------------------
(***************************************************************************)
(* Safety.                                                                 *)
(***************************************************************************)
\* The server thread is not in the middle of a set_state it has decided on.
Settled == spc \in {"top", "dispatch", "fix_send", "abort_send"} /\ ~teardown

\* "Listener is running. Just wait for a next state" (STATE_WAITING_FOR_CLIENT):
\* whenever the server waits for a request there is a listener that has not been told
\* to stop, so the wait is not in vain while the client stays.  (One in the endless
\* loop at the end of the stream has not ended either.)
IdleListens ==
  state = "WAITING_FOR_CLIENT" /\ Settled => run /\ lpc \notin {"none", "exited"}

\* STATE_INIT creates a listener and overwrites listener_thread: no listener may
\* be left from the session before, whatever requests and errors ended it.
NoDoubleListener == state \in {"FINISHED", "INIT"} /\ Settled => lpc = "none"

\* Every state that waits with a timeout has the timer running; otherwise
\* timer_is_elapsed is false for ever and the session never times out.
TimerArmed ==
  state \in {"POLL_SIGNAL", "WAIT_ACCEL", "MEASURE"} /\ Settled => timer # "off"

\* A session that reads GNSS data has a reader it can join and the mutexes that
\* guard the data, however many times it was started, aborted or restarted.
SessionOwnsReader ==
  state \in {"POLL_SIGNAL", "WORKING", "WAIT_ACCEL", "MEASURE"} /\ Settled
    => handle \in Readers /\ mutexes

\* Samples are added, and analysed, in an allocated buffer, and from the sample
\* that starts a measurement on there is one to analyse.
BufferAlive ==
  /\ state \in {"WAIT_ACCEL", "MEASURE", "ANALYZE"} /\ Settled => accelOn
  /\ state \in {"MEASURE", "ANALYZE"} /\ Settled => size > 0

\* While the server polls for a fix the reader has been asked to update it: a
\* status request must not clear gnssdata_get_status_flag under the poll.
PollSeesStatus == state = "POLL_SIGNAL" /\ Settled => flag

\* For a client that waits for the end of a session before it asks for another:
\* a session starts with no timer running, no samples and no reader of the
\* session before, whichever way that one ended.
CleanStart ==
  state = "START_REQUESTED" /\ Settled /\ PatientClient
    => timer = "off" /\ ~accelOn /\ readers = {}

\* The reader of a client that waits is used as ReaderContract says, one at a time
\* and each only after the one before has ended.
Contract == INSTANCE ReaderContract
              WITH running <- grun, asked <- flag, alive <- (readers # {})
UsesOneReader == Contract!Spec

\* A client that stays can crash the process only by an abort, and then only in the
\* handler of that abort, which stops a reader again that has been stopped: no other
\* handler, in any number of sessions, joins a thread that is not there to be joined.
NoBadJoin ==
  proc = "crashed" /\ PatientClient /\ ~MayDisconnect /\ ~MaySignal => spc = "abort_set"

-----------------------------------------------------------------------------
(***************************************************************************)
(* Liveness, under FairSpec.                                               *)
(***************************************************************************)
Stopped == teardown \/ proc # "running"

\* With a client that waits, every session that polls for a signal comes to its
\* end: one of the timeouts, the bound on invalid samples, the last checkpoint
\* or an abort always ends it.
SessionTerminates ==
  (state = "POLL_SIGNAL" /\ Settled) ~> (state = "DONE" \/ Stopped)

\* A session that has ended leaves the server waiting for the next request.
SessionsFollow ==
  (state = "DONE" /\ Settled) ~> (state = "WAITING_FOR_CLIENT" \/ state = "START_REQUESTED" \/ Stopped)

\* A start request found while the server waits leads to a session.
IdleStartServed ==
  (state = "WAITING_FOR_CLIENT" /\ inbox # << >> /\ Head(inbox) = "STATE_INIT")
    ~> (state \in {"POLL_SIGNAL", "ABORT_REQUESTED"} \/ Stopped)

\* With a client that waits, an abort that finds the server between two handlers is
\* answered with ABORTED.  One that comes while a handler is under way may be lost to
\* the set_state at its end, and is then not answered; but whatever becomes of it, the
\* session ends.
AbortAnswered ==
  /\ (state = "ABORT_REQUESTED" /\ Settled) ~> (client = "idle" \/ Stopped)
  /\ state = "ABORT_REQUESTED" ~> (state \in {"DONE", "FINISHED"} \/ Stopped)

\* A requested teardown lets main leave, provided the client stays connected and waits
\* for the end of each session, which it does not abort.
\* Its three joins hang in one case only: a session whose reader is started
\* between main's gnssdata_stop and the server thread's next look at the flag.
TeardownCompletes ==
  teardown ~> (mpc = "left" \/ proc # "running" \/ (mpc = "gnss_join" /\ grun))
=============================================================================
