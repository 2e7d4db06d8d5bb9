------------------------------ MODULE GnssData ------------------------------
(***************************************************************************)
(* gnssdata.c: the NMEA reader thread and those who take data from it.     *)
(* The thread parses a sentence field by field, each field under a lock of *)
(* its own; the server thread polls the fix, then reads speed and          *)
(* timestamp, one lock each, and adds them to its samples; the listener    *)
(* asks for status reports.  Sessions follow each other, one reader each.  *)
(*                                                                         *)
(* A sentence is its number in the order of arrival and a datum carries the*)
(* number of the sentence it came from, so that data of one sentence can be*)
(* told from those of another, and of another session.                     *)
(*                                                                         *)
(* One critical section is one step.  gnssdata_get_status_flag is written  *)
(* without the lock under which the reader tests it: a write between the   *)
(* test and the update under it is as good as one after the update, for    *)
(* the writer looks at the result under the lock.                          *)
(*                                                                         *)
(* Each session here has its reader to itself and frees its samples at its *)
(* end, as ServerApp shows of a client that waits.                         *)
(***************************************************************************)
EXTENDS Integers

CONSTANTS Knots,        \* speeds in the sentences; 0 is an empty or bad field
          Capacity,     \* ACCELMETER_APP_INITIAL_CAPACITY
          MaxSentences, \* bound: sentences read in a behaviour
          MaxSessions   \* bound: sessions in a behaviour

ASSUME KnotsAssumption == Knots \subseteq Nat
ASSUME BoundsAssumption == {Capacity, MaxSentences, MaxSessions} \subseteq Nat

VARIABLES
  rpc,       \* where the reader is in read_data_task and extract_nmea
  arrived,   \* sentences read so far
  run, flag, \* run_listener, gnssdata_get_status_flag
  cur,       \* cur_status: for each part the sentence it is from, NA if not valid
  text,      \* status_string, in the same form
  time,      \* cur_speed.timestamp: the sentence it is from, or Invalid
  speed,     \* cur_speed.speed: in knots, and the sentence it is from
  spc,       \* where the server thread is
  held,      \* the speed it has read for its next sample
  last,      \* the last sample added: accel.data[accel.size - 1] unless size is 0
  size,      \* accel.size
  moving,    \* it measures: STATE_WORKING_WAIT_ACCEL is over
  lpc,       \* where the listener is in send_status_data_to_client
  report,    \* history: the last status text sent in the session
  session,   \* number of gnssdata_start so far
  base       \* history: sentences read before the session

reader == <<rpc, arrived>>
status == <<cur, text>>
motion == <<time, speed>>
samples == <<last, size, moving>>
server == <<spc, held, samples>>
vars == <<reader, run, flag, status, motion, server, lpc, report, session, base>>

NA == 0
Invalid == -1
AllNA == [fix |-> NA, sats |-> NA, strength |-> NA]
NoSpeed == [knots |-> Invalid, of |-> NA]
NoSample == [time |-> NA, kmh |-> 0, of |-> NA]

Init ==
  /\ rpc = "none" /\ arrived = 0 /\ run = FALSE /\ flag = FALSE
  /\ cur = AllNA /\ text = AllNA
  /\ time = Invalid /\ speed = NoSpeed
  /\ spc = "idle" /\ held = NoSpeed
  /\ last = NoSample /\ size = 0 /\ moving = FALSE
  /\ lpc = "idle" /\ report = AllNA
  /\ session = 0 /\ base = 0

TypeOK ==
  /\ rpc \in {"none", "setup", "loop", "read", "gsv", "time", "status", "speed", "exited"}
  /\ {arrived, session, base} \subseteq Nat
  /\ run \in BOOLEAN /\ flag \in BOOLEAN
  /\ {cur, text, report} \subseteq [fix : Nat, sats : Nat, strength : Nat]
  /\ time \in Nat \cup {Invalid}
  /\ {speed, held} \subseteq [knots : (Nat \ {0}) \cup {Invalid}, of : Nat]
  /\ spc \in {"idle", "poll", "fixed", "report", "sample", "pair", "join"}
  /\ last \in [time : Nat, kmh : Int, of : Nat] /\ size \in Nat /\ moving \in BOOLEAN
  /\ lpc \in {"idle", "decided", "asking", "asked"}

-----------------------------------------------------------------------------
(***************************************************************************)
(* The reader thread.                                                      *)
(***************************************************************************)
Reads(from, to) ==
  /\ rpc = from /\ rpc' = to
  /\ UNCHANGED <<server, lpc, report, session, base>>

\* Any of the steps that set up the device may fail.
SetUp ==
  /\ Reads("setup", "loop") /\ run' \in {run, FALSE}
  /\ UNCHANGED <<arrived, flag, status, motion>>

CheckFlag ==
  /\ Reads("loop", IF run THEN "read" ELSE "exited")
  /\ UNCHANGED <<arrived, run, flag, status, motion>>

\* A sentence read to its end, of one of the kinds the line discipline passes on;
\* a TXT sentence is only logged.
ReadSentence ==
  /\ arrived < MaxSentences
  /\ \E next \in {"gsv", "time", "loop"} : Reads("read", next)
  /\ arrived' = arrived + 1
  /\ UNCHANGED <<run, flag, status, motion>>

ReadFails ==
  /\ Reads("read", "loop") /\ run' = FALSE
  /\ UNCHANGED <<arrived, flag, status, motion>>

\* A part of the status that the sentence has, empty or not, or has not.
Part(old) == {old, NA, arrived}

ParseGsv ==
  /\ Reads("gsv", "loop")
  /\ IF flag
     THEN /\ \E sats \in Part(cur.sats), strength \in Part(cur.strength) :
               cur' = [cur EXCEPT !.sats = sats, !.strength = strength]
          /\ text' = cur'
     ELSE UNCHANGED status
  /\ UNCHANGED <<arrived, run, flag, motion>>

\* Mutant: a bad time field leaves the timestamp as it was.
ParseTimeKept(next) ==
  /\ Reads("time", next)
  /\ time' \in {arrived, time}
  /\ UNCHANGED <<arrived, run, flag, status, speed>>

\* The fields of an RMC sentence, which may end after any of them.
ParseTime(next) ==
  /\ Reads("time", next)
  /\ time' \in {arrived, Invalid}
  /\ UNCHANGED <<arrived, run, flag, status, speed>>

\* Mutant: the status of the fix is kept up to date whether asked for or not.
ParseStatusUnasked(next) ==
  /\ Reads("status", next)
  /\ \E fix \in {arrived, NA} : cur' = [cur EXCEPT !.fix = fix]
  /\ text' = cur'
  /\ UNCHANGED <<arrived, run, flag, motion>>

ParseStatus(next) ==
  /\ Reads("status", next)
  /\ IF flag
     THEN /\ \E fix \in {arrived, NA} : cur' = [cur EXCEPT !.fix = fix]
          /\ text' = cur'
     ELSE UNCHANGED status
  /\ UNCHANGED <<arrived, run, flag, motion>>

\* Mutant: a speed of zero is stored as it is.
ParseSpeedZero(knots) ==
  /\ Reads("speed", "loop")
  /\ speed' = [knots |-> IF knots >= 0 THEN knots ELSE Invalid, of |-> arrived]
  /\ UNCHANGED <<arrived, run, flag, status, time>>

\* atof: a speed that is not positive is marked invalid.
ParseSpeed(knots) ==
  /\ Reads("speed", "loop")
  /\ speed' = [knots |-> IF knots > 0 THEN knots ELSE Invalid, of |-> arrived]
  /\ UNCHANGED <<arrived, run, flag, status, time>>

ReaderStep ==
  \/ SetUp \/ CheckFlag \/ ReadSentence \/ ReadFails \/ ParseGsv
  \/ \E next \in {"status", "loop"} : ParseTime(next)
  \/ \E next \in {"speed", "loop"} : ParseStatus(next)
  \/ \E knots \in Knots : ParseSpeed(knots)

-----------------------------------------------------------------------------
(***************************************************************************)
(* The server thread: gnssdata_start, the poll for a fix, the samples,     *)
(* gnssdata_stop.                                                          *)
(***************************************************************************)
Serves(from, to) == spc = from /\ spc' = to /\ UNCHANGED <<lpc, session, base>>

\* Mutant: the fix of the session before stays valid.
StartKeepsFix ==
  /\ session < MaxSessions /\ lpc = "idle"
  /\ spc = "idle" /\ spc' = "poll" /\ rpc' = "setup"
  /\ session' = session + 1 /\ base' = arrived
  /\ run' = TRUE /\ flag' = TRUE /\ cur' = [AllNA EXCEPT !.fix = cur.fix]
  /\ report' = AllNA
  /\ UNCHANGED <<arrived, text, motion, held, samples, lpc>>

\* Mutant: the satellites and the signal strength stay valid.
StartKeepsParts ==
  /\ session < MaxSessions /\ lpc = "idle"
  /\ spc = "idle" /\ spc' = "poll" /\ rpc' = "setup"
  /\ session' = session + 1 /\ base' = arrived
  /\ run' = TRUE /\ flag' = TRUE /\ cur' = [cur EXCEPT !.fix = NA]
  /\ report' = AllNA
  /\ UNCHANGED <<arrived, text, motion, held, samples, lpc>>

\* gnssdata_start invalidates the status, and neither the text made of it nor the
\* speed and the timestamp.
Start ==
  /\ session < MaxSessions /\ lpc = "idle"
  /\ spc = "idle" /\ spc' = "poll" /\ rpc' = "setup"
  /\ session' = session + 1 /\ base' = arrived
  /\ run' = TRUE /\ flag' = TRUE /\ cur' = AllNA
  /\ report' = AllNA
  /\ UNCHANGED <<arrived, text, motion, held, samples, lpc>>

PollFix ==
  /\ cur.fix # NA /\ Serves("poll", "fixed")
  /\ UNCHANGED <<reader, run, flag, status, motion, held, samples, report>>

StopAsking ==
  /\ Serves("fixed", "report") /\ flag' = FALSE
  /\ UNCHANGED <<reader, run, status, motion, held, samples, report>>

\* gnssdata_get_status.  The speed and the timestamp read here "to skip possible
\* old data" are thrown away, which leaves them where they are.
ReportFix ==
  /\ Serves("report", "sample")
  /\ report' = text
  /\ UNCHANGED <<reader, run, flag, status, motion, held, samples>>

GetSpeed ==
  /\ Serves("sample", "pair") /\ held' = speed
  /\ UNCHANGED <<reader, run, flag, status, motion, samples, report>>

\* gnssdata_get_speed converts knots to km/h, the marker of an invalid speed
\* included; speeds are in thousandths of a km/h, in which -1.0 is -1000.
Kmh(s) == 1852 * s.knots
SpeedAccepted == Kmh(held) # -1000

\* accelmeter_app_add_data looks at the timestamp of the last sample it still has.
IsNew == size = 0 \/ time # last.time
Threshold == 3000              \* ACCELMETER_APP_START_SPEED_THRESHOLD

\* What a new sample does, or one that is not: a fast one starts the measurement,
\* until which a buffer that has grown is emptied.
TakeSample(new) ==
  /\ SpeedAccepted /\ time # Invalid /\ Serves("pair", "sample")
  /\ last' = IF new THEN [time |-> time, kmh |-> Kmh(held), of |-> held.of] ELSE last
  /\ moving' = (moving \/ (new /\ Kmh(held) >= Threshold))
  /\ size' = LET n == IF new THEN size + 1 ELSE size
             IN IF ~moving' /\ n > Capacity THEN 0 ELSE n
  /\ UNCHANGED <<reader, run, flag, status, motion, held, report>>

\* Mutant: a timestamp is added again and again.
AddSampleAgain == TakeSample(TRUE)

AddSample == TakeSample(IsNew)

RefuseSample ==
  /\ ~SpeedAccepted \/ time = Invalid
  /\ Serves("pair", "sample")
  /\ UNCHANGED <<reader, run, flag, status, motion, held, samples, report>>

\* The end of a session, by a timeout, an abort or a checkpoint: gnssdata_stop.
Stop ==
  /\ \E from \in {"poll", "sample"} : Serves(from, "join")
  /\ run' = FALSE /\ flag' = FALSE
  /\ UNCHANGED <<reader, status, motion, held, samples, report>>

\* By the end of a session its samples have been freed.
Join ==
  /\ rpc = "exited" /\ Serves("join", "idle")
  /\ last' = NoSample /\ size' = 0 /\ moving' = FALSE
  /\ UNCHANGED <<reader, run, flag, status, motion, held, report>>

ServerStep == Start \/ PollFix \/ StopAsking \/ ReportFix \/ GetSpeed
              \/ AddSample \/ RefuseSample \/ Stop \/ Join

(***************************************************************************)
(* The listener: a status report, in the states that have passed the poll. *)
(***************************************************************************)
Listens(from, to) ==
  /\ lpc = from /\ lpc' = to
  /\ UNCHANGED <<reader, run, status, motion, server, session, base>>

DecideStatus ==
  /\ spc \in {"sample", "pair"} /\ Listens("idle", "decided")
  /\ UNCHANGED <<flag, report>>

AskStatus == Listens("decided", "asking") /\ flag' = TRUE /\ UNCHANGED report

StopAskStatus == Listens("asking", "asked") /\ flag' = FALSE /\ UNCHANGED report

ReportStatus == Listens("asked", "idle") /\ report' = text /\ UNCHANGED flag

ListenerStep == DecideStatus \/ AskStatus \/ StopAskStatus \/ ReportStatus

Next == ReaderStep \/ ServerStep \/ ListenerStep

Spec == Init /\ [][Next]_vars

\* The reader is scheduled and its read returns: a sentence comes, or it fails.
FairSpec == Spec /\ WF_vars(ReaderStep)

-----------------------------------------------------------------------------
\* The timestamp of a sample is never older than its speed: the reader stores
\* the time of a sentence before its speed and the server reads the speed first,
\* so a sample may pair a speed with the time of a later sentence, never with
\* that of an earlier one.
SpeedNotAhead == last # NoSample => last.of <= last.time

\* A sample carries a timestamp of its own session, although gnssdata_start keeps
\* the old one: samples are taken after a fix, and a fix comes after a time.
TimestampOfSession == last # NoSample => last.time > base

\* What is reported to the client is of its session, each part of it or NA,
\* although gnssdata_start keeps the text of the session before.
Fresh(part) == part = NA \/ part > base
ReportOfSession ==
  Fresh(report.fix) /\ Fresh(report.sats) /\ Fresh(report.strength)

\* Samples go forward in time: each is later than the one before it in the buffer,
\* and the first after an emptied buffer is no older than the last one freed, the
\* sentence of which it may repeat.
SamplesAdvance ==
  [][last' # last => \/ last' = NoSample \/ last'.time > last.time
                     \/ size = 0 /\ last'.time = last.time]_vars

(***************************************************************************)
(* A reader is what the server takes it for.                               *)
(***************************************************************************)
Alive == rpc \notin {"none", "exited"}
Contract == INSTANCE ReaderContract
              WITH running <- run, asked <- flag, fix <- (cur.fix # NA), alive <- Alive
KeepsContract == Contract!FairSpec

(***************************************************************************)
(* What the source says and the code does not do.                          *)
(***************************************************************************)
\* "Get speed & timestamp data and validate it": no sample has the speed that
\* extract_nmea has marked invalid.
SpeedsValidated == last # NoSample => last.kmh >= 0
=============================================================================
