-------------------------- MODULE GnssDataProofs --------------------------
(***************************************************************************)
(* What samples and status reports carry, and the contract of the reader,  *)
(* for any speeds and any number of sentences and sessions.                *)
(***************************************************************************)
EXTENDS GnssData, TLAPS

(***************************************************************************)
(* The inductive invariant, besides the types.                             *)
(***************************************************************************)
Parsing == {"gsv", "time", "status", "speed"}
Fixed == {"fixed", "report", "sample", "pair"}

Before(n) == time # Invalid => n <= time
FreshText == Fresh(text.fix) /\ Fresh(text.sats) /\ Fresh(text.strength)
FreshTime == time = Invalid \/ time > base

\* Numbers of sentences never run ahead of the reader, which has read one of this
\* session when it parses; an idle server has no reader and no samples.
Numbered == /\ base <= arrived /\ speed.of <= arrived /\ last.time <= arrived
            /\ held.of <= arrived /\ (time # Invalid => time <= arrived)
            /\ rpc \in Parsing => arrived > base
            /\ spc = "idle" => rpc \in {"none", "exited"} /\ last = NoSample

\* The time of a sentence is stored before its speed.
TimeFirst == /\ rpc \in {"status", "speed"} => time \in {arrived, Invalid}
             /\ Before(speed.of) /\ Before(held.of) /\ Before(last.time)

\* A fix of this session has come with a time and a text of this session, which
\* stay when the server acts on it.
FixOfSession == /\ Fresh(cur.fix) /\ Fresh(cur.sats) /\ Fresh(cur.strength)
                /\ cur.fix # NA \/ spc \in Fixed => FreshText /\ FreshTime
                /\ lpc # "idle" => FreshText /\ spc \in {"sample", "pair", "join", "idle"}

IInv == /\ TypeOK /\ Numbered /\ TimeFirst /\ FixOfSession
        /\ SpeedNotAhead /\ TimestampOfSession /\ ReportOfSession

-----------------------------------------------------------------------------
BooleansOK == run \in BOOLEAN /\ flag \in BOOLEAN /\ moving \in BOOLEAN

LEMMA InvInit == Init => IInv
<1> SUFFICES ASSUME Init PROVE IInv
  OBVIOUS
<1>1. BooleansOK
  BY Zenon DEF Init, BooleansOK
<1>2. TypeOK
  BY <1>1 DEF Init, TypeOK, BooleansOK, AllNA, NoSpeed, NoSample, NA, Invalid
<1>3. Numbered /\ TimeFirst /\ FixOfSession
  BY DEF Init, Numbered, TimeFirst, FixOfSession, Parsing, Fixed, Before, Fresh, FreshTime,
         AllNA, NoSpeed, NoSample, NA, Invalid
<1>4. SpeedNotAhead /\ TimestampOfSession /\ ReportOfSession
  BY DEF Init, SpeedNotAhead, TimestampOfSession, ReportOfSession, Fresh, AllNA, NA
<1>5. QED BY <1>2, <1>3, <1>4 DEF IInv

LEMMA Booleans == ASSUME BooleansOK, [Next]_vars PROVE BooleansOK'
<1> USE DEF BooleansOK, Reads, Serves, Listens, server, samples
<1>1. CASE ReaderStep
  BY <1>1 DEF ReaderStep, SetUp, CheckFlag, ReadSentence, ReadFails, ParseGsv, ParseTime,
              ParseStatus, ParseSpeed
<1>2. CASE ServerStep
  BY <1>2 DEF ServerStep, Start, PollFix, StopAsking, ReportFix, GetSpeed, AddSample,
              TakeSample, RefuseSample, Stop, Join
<1>3. CASE ListenerStep
  BY <1>3 DEF ListenerStep, DecideStatus, AskStatus, StopAskStatus, ReportStatus
<1>4. CASE UNCHANGED vars
  BY <1>4 DEF vars
<1>5. QED BY <1>1, <1>2, <1>3, <1>4 DEF Next

LEMMA InvReader == ASSUME IInv, ReaderStep, BooleansOK' PROVE IInv'
<1> USE KnotsAssumption
    DEF IInv, TypeOK, Numbered, TimeFirst, FixOfSession, Parsing, Fixed, Before, Fresh,
        FreshText, FreshTime, SpeedNotAhead, TimestampOfSession, ReportOfSession,
        BooleansOK, Reads, server, samples, status, motion, NA, Invalid, NoSample
<1>1. CASE SetUp BY <1>1 DEF SetUp
<1>2. CASE CheckFlag BY <1>2 DEF CheckFlag
<1>3. CASE ReadSentence BY <1>3 DEF ReadSentence
<1>4. CASE ReadFails BY <1>4 DEF ReadFails
<1>5. CASE ParseGsv
  <2>1. CASE ~flag BY <1>5, <2>1 DEF ParseGsv
  <2>2. CASE flag
    <3>1. PICK sats \in Part(cur.sats), strength \in Part(cur.strength) :
            cur' = [cur EXCEPT !.sats = sats, !.strength = strength]
      BY <1>5, <2>2, Zenon DEF ParseGsv
    <3>2. sats \in Nat /\ strength \in Nat BY DEF Part
    <3>3. cur' = [fix |-> cur.fix, sats |-> sats, strength |-> strength] BY <3>1
    <3>4. text' = cur' BY <1>5, <2>2, Zenon DEF ParseGsv
    <3>5. rpc = "gsv" /\ rpc' = "loop" /\ UNCHANGED <<arrived, run, flag, motion>>
      BY <1>5 DEF ParseGsv
    <3>6. UNCHANGED <<server, lpc, report, session, base>>
      BY <1>5 DEF ParseGsv
    <3>7. Fresh(sats) /\ Fresh(strength)
      BY <3>5 DEF Part
    <3>8. (Fresh(cur.fix) /\ Fresh(cur.sats) /\ Fresh(cur.strength))'
      BY <3>2, <3>3, <3>6, <3>7
    <3>9. TypeOK' BY <3>2, <3>3, <3>4, <3>5, <3>6
    <3>10. (Numbered /\ TimeFirst)' BY <3>5, <3>6
    <3>11. FixOfSession' BY <3>3, <3>4, <3>5, <3>6, <3>8
    <3>12. (SpeedNotAhead /\ TimestampOfSession /\ ReportOfSession)' BY <3>6
    <3>13. QED BY <3>9, <3>10, <3>11, <3>12
  <2>3. QED BY <2>1, <2>2
<1>6. ASSUME NEW next \in {"status", "loop"}, ParseTime(next) PROVE IInv'
  BY <1>6 DEF ParseTime
<1>7. ASSUME NEW next \in {"speed", "loop"}, ParseStatus(next) PROVE IInv'
  BY <1>7 DEF ParseStatus
<1>8. ASSUME NEW knots \in Knots, ParseSpeed(knots) PROVE IInv'
  BY <1>8 DEF ParseSpeed
<1>9. QED BY <1>1, <1>2, <1>3, <1>4, <1>5, <1>6, <1>7, <1>8, Zenon DEF ReaderStep

\* What adding a sample does to the buffer, whether it is emptied or not.
LEMMA SampleTaken ==
  ASSUME AddSample
  PROVE  /\ last' = last \/ last' = [time |-> time, kmh |-> Kmh(held), of |-> held.of]
         /\ last' # last => last'.time = time /\ (size = 0 \/ time # last.time)
         /\ time # Invalid /\ spc = "pair" /\ spc' = "sample"
         /\ UNCHANGED <<reader, run, flag, status, motion, held, lpc, report, session, base>>
         /\ size \in Nat => size' \in Nat
<1>1. /\ time # Invalid /\ spc = "pair" /\ spc' = "sample"
      /\ UNCHANGED <<reader, run, flag, status, motion, held, lpc, report, session, base>>
  BY DEF AddSample, TakeSample, Serves
<1>2. last' = IF IsNew THEN [time |-> time, kmh |-> Kmh(held), of |-> held.of] ELSE last
  BY DEF AddSample, TakeSample
<1>3. \/ last' = last
      \/ last' = [time |-> time, kmh |-> Kmh(held), of |-> held.of] /\ IsNew
  BY <1>2, Zenon
<1>4. last' # last => last'.time = time /\ (size = 0 \/ time # last.time)
  BY <1>3 DEF IsNew
<1>5. size' \in {0, size, size + 1}
  BY DEF AddSample, TakeSample
<1>6. QED BY <1>1, <1>3, <1>4, <1>5

LEMMA InvServer == ASSUME IInv, ServerStep, BooleansOK' PROVE IInv'
<1> USE DEF IInv, TypeOK, Numbered, TimeFirst, FixOfSession, Parsing, Fixed, Before, Fresh,
        FreshText, FreshTime, SpeedNotAhead, TimestampOfSession, ReportOfSession,
        BooleansOK, Serves, reader, samples, status, motion, NA, Invalid, NoSample
<1>1. CASE Start
  <2> USE <1>1 DEF Start, AllNA
  <2>1. TypeOK' OBVIOUS
  <2>2. Numbered' OBVIOUS
  <2>3. (TimeFirst /\ FixOfSession)' OBVIOUS
  <2>4. (SpeedNotAhead /\ TimestampOfSession /\ ReportOfSession)' OBVIOUS
  <2>5. QED BY <2>1, <2>2, <2>3, <2>4
<1>2. CASE PollFix BY <1>2 DEF PollFix
<1>3. CASE StopAsking BY <1>3 DEF StopAsking
<1>4. CASE ReportFix BY <1>4 DEF ReportFix
<1>5. CASE GetSpeed BY <1>5 DEF GetSpeed
<1>6. CASE AddSample
  <2>1. Kmh(held) \in Int BY DEF Kmh
  <2>2. last' = last \/ last' = [time |-> time, kmh |-> Kmh(held), of |-> held.of]
    BY <1>6, SampleTaken
  <2>3. time # Invalid /\ spc = "pair" /\ spc' = "sample"
    BY <1>6, SampleTaken
  <2>4. UNCHANGED <<reader, run, flag, status, motion, held, lpc, report, session, base>>
    BY <1>6, SampleTaken
  <2>11. size' \in Nat BY <1>6, SampleTaken DEF IInv, TypeOK
  <2>5. TypeOK' BY <2>1, <2>2, <2>3, <2>4, <2>11
  <2>6. (Numbered /\ TimeFirst)' BY <2>2, <2>3, <2>4
  <2>7. FixOfSession' BY <2>3, <2>4
  <2>8. (SpeedNotAhead /\ TimestampOfSession)'
    <3>1. CASE last' = last BY <3>1, <2>4
    <3>2. CASE last' = [time |-> time, kmh |-> Kmh(held), of |-> held.of]
      <4>1. last'.time = time /\ last'.of = held.of BY <3>2
      <4>2. time > base BY <2>3
      <4>3. held.of <= time BY <2>3
      <4>4. QED BY <4>1, <4>2, <4>3, <2>4
    <3>3. QED BY <3>1, <3>2, <2>2
  <2>9. ReportOfSession' BY <2>4
  <2>10. QED BY <2>5, <2>6, <2>7, <2>8, <2>9
<1>7. CASE RefuseSample BY <1>7 DEF RefuseSample
<1>8. CASE Stop BY <1>8 DEF Stop
<1>9. CASE Join BY <1>9 DEF Join
<1>10. QED BY <1>1, <1>2, <1>3, <1>4, <1>5, <1>6, <1>7, <1>8, <1>9, Zenon DEF ServerStep

LEMMA InvListener == ASSUME IInv, ListenerStep, BooleansOK' PROVE IInv'
<1> USE DEF IInv, TypeOK, Numbered, TimeFirst, FixOfSession, Parsing, Fixed, Before, Fresh,
        FreshText, FreshTime, SpeedNotAhead, TimestampOfSession, ReportOfSession,
        BooleansOK, Listens, reader, server, samples, status, motion, NA, Invalid, NoSample
<1>1. CASE DecideStatus BY <1>1 DEF DecideStatus
<1>2. CASE AskStatus BY <1>2 DEF AskStatus
<1>3. CASE StopAskStatus BY <1>3 DEF StopAskStatus
<1>4. CASE ReportStatus BY <1>4 DEF ReportStatus
<1>5. QED BY <1>1, <1>2, <1>3, <1>4, Zenon DEF ListenerStep

LEMMA InvNext == IInv /\ [Next]_vars => IInv'
<1> SUFFICES ASSUME IInv, [Next]_vars PROVE IInv'
  OBVIOUS
<1> BooleansOK'
  BY Booleans DEF IInv, TypeOK, BooleansOK
<1>1. CASE ReaderStep BY <1>1, InvReader
<1>2. CASE ServerStep BY <1>2, InvServer
<1>3. CASE ListenerStep BY <1>3, InvListener
<1>4. CASE UNCHANGED vars
  BY <1>4 DEF vars, reader, status, motion, server, samples, IInv, TypeOK, Numbered, TimeFirst,
     FixOfSession, Before, Fresh, FreshText, FreshTime, SpeedNotAhead, TimestampOfSession,
     ReportOfSession, BooleansOK
<1>5. QED BY <1>1, <1>2, <1>3, <1>4 DEF Next

\* IInv holds in every reachable state: the fact the theorems below rest on.
THEOREM Inductive == Spec => []IInv
BY InvInit, InvNext, PTL DEF Spec

-----------------------------------------------------------------------------
\* The variables keep to their types; a stored speed is positive or marked invalid.
THEOREM TypeCorrect == Spec => []TypeOK
<1>1. IInv => TypeOK BY DEF IInv
<1>2. QED BY <1>1, Inductive, PTL

\* A sample never pairs a speed with the time of an earlier sentence, however the
\* server's two reads fall between the reader's two writes (gnssdata.c:332-378).
THEOREM PairSafety == Spec => []SpeedNotAhead
<1>1. IInv => SpeedNotAhead BY DEF IInv
<1>2. QED BY <1>1, Inductive, PTL

\* No sample has a timestamp of a session before, although gnssdata_start keeps it.
THEOREM TimestampSafety == Spec => []TimestampOfSession
<1>1. IInv => TimestampOfSession BY DEF IInv
<1>2. QED BY <1>1, Inductive, PTL

\* No status report has a part of a session before, although gnssdata_start keeps
\* the text.
THEOREM ReportSafety == Spec => []ReportOfSession
<1>1. IInv => ReportOfSession BY DEF IInv
<1>2. QED BY <1>1, Inductive, PTL

\* Samples go forward in time, and only the first after an emptied buffer may repeat the
\* sentence of the last one freed (accelmeter_app_add_data, STATE_WORKING_WAIT_ACCEL).
THEOREM AdvanceSafety == Spec => SamplesAdvance
<1> DEFINE Advance == last' # last => \/ last' = NoSample \/ last'.time > last.time
                                      \/ size = 0 /\ last'.time = last.time
<1>1. IInv /\ [Next]_vars => [Advance]_vars
  <2> SUFFICES ASSUME IInv, Next PROVE Advance
    BY Zenon
  <2>1. CASE ReaderStep
    BY <2>1 DEF ReaderStep, SetUp, CheckFlag, ReadSentence, ReadFails, ParseGsv, ParseTime,
                ParseStatus, ParseSpeed, Reads, server, samples
  <2>2. CASE AddSample
    <3>1. last' # last => last'.time = time /\ (size = 0 \/ time # last.time)
      BY <2>2, SampleTaken
    <3>2. time \in Nat /\ last.time \in Nat /\ last.time <= time
      BY <2>2, SampleTaken DEF IInv, TypeOK, TimeFirst, Before
    <3>3. QED BY <3>1, <3>2
  <2>3. CASE Start \/ PollFix \/ StopAsking \/ ReportFix \/ GetSpeed \/ RefuseSample \/ Stop \/ Join
    BY <2>3 DEF Start, PollFix, StopAsking, ReportFix, GetSpeed, RefuseSample, Stop, Join, samples
  <2>4. CASE ListenerStep
    BY <2>4 DEF ListenerStep, DecideStatus, AskStatus, StopAskStatus, ReportStatus, Listens, server,
                samples
  <2>5. QED BY <2>1, <2>2, <2>3, <2>4 DEF Next, ServerStep
<1>2. QED BY <1>1, Inductive, PTL DEF Spec, SamplesAdvance

-----------------------------------------------------------------------------
(***************************************************************************)
(* The contract: each step of gnssdata.c is one of ReaderContract's steps, *)
(* or leaves what the contract speaks of alone.                            *)
(***************************************************************************)
HasFix == cur.fix # NA
Same == UNCHANGED <<run, flag>> /\ HasFix' = HasFix /\ Alive' = Alive

LEMMA StepsOfReader == ASSUME IInv, ReaderStep PROVE [Contract!Next]_(Contract!vars)
<1> USE DEF Reads, Alive, HasFix
<1> SUFFICES Contract!Next \/ Same
  BY DEF Same, Contract!vars
<1>1. CASE SetUp BY <1>1 DEF SetUp, Same, status, Contract!Next, Contract!Fail
<1>2. CASE CheckFlag BY <1>2 DEF CheckFlag, Same, status, Contract!Next, Contract!Exit
<1>3. CASE ReadSentence BY <1>3 DEF ReadSentence, Same, status
<1>4. CASE ReadFails BY <1>4 DEF ReadFails, status, Contract!Next, Contract!Fail
<1>5. CASE ParseGsv
  <2>1. cur'.fix = cur.fix
    BY <1>5 DEF ParseGsv, status, IInv, TypeOK
  <2>2. QED BY <1>5, <2>1 DEF ParseGsv, Same
<1>6. ASSUME NEW next \in {"status", "loop"}, ParseTime(next) PROVE Same
  BY <1>6 DEF ParseTime, Same, status
<1>7. ASSUME NEW next \in {"speed", "loop"}, ParseStatus(next) PROVE Contract!Next \/ Same
  <2>1. CASE flag
    <3>1. Contract!Status BY <1>7, <2>1 DEF ParseStatus, Contract!Status
    <3>2. QED BY <3>1 DEF Contract!Next
  <2>2. CASE ~flag BY <1>7, <2>2 DEF ParseStatus, Same, status
  <2>3. QED BY <2>1, <2>2
<1>8. ASSUME NEW knots \in Knots, ParseSpeed(knots) PROVE Same
  BY <1>8 DEF ParseSpeed, Same, status
<1>9. QED BY <1>1, <1>2, <1>3, <1>4, <1>5, <1>6, <1>7, <1>8 DEF ReaderStep

LEMMA StepsOfServer == ASSUME IInv, ServerStep PROVE [Contract!Next]_(Contract!vars)
<1> USE DEF Serves, Alive, HasFix, Numbered, IInv
<1> SUFFICES Contract!Next \/ Same
  BY DEF Same, Contract!vars
<1>1. CASE Start BY <1>1 DEF Start, AllNA, Contract!Next, Contract!Start
<1>2. CASE PollFix \/ ReportFix \/ GetSpeed \/ AddSample \/ RefuseSample \/ Join
  BY <1>2, SampleTaken DEF PollFix, ReportFix, GetSpeed, RefuseSample, Join, Same, status, reader
<1>3. CASE StopAsking BY <1>3 DEF StopAsking, status, reader, Contract!Next, Contract!Ask
<1>4. CASE Stop BY <1>4 DEF Stop, status, reader, Contract!Next, Contract!Stop
<1>5. QED BY <1>1, <1>2, <1>3, <1>4 DEF ServerStep

LEMMA StepsOfListener == ASSUME IInv, ListenerStep PROVE [Contract!Next]_(Contract!vars)
<1> USE DEF Listens, Alive, HasFix
<1> SUFFICES Contract!Next \/ Same
  BY DEF Same, Contract!vars
<1>1. CASE DecideStatus \/ ReportStatus
  BY <1>1 DEF DecideStatus, ReportStatus, Same, status, reader
<1>2. CASE AskStatus \/ StopAskStatus
  BY <1>2 DEF AskStatus, StopAskStatus, status, reader, Contract!Next, Contract!Ask
<1>3. QED BY <1>1, <1>2 DEF ListenerStep

\* The reader of gnssdata.c is what ServerApp takes its readers to be, as far as
\* safety goes: it changes the fix only while asked to and ends only when told to.
THEOREM ContractSafety == Spec => Contract!Spec
<1>1. Init => Contract!Init
  BY DEF Init, AllNA, Alive, Contract!Init
<1>2. IInv /\ [Next]_vars => [Contract!Next]_(Contract!vars)
  <2> SUFFICES ASSUME IInv, [Next]_vars PROVE [Contract!Next]_(Contract!vars)
    OBVIOUS
  <2>1. CASE UNCHANGED vars
    BY <2>1 DEF vars, status, reader, Alive, Contract!vars
  <2>2. QED BY <2>1, StepsOfReader, StepsOfServer, StepsOfListener DEF Next
<1>3. QED BY <1>1, <1>2, Inductive, PTL DEF Spec, Contract!Spec
=============================================================================
