-------------------------- MODULE AccelmeterProofs --------------------------
(***************************************************************************)
(* The buffer of samples and the times of an analysis, for all speeds and  *)
(* any number of samples.                                                  *)
(***************************************************************************)
EXTENDS Accelmeter, TLAPS, SequenceTheorems, FiniteSetTheorems

Sample == [time : Nat, speed : Speeds, at : Nat]

LEMMA SmallMod == ASSUME NEW n \in Nat, NEW d \in Nat \ {0} PROVE n % d \in Nat /\ (n < d => n % d = n)
OBVIOUS

-----------------------------------------------------------------------------
(***************************************************************************)
(* The buffer: it has a capacity while the application runs and is empty   *)
(* when it does not.                                                       *)
(***************************************************************************)
BufferInv ==
  /\ data \in Seq(Sample) /\ capacity \in Nat /\ now \in Nat
  /\ ~running => data = << >>
  /\ running => capacity > 0
  /\ WithinCapacity

LEMMA AddSample ==
  ASSUME BufferInv, NEW speed \in Speeds, Add(speed)
  PROVE  /\ data' \in Seq(Sample) /\ capacity' \in Nat /\ now' = now
         /\ Len(data') = Len(data) + 1 /\ Len(data') <= capacity' /\ capacity' > 0
<1>1. now % Day \in Nat
  BY SmallMod, SizesAssumption DEF BufferInv
<1>2. [time |-> now % Day, speed |-> speed, at |-> now] \in Sample
  BY <1>1 DEF Sample, BufferInv
<1>3. data' \in Seq(Sample) /\ Len(data') = Len(data) + 1
  BY <1>2, AppendProperties DEF Add, BufferInv
<1>4. Len(data) \in Nat /\ Len(data) <= capacity /\ capacity > 0
  BY LenProperties DEF BufferInv, WithinCapacity, Size, Add
<1>5. QED BY <1>3, <1>4 DEF Add, BufferInv, Size

LEMMA BufferInit == Init => BufferInv
BY SizesAssumption DEF Init, BufferInv, WithinCapacity, Size

Sampling(speed) == \/ WaitStarted(speed) \/ WaitSlow(speed) \/ MeasurePass(speed)
                   \/ MeasureSlow(speed) \/ MeasureFinal(speed)
Looping == \/ MeasureEnds \/ Analyze \/ FindMore \/ Found \/ NotFound
           \/ RefineMore \/ Refined \/ ScanFound \/ ScanMore \/ Scanned
Session == \/ Begin \/ Restart \/ Work \/ NoSignal \/ Elapse \/ GiveUp
           \/ \E speed \in Speeds : WaitEmpties(speed)

LEMMA NextCases ==
  Next => Session \/ Report \/ Looping \/ \E speed \in Speeds : Sampling(speed)
BY Zenon DEF Next, Session, Sampling, Looping

LEMMA LoopKeeps == Looping => phase' # "wait" /\ UNCHANGED <<buffer, now>>
BY DEF Looping, MeasureEnds, Goes, Analyze, FindMore, Found, NotFound, RefineMore, Refined,
       ScanFound, ScanMore, Scanned, Analyzing

\* What a session does outside its loops leaves the analysis alone, and the buffer as
\* it is, allocated anew or freed.
LEMMA SessionStep ==
  Session => /\ phase \in {"idle", "poll", "wait", "measure", "analyze"}
             /\ phase' \in {"idle", "poll", "wait", "measure"} /\ UNCHANGED locals
             /\ UNCHANGED buffer \/ Allocate \/ AppStop
             /\ now' = now \/ now' = now + 1
<1> SUFFICES ASSUME Session
             PROVE  /\ phase \in {"idle", "poll", "wait", "measure", "analyze"}
                    /\ phase' \in {"idle", "poll", "wait", "measure"} /\ UNCHANGED locals
                    /\ UNCHANGED buffer \/ Allocate \/ AppStop
                    /\ now' = now \/ now' = now + 1
  OBVIOUS
<1>1. CASE Begin \/ Restart \/ NoSignal
  BY <1>1 DEF Begin, Restart, NoSignal, Goes
<1>2. CASE Work
  BY <1>2 DEF Work, Goes, AppStart
<1>3. CASE Elapse
  BY <1>3 DEF Elapse
<1>4. CASE GiveUp
  BY <1>4 DEF GiveUp, Goes
<1>5. CASE \E speed \in Speeds : WaitEmpties(speed)
  BY <1>5 DEF WaitEmpties, Goes
<1>6. QED BY <1>1, <1>2, <1>3, <1>4, <1>5 DEF Session

\* Sampling is done while waiting and measuring, one sample at a time.
LEMMA SamplingStep ==
  ASSUME NEW speed \in Speeds, Sampling(speed)
  PROVE  /\ phase \in {"wait", "measure"} /\ phase' \in {"wait", "measure", "analyze"}
         /\ Add(speed) /\ UNCHANGED locals
BY DEF Sampling, WaitStarted, WaitSlow, MeasurePass, MeasureSlow, MeasureFinal

\* Freed or allocated anew, the buffer is empty.
LEMMA Emptied ==
  ASSUME BufferInv, Allocate \/ AppStop, now' = now \/ now' = now + 1
  PROVE  BufferInv' /\ data' = << >> /\ Len(data') = 0
<1>1. now' \in Nat
  BY DEF BufferInv
<1>2. << >> \in Seq(Sample) /\ Len(<< >>) = 0
  BY EmptySeq
<1>3. CASE Allocate
  BY <1>1, <1>2, <1>3, SizesAssumption DEF Allocate, BufferInv, WithinCapacity, Size
<1>4. CASE AppStop
  <2>1. ~running' /\ data' = << >>
    BY <1>4 DEF AppStop, BufferInv
  <2>2. capacity' \in Nat
    BY <1>4 DEF AppStop, BufferInv
  <2>3. QED BY <1>1, <1>2, <2>1, <2>2 DEF BufferInv, WithinCapacity, Size
<1>5. QED BY <1>3, <1>4

LEMMA BufferNext == BufferInv /\ [Next]_vars => BufferInv'
<1> SUFFICES ASSUME BufferInv, [Next]_vars PROVE BufferInv'
  OBVIOUS
<1>1. ASSUME UNCHANGED buffer, now' = now \/ now' = now + 1 PROVE BufferInv'
  BY <1>1 DEF buffer, BufferInv, WithinCapacity, Size
<1>2. CASE Session
  BY <1>1, <1>2, SessionStep, Emptied
<1>3. CASE Report
  BY <1>3, Emptied DEF Report
<1>4. CASE Looping
  BY <1>1, <1>4, LoopKeeps
<1>5. ASSUME NEW speed \in Speeds, Sampling(speed) PROVE BufferInv'
  <2>1. Add(speed) /\ running /\ running' = running
    BY <1>5, SamplingStep DEF Add
  <2>2. QED BY <2>1, AddSample DEF BufferInv, WithinCapacity, Size
<1>6. CASE UNCHANGED vars
  BY <1>1, <1>6 DEF vars
<1>7. QED BY <1>2, <1>3, <1>4, <1>5, <1>6, NextCases

\* No sample is written past the allocated buffer, however many samples a session
\* takes and however often the buffer is emptied (speed_data_add).
THEOREM CapacitySafety == Spec => []WithinCapacity
<1>1. BufferInv => WithinCapacity BY DEF BufferInv
<1>2. QED BY <1>1, BufferInit, BufferNext, PTL DEF Spec

-----------------------------------------------------------------------------
(***************************************************************************)
(* The analysis: the loops stay within the samples, and, when no midnight  *)
(* falls between the starting point and the last sample, what the scan has *)
(* yet to look at is later than all it has found.                          *)
(***************************************************************************)
Looked == /\ phase \notin {"scan", "report"} => found = 0
          /\ phase = "find" => idx \in 0..Len(data)
          /\ phase = "refine" => /\ idx \in Int /\ start \in Nat /\ idx >= -1
                                 /\ idx < start /\ start < Len(data)
          /\ phase = "scan" => /\ start \in Nat /\ start < Len(data)
                               /\ idx \in start..Len(data) /\ found < 3

Later == phase = "scan" /\ found > 0 /\ SameDay =>
           \A i \in (idx + 1)..Len(data) : times[found] < data[i].time - data[start + 1].time

AnalysisInv == /\ BufferInv
               /\ phase \in {"idle", "poll", "wait", "measure", "analyze", "find", "refine",
                             "scan", "report"}
               /\ found \in 0..3 /\ times \in [1..3 -> Int]
               /\ Looked /\ Later /\ TimesOrdered

\* Samples counted from 1, as they are stored.
LEMMA SameDayStored ==
  ASSUME SameDay, start \in Nat, Len(data) \in Nat
  PROVE  \A i, j \in (start + 1)..Len(data) : i < j => data[i].time < data[j].time
<1> TAKE i, j \in (start + 1)..Len(data)
<1>1. i - 1 \in start..(Size - 1) /\ j - 1 \in start..(Size - 1) /\ i - 1 + 1 = i /\ j - 1 + 1 = j
  BY DEF Size
<1>2. i - 1 < j - 1 => Time(i - 1) < Time(j - 1) BY <1>1 DEF SameDay
<1>3. QED BY <1>1, <1>2 DEF Time

LEMMA AnalysisInit == Init => AnalysisInv
<1> SUFFICES ASSUME Init PROVE AnalysisInv
  OBVIOUS
<1>1. Len(data) = 0 /\ found = 0 /\ times = NoTimes /\ phase = "idle"
  BY DEF Init
<1>2. times \in [1..3 -> Int] /\ \A k \in 1..3 : times[k] = None
  BY <1>1 DEF NoTimes, None
<1>3. TimesOrdered /\ Looked /\ Later
  BY <1>1, <1>2 DEF TimesOrdered, Looked, Later
<1>4. QED BY <1>1, <1>2, <1>3, BufferInit DEF AnalysisInv

\* The results of an analysis start from nothing.
LEMMA FreshLocals ==
  NewLocals => found' = 0 /\ times' \in [1..3 -> Int] /\ TimesOrdered'
BY DEF NewLocals, NoTimes, None, TimesOrdered

\* Outside the analysis nothing has been found.
LEMMA OutsideAnalysis ==
  ASSUME AnalysisInv, BufferInv', phase' \in {"idle", "poll", "wait", "measure", "analyze"},
         phase \notin {"scan", "report"}, UNCHANGED locals
  PROVE  AnalysisInv'
BY DEF AnalysisInv, locals, Looked, Later, TimesOrdered

LEMMA SetTime ==
  ASSUME NEW ts \in [1..3 -> Int], NEW k \in 1..3, NEW t \in Int
  PROVE  /\ [ts EXCEPT ![k] = t] \in [1..3 -> Int] /\ [ts EXCEPT ![k] = t][k] = t
         /\ \A j \in 1..3 : j # k => [ts EXCEPT ![k] = t][j] = ts[j]
OBVIOUS

LEMMA ScanFoundStep == ASSUME AnalysisInv, ScanFound PROVE Looked' /\ Later' /\ TimesOrdered'
                                                         /\ found' \in 0..3 /\ times' \in [1..3 -> Int]
<1> DEFINE t == data[idx + 1].time - data[start + 1].time
<1>1. /\ phase = "scan" /\ UNCHANGED <<data, start>> /\ idx < Len(data)
      /\ times' = [times EXCEPT ![found + 1] = t] /\ found' = found + 1 /\ idx' = idx + 1
      /\ phase' = IF found = 2 THEN "report" ELSE "scan"
  BY DEF ScanFound, Analyzing, buffer, Size, Time
<1>2. /\ Len(data) \in Nat /\ start \in Nat /\ start < Len(data) /\ idx \in start..Len(data)
      /\ found \in 0..2 /\ times \in [1..3 -> Int]
  BY <1>1, LenProperties DEF AnalysisInv, BufferInv, Looked
<1>3. \A i \in 1..Len(data) : data[i].time \in Nat
  <2> TAKE i \in 1..Len(data)
  <2>1. data[i] \in Sample BY ElementOfSeq DEF AnalysisInv, BufferInv
  <2>2. QED BY <2>1 DEF Sample
<1>4. t \in Int /\ (SameDay => t \in Nat)
  <2>1. idx + 1 \in 1..Len(data) /\ start + 1 \in 1..Len(data) /\ start + 1 <= idx + 1
    BY <1>1, <1>2
  <2>2. ASSUME SameDay PROVE data[start + 1].time <= data[idx + 1].time
    <3>1. CASE idx = start BY <3>1, <2>1, <1>3
    <3>2. CASE idx # start
      <4>1. start + 1 < idx + 1 /\ {start + 1, idx + 1} \subseteq (start + 1)..Len(data)
        BY <3>2, <1>2, <2>1
      <4>2. data[start + 1].time < data[idx + 1].time
        BY <4>1, <2>2, <1>2, SameDayStored
      <4>3. QED BY <4>2, <2>1, <1>3
    <3>3. QED BY <3>1, <3>2
  <2>3. QED BY <2>1, <2>2, <1>3
<1>5. found > 0 /\ SameDay => times[found] < t
  <2>1. idx + 1 \in (idx + 1)..Len(data)
    BY <1>1, <1>2
  <2>2. QED BY <2>1, <1>1 DEF AnalysisInv, Later
<1>11. SameDay' <=> SameDay
  BY <1>1 DEF SameDay, Size, Time
<1>6. /\ times' \in [1..3 -> Int] /\ times'[found'] = t
      /\ \A k \in 1..3 : k # found + 1 => times'[k] = times[k]
  <2> HIDE DEF t
  <2>1. found + 1 \in 1..3 BY <1>2
  <2>2. QED BY <2>1, <1>1, <1>2, <1>4, SetTime
<1>7. TimesOrdered'
  <2> SUFFICES ASSUME NEW k \in 1..3
               PROVE  /\ k > found' => times'[k] = None
                      /\ k <= found' /\ SameDay =>
                           times'[k] >= 0 /\ (k > 1 => times'[k] > times'[k - 1])
    BY <1>11 DEF TimesOrdered
  <2>1. CASE k = found + 1
    <3>1. k > 1 => times'[k - 1] = times[found] BY <2>1, <1>2, <1>6
    <3>2. QED BY <2>1, <3>1, <1>1, <1>2, <1>4, <1>5, <1>6
  <2>2. CASE k < found + 1
    <3>0. k # found + 1 /\ (k > 1 => k - 1 \in 1..3 /\ k - 1 # found + 1) BY <2>2, <1>2
    <3>1. times'[k] = times[k] /\ (k > 1 => times'[k - 1] = times[k - 1]) BY <3>0, <1>6
    <3>2. SameDay => times[k] >= 0 /\ (k > 1 => times[k] > times[k - 1])
      BY <2>2, <1>2 DEF AnalysisInv, TimesOrdered
    <3>3. QED BY <3>1, <3>2, <2>2, <1>1, <1>2
  <2>3. CASE k > found + 1
    BY <2>3, <1>1, <1>2, <1>6 DEF AnalysisInv, TimesOrdered
  <2>4. QED BY <2>1, <2>2, <2>3, <1>2
<1>8. Later'
  <2> SUFFICES ASSUME SameDay, NEW i \in (idx' + 1)..Len(data')
               PROVE  times'[found'] < data'[i].time - data'[start' + 1].time
    BY <1>11 DEF Later
  <2>1. i \in 1..Len(data) /\ idx + 1 \in 1..Len(data) /\ idx + 1 < i /\ start + 1 \in 1..Len(data)
    BY <1>1, <1>2
  <2>4. idx + 1 \in (start + 1)..Len(data) /\ i \in (start + 1)..Len(data)
    BY <2>1, <1>2
  <2>2. data[idx + 1].time < data[i].time
    BY <2>1, <2>4, <1>2, SameDayStored
  <2>3. times'[found'] = data[idx + 1].time - data[start + 1].time /\ data' = data /\ start' = start
    BY <1>1, <1>6
  <2>5. QED BY <2>1, <2>2, <2>3, <1>3
<1>9. Looked'
  BY <1>1, <1>2 DEF Looked
<1>10. QED BY <1>1, <1>2, <1>6, <1>7, <1>8, <1>9

LEMMA LoopNext == ASSUME AnalysisInv, Looping, BufferInv' PROVE AnalysisInv'
<1>1. /\ phase' \in {"analyze", "find", "refine", "scan", "report"}
      /\ start' = start => (SameDay' <=> SameDay)
  <2>1. data' = data BY LoopKeeps DEF buffer
  <2>2. phase' \in {"analyze", "find", "refine", "scan", "report"}
    BY DEF Looping, MeasureEnds, Goes, Analyze, FindMore, Found, NotFound, RefineMore, Refined,
           ScanFound, ScanMore, Scanned, Analyzing
  <2>3. QED BY <2>1, <2>2 DEF SameDay, Size, Time
<1>2. /\ Len(data) \in Nat /\ found \in 0..3 /\ times \in [1..3 -> Int]
      /\ Looked /\ Later /\ TimesOrdered
  BY LenProperties DEF AnalysisInv, BufferInv
<1> SUFFICES found' \in 0..3 /\ times' \in [1..3 -> Int] /\ Looked' /\ Later' /\ TimesOrdered'
  BY <1>1 DEF AnalysisInv
<1>3. CASE MeasureEnds
  BY <1>3, <1>1, <1>2 DEF MeasureEnds, Goes, locals, Looked, Later, TimesOrdered
<1>4. CASE Analyze
  <2>1. phase' \in {"find", "report"} /\ idx' = 0 /\ found' = 0 /\ data' = data
    BY <1>4 DEF Analyze, Analyzing, NewLocals, buffer
  <2>2. QED BY <1>4, <2>1, <1>1, <1>2, FreshLocals DEF Analyze, Looked, Later
<1>5. CASE FindMore
  BY <1>5, <1>1, <1>2 DEF FindMore, Analyzing, buffer, Size, Looked, Later, TimesOrdered
<1>6. CASE Found
  <2>1. /\ phase = "find" /\ idx < Len(data) /\ start' = idx /\ UNCHANGED <<data, found, times>>
        /\ \/ phase' = "refine" /\ idx > 2 /\ idx' = idx - 1
           \/ phase' = "scan" /\ idx' = idx
    BY <1>6 DEF Found, Analyzing, buffer, Size
  <2>2. QED BY <2>1, <1>1, <1>2 DEF Looked, Later, TimesOrdered
<1>7. CASE NotFound \/ Scanned
  BY <1>7, <1>1, <1>2 DEF NotFound, Scanned, Analyzing, locals, Looked, Later, TimesOrdered
<1>8. CASE RefineMore
  <2>1. /\ phase = "refine" /\ phase' = "refine" /\ UNCHANGED <<data, found, times>>
        /\ idx >= 0 /\ idx' = idx - 1 /\ (start' = start \/ start' = start - 1)
    BY <1>8 DEF RefineMore, Analyzing, buffer
  <2>2. QED BY <2>1, <1>1, <1>2 DEF Looked, Later, TimesOrdered
<1>9. CASE Refined
  <2>1. /\ phase = "refine" /\ phase' = "scan" /\ UNCHANGED <<data, found, times, start>>
        /\ idx' = start
    BY <1>9 DEF Refined, Analyzing, buffer
  <2>2. QED BY <2>1, <1>1, <1>2 DEF Looked, Later, TimesOrdered
<1>10. CASE ScanFound
  BY <1>10, ScanFoundStep
<1>11. CASE ScanMore
  <2>1. /\ phase = "scan" /\ phase' = "scan" /\ UNCHANGED <<data, found, times, start>>
        /\ idx < Len(data) /\ idx' = idx + 1
    BY <1>11 DEF ScanMore, Analyzing, buffer, Size
  <2>2. QED BY <2>1, <1>1, <1>2 DEF Looked, Later, TimesOrdered
<1>12. QED BY <1>3, <1>4, <1>5, <1>6, <1>7, <1>8, <1>9, <1>10, <1>11 DEF Looping

LEMMA AnalysisNext == ASSUME AnalysisInv, [Next]_vars PROVE AnalysisInv'
<1>1. BufferInv' BY BufferNext DEF AnalysisInv
<1>2. CASE Session
  BY <1>2, <1>1, SessionStep, OutsideAnalysis
<1>3. CASE Report
  <2>1. phase' = "idle" /\ NewLocals BY <1>3 DEF Report
  <2>2. QED BY <2>1, <1>1, FreshLocals DEF AnalysisInv, Looked, Later
<1>4. CASE Looping
  BY <1>4, <1>1, LoopNext
<1>5. ASSUME NEW speed \in Speeds, Sampling(speed) PROVE AnalysisInv'
  BY <1>5, <1>1, SamplingStep, OutsideAnalysis
<1>6. CASE UNCHANGED vars
  BY <1>6, <1>1 DEF vars, buffer, locals, AnalysisInv, Looked, Later, TimesOrdered, SameDay,
                    Size, Time
<1>7. QED BY <1>2, <1>3, <1>4, <1>5, <1>6, NextCases

\* The times of the checkpoints an analysis finds are not negative and grow from one
\* to the next, whatever the samples, unless a midnight falls between the starting
\* point and the last of them (accelmeter_app_analyze_data).
THEOREM TimesSafety == Spec => []TimesOrdered
<1>1. AnalysisInv /\ [Next]_vars => AnalysisInv' BY AnalysisNext
<1>2. AnalysisInv => TimesOrdered BY DEF AnalysisInv
<1>3. QED BY <1>1, <1>2, AnalysisInit, PTL DEF Spec

-----------------------------------------------------------------------------
(***************************************************************************)
(* Measurement and analysis.  For every row of samples that reach the      *)
(* checkpoints one after the other, a checkpoint was passed or the         *)
(* measurement was started once more, and what the analysis has found,     *)
(* samples have reached in that order.                                     *)
(***************************************************************************)
Reached(a, k) == data[a].speed >= Checkpoint[k]
Above(a, k) == data[a].speed > Checkpoint[k]

One == \E a \in 1..Len(data) : Reached(a, 1)
Two == \E a, b \in 1..Len(data) : a < b /\ Reached(a, 1) /\ Reached(b, 2)
Three == \E a, b, c \in 1..Len(data) :
           a < b /\ b < c /\ Reached(a, 1) /\ Reached(b, 2) /\ Reached(c, 3)

PassedInv ==
  /\ passed \in 0..3 /\ starts \in Nat
  /\ One => passed + starts >= 1
  /\ Two => passed + starts >= 2
  /\ Three => passed + starts >= 3

FoundInOrder ==
  phase \in {"scan", "report"} =>
    /\ found >= 1 => \E a \in 1..idx : Above(a, 1)
    /\ found >= 2 => \E a, b \in 1..idx : a < b /\ Above(a, 1) /\ Above(b, 2)
    /\ found >= 3 => \E a, b, c \in 1..idx :
                       a < b /\ b < c /\ Above(a, 1) /\ Above(b, 2) /\ Above(c, 3)
    /\ found > 0 => idx \in 0..Len(data)

AheadInv == PassedInv /\ FoundInOrder

LEMMA Checkpoints == Checkpoint[1] = 30 /\ Checkpoint[2] = 60 /\ Checkpoint[3] = 100 /\ Threshold = 3
BY DEF Checkpoint, Threshold

LEMMA SampleTypes ==
  ASSUME BufferInv
  PROVE  Len(data) \in Nat /\ \A i \in 1..Len(data) : /\ data[i].speed \in Int
                                                   /\ data[i].time \in Nat /\ data[i].at \in Nat
<1>1. Len(data) \in Nat
  BY LenProperties DEF BufferInv
<1>2. \A i \in 1..Len(data) : data[i] \in Sample
  BY ElementOfSeq DEF BufferInv
<1>3. QED BY <1>1, <1>2, SpeedsAssumption DEF Sample

\* A sample that is added comes after the others, which stay as they are.
LEMMA Added ==
  ASSUME BufferInv, NEW speed \in Speeds, Add(speed)
  PROVE  /\ Len(data') = Len(data) + 1 /\ Len(data) \in Nat /\ speed \in Int
         /\ \A i \in 1..Len(data) : data'[i] = data[i]
         /\ data'[Len(data) + 1] = [time |-> now % Day, speed |-> speed, at |-> now]
<1> DEFINE s == [time |-> now % Day, speed |-> speed, at |-> now]
<1>1. data' = Append(data, s) /\ data \in Seq(Sample) /\ now \in Nat
  BY DEF Add, BufferInv
<1>2. s \in Sample /\ speed \in Int
  BY <1>1, SmallMod, SizesAssumption, SpeedsAssumption DEF Sample
<1> HIDE DEF s
<1>3. /\ Len(data') = Len(data) + 1 /\ Len(data) \in Nat
      /\ \A i \in 1..Len(data) : data'[i] = data[i]
      /\ data'[Len(data) + 1] = s
  BY <1>1, <1>2, AppendProperties, LenProperties
<1>4. QED BY <1>2, <1>3 DEF s

\* A sample that is added can only be the last of a row.
LEMMA RowsGrow ==
  ASSUME BufferInv, NEW speed \in Speeds, Add(speed)
  PROVE  /\ One' => One \/ speed >= 30
         /\ Two' => Two \/ (One /\ speed >= 60)
         /\ Three' => Three \/ (Two /\ speed >= 100)
<1> DEFINE n == Len(data) + 1
<1>1. /\ Len(data') = n /\ n \in Nat /\ speed \in Int /\ data'[n].speed = speed
      /\ \A i \in 1..Len(data) : data'[i] = data[i]
      /\ \A i \in 1..n : (i \in 1..Len(data) /\ i < n) \/ i = n
  <2>1. /\ Len(data') = n /\ Len(data) \in Nat /\ speed \in Int
        /\ data'[n] = [time |-> now % Day, speed |-> speed, at |-> now]
        /\ \A i \in 1..Len(data) : data'[i] = data[i]
    BY Added
  <2>2. data'[n].speed = speed
    BY <2>1
  <2>3. n \in Nat /\ \A i \in 1..n : (i \in 1..Len(data) /\ i < n) \/ i = n
    BY <2>1
  <2>4. QED BY <2>1, <2>2, <2>3
<1> HIDE DEF n
<1>2. \A i \in 1..Len(data), k \in 1..3 : Reached(i, k)' <=> Reached(i, k)
  BY <1>1 DEF Reached
<1>3. \A i \in 1..n : i = n => /\ Reached(i, 1)' => speed >= 30
                               /\ Reached(i, 2)' => speed >= 60
                               /\ Reached(i, 3)' => speed >= 100
  BY <1>1, Checkpoints DEF Reached
<1>4. ASSUME One' PROVE One \/ speed >= 30
  <2>1. PICK a \in 1..n : Reached(a, 1)' BY <1>1, <1>4 DEF One
  <2>2. QED BY <2>1, <1>1, <1>2, <1>3 DEF One
<1>5. ASSUME Two' PROVE Two \/ (One /\ speed >= 60)
  <2>1. PICK a, b \in 1..n : a < b /\ Reached(a, 1)' /\ Reached(b, 2)' BY <1>1, <1>5 DEF Two
  <2>2. a \in 1..Len(data) /\ Reached(a, 1) BY <2>1, <1>1, <1>2
  <2>3. CASE b = n BY <2>1, <2>2, <2>3, <1>3 DEF One
  <2>4. CASE b \in 1..Len(data) BY <2>1, <2>2, <2>4, <1>2 DEF Two
  <2>5. QED BY <2>3, <2>4, <1>1
<1>6. ASSUME Three' PROVE Three \/ (Two /\ speed >= 100)
  <2>1. PICK a, b, c \in 1..n :
          a < b /\ b < c /\ Reached(a, 1)' /\ Reached(b, 2)' /\ Reached(c, 3)'
    BY <1>1, <1>6 DEF Three
  <2>2. a \in 1..Len(data) /\ b \in 1..Len(data) BY <2>1, <1>1
  <2>3. Reached(a, 1) /\ Reached(b, 2) BY <2>1, <2>2, <1>2
  <2>4. CASE c = n BY <2>1, <2>2, <2>3, <2>4, <1>3 DEF Two
  <2>5. CASE c \in 1..Len(data) BY <2>1, <2>2, <2>3, <2>5, <1>2 DEF Three
  <2>6. QED BY <2>4, <2>5, <1>1
<1>7. QED BY <1>4, <1>5, <1>6

LEMMA PassedNext == ASSUME BufferInv, PassedInv, [Next]_vars PROVE PassedInv'
<1>1. ASSUME UNCHANGED buffer PROVE PassedInv'
  BY <1>1 DEF buffer, PassedInv, One, Two, Three, Reached
<1>2. ASSUME Allocate \/ AppStop, now' = now \/ now' = now + 1 PROVE PassedInv'
  <2>1. Len(data') = 0
    BY <1>2, Emptied
  <2>0. passed' \in 0..3 /\ starts' \in Nat
    BY <1>2 DEF Allocate, AppStop, PassedInv
  <2>2. ~One' /\ ~Two' /\ ~Three'
    BY <2>1 DEF One, Two, Three
  <2>3. QED BY <2>0, <2>2 DEF PassedInv
<1>3. CASE Session
  BY <1>1, <1>2, <1>3, SessionStep
<1>4. CASE Report
  BY <1>2, <1>4 DEF Report
<1>5. CASE Looping
  BY <1>1, <1>5, LoopKeeps
<1>6. ASSUME NEW speed \in Speeds, Sampling(speed) PROVE PassedInv'
  <2>1. /\ One' => One \/ speed >= 30
        /\ Two' => Two \/ (One /\ speed >= 60)
        /\ Three' => Three \/ (Two /\ speed >= 100)
        /\ speed \in Int
    BY <1>6, SamplingStep, RowsGrow, SpeedsAssumption
  <2>2. CASE WaitStarted(speed)
    BY <2>1, <2>2 DEF WaitStarted, PassedInv
  <2>3. CASE WaitSlow(speed)
    BY <2>1, <2>3, Checkpoints DEF WaitSlow, PassedInv
  <2>4. CASE MeasurePass(speed)
    BY <2>1, <2>4 DEF MeasurePass, PassedInv
  <2>5. CASE MeasureSlow(speed)
    <3>1. /\ passed \in 0..2 /\ UNCHANGED <<passed, starts>>
          /\ passed = 0 => speed < 30
          /\ passed = 1 => speed < 60
          /\ passed = 2 => speed < 100
      BY <2>5, Checkpoints DEF MeasureSlow, PassedInv
    <3>2. QED BY <2>1, <3>1 DEF PassedInv
  <2>6. CASE MeasureFinal(speed)
    BY <2>1, <2>6 DEF MeasureFinal, PassedInv
  <2>7. QED BY <1>6, <2>2, <2>3, <2>4, <2>5, <2>6 DEF Sampling
<1>7. CASE UNCHANGED vars
  BY <1>1, <1>7 DEF vars
<1>8. QED BY <1>3, <1>4, <1>5, <1>6, <1>7, NextCases

LEMMA FoundNext == ASSUME AnalysisInv, AheadInv, [Next]_vars PROVE FoundInOrder'
<1>1. Len(data) \in Nat /\ found \in 0..3 /\ Looked
  BY SampleTypes DEF AnalysisInv
<1>2. ASSUME found' = 0 \/ phase' \notin {"scan", "report"} PROVE FoundInOrder'
  BY <1>2 DEF FoundInOrder
<1>3. ASSUME UNCHANGED <<data, found>>, phase \in {"scan", "report"},
             idx' = idx \/ (idx < Len(data) /\ idx \in Nat /\ idx' = idx + 1)
      PROVE  FoundInOrder'
  <2>1. \A a \in 1..idx : a \in 1..idx'
    BY <1>3
  <2>2. \A a \in 1..idx, k \in 1..3 : Above(a, k)' <=> Above(a, k)
    BY <1>3 DEF Above
  <2>3. found > 0 => idx' \in 0..Len(data)
    BY <1>3, <1>1 DEF AheadInv, FoundInOrder
  <2>4. QED BY <1>3, <2>1, <2>2, <2>3 DEF AheadInv, FoundInOrder
<1>4. CASE ScanFound
  <2>1. /\ phase = "scan" /\ data' = data /\ idx < Len(data) /\ idx \in Nat /\ found \in 0..2
        /\ found' = found + 1 /\ idx' = idx + 1 /\ Above(idx + 1, found + 1)
    BY <1>4, <1>1 DEF ScanFound, Analyzing, buffer, Size, Speed, Looked, Above
  <2>2. \A a \in 1..idx : a \in 1..idx' /\ a < idx + 1
    BY <2>1
  <2>3. \A a \in 1..idx', k \in 1..3 : Above(a, k)' <=> Above(a, k)
    BY <2>1 DEF Above
  <2>4. idx + 1 \in 1..idx'
    BY <2>1
  <2>5. CASE found = 0
    BY <2>1, <2>2, <2>3, <2>4, <2>5 DEF FoundInOrder
  <2>6. CASE found = 1
    <3>1. PICK a \in 1..idx : Above(a, 1)
      BY <2>6, <2>1 DEF AheadInv, FoundInOrder
    <3>2. a \in 1..idx' /\ a < idx + 1 /\ Above(a, 1)' /\ Above(idx + 1, 2)
      BY <2>1, <2>2, <2>3, <2>6, <3>1
    <3>3. QED BY <2>1, <2>3, <2>4, <2>6, <3>2 DEF FoundInOrder
  <2>7. CASE found = 2
    <3>1. PICK a, b \in 1..idx : a < b /\ Above(a, 1) /\ Above(b, 2)
      BY <2>7, <2>1 DEF AheadInv, FoundInOrder
    <3>2. /\ {a, b} \subseteq 1..idx' /\ b < idx + 1 /\ Above(a, 1)' /\ Above(b, 2)'
          /\ Above(idx + 1, 3)
      BY <2>1, <2>2, <2>3, <2>7, <3>1
    <3>3. QED BY <2>1, <2>3, <2>4, <2>7, <3>1, <3>2 DEF FoundInOrder
  <2>8. QED BY <2>1, <2>5, <2>6, <2>7
<1>5. CASE ScanMore \/ Scanned
  <2>1. /\ UNCHANGED <<data, found>> /\ phase = "scan" /\ idx \in Nat
        /\ idx' = idx \/ (idx < Len(data) /\ idx' = idx + 1)
    BY <1>5, <1>1 DEF ScanMore, Scanned, Analyzing, buffer, locals, Size, Looked
  <2>2. QED BY <2>1, <1>3
<1>6. CASE Looping /\ ~(ScanFound \/ ScanMore \/ Scanned)
  <2>1. found' = 0
    BY <1>6, <1>1 DEF Looping, MeasureEnds, Goes, Analyze, FindMore, Found, NotFound, RefineMore,
                      Refined, Analyzing, NewLocals, locals, Looked
  <2>2. QED BY <2>1, <1>2
<1>7. CASE Session \/ Report
  BY <1>7, <1>2, SessionStep DEF Report
<1>8. ASSUME NEW speed \in Speeds, Sampling(speed) PROVE FoundInOrder'
  BY <1>8, <1>2, SamplingStep
<1>9. CASE UNCHANGED vars
  <2>1. UNCHANGED <<phase, data, found, idx>> BY <1>9 DEF vars, buffer, locals
  <2>2. QED BY <2>1, <1>2, <1>3
<1>10. QED BY <1>4, <1>5, <1>6, <1>7, <1>8, <1>9, NextCases

\* Each checkpoint found has been passed or stands for a start.
LEMMA AheadBound == AnalysisInv /\ AheadInv => AheadByStarts
<1> SUFFICES ASSUME AnalysisInv, AheadInv, phase = "report" PROVE found <= passed + starts
  BY DEF AheadByStarts
<1>1. /\ found \in 0..3 /\ passed \in 0..3 /\ starts \in Nat
      /\ Len(data) \in Nat /\ \A i \in 1..Len(data) : data[i].speed \in Int
  BY SampleTypes DEF AnalysisInv, AheadInv, PassedInv
<1>2. \A a \in 1..Len(data), k \in 1..3 : Above(a, k) => Reached(a, k)
  BY <1>1, Checkpoints DEF Above, Reached
<1>3. found > 0 => \A a \in 1..idx : a \in 1..Len(data)
  BY <1>1 DEF AheadInv, FoundInOrder
<1>4. CASE found = 1
  <2>1. One
    BY <1>2, <1>3, <1>4 DEF AheadInv, FoundInOrder, One
  <2>2. QED BY <2>1, <1>1, <1>4 DEF AheadInv, PassedInv
<1>5. CASE found = 2
  <2>1. PICK a, b \in 1..idx : a < b /\ Above(a, 1) /\ Above(b, 2)
    BY <1>5 DEF AheadInv, FoundInOrder
  <2>2. Two
    BY <2>1, <1>2, <1>3, <1>5 DEF Two
  <2>3. QED BY <2>2, <1>1, <1>5 DEF AheadInv, PassedInv
<1>6. CASE found = 3
  <2>1. PICK a, b, c \in 1..idx : a < b /\ b < c /\ Above(a, 1) /\ Above(b, 2) /\ Above(c, 3)
    BY <1>6 DEF AheadInv, FoundInOrder
  <2>2. Three
    BY <2>1, <1>2, <1>3, <1>6 DEF Three
  <2>3. QED BY <2>2, <1>1, <1>6 DEF AheadInv, PassedInv
<1>7. QED BY <1>1, <1>4, <1>5, <1>6

\* No more checkpoints are reported than the measurement has passed and one for each
\* time it was started, whatever the samples and however often the session was
\* restarted, although the analysis compares with > where the measurement compares
\* with >= and starts from another sample (accelmeter_app_is_checkpoint_passed and
\* accelmeter_app_analyze_data).
THEOREM AheadSafety == Spec => []AheadByStarts
<1> DEFINE I == AnalysisInv /\ AheadInv
<1>1. Init => I
  <2> SUFFICES ASSUME Init PROVE I
    OBVIOUS
  <2>1. Len(data) = 0 /\ passed = 0 /\ starts = 0 /\ phase = "idle"
    BY DEF Init
  <2>2. QED BY <2>1, AnalysisInit DEF AheadInv, PassedInv, One, Two, Three, FoundInOrder
<1>2. I /\ [Next]_vars => I'
  BY AnalysisNext, PassedNext, FoundNext DEF AheadInv, AnalysisInv
<1>3. I => AheadByStarts
  BY AheadBound
<1>4. QED BY <1>1, <1>2, <1>3, PTL DEF Spec

-----------------------------------------------------------------------------
(***************************************************************************)
(* What the scan finds.  A witness f says at which sample each checkpoint  *)
(* was found; no two samples taken within a day have the same time, so     *)
(* that the times of the checkpoints say it as well.                       *)
(***************************************************************************)
Distinct == \A i, j \in 0..(Size - 1) : Time(i) = Time(j) => i = j

\* Samples are taken one after the other, none later than now.
Clock ==
  \A i \in 1..Len(data) :
    /\ data[i].at <= now /\ data[i].time = data[i].at % Day
    /\ \A j \in 1..Len(data) : i < j => data[i].at < data[j].at

WithinDay == \A i, j \in 1..Len(data) : data[j].at - data[i].at < Day

LEMMA ModDistinct ==
  ASSUME NEW d \in Nat \ {0}, NEW x \in Nat, NEW y \in Nat, x < y, y - x < d
  PROVE  x % d # y % d
<1> DEFINE p == x \div d
           q == y \div d
<1>1. p \in Nat /\ q \in Nat /\ x = d * p + (x % d) /\ y = d * q + (y % d)
  OBVIOUS
<1> HIDE DEF p, q
<1>2. SUFFICES ASSUME x % d = y % d PROVE FALSE
  OBVIOUS
<1>3. x % d \in Nat
  BY SmallMod
<1>4. d * q - d * p = y - x /\ d * p \in Nat /\ d * q \in Nat
  BY <1>1, <1>2, <1>3
<1>5. CASE q <= p
  BY <1>1, <1>4, <1>5
<1>6. CASE q >= p + 1
  <2>1. d * q >= d * (p + 1)
    BY <1>1, <1>6
  <2>2. d * (p + 1) = d * p + d
    BY <1>1
  <2>3. QED BY <2>1, <2>2, <1>1, <1>4
<1>7. QED BY <1>1, <1>5, <1>6

LEMMA TimesDistinct == ASSUME BufferInv, Clock, WithinDay PROVE Distinct
<1> SUFFICES ASSUME NEW i \in 0..(Size - 1), NEW j \in 0..(Size - 1), i < j
             PROVE  Time(i) # Time(j)
  BY SampleTypes DEF Distinct, Size
<1>1. i + 1 \in 1..Len(data) /\ j + 1 \in 1..Len(data) /\ i + 1 < j + 1
  BY SampleTypes DEF Size
<1>2. Time(i) = data[i + 1].at % Day /\ Time(j) = data[j + 1].at % Day
  BY <1>1 DEF Clock, Time
<1>3. data[i + 1].at < data[j + 1].at /\ data[j + 1].at - data[i + 1].at < Day
  BY <1>1 DEF Clock, WithinDay
<1>4. data[i + 1].at \in Nat /\ data[j + 1].at \in Nat
  BY <1>1, SampleTypes
<1>5. QED BY <1>2, <1>3, <1>4, ModDistinct, SizesAssumption

\* The timestamp of a sample that is added differs from that of the one before.
LEMMA ClockAdds == ASSUME BufferInv, Clock, NEW speed \in Speeds, Add(speed) PROVE Clock'
<1> DEFINE n == Len(data) + 1
<1>1. /\ Len(data') = n /\ Len(data) \in Nat /\ n \in Nat /\ now' = now /\ now \in Nat
      /\ \A i \in 1..Len(data) : data'[i] = data[i]
      /\ \A i \in 1..n : (i \in 1..Len(data) /\ i < n) \/ i = n
  <2>1. Len(data') = n /\ Len(data) \in Nat /\ \A i \in 1..Len(data) : data'[i] = data[i]
    BY Added
  <2>2. now' = now /\ now \in Nat
    BY DEF Add, BufferInv
  <2>3. n \in Nat /\ \A i \in 1..n : (i \in 1..Len(data) /\ i < n) \/ i = n
    BY <2>1
  <2>4. QED BY <2>1, <2>2, <2>3
<1>2. data'[n].at = now /\ data'[n].time = now % Day
  <2>1. data'[n] = [time |-> now % Day, speed |-> speed, at |-> now] BY Added
  <2>2. QED BY <2>1
<1> HIDE DEF n
<1>3. \A i \in 1..Len(data) : data[i].at < now
  <2>1. CASE Len(data) = 0
    BY <2>1
  <2>2. CASE Len(data) # 0
    <3>1. Len(data) \in 1..Len(data) BY <2>2, <1>1
    <3>2. data[Len(data)].time # now % Day
      <4>1. Size > 0 /\ Size - 1 + 1 = Len(data) BY <2>2, <1>1 DEF Size
      <4>2. QED BY <4>1 DEF Add, IsNew, Time
    <3>3. data[Len(data)].at <= now /\ data[Len(data)].at # now
      BY <3>1, <3>2 DEF Clock
    <3>4. \A i \in 1..Len(data) : data[i].at \in Nat
      BY SampleTypes
    <3>5. \A i \in 1..Len(data) : i = Len(data) \/ data[i].at < data[Len(data)].at
      BY <3>1, <1>1 DEF Clock
    <3>6. QED BY <3>1, <3>3, <3>4, <3>5, <1>1
  <2>3. QED BY <2>1, <2>2
<1>4. \A i \in 1..n : data'[i].at <= now /\ data'[i].time = data'[i].at % Day
  BY <1>1, <1>2 DEF Clock
<1>5. \A i, j \in 1..n : i < j => data'[i].at < data'[j].at
  <2> TAKE i, j \in 1..n
  <2>1. CASE i < j /\ j = n
    <3>1. i \in 1..Len(data) BY <2>1, <1>1
    <3>2. QED BY <2>1, <3>1, <1>1, <1>2, <1>3
  <2>2. CASE i < j /\ j \in 1..Len(data)
    <3>1. i \in 1..Len(data) BY <2>2, <1>1
    <3>2. QED BY <2>2, <3>1, <1>1 DEF Clock
  <2>3. QED BY <2>1, <2>2, <1>1
<1>6. QED BY <1>1, <1>4, <1>5 DEF Clock

LEMMA ClockNext == ASSUME BufferInv, Clock, [Next]_vars PROVE Clock'
<1>1. ASSUME UNCHANGED data, now' = now \/ now' = now + 1 PROVE Clock'
  <2>1. \A i \in 1..Len(data) : data[i].at \in Nat /\ now \in Nat
    BY SampleTypes DEF BufferInv
  <2>2. QED BY <1>1, <2>1 DEF Clock
<1>2. ASSUME Allocate \/ AppStop, now' = now \/ now' = now + 1 PROVE Clock'
  BY <1>2, Emptied DEF Clock
<1>3. CASE Session
  BY <1>1, <1>2, <1>3, SessionStep DEF buffer
<1>4. CASE Report
  BY <1>2, <1>4 DEF Report
<1>5. CASE Looping
  BY <1>1, <1>5, LoopKeeps DEF buffer
<1>6. ASSUME NEW speed \in Speeds, Sampling(speed) PROVE Clock'
  BY <1>6, SamplingStep, ClockAdds
<1>7. CASE UNCHANGED vars
  BY <1>1, <1>7 DEF vars, buffer
<1>8. QED BY <1>3, <1>4, <1>5, <1>6, <1>7, NextCases

From(f, k) == IF k = 1 THEN start ELSE f[k - 1] + 1

\* Checkpoint k was found at sample f[k], the first that is above it.
Hit(f, k) ==
  /\ f[k] \in From(f, k)..(idx - 1)
  /\ Speed(f[k]) > Checkpoint[k] /\ times[k] = Time(f[k]) - Time(start)
  /\ \A i \in From(f, k)..(f[k] - 1) : ~(Speed(i) > Checkpoint[k])

\* Checkpoint k has not been found among the samples looked at.
Missed(f, k) ==
  /\ From(f, k) \in 0..idx
  /\ \A i \in From(f, k)..(idx - 1) : ~(Speed(i) > Checkpoint[k])

Witness(f) == \A k \in 1..3 : (k <= found => Hit(f, k)) /\ (k = found + 1 => Missed(f, k))

ScanInv ==
  /\ phase = "find" => start = None
  /\ phase \in {"scan", "report"} /\ start # None =>
       /\ start \in 0..(Len(data) - 1) /\ idx \in 0..Len(data)
       /\ \E f \in [1..3 -> Nat] : Witness(f)
       /\ phase = "report" => found = 3 \/ idx = Len(data)

\* Where the scan begins, nothing has been looked at.
AtStart == /\ start \in Nat /\ Len(data) \in Nat /\ start < Len(data) /\ idx = start
           /\ found = 0 /\ phase = "scan"

LEMMA ScanBegins == AtStart => ScanInv
<1> SUFFICES ASSUME AtStart PROVE ScanInv
  OBVIOUS
<1> USE DEF AtStart
<1> DEFINE f == [k \in 1..3 |-> 0]
<1>1. f \in [1..3 -> Nat]
  OBVIOUS
<1> HIDE DEF f
<1>2. Witness(f)
  BY DEF Witness, Missed, From
<1>3. QED BY <1>1, <1>2 DEF ScanInv

LEMMA ScanBeginsNext == AtStart' => ScanInv'
BY ScanBegins, PTL

LEMMA FromType ==
  ASSUME NEW f \in [1..3 -> Nat], start \in Nat
  PROVE  \A k \in 1..3 : From(f, k) \in Nat /\ f[k] \in Nat
<1>1. \A k \in 1..3 : f[k] \in Nat
  OBVIOUS
<1>2. ASSUME NEW k \in 1..3 PROVE From(f, k) \in Nat
  <2>1. CASE k = 1 BY <2>1 DEF From
  <2>2. CASE k # 1
    <3>1. k - 1 \in 1..3 BY <2>2
    <3>2. f[k - 1] + 1 \in Nat BY <3>1, <1>1
    <3>3. QED BY <2>2, <3>2 DEF From
  <2>3. QED BY <2>1, <2>2
<1>3. QED BY <1>1, <1>2

\* A checkpoint that has been found stays found at its sample.
LEMMA HitStays ==
  ASSUME NEW f \in [1..3 -> Nat], NEW h \in [1..3 -> Nat], NEW k \in 1..3, Hit(f, k),
         From(h, k) = From(f, k), h[k] = f[k], start \in Nat, idx \in Nat,
         UNCHANGED <<data, start>>, times'[k] = times[k], idx' = idx + 1
  PROVE  Hit(h, k)'
<1>1. From(h, k)' = From(h, k)
  BY DEF From
<1>2. From(f, k) \in Nat /\ f[k] \in Nat
  BY FromType
<1>3. \A i : Speed(i)' = Speed(i) /\ Time(i)' = Time(i)
  BY DEF Speed, Time
<1>4. f[k] \in From(f, k)..(idx - 1)
  BY DEF Hit
<1>5. f[k] \in From(f, k)..(idx' - 1)
  BY <1>2, <1>4
<1>6. /\ Speed(f[k]) > Checkpoint[k] /\ times[k] = Time(f[k]) - Time(start)
      /\ \A i \in From(f, k)..(f[k] - 1) : ~(Speed(i) > Checkpoint[k])
  BY DEF Hit
<1>7. Time(start)' = Time(start)
  BY DEF Time
<1>8. QED BY <1>1, <1>3, <1>5, <1>6, <1>7 DEF Hit

LEMMA ScanLooks == ASSUME AnalysisInv, ScanInv, ScanMore PROVE ScanInv'
<1>1. /\ phase = "scan" /\ phase' = "scan" /\ UNCHANGED <<data, start, found, times>>
      /\ idx < Len(data) /\ idx' = idx + 1 /\ ~(Speed(idx) > Checkpoint[found + 1])
  BY DEF ScanMore, Analyzing, buffer, Size
<1>2. Len(data) \in Nat /\ start \in Nat /\ start < Len(data) /\ idx \in Nat /\ found \in 0..2
  BY <1>1, SampleTypes DEF AnalysisInv, Looked
<1>3. PICK f \in [1..3 -> Nat] : Witness(f)
  BY <1>1, <1>2 DEF ScanInv, None
<1>4. ASSUME NEW k \in 1..3, k <= found PROVE Hit(f, k)'
  <2>1. Hit(f, k) BY <1>3, <1>4 DEF Witness
  <2>2. QED BY <2>1, <1>1, <1>2, HitStays
<1>5. ASSUME NEW k \in 1..3, k = found + 1 PROVE Missed(f, k)'
  <2>1. From(f, k) \in 0..idx /\ \A i \in From(f, k)..(idx - 1) : ~(Speed(i) > Checkpoint[k])
    BY <1>3, <1>5 DEF Witness, Missed
  <2>2. \A i \in From(f, k)..(idx' - 1) : i \in From(f, k)..(idx - 1) \/ i = idx
    BY <2>1, <1>1, <1>2
  <2>3. From(f, k) \in 0..idx'
    BY <2>1, <1>1, <1>2
  <2>4. \A i \in From(f, k)..(idx' - 1) : ~(Speed(i) > Checkpoint[k])
    BY <2>1, <2>2, <1>1, <1>5
  <2>5. From(f, k)' = From(f, k)
    BY <1>1 DEF From
  <2>6. \A i : Speed(i)' = Speed(i)
    BY <1>1 DEF Speed
  <2>7. QED BY <2>3, <2>4, <2>5, <2>6 DEF Missed
<1>6. Witness(f)'
  BY <1>1, <1>4, <1>5 DEF Witness
<1>7. start' \in 0..(Len(data') - 1) /\ idx' \in 0..Len(data') /\ phase' = "scan"
  BY <1>1, <1>2
<1>8. QED BY <1>6, <1>7 DEF ScanInv

LEMMA ScanFinds == ASSUME AnalysisInv, ScanInv, ScanFound PROVE ScanInv'
<1>1. /\ phase = "scan" /\ UNCHANGED <<data, start>>
      /\ phase' = IF found = 2 THEN "report" ELSE "scan"
      /\ idx < Len(data) /\ idx' = idx + 1 /\ Speed(idx) > Checkpoint[found + 1]
      /\ found' = found + 1 /\ times' = [times EXCEPT ![found + 1] = Time(idx) - Time(start)]
  BY DEF ScanFound, Analyzing, buffer, Size
<1>2. /\ Len(data) \in Nat /\ start \in Nat /\ start < Len(data) /\ idx \in Nat /\ found \in 0..2
      /\ times \in [1..3 -> Int]
  BY <1>1, SampleTypes DEF AnalysisInv, Looked
<1>3. PICK f \in [1..3 -> Nat] : Witness(f)
  BY <1>1, <1>2 DEF ScanInv, None
<1>4. /\ [f EXCEPT ![found + 1] = idx] \in [1..3 -> Nat]
      /\ [f EXCEPT ![found + 1] = idx][found + 1] = idx
      /\ \A k \in 1..3 : k # found + 1 => [f EXCEPT ![found + 1] = idx][k] = f[k]
  BY <1>2
<1>5. PICK h \in [1..3 -> Nat] :
        h[found + 1] = idx /\ \A k \in 1..3 : k # found + 1 => h[k] = f[k]
  BY Zenon, <1>4
<1>6. ASSUME NEW k \in 1..3, k <= found + 1 PROVE From(h, k) = From(f, k)
  <2>1. CASE k = 1
    BY <2>1 DEF From
  <2>2. CASE k # 1
    <3>1. k - 1 \in 1..3 /\ k - 1 # found + 1
      BY <2>2, <1>2, <1>6
    <3>2. h[k - 1] = f[k - 1]
      BY <3>1, <1>5
    <3>3. QED BY <3>2, <2>2 DEF From
  <2>3. QED BY <2>1, <2>2
<1>7. /\ times'[found + 1] = Time(idx) - Time(start)
      /\ \A k \in 1..3 : k # found + 1 => times'[k] = times[k]
  BY <1>1, <1>2
<1>8. ASSUME NEW k \in 1..3, k <= found PROVE Hit(h, k)'
  <2>1. k # found + 1 /\ k <= found + 1
    BY <1>2, <1>8
  <2>2. From(h, k) = From(f, k) /\ h[k] = f[k] /\ times'[k] = times[k]
    BY <2>1, <1>5, <1>6, <1>7
  <2>3. Hit(f, k)
    BY <1>3, <1>8 DEF Witness
  <2>4. QED BY <2>2, <2>3, <1>1, <1>2, HitStays
<1>9. ASSUME NEW k \in 1..3, k = found + 1 PROVE Hit(h, k)'
  <2>1. From(f, k) \in 0..idx /\ \A i \in From(f, k)..(idx - 1) : ~(Speed(i) > Checkpoint[k])
    BY <1>3, <1>9 DEF Witness, Missed
  <2>2. From(h, k) = From(f, k) /\ h[k] = idx
    <3>1. k <= found + 1 BY <1>2, <1>9
    <3>2. h[k] = idx BY <1>5, <1>9
    <3>3. QED BY <3>1, <3>2, <1>6
  <2>3. h[k] \in From(h, k)..(idx' - 1)
    BY <2>1, <2>2, <1>1, <1>2
  <2>4. \A i \in From(h, k)..(h[k] - 1) : ~(Speed(i) > Checkpoint[k])
    BY <2>1, <2>2
  <2>5. Speed(h[k]) > Checkpoint[k] /\ times'[k] = Time(h[k]) - Time(start)
    BY <2>2, <1>1, <1>7, <1>9
  <2>6. From(h, k)' = From(h, k)
    BY <1>1 DEF From
  <2>7. \A i : Speed(i)' = Speed(i) /\ Time(i)' = Time(i)
    BY <1>1 DEF Speed, Time
  <2>8. Time(start)' = Time(start)
    BY <1>1 DEF Time
  <2>9. QED BY <2>3, <2>4, <2>5, <2>6, <2>7, <2>8 DEF Hit
<1>10. ASSUME NEW k \in 1..3, k = found' + 1 PROVE Missed(h, k)'
  <2>1. k # 1 /\ k - 1 = found + 1
    BY <1>1, <1>2, <1>10
  <2>2. h[k - 1] + 1 = idx'
    BY <2>1, <1>1, <1>5
  <2>3. From(h, k)' = idx'
    BY <2>1, <2>2 DEF From
  <2>4. idx' \in 0..idx' /\ \A i \in idx'..(idx' - 1) : FALSE
    BY <1>1, <1>2
  <2>5. QED BY <2>3, <2>4 DEF Missed
<1>11. Witness(h)'
  <2>1. \A k \in 1..3 : k <= found' => k <= found \/ k = found + 1
    BY <1>1, <1>2
  <2>2. QED BY <2>1, <1>8, <1>9, <1>10 DEF Witness
<1>12. /\ phase' \in {"scan", "report"} /\ (phase' = "report" => found' = 3)
       /\ start' \in 0..(Len(data') - 1) /\ idx' \in 0..Len(data')
  <2>1. phase' \in {"scan", "report"} /\ (phase' = "report" => found' = 3)
    BY <1>1
  <2>2. start \in 0..(Len(data) - 1) /\ idx + 1 \in 0..Len(data)
    BY <1>1, <1>2
  <2>3. QED BY <2>1, <2>2, <1>1
<1>13. QED BY <1>11, <1>12 DEF ScanInv

LEMMA ScanKeeps == ASSUME ScanInv, UNCHANGED <<data, locals>>,
                          phase' = phase \/ (phase = "scan" /\ phase' = "report" /\ idx = Size)
                   PROVE  ScanInv'
<1>1. UNCHANGED <<data, idx, start, found, times>>
  BY DEF locals
<1>2. \A f \in [1..3 -> Nat] : Witness(f)' <=> Witness(f)
  BY <1>1 DEF Witness, Hit, Missed, From, Speed, Time
<1>3. QED BY <1>1, <1>2 DEF ScanInv, Size

LEMMA ScanNext == ASSUME AnalysisInv, ScanInv, [Next]_vars PROVE ScanInv'
<1>1. Len(data) \in Nat /\ Looked
  BY SampleTypes DEF AnalysisInv
<1>2. ASSUME phase' \notin {"find", "scan", "report"} PROVE ScanInv'
  BY <1>2 DEF ScanInv
<1>3. ASSUME start' = None, phase' \in {"find", "report"} PROVE ScanInv'
  BY <1>3 DEF ScanInv
<1>4. ASSUME start' \in Nat, start' < Len(data'), Len(data') \in Nat, idx' = start', found' = 0,
             phase' = "scan"
      PROVE  ScanInv'
  BY <1>4, ScanBeginsNext DEF AtStart
<1>5. CASE Session \/ Report \/ MeasureEnds \/ RefineMore
  BY <1>5, <1>2, SessionStep DEF Report, MeasureEnds, Goes, RefineMore, Analyzing
<1>6. CASE Analyze
  BY <1>6, <1>3 DEF Analyze, Analyzing, NewLocals
<1>7. CASE FindMore \/ NotFound
  <2>1. phase = "find" /\ phase' \in {"find", "report"} /\ start' = start
    BY <1>7 DEF FindMore, NotFound, Analyzing, locals
  <2>2. QED BY <2>1, <1>3 DEF ScanInv
<1>8. CASE Found
  <2>1. /\ data' = data /\ start' = idx /\ idx \in Nat /\ idx < Len(data) /\ found' = 0
        /\ phase' = "refine" \/ (phase' = "scan" /\ idx' = idx)
    BY <1>8, <1>1 DEF Found, Analyzing, buffer, Size, Looked
  <2>2. QED BY <2>1, <1>1, <1>2, <1>4
<1>9. CASE Refined
  <2>1. /\ data' = data /\ start' = start /\ start \in Nat /\ start < Len(data) /\ found' = 0
        /\ phase' = "scan" /\ idx' = start
    BY <1>9, <1>1 DEF Refined, Analyzing, buffer, Looked
  <2>2. QED BY <2>1, <1>1, <1>4
<1>10. CASE ScanFound \/ ScanMore
  BY <1>10, ScanFinds, ScanLooks
<1>11. CASE Scanned
  <2>1. UNCHANGED <<data, locals>> /\ phase = "scan" /\ phase' = "report" /\ idx = Size
    BY <1>11 DEF Scanned, Analyzing, buffer
  <2>2. QED BY <2>1, ScanKeeps
<1>12. ASSUME NEW speed \in Speeds, Sampling(speed) PROVE ScanInv'
  BY <1>12, <1>2, SamplingStep
<1>13. CASE UNCHANGED vars
  BY <1>13, ScanKeeps DEF vars, buffer
<1>14. QED BY <1>5, <1>6, <1>7, <1>8, <1>9, <1>10, <1>11, <1>12, <1>13, NextCases DEF Looping

\* The sample of a checkpoint found is the only one with the time reported for it.
LEMMA OnlySample ==
  ASSUME Distinct, NEW k \in 1..3, NEW i \in 0..(Size - 1), start \in 0..(Size - 1),
         times[k] = Time(i) - Time(start), BufferInv
  PROVE  SampleOf(k) = i
<1>1. \A j \in 0..(Size - 1) : Time(j) \in Int
  <2> TAKE j \in 0..(Size - 1)
  <2>1. j + 1 \in 1..Len(data) BY SampleTypes DEF Size
  <2>2. QED BY <2>1, SampleTypes DEF Time
<1>2. \A j \in 0..(Size - 1) : Time(j) - Time(start) = times[k] <=> j = i
  BY <1>1 DEF Distinct
<1>3. QED BY <1>2 DEF SampleOf

LEMMA EarliestBound ==
  ASSUME BufferInv, found \in 0..3, ScanInv, Distinct, phase = "report", start # None
  PROVE  TimesAreEarliest
<1>1. Len(data) \in Nat /\ \A i \in 0..(Size - 1) : Speed(i) \in Int
  <2>1. Len(data) \in Nat BY SampleTypes
  <2> SUFFICES ASSUME NEW i \in 0..(Size - 1) PROVE Speed(i) \in Int
    BY <2>1
  <2>2. i + 1 \in 1..Len(data) BY <2>1 DEF Size
  <2>3. QED BY <2>2, SampleTypes DEF Speed
<1>2. PICK f \in [1..3 -> Nat] : Witness(f)
  BY DEF ScanInv
<1>3. start \in 0..(Size - 1) /\ idx \in 0..Size /\ (found = 3 \/ idx = Size) /\ Size \in Nat
  BY <1>1 DEF ScanInv, Size
<1>4. \A k \in 1..3 : From(f, k) \in Nat /\ f[k] \in Nat
  BY <1>3 DEF From
<1>5. ASSUME NEW k \in 1..3, k <= found PROVE Hit(f, k) /\ SampleOf(k) = f[k]
  <2>1. Hit(f, k) BY <1>2, <1>5 DEF Witness
  <2>2. f[k] \in 0..(Size - 1) /\ times[k] = Time(f[k]) - Time(start)
    BY <2>1, <1>3, <1>4 DEF Hit
  <2>3. QED BY <2>1, <2>2, <1>3, OnlySample
<1> SUFFICES ASSUME NEW k \in 1..3
             PROVE  LET from == IF k = 1 THEN start ELSE SampleOf(k - 1) + 1
                    IN /\ k <= found => /\ SampleOf(k) >= from /\ Speed(SampleOf(k)) > Checkpoint[k]
                                        /\ \A i \in from..(SampleOf(k) - 1) : Speed(i) <= Checkpoint[k]
                       /\ k = found + 1 => \A i \in from..(Size - 1) : Speed(i) <= Checkpoint[k]
  BY DEF TimesAreEarliest
<1> DEFINE from == IF k = 1 THEN start ELSE SampleOf(k - 1) + 1
<1>6. k <= found + 1 => from = From(f, k)
  <2>1. CASE k = 1 BY <2>1 DEF From
  <2>2. CASE k # 1 /\ k <= found + 1
    <3>1. k - 1 \in 1..3 /\ k - 1 <= found BY <2>2
    <3>2. SampleOf(k - 1) = f[k - 1] BY <3>1, <1>5
    <3>3. QED BY <3>2, <2>2 DEF From
  <2>3. QED BY <2>1, <2>2
<1>7. Checkpoint[k] \in Int
  BY Checkpoints
<1>8. ASSUME NEW i \in 0..(Size - 1), ~(Speed(i) > Checkpoint[k]) PROVE Speed(i) <= Checkpoint[k]
  BY <1>1, <1>7, <1>8
<1>9. ASSUME k <= found
      PROVE  /\ SampleOf(k) >= from /\ Speed(SampleOf(k)) > Checkpoint[k]
             /\ \A i \in from..(SampleOf(k) - 1) : Speed(i) <= Checkpoint[k]
  <2>1. Hit(f, k) /\ SampleOf(k) = f[k] BY <1>5, <1>9
  <2>2. from = From(f, k) /\ from \in Nat /\ f[k] \in Nat /\ f[k] < Size
    BY <2>1, <1>3, <1>4, <1>6, <1>9 DEF Hit
  <2>3. \A i \in from..(f[k] - 1) : i \in 0..(Size - 1)
    BY <2>2, <1>3
  <2>4. QED BY <2>1, <2>2, <2>3, <1>8 DEF Hit
<1>10. ASSUME k = found + 1
       PROVE  \A i \in from..(Size - 1) : Speed(i) <= Checkpoint[k]
  <2>1. Missed(f, k) /\ idx = Size /\ from = From(f, k) /\ from \in Nat
    BY <1>2, <1>3, <1>4, <1>6, <1>10 DEF Witness
  <2>2. \A i \in from..(Size - 1) : i \in 0..(Size - 1)
    BY <2>1, <1>3
  <2>3. QED BY <2>1, <2>2, <1>8 DEF Missed
<1>11. QED BY <1>9, <1>10

\* If the samples are taken within a day, each checkpoint is timed at the first sample
\* above its speed after the sample of the checkpoint before, and none that can be found
\* is missed (accelmeter_app_analyze_data).
THEOREM EarliestSafety == Spec => [](WithinDay => TimesAreEarliest)
<1> DEFINE I == AnalysisInv /\ Clock /\ ScanInv
<1>1. Init => I
  <2> SUFFICES ASSUME Init PROVE I
    OBVIOUS
  <2>1. Len(data) = 0 /\ phase = "idle"
    BY DEF Init
  <2>2. QED BY <2>1, AnalysisInit DEF Clock, ScanInv
<1>2. I /\ [Next]_vars => I'
  BY AnalysisNext, ClockNext, ScanNext DEF AnalysisInv
<1>3. I => (WithinDay => TimesAreEarliest)
  <2> SUFFICES ASSUME I, WithinDay, phase = "report", start # None PROVE TimesAreEarliest
    BY DEF TimesAreEarliest
  <2>1. Distinct BY TimesDistinct DEF AnalysisInv
  <2>2. QED BY <2>1, EarliestBound DEF AnalysisInv
<1>4. QED BY <1>1, <1>2, <1>3, PTL DEF Spec

-----------------------------------------------------------------------------
(***************************************************************************)
(* The starting point.  The first loop stops at the first sample t that    *)
(* ends Jitter samples in a row above the threshold; the second one goes   *)
(* back from there to sample e, having met n dips.                         *)
(***************************************************************************)
IsTrigger(t) == Fast(t) /\ \A j \in 0..(t - 1) : ~Fast(j)

Backed(t, from, n) ==
  /\ n = 0 => \A d \in from..(t - 1) : ~Dip(d)
  /\ n = 1 => \E d \in from..(t - 1) : Dip(d) /\ \A e \in from..(t - 1) : Dip(e) => e = d

RowInv ==
  phase = "find" =>
    /\ idx \in 0..Len(data) /\ hits \in 0..4 /\ hits <= idx
    /\ \A j \in (idx - hits)..(idx - 1) : Speed(j) > Threshold
    /\ idx > hits => ~(Speed(idx - hits - 1) > Threshold)
    /\ \A j \in 0..(idx - 1) : ~Fast(j)

BackInv ==
  phase = "refine" =>
    /\ idx \in Int /\ idx >= -1 /\ hits \in 0..1 /\ start = idx + 1 + hits
    /\ \E t \in 0..(Len(data) - 1) : IsTrigger(t) /\ idx < t /\ Backed(t, idx + 1, hits)

StartInv ==
  phase = "scan" =>
    \E t \in 0..(Len(data) - 1), n \in 0..1 : \E e \in (-1)..(t - 1) :
      /\ IsTrigger(t) /\ Backed(t, e + 1, n)
      /\ start = e + 1 + n
      /\ e >= 0 => n = 1 /\ Dip(e)

LEMMA FastRow == \A i : Fast(i) <=> i >= 4 /\ \A j \in (i - 5 + 1)..i : Speed(j) > Threshold
BY DEF Fast, Jitter

LEMMA SameSamples ==
  ASSUME data' = data
  PROVE  /\ \A i : Speed(i)' = Speed(i) /\ (Dip(i)' <=> Dip(i)) /\ (Fast(i)' <=> Fast(i))
         /\ \A t : IsTrigger(t)' <=> IsTrigger(t)
<1>1. \A i : Speed(i)' = Speed(i)
  BY DEF Speed
<1>2. \A i : Dip(i)' <=> Dip(i)
  BY DEF Dip, Speed
<1>3. \A i : Fast(i)' <=> Fast(i)
  BY DEF Fast, Speed
<1>4. \A t : IsTrigger(t)' <=> IsTrigger(t)
  BY <1>3 DEF IsTrigger
<1>5. QED BY <1>1, <1>2, <1>3, <1>4

\* The row ends at a slow sample or has not yet Jitter samples.
LEMMA RowGrows == ASSUME AnalysisInv, RowInv, FindMore PROVE RowInv'
<1>1. /\ phase = "find" /\ data' = data /\ idx < Len(data) /\ idx' = idx + 1
      /\ hits' = IF Speed(idx) > Threshold THEN hits + 1 ELSE 0
      /\ hits' < 5
  BY DEF FindMore, Analyzing, buffer, Size, Jitter
<1>2. /\ idx \in Nat /\ hits \in 0..4 /\ hits <= idx /\ Len(data) \in Nat
      /\ \A j \in (idx - hits)..(idx - 1) : Speed(j) > Threshold
      /\ idx > hits => ~(Speed(idx - hits - 1) > Threshold)
      /\ \A j \in 0..(idx - 1) : ~Fast(j)
  BY <1>1, SampleTypes DEF RowInv, AnalysisInv
<1>3. ~Fast(idx)
  <2>1. CASE ~(Speed(idx) > Threshold)
    <3>1. idx \in (idx - 5 + 1)..idx BY <1>2
    <3>2. QED BY <2>1, <3>1, FastRow
  <2>2. CASE Speed(idx) > Threshold /\ idx > hits
    <3>1. idx - hits - 1 \in (idx - 5 + 1)..idx BY <2>2, <1>1, <1>2
    <3>2. QED BY <2>2, <3>1, <1>2, FastRow
  <2>3. CASE Speed(idx) > Threshold /\ idx = hits
    <3>1. ~(idx >= 4) BY <2>3, <1>1, <1>2
    <3>2. QED BY <3>1, FastRow
  <2>4. QED BY <2>1, <2>2, <2>3, <1>2
<1>4. \A j \in 0..(idx' - 1) : ~Fast(j)
  <2>1. \A j \in 0..(idx' - 1) : j \in 0..(idx - 1) \/ j = idx
    BY <1>1, <1>2
  <2>2. QED BY <2>1, <1>2, <1>3
<1>5. /\ idx' \in 0..Len(data) /\ hits' \in 0..4 /\ hits' <= idx'
      /\ \A j \in (idx' - hits')..(idx' - 1) : Speed(j) > Threshold
      /\ idx' > hits' => ~(Speed(idx' - hits' - 1) > Threshold)
  <2>1. CASE Speed(idx) > Threshold
    <3>1. hits' = hits + 1 /\ idx' - hits' = idx - hits
      BY <2>1, <1>1, <1>2
    <3>2. \A j \in (idx' - hits')..(idx' - 1) : j \in (idx - hits)..(idx - 1) \/ j = idx
      BY <3>1, <1>1, <1>2
    <3>3. QED BY <2>1, <3>1, <3>2, <1>1, <1>2
  <2>2. CASE ~(Speed(idx) > Threshold)
    <3>1. hits' = 0 /\ idx' - hits' - 1 = idx
      BY <2>2, <1>1, <1>2
    <3>2. \A j \in (idx' - hits')..(idx' - 1) : FALSE
      BY <3>1, <1>1, <1>2
    <3>3. QED BY <2>2, <3>1, <3>2, <1>1, <1>2
  <2>3. QED BY <2>1, <2>2
<1>6. QED BY <1>1, <1>4, <1>5, SameSamples DEF RowInv

\* The row is complete: its end is the trigger, and no sample has been gone back yet.
LEMMA RowEnds == ASSUME AnalysisInv, RowInv, Found PROVE phase' = "refine" /\ BackInv'
<1>1. /\ phase = "find" /\ data' = data /\ idx < Len(data) /\ Speed(idx) > Threshold
      /\ hits + 1 >= 5 /\ start' = idx /\ hits' = 0
      /\ idx > 2 => phase' = "refine" /\ idx' = idx - 1
  BY DEF Found, Analyzing, buffer, Size, Jitter
<1>2. /\ idx \in Nat /\ hits \in 0..4 /\ hits <= idx /\ Len(data) \in Nat
      /\ \A j \in (idx - hits)..(idx - 1) : Speed(j) > Threshold
      /\ \A j \in 0..(idx - 1) : ~Fast(j)
  BY <1>1, SampleTypes DEF RowInv, AnalysisInv
<1>3. hits = 4 /\ idx >= 4 /\ phase' = "refine" /\ idx' = idx - 1
  BY <1>1, <1>2
<1>4. Fast(idx)
  <2>1. \A j \in (idx - 5 + 1)..idx : j \in (idx - hits)..(idx - 1) \/ j = idx
    BY <1>2, <1>3
  <2>2. QED BY <2>1, <1>1, <1>2, <1>3, FastRow
<1>5. PICK t \in 0..(Len(data) - 1) : t = idx
  BY <1>1, <1>2
<1>6. IsTrigger(t)'
  BY <1>1, <1>2, <1>4, <1>5, SameSamples DEF IsTrigger
<1>7. Backed(t, idx + 1, hits)'
  BY <1>1, <1>2, <1>3, <1>5 DEF Backed
<1>8. QED BY <1>1, <1>2, <1>3, <1>5, <1>6, <1>7 DEF BackInv

LEMMA BackGoes == ASSUME AnalysisInv, BackInv, RefineMore PROVE BackInv'
<1>1. /\ phase = "refine" /\ data' = data /\ idx >= 0 /\ ~(Dip(idx) /\ hits = 1) /\ idx' = idx - 1
      /\ \/ Dip(idx) /\ hits' = hits + 1 /\ start' = start
         \/ ~Dip(idx) /\ start' = start - 1 /\ hits' = hits
  BY DEF RefineMore, Analyzing, buffer
<1>2. /\ idx \in Nat /\ hits \in 0..1 /\ start = idx + 1 + hits /\ Len(data) \in Nat
  BY <1>1, SampleTypes DEF BackInv, AnalysisInv
<1>3. PICK t \in 0..(Len(data) - 1) : IsTrigger(t) /\ idx < t /\ Backed(t, idx + 1, hits)
  BY <1>1 DEF BackInv
<1>4. \A d \in idx..(t - 1) : d \in (idx + 1)..(t - 1) \/ d = idx
  BY <1>2, <1>3
<1>5. \A d \in (idx + 1)..(t - 1) : d \in idx..(t - 1) /\ d # idx
  BY <1>2, <1>3
<1>6. idx' + 1 = idx /\ hits' \in 0..1 /\ start' = idx' + 1 + hits' /\ idx' < t
  BY <1>1, <1>2, <1>3
<1>7. Backed(t, idx, hits')
  <2>1. CASE Dip(idx)
    <3>1. hits = 0 /\ hits' = 1 /\ idx \in idx..(t - 1)
      BY <2>1, <1>1, <1>2, <1>3
    <3>2. \A d \in (idx + 1)..(t - 1) : ~Dip(d)
      BY <3>1, <1>3 DEF Backed
    <3>3. QED BY <2>1, <3>1, <3>2, <1>4 DEF Backed
  <2>2. CASE ~Dip(idx)
    <3>1. hits' = hits
      BY <2>2, <1>1
    <3>2. QED BY <2>2, <3>1, <1>3, <1>4, <1>5 DEF Backed
  <2>3. QED BY <2>1, <2>2
<1>8. Backed(t, idx + 1, hits)'
  BY <1>1, <1>6, <1>7, SameSamples DEF Backed
<1>9. IsTrigger(t)'
  BY <1>1, <1>3, SameSamples
<1>10. idx' \in Int /\ idx' >= -1
  BY <1>1, <1>2
<1>11. QED BY <1>1, <1>3, <1>6, <1>8, <1>9, <1>10 DEF BackInv

LEMMA BackEnds == ASSUME AnalysisInv, BackInv, Refined PROVE StartInv'
<1>1. /\ phase = "refine" /\ data' = data /\ start' = start
      /\ idx >= 0 => hits = 1 /\ Dip(idx)
  BY DEF Refined, Analyzing, buffer
<1>2. PICK t \in 0..(Len(data) - 1) : IsTrigger(t) /\ idx < t /\ Backed(t, idx + 1, hits)
  BY <1>1 DEF BackInv
<1>3. PICK n \in 0..1, e \in (-1)..(t - 1) : n = hits /\ e = idx
  BY <1>1, <1>2 DEF BackInv
<1>4. IsTrigger(t)' /\ (\A d : Dip(d)' <=> Dip(d))
  BY <1>1, <1>2, SameSamples
<1>5. Backed(t, e + 1, n)'
  BY <1>2, <1>3, <1>4 DEF Backed
<1>6. start' = e + 1 + n /\ (e >= 0 => n = 1 /\ Dip(e)')
  BY <1>1, <1>3, <1>4 DEF BackInv
<1>7. QED BY <1>1, <1>4, <1>5, <1>6 DEF StartInv

LEMMA StartStays ==
  ASSUME StartInv, phase = "scan", data' = data, start' = start
  PROVE  StartInv'
<1>1. PICK t \in 0..(Len(data) - 1), n \in 0..1 : \E e \in (-1)..(t - 1) :
        /\ IsTrigger(t) /\ Backed(t, e + 1, n) /\ start = e + 1 + n
        /\ e >= 0 => n = 1 /\ Dip(e)
  BY DEF StartInv
<1>2. PICK e \in (-1)..(t - 1) :
        /\ IsTrigger(t) /\ Backed(t, e + 1, n) /\ start = e + 1 + n
        /\ e >= 0 => n = 1 /\ Dip(e)
  BY <1>1
<1>3. IsTrigger(t)' /\ (\A d : Dip(d)' <=> Dip(d))
  BY <1>2, SameSamples
<1>4. Backed(t, e + 1, n)'
  BY <1>2, <1>3 DEF Backed
<1>5. start' = e + 1 + n /\ (e >= 0 => n = 1 /\ Dip(e)')
  BY <1>2, <1>3
<1>6. QED BY <1>3, <1>4, <1>5 DEF StartInv

PointInv == RowInv /\ BackInv /\ StartInv

LEMMA PointNext == ASSUME AnalysisInv, PointInv, [Next]_vars PROVE PointInv'
<1>1. ASSUME phase' \notin {"find", "refine", "scan"} PROVE PointInv'
  BY <1>1 DEF PointInv, RowInv, BackInv, StartInv
<1>2. CASE Session \/ Report \/ MeasureEnds \/ NotFound \/ Scanned
  BY <1>2, <1>1, SessionStep DEF Report, MeasureEnds, Goes, NotFound, Scanned, Analyzing
<1>3. CASE Analyze
  <2>1. CASE phase' = "report" BY <2>1, <1>1
  <2>2. CASE phase' = "find"
    <3>1. idx' = 0 /\ hits' = 0 /\ Len(data') \in Nat
      BY <1>3, SampleTypes DEF Analyze, Analyzing, NewLocals, buffer, AnalysisInv
    <3>2. RowInv'
      BY <2>2, <3>1 DEF RowInv
    <3>3. QED BY <2>2, <3>2 DEF PointInv, BackInv, StartInv
  <2>3. QED BY <1>3, <2>1, <2>2 DEF Analyze, Analyzing
<1>4. CASE FindMore
  <2>1. phase' = "find" BY <1>4 DEF FindMore, Analyzing
  <2>2. QED BY <2>1, <1>4, RowGrows DEF PointInv, BackInv, StartInv
<1>5. CASE Found
  BY <1>5, RowEnds DEF PointInv, RowInv, StartInv
<1>6. CASE RefineMore
  <2>1. phase' = "refine" BY <1>6 DEF RefineMore, Analyzing
  <2>2. QED BY <2>1, <1>6, BackGoes DEF PointInv, RowInv, StartInv
<1>7. CASE Refined
  <2>1. phase' = "scan" BY <1>7 DEF Refined, Analyzing
  <2>2. QED BY <2>1, <1>7, BackEnds DEF PointInv, RowInv, BackInv
<1>8. CASE ScanFound \/ ScanMore
  <2>1. phase = "scan" /\ phase' \in {"scan", "report"} /\ data' = data /\ start' = start
    BY <1>8 DEF ScanFound, ScanMore, Analyzing, buffer
  <2>2. QED BY <2>1, StartStays DEF PointInv, RowInv, BackInv
<1>9. ASSUME NEW speed \in Speeds, Sampling(speed) PROVE PointInv'
  BY <1>9, <1>1, SamplingStep
<1>10. CASE UNCHANGED vars
  <2>1. UNCHANGED <<phase, data, idx, hits, start>>
    BY <1>10 DEF vars, buffer, locals
  <2>2. RowInv'
    BY <2>1, SameSamples DEF PointInv, RowInv
  <2>3. BackInv'
    <3> SUFFICES ASSUME phase = "refine" PROVE BackInv'
      BY <2>1 DEF BackInv
    <3>1. PICK t \in 0..(Len(data) - 1) : IsTrigger(t) /\ idx < t /\ Backed(t, idx + 1, hits)
      BY DEF PointInv, BackInv
    <3>2. Backed(t, idx + 1, hits)' /\ IsTrigger(t)'
      BY <2>1, <3>1, SameSamples DEF Backed
    <3>3. QED BY <2>1, <3>1, <3>2 DEF PointInv, BackInv
  <2>4. StartInv'
    BY <2>1, StartStays DEF PointInv, StartInv
  <2>5. QED BY <2>2, <2>3, <2>4 DEF PointInv
<1>11. QED BY <1>2, <1>3, <1>4, <1>5, <1>6, <1>7, <1>8, <1>9, <1>10, NextCases DEF Looping

LEMMA TriggerIs == ASSUME NEW t \in 0..(Size - 1), Size \in Nat, IsTrigger(t) PROVE Trigger = t
<1>1. ASSUME NEW i \in 0..(Size - 1), Fast(i), \A j \in 0..(i - 1) : ~Fast(j) PROVE i = t
  <2>1. ~(i < t) /\ ~(t < i)
    BY <1>1 DEF IsTrigger
  <2>2. QED BY <2>1
<1>2. QED BY <1>1 DEF Trigger, IsTrigger

LEMMA LastIs ==
  ASSUME NEW S \in SUBSET Int, NEW d \in S, \A e \in S : e <= d
  PROVE  Last(S) = d
<1>1. ASSUME NEW c \in S, \A e \in S : e <= c PROVE c = d
  BY <1>1
<1>2. QED BY <1>1 DEF Last

LEMMA StartBound == ASSUME BufferInv, StartInv PROVE StartAsSpecified
<1> SUFFICES ASSUME phase = "scan" PROVE start = StartingPoint
  BY DEF StartAsSpecified
<1>1. Size \in Nat /\ Len(data) = Size
  BY SampleTypes DEF Size
<1>2. PICK t \in 0..(Size - 1), n \in 0..1 : \E e \in (-1)..(t - 1) :
        /\ IsTrigger(t) /\ Backed(t, e + 1, n) /\ start = e + 1 + n
        /\ e >= 0 => n = 1 /\ Dip(e)
  BY <1>1 DEF StartInv
<1>3. PICK e \in (-1)..(t - 1) :
        /\ IsTrigger(t) /\ Backed(t, e + 1, n) /\ start = e + 1 + n
        /\ e >= 0 => n = 1 /\ Dip(e)
  BY <1>2
<1>4. Trigger = t
  BY <1>1, <1>3, TriggerIs
<1> DEFINE dips == Dips(t)
<1>5. /\ IsFiniteSet(dips) /\ dips \in SUBSET Int
      /\ \A d : d \in dips <=> d \in 0..(t - 1) /\ Dip(d)
  <2>1. IsFiniteSet(0..(t - 1)) /\ dips \in SUBSET (0..(t - 1))
    BY FS_Interval DEF Dips
  <2>2. IsFiniteSet(dips) BY <2>1, FS_Subset
  <2>3. QED BY <2>1, <2>2 DEF Dips
<1>6. StartingPoint = IF Cardinality(dips) < 2 THEN Cardinality(dips)
                                               ELSE Last(dips \ {Last(dips)}) + 2
  BY <1>4 DEF StartingPoint
<1> HIDE DEF dips
<1>7. CASE e = -1 /\ n = 0
  <2>1. dips = {} BY <1>3, <1>5, <1>7 DEF Backed
  <2>2. Cardinality(dips) = 0 BY <2>1, FS_EmptySet
  <2>3. QED BY <2>2, <1>3, <1>6, <1>7
<1>8. CASE e = -1 /\ n = 1
  <2>1. PICK d \in (e + 1)..(t - 1) : Dip(d) /\ \A c \in (e + 1)..(t - 1) : Dip(c) => c = d
    BY <1>3, <1>8 DEF Backed
  <2>2. dips = {d}
    BY <2>1, <1>5, <1>8
  <2>3. Cardinality(dips) = 1 BY <2>2, FS_Singleton
  <2>4. QED BY <2>3, <1>3, <1>6, <1>8
<1>9. CASE e >= 0
  <2>1. n = 1 /\ Dip(e) BY <1>3, <1>9
  <2>2. PICK d \in (e + 1)..(t - 1) : Dip(d) /\ \A c \in (e + 1)..(t - 1) : Dip(c) => c = d
    BY <2>1, <1>3 DEF Backed
  <2>3. d \in dips /\ e \in dips /\ e < d
    BY <2>1, <2>2, <1>5, <1>9
  <2>4. \A c \in dips : c <= e \/ c = d
    <3> TAKE c \in dips
    <3>1. c \in 0..(t - 1) /\ Dip(c) BY <1>5
    <3>2. c \in (e + 1)..(t - 1) \/ c <= e BY <3>1
    <3>3. QED BY <3>1, <3>2, <2>2
  <2>5. \A c \in dips : c <= d
    BY <2>3, <2>4, <1>5
  <2>6. Last(dips) = d
    BY <2>3, <2>5, <1>5, LastIs
  <2>7. Last(dips \ {d}) = e
    <3>1. dips \ {d} \in SUBSET Int /\ e \in dips \ {d} /\ \A c \in dips \ {d} : c <= e
      BY <2>3, <2>4, <1>5
    <3>2. QED BY <3>1, LastIs
  <2>8. ~(Cardinality(dips) < 2)
    <3>1. IsFiniteSet(dips \ {d}) /\ Cardinality(dips \ {d}) = Cardinality(dips) - 1
      BY <1>5, <2>3, FS_RemoveElement
    <3>2. Cardinality(dips \ {d}) # 0 BY <3>1, <2>3, FS_EmptySet
    <3>3. Cardinality(dips) \in Nat /\ Cardinality(dips \ {d}) \in Nat
      BY <3>1, <1>5, FS_CardinalityType
    <3>4. QED BY <3>1, <3>2, <3>3
  <2>9. QED BY <2>1, <2>6, <2>7, <2>8, <1>3, <1>6
<1>10. QED BY <1>7, <1>8, <1>9

\* The starting point is the one specified, whatever the samples: back from the first
\* Jitter samples in a row above the threshold, past one dip and to the second
\* (get_starting_point).
THEOREM StartSafety == Spec => []StartAsSpecified
<1> DEFINE I == AnalysisInv /\ PointInv
<1>1. Init => I
  BY AnalysisInit DEF Init, PointInv, RowInv, BackInv, StartInv
<1>2. I /\ [Next]_vars => I'
  BY AnalysisNext, PointNext
<1>3. I => StartAsSpecified
  BY StartBound DEF AnalysisInv, PointInv
<1>4. QED BY <1>1, <1>2, <1>3, PTL DEF Spec
=============================================================================
