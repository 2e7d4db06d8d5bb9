----------------------------- MODULE Accelmeter -----------------------------
(***************************************************************************)
(* accelmeter-app.c: the samples of a session, the checkpoints passed while*)
(* it lasts, and the analysis of the samples at its end, as server_run     *)
(* calls them (STATE_WORKING to STATE_WORKING_ANALYZE).  Each turn of a    *)
(* loop of the analysis is a step.                                         *)
(*                                                                         *)
(* A request for a start that comes during a session restarts it: it goes  *)
(* back to the poll for a fix and waits for the acceleration again, with   *)
(* the samples and the checkpoints it has.                                 *)
(*                                                                         *)
(* Speeds are whole km/h and times whole seconds since midnight.  Indices  *)
(* count from 0, as in the code.                                           *)
(***************************************************************************)
EXTENDS Integers, Sequences, FiniteSets

CONSTANTS Speeds,    \* the speeds a sample may have
          Capacity,  \* ACCELMETER_APP_INITIAL_CAPACITY
          Day,       \* seconds in a day
          FirstTime, \* the time of day of the first sentence
          MaxTime    \* bound: seconds in a behaviour

ASSUME SpeedsAssumption == Speeds \subseteq Int
ASSUME SizesAssumption == {Capacity, Day} \subseteq Nat \ {0} /\ {FirstTime, MaxTime} \subseteq Nat

Threshold == 3                 \* ACCELMETER_APP_START_SPEED_THRESHOLD
Checkpoint == <<30, 60, 100>>  \* CHECKPOINT_1, CHECKPOINT_2, CHECKPOINT_3
Jitter == 5                    \* JITTER_SMOOTH_COUNT
None == -1

VARIABLES
  phase,       \* where server_run and the analysis are
  running,     \* is_running
  data,        \* accel.data, up to accel.size; as history, when each was taken
  capacity,    \* accel.capacity
  passed,      \* how many of accel.checkpoint1..3 are set
  starts,      \* history: measurements started since the buffer was allocated
  now,         \* the time of the last sentence, not yet reduced to a day
  idx, hits,   \* the loop variables of the analysis
  start,       \* start_index
  found,       \* checkpoints the analysis has found
  times        \* *time1, *time2, *time3

locals == <<idx, hits, start, found, times>>
buffer == <<running, data, capacity, passed, starts>>
vars == <<phase, buffer, now, locals>>

Size == Len(data)
Time(i) == data[i + 1].time
Speed(i) == data[i + 1].speed
Dip(i) == Speed(i) > Speed(i + 1)
NoTimes == [k \in 1..3 |-> None]

Init ==
  /\ phase = "idle" /\ now = FirstTime
  /\ running = FALSE /\ data = << >> /\ capacity = 0 /\ passed = 0 /\ starts = 0
  /\ idx = 0 /\ hits = 0 /\ start = None /\ found = 0 /\ times = NoTimes

-----------------------------------------------------------------------------
(***************************************************************************)
(* Taking samples.                                                         *)
(***************************************************************************)
Allocate == running' = TRUE /\ data' = << >> /\ capacity' = Capacity /\ passed' = 0 /\ starts' = 0
AppStart == IF running THEN UNCHANGED buffer ELSE Allocate
AppStop == /\ running' = FALSE /\ UNCHANGED <<passed, starts>>
           /\ IF running THEN data' = << >> /\ capacity' = 0 ELSE UNCHANGED <<data, capacity>>

Goes(from, to) == phase = from /\ phase' = to /\ UNCHANGED <<now, locals>>

Begin == Goes("idle", "poll") /\ UNCHANGED buffer

\* A start requested in a session, whatever the session has got to.
Restart ==
  /\ \E from \in {"wait", "measure", "analyze"} : Goes(from, "poll")
  /\ UNCHANGED buffer

\* The poll has its fix: STATE_WORKING.
Work == Goes("poll", "wait") /\ AppStart

\* No fix in time ends the session and does not stop the application.
NoSignal == Goes("poll", "idle") /\ UNCHANGED buffer

\* Another sentence comes in.
Elapse ==
  /\ phase \in {"poll", "wait", "measure"}
  /\ now < FirstTime + MaxTime /\ now' = now + 1
  /\ UNCHANGED <<phase, buffer, locals>>

\* A timestamp equal to that of the last sample is not added.
IsNew == Size > 0 => Time(Size - 1) # now % Day
Grown == IF IsNew THEN Size + 1 ELSE Size

\* Mutant: the buffer is grown once it has overflowed.
AddLate(speed) ==
  /\ running /\ IsNew
  /\ data' = Append(data, [time |-> now % Day, speed |-> speed, at |-> now])
  /\ capacity' = IF Size > capacity THEN 2 * capacity ELSE capacity
  /\ UNCHANGED <<running, now>>

\* accelmeter_app_add_data and speed_data_add: a full buffer is doubled.
Add(speed) ==
  /\ running /\ IsNew
  /\ data' = Append(data, [time |-> now % Day, speed |-> speed, at |-> now])
  /\ capacity' = IF Size = capacity THEN 2 * capacity ELSE capacity
  /\ UNCHANGED <<running, now>>

WaitStarted(speed) ==
  /\ phase = "wait" /\ speed >= Threshold /\ phase' = "measure"
  /\ Add(speed) /\ starts' = starts + 1
  /\ UNCHANGED <<passed, locals>>

\* Too slow: the sample is kept, unless the buffer is to be emptied.
WaitSlow(speed) ==
  /\ phase = "wait" /\ speed < Threshold /\ Grown <= Capacity
  /\ Add(speed)
  /\ UNCHANGED <<phase, passed, starts, locals>>

\* After a sample that is too slow, or none that is new.
WaitEmpties(speed) ==
  /\ Goes("wait", "wait") /\ ~(IsNew /\ speed >= Threshold) /\ Grown > Capacity
  /\ Allocate

MeasurePass(speed) ==
  /\ phase = "measure" /\ passed < 3 /\ speed >= Checkpoint[passed + 1]
  /\ Add(speed)
  /\ passed' = passed + 1
  /\ UNCHANGED <<phase, starts, locals>>

MeasureSlow(speed) ==
  /\ phase = "measure" /\ passed < 3 /\ speed < Checkpoint[passed + 1]
  /\ Add(speed)
  /\ UNCHANGED <<phase, passed, starts, locals>>

MeasureFinal(speed) ==
  /\ phase = "measure" /\ passed = 3 /\ phase' = "analyze"
  /\ Add(speed)
  /\ UNCHANGED <<passed, starts, locals>>

\* A timeout, or too many invalid samples before the last checkpoint.
MeasureEnds == Goes("measure", "analyze") /\ UNCHANGED buffer

\* A session that ends without an analysis, and an abort that comes too late for it.
GiveUp ==
  /\ \E from \in {"idle", "poll", "wait", "measure", "analyze"} : Goes(from, "idle")
  /\ AppStop

-----------------------------------------------------------------------------
(***************************************************************************)
(* accelmeter_app_analyze_data.                                            *)
(***************************************************************************)
NewLocals == idx' = 0 /\ hits' = 0 /\ start' = None /\ found' = 0 /\ times' = NoTimes

Analyzing(from, to) ==
  /\ phase = from /\ phase' = to
  /\ UNCHANGED <<buffer, now>>

\* Without the first checkpoint there is nothing to analyse.
Analyze ==
  /\ IF passed > 0 THEN Analyzing("analyze", "find") ELSE Analyzing("analyze", "report")
  /\ NewLocals

\* get_starting_point, first loop: Jitter samples in a row above the threshold.
FindMore ==
  /\ Analyzing("find", "find")
  /\ idx < Size
  /\ LET h == IF Speed(idx) > Threshold THEN hits + 1 ELSE 0
     IN h < Jitter /\ hits' = h
  /\ idx' = idx + 1
  /\ UNCHANGED <<start, found, times>>

Found ==
  /\ phase = "find" /\ idx < Size /\ Speed(idx) > Threshold /\ hits + 1 >= Jitter
  /\ start' = idx
  /\ IF idx > 2 THEN Analyzing("find", "refine") /\ idx' = idx - 1
                ELSE Analyzing("find", "scan") /\ idx' = idx
  /\ hits' = 0
  /\ UNCHANGED <<found, times>>

NotFound ==
  /\ Analyzing("find", "report")
  /\ idx = Size
  /\ UNCHANGED locals

\* Mutant: the dip that is tolerated moves the starting point as well.
RefineMoreAll ==
  /\ Analyzing("refine", "refine")
  /\ idx >= 0
  /\ ~(Dip(idx) /\ hits = 1)
  /\ hits' = IF Dip(idx) THEN hits + 1 ELSE hits
  /\ start' = start - 1
  /\ idx' = idx - 1
  /\ UNCHANGED <<found, times>>

\* Second loop: back to the second dip, the first being tolerated; only samples
\* that are no dip move the starting point.
RefineMore ==
  /\ Analyzing("refine", "refine")
  /\ idx >= 0
  /\ ~(Dip(idx) /\ hits = 1)
  /\ IF Dip(idx) THEN hits' = hits + 1 /\ UNCHANGED start
                ELSE start' = start - 1 /\ UNCHANGED hits
  /\ idx' = idx - 1
  /\ UNCHANGED <<found, times>>

Refined ==
  /\ Analyzing("refine", "scan")
  /\ idx >= 0 => hits = 1 /\ Dip(idx)
  /\ idx' = start
  /\ UNCHANGED <<hits, start, found, times>>

\* Mutant: the search goes on at the same sample.
ScanFoundAgain ==
  /\ Analyzing("scan", IF found = 2 THEN "report" ELSE "scan")
  /\ idx < Size /\ Speed(idx) > Checkpoint[found + 1]
  /\ times' = [times EXCEPT ![found + 1] = Time(idx) - Time(start)]
  /\ found' = found + 1
  /\ UNCHANGED <<idx, hits, start>>

\* Mutant: a checkpoint is found at its very speed.
ScanFoundEqual ==
  /\ Analyzing("scan", IF found = 2 THEN "report" ELSE "scan")
  /\ idx < Size /\ Speed(idx) >= Checkpoint[found + 1]
  /\ times' = [times EXCEPT ![found + 1] = Time(idx) - Time(start)]
  /\ found' = found + 1 /\ idx' = idx + 1
  /\ UNCHANGED <<hits, start>>

\* The search for the checkpoints from the starting point on, one for a sample.
ScanFound ==
  /\ Analyzing("scan", IF found = 2 THEN "report" ELSE "scan")
  /\ idx < Size /\ Speed(idx) > Checkpoint[found + 1]
  /\ times' = [times EXCEPT ![found + 1] = Time(idx) - Time(start)]
  /\ found' = found + 1 /\ idx' = idx + 1
  /\ UNCHANGED <<hits, start>>

ScanMore ==
  /\ Analyzing("scan", "scan")
  /\ idx < Size /\ ~(Speed(idx) > Checkpoint[found + 1])
  /\ idx' = idx + 1
  /\ UNCHANGED <<hits, start, found, times>>

Scanned ==
  /\ Analyzing("scan", "report")
  /\ idx = Size
  /\ UNCHANGED locals

\* The results are sent and the samples freed.
Report ==
  /\ phase = "report" /\ phase' = "idle" /\ AppStop
  /\ NewLocals
  /\ UNCHANGED now

Next ==
  \/ Begin \/ Restart \/ Work \/ NoSignal \/ Elapse \/ GiveUp \/ MeasureEnds \/ Analyze
  \/ FindMore \/ Found \/ NotFound \/ RefineMore \/ Refined \/ ScanFound \/ ScanMore \/ Scanned \/ Report
  \/ \E speed \in Speeds : \/ WaitStarted(speed) \/ WaitSlow(speed) \/ WaitEmpties(speed)
                           \/ MeasurePass(speed) \/ MeasureSlow(speed) \/ MeasureFinal(speed)

Spec == Init /\ [][Next]_vars

-----------------------------------------------------------------------------
\* Samples are written within the allocated buffer, whatever its capacity and how
\* often it is grown or emptied.
WithinCapacity == Size <= capacity

\* What get_starting_point computes, said without its loops: from the first Jitter
\* samples in a row above the threshold, back to the last but one dip before the
\* end of them, leaving out one sample for the dip that is tolerated.
Dips(upto) == {d \in 0..(upto - 1) : Dip(d)}
Fast(i) == i >= Jitter - 1 /\ \A j \in (i - Jitter + 1)..i : Speed(j) > Threshold
Trigger == CHOOSE i \in 0..(Size - 1) : Fast(i) /\ \A j \in 0..(i - 1) : ~Fast(j)
Last(S) == CHOOSE d \in S : \A e \in S : e <= d
StartingPoint ==
  LET dips == Dips(Trigger)
  IN IF Cardinality(dips) < 2 THEN Cardinality(dips) ELSE Last(dips \ {Last(dips)}) + 2
StartAsSpecified == phase = "scan" => start = StartingPoint

\* Each checkpoint found is timed at the first sample above its speed after the
\* sample of the checkpoint before, and none that can be found is missed.
SampleOf(k) == CHOOSE i \in 0..(Size - 1) : Time(i) - Time(start) = times[k]
TimesAreEarliest ==
  phase = "report" /\ start # None =>
    \A k \in 1..3 :
      LET from == IF k = 1 THEN start ELSE SampleOf(k - 1) + 1
      IN /\ k <= found => /\ SampleOf(k) >= from /\ Speed(SampleOf(k)) > Checkpoint[k]
                          /\ \A i \in from..(SampleOf(k) - 1) : Speed(i) <= Checkpoint[k]
         /\ k = found + 1 => \A i \in from..(Size - 1) : Speed(i) <= Checkpoint[k]

\* The analysis and the measurement go by different samples and comparisons, and the
\* sample that starts a measurement is tested for no checkpoint.  Still, no more
\* checkpoints are reported than have been passed and one for each start: at most one
\* more than passed, if the session was not restarted.
AheadByStarts == phase = "report" => found <= passed + starts

\* Times grow from checkpoint to checkpoint and none is negative, so that what has
\* been found is reported, if no midnight falls between the starting point and the
\* last sample: only a session across midnight loses what it has found.
SameDay == \A i, j \in start..(Size - 1) : i < j => Time(i) < Time(j)
TimesOrdered ==
  \A k \in 1..3 : /\ k > found => times[k] = None
                  /\ k <= found /\ SameDay => /\ times[k] >= 0
                                              /\ k > 1 => times[k] > times[k - 1]
=============================================================================
