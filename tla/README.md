# A verification of aesd-gnssposget in TLA+

The repository measures how long a vehicle takes to reach given speeds. A Linux
tty line discipline (`aesd-gnssposget-driver`) cuts the bytes of a GNSS module
into NMEA sentences; a server (`aesd-gnssposget-server`) reads them, follows one
measurement session at a time, and talks to one client over TCP.

This directory holds TLA+ models of it, TLC runs that check them on small
instances, and proofs, checked by TLAPS, that hold for every instance.
Line numbers are those of the sources under `src/`.

## 1. The system

| component | state | operations | interacts with |
|---|---|---|---|
| server state machine, `gnssposget-server.c` | `current_state`, `run_listener`, `teardown_requested`, the thread handles, `state_mutex` | one handler per state in `server_run`; `listener_task` per client message; `teardown`; the main loop | everything below |
| GNSS data reader, `gnssdata.c` | `run_listener`, `gnssdata_get_status_flag`, `cur_status`, `cur_speed`, three mutexes, a thread handle | `gnssdata_start/stop`, getters; `read_data_task`, `extract_nmea` | reads the line discipline; is read by the server threads |
| acceleration meter, `accelmeter-app.c` | growing array of samples, three checkpoint flags, count of invalid samples, `is_running` | start, stop, add, checkpoints, analyse | called by the server thread only |
| timer, `aesdtimer.c` | start time, `is_running` | start, stop, is elapsed | called by the server thread only |
| client connection, `socket_connections.c` | the descriptors | setup, accept, read (2 s timeout), send | read by the listener, written by listener and server thread |
| process, `main.c` | `is_daemon` | `main`, `signalHandler` | requests the teardown |
| line discipline, `aesd-gnssposget-driver.c` | a kfifo of 16 records; the frame being received; the record being read; a mutex, a spinlock, a wait queue | open, close, receive, read | fed by the tty core, read by `read_data_task` |
| `aesdlog.c`, `typedefs.h`, scripts, Makefiles | none that lasts | logging, build, start-up | not modelled |

Four kinds of threads run in the process: the main thread, the server thread, the
client listener (one per session: `STATE_INIT` creates it, `STATE_DONE` joins it)
and the NMEA reader (one per `gnssdata_start`). `current_state` is written by the
server thread at the end of each handler and by the listener at any time. This is
where the behaviour is hard:

- **requests against handlers**: the listener looks at the state, decides, and
  sets another; the server thread may have moved on in between;
- **sessions against each other**: `STATE_INIT` is accepted in every state,
  `timer_start` and `accelmeter_app_start` do nothing when already running, and
  `gnssdata_start` starts a second reader beside the first;
- **joins**: `gnssdata_stop` and `teardown` join threads by a global handle, from
  several threads, more than once and perhaps before they were created;
- **timeouts** that fire only if the timer runs, **counts** that bound invalid data;
- **the connection**: end of stream, reset, SIGPIPE, and a descriptor closed under
  a thread that reads it;
- in the driver, **two locks for one queue**: the receiver drops the oldest record
  of a full kfifo under the spinlock while a reader may be taking it under the mutex.

What makes each component correct is stated in section 3; `PROJECT.json` lists
the hazards, each at its line, with the properties aimed at it.

## 2. The modules

| module | models | uses |
|---|---|---|
| `ServerApp` | the threads of the server and what they share | its readers keep to `ReaderContract` |
| `ReaderContract` | abstract: one reader thread, as the server relies on it | |
| `GnssData` | the parsing of sentences, samples and status reports | implements `ReaderContract` |
| `NmeaReader` | `read_data_task` and its buffer | extends `SentenceQueue` |
| `SentenceQueue` | abstract: a bounded queue of sentences, read in pieces | |
| `LineDiscipline` | the driver | implements `SentenceQueue` |
| `Accelmeter` | samples, checkpoints and their analysis | |
| `SocketRead` | the read of a line from the client | |
| `Startup` | `main`, the set-up of the socket, signals | |
| `MCServerApp` | the symmetry of readers and a view of the states, for TLC | extends `ServerApp` |
| `ServerAppProofs`, `ServerAppPatientProofs` | theorems for any client, and for one that waits | extend `ServerApp`, the second by way of the first |
| `LineDisciplineProofs`, `LineDisciplineQueueProofs` | theorems about frame and mutex, and about the kfifo and the queue | extend `LineDiscipline`, the second by way of the first |
| `GnssDataProofs`, `NmeaReaderProofs`, `AccelmeterProofs`, `SocketReadProofs` | theorems | each extends its module |

The two abstract modules tie the chain together. From the tty up: the driver is shown
to be a queue; the reader thread is modelled on that queue and shown to extract whole
sentences from it; `GnssData` takes sentences as whole and shows what becomes of
their fields, and that the thread starts, reports and ends as its contract says;
`ServerApp` is shown to use its readers in the way the contract allows.

### ServerApp

The server, listener and main threads, and what they share. `spc`, `lpc` and `mpc`
say where the three threads are; `state`, `run` and `teardown` are
`current_state`, `sm_params.run_listener` and `teardown_requested`; `grun`,
`flag`, `fix`, `handle` and `mutexes` are the globals of `gnssdata.c` and `readers`
the reader threads alive; `accelOn`, `size`, `bad` and `passed` are the
acceleration meter; `timer` is off, young, over 15 s or over 30 s; `inbox` and
`conn` are the connection and `client` is what the client believes of its session.

A handler of `server_run` is one action per outcome that decides (`PollFix`,
`PollTimeout`, `WaitAccelStarted`, `WaitAccelBail`, ...), followed by the steps
other threads can see in the middle of it: each `pthread_join` (`JoinReader`,
`DoneJoined`), `set_state` (`SetState`) and message (`ServerSend`). Three tables,
`AfterJoin`, `NewState` and `AfterSend`, give their order: NO_SIGNAL goes
`nosignal_join`, `nosignal_send`, `finish_set`, as the code calls `gnssdata_stop`,
`send_to_client`, `set_state`; an abort goes `abort_join`, `abort_set`,
`abort_send`. The listener is cut at the same places: between the state it reads
(`ListenerMessage`) and the state it sets (`ListenerAbort`, `ListenerStart`), and
inside its status report. The label a thread waits at is the call it will make next.

Choices that stand for something a reader may look for:

- *A sample* is valid when its timestamp is: `gnssdata_get_speed` multiplies the
  -1.0 of an invalid speed by 1.852, so the server's comparison with -1.0 never
  fails (`gnssdata.c:147`). Whether it is new, fast and valid is free in each poll.
- *A join* waits for its thread. Joining a thread twice, or while another thread
  joins it, is undefined behaviour: it returns or the process crashes. Joining
  before any thread was created follows a null handle: it crashes.
- *The connection* is open, closed by the peer (`fin`), reset, `dead` (a reset
  that has been reported: the next send raises SIGPIPE, which kills) or closed here.
- *Memory*: after `server_run` has returned, `sm_params`, which was on its stack, is
  read by a listener still alive; `ServerReturns` leaves `run` arbitrary.
- *Overlapping readers* share the device and get pieces of its sentences; what one of
  them puts together may start with no known prefix, on which the reader frees its
  text, calls `gnssdata_stop` (a join of itself) and frees it again: `ReaderUnsupported`.
- `STATE_ERROR` is assigned nowhere and left out.

### LineDiscipline

The driver. `ReceiveByte` and `ReceiveSentence` are one byte of
`gnssposget_receive`; `PutOrDrop` to `PutAgain` are `handle_nmea` with the reads and
writes that `kfifo_put` and `kfifo_get` make to `in`, `out` and the slots as steps of
their own, for nothing keeps a reader from running between them. `Call` to `Deliver`
are `gnssposget_read`. A sentence is its number in the order of arrival and a record
has two halves, so a copy overlapped by a write shows as two numbers. `Remember`
keeps the history the properties need: what the last two reads returned, what had
arrived before the device was opened, and whether a drop has overlapped a reader's
`kfifo_get` (`raced`). After such an overlap `out` may pass `in`: `kfifo_len` is unsigned, so
that the kfifo then counts as full (`Full`) and gives a reader whatever its slots hold, until
the device is closed.

### SentenceQueue and LineDiscipline as its implementation

`SentenceQueue` says what the driver promises: sentences leave in order and whole,
read in pieces no longer than asked for; when the queue is full the oldest one goes
first; closing empties it. It keeps one oddity of the code, for its user meets it: a
read needs a sentence in the queue even to return the rest of the one before.

`LineDiscipline!Q` is the refinement mapping. The queue is the contents of the
kfifo between its indices; a sentence counts as sent when `handle_nmea` begins to put
it and as put when `in` has moved; a read takes effect where its record has left the
kfifo (or, for a rest, where it is found), so what `gnssposget_read` still has to
return then counts as returned already. `ImplementsQueue` requires every step to be a step of the
queue, or none, until a drop first overlaps a read: from there on the code is not a
queue any more, which is what the run `discipline_drop` shows.

### NmeaReader

`read_data_task` of successive sessions: the set-up and its failures, `TIOCSETD` (which
opens the discipline unless the tty has it already), the flag that is looked at
between two reads only, the pieces in the buffer, the byte in which the end of a
sentence is looked for, and the close. A text is as long as its record; the byte before the last
is the newline, the last one NUL. `SeemsEnded` is the test of `gnssdata.c:239`: it
looks at the last byte but one of what was read, which for a piece of one byte is in
the piece before, and for a first piece of one byte is in front of the buffer (any
value). With `Overlapping` a second `gnssdata_start` may find the first reader still
there, as the server allows.

For two readers on one device the queue stands for more than `LineDiscipline` is shown
to implement (its refinement is for one); `FitsBuffer`, the only property that speaks
of them, needs no more of a read than that it returns at most what was asked for.

### GnssData

The reader's `extract_nmea`, one step for each field and its lock, against the server
thread that polls the fix, reads speed and timestamp under one lock each, and stops
the reader, and the listener that asks for reports. A datum is the number of
the sentence it came from, which is what the properties compare. A field may be empty, bad,
missing or good. `gnssdata_start` invalidates the status but neither the text made of
it nor speed and timestamp: `base`, the sentences read before the session, tells what is old.
In `Kmh` the conversion to km/h is done as the code does it, marker included. `TakeSample`
follows `accelmeter_app_add_data` and what STATE_WORKING_WAIT_ACCEL does after it: until the
measurement has started (`moving`) a buffer that has grown is emptied, and `IsNew`, which
compares with the last sample still in it, then takes the same sentence again.

### Accelmeter

The samples of a session and its live checkpoints, then `accelmeter_app_analyze_data`,
each turn of each of its loops a step: the search for five samples in a row above the
threshold, the way back to the starting point, the search for the checkpoints. Times
are seconds modulo the day; `Elapse` is a sentence received, and whether it becomes a sample
is free. A start requested in a session (`Restart`) goes back to the poll for a fix, and as
`accelmeter_app_start` does nothing when already running (`AppStart`), the measurement then
begins again with the samples and checkpoints it has; the same happens after a session that
found no signal, which does not stop the application. `starts` counts the measurements
begun on one buffer. `StartingPoint` says without loops what the way back
computes. It shows two things the code does not say: one dip is tolerated, and, since the
step over it does not move the starting point, a tolerated dip leaves the start one
sample later than the rise.

### SocketRead

`socket_connections_read_data_from_client`: select with its timeout, bytes received
one by one into blocks of `DATA_BLOCK_SIZE`, the test for the newline after each.
A client may send a line in parts, stop in the middle, or leave. A newline in the last
byte of a block may be missed: `strcmp` reads on behind the block, so both outcomes are
possible. After a reset, bytes received before it are taken first, then `recv` fails.

### Startup

`main` from the parsing of its arguments to its return, each call of the set-up a step
that may fail and exit; `signalHandler`, which runs in the interrupted main
thread, or, once the server thread exists, beside it, and may itself be interrupted by the
other signal (its mask is empty); and the address list, which the handler frees as well
as main, so that it may be freed twice (undefined: it goes on or crashes) or used
after. What the threads of the server do from `accept` to the end of `teardown()` is
`ServerApp`'s: here `teardown()` is a place main may stay at (`TeardownReturns`, which is not
fair), for its joins may hang.

### MCServerApp and the proofs

`MCServerApp` adds, for the run of any client, the symmetry of the readers and a view
that leaves `client` out: what the client believes guards nothing unless `PatientClient`
holds, so states that differ in it alone behave alike.
The eight `...Proofs` modules hold the theorems of section 4.

## 3. What is checked

**Bounds.** Counters stop one past their bound.

- *Server*: `MaxInbox` messages in flight, `MaxBad = 2` for the 5 invalid samples,
  `Capacity = 1` for the 10 samples of the buffer, two reader threads. Two invalid samples
  tell the tolerated from the last; one sample past the capacity empties the buffer; two
  readers are the least that can be alive at once (a third `gnssdata_start` waits, in the
  model, until one has gone).
- *Driver*: 2 slots instead of 16, frames of 4 or 5 bytes, reads shorter and longer than a
  record, and 3 or 4 sentences: enough to fill the kfifo, drop, wrap around and read
  past the wrap.
- *NmeaReader*: a queue of 2, sentences of 3, 4 and 6 bytes against a chunk of 3 and
  a buffer of 7: a sentence in one piece, one with its NUL in a piece of its own, one of two
  full pieces, and a buffer that holds any sentence but not two of the longest. Three
  sentences and two readers.
- *GnssData*: three sentences in two sessions: a sentence of the old session, one
  that is being parsed when it ends and one of the new. Speeds are none and 5 knots. The
  buffer has room for one sample at first, so that a slow one can empty it.
- *Accelmeter*: seven seconds and so up to 7 samples, of four speeds: below the threshold, at
  the first checkpoint, above the second and above the third. Five samples make a start and two more dip
  before or pass after it, a session may be restarted between any two, and seconds may pass
  without a sample; the initial capacity is 2, so that the buffer is doubled twice. A
  day of 9 seconds, begun at the fourth, ends after five, so that a session with a start may
  be over before midnight or not; all samples on a buffer have different times.
- *SocketRead*: blocks of 3 for 512 bytes and lines of 1 to 7 bytes: shorter, just as
  long and longer than one block and than two. Three lines.
- *Startup*: two signals, sent up to four times: each of them in the middle of the
  other's handler, and again.

Deadlock is checked in the driver's runs and in `accel_day`. It is not in the others:
the process may crash or end, a client may fall silent, sentences and sessions run out
at their bounds.

| run | shows |
|---|---|
| `server_any_client` | Any client at any time, who may also close or reset the connection: a state that waits has its timer running (`TimerArmed`); a session has a reader it can join and live mutexes (`SessionOwnsReader`), an allocated buffer with the sample that started it (`BufferAlive`), and a raised status flag while it polls for the fix although listeners raise and clear the same flag (`PollSeesStatus`); a waiting server has a listener that has neither ended nor been told to stop, though it may be in the endless loop at the end of the stream (`IdleListens`) and a finished session left none behind (`NoDoubleListener`). |
| `server_patient_client` | A client that waits for the end of a session: sessions end (`SessionTerminates`), the server then waits again (`SessionsFollow`), and a start request it finds while waiting is served (`IdleStartServed`; one that arrives earlier may be lost). The next session starts with no timer, buffer or reader of the last (`CleanStart`); an abort that finds the server between two handlers is answered, and one that is lost to the `set_state` of a handler under way, hence not answered, still has its session end (`AbortAnswered`); readers are started one after the other and used as their contract says (`UsesOneReader`); and the only join that can go wrong is that of an abort set after a handler has stopped the reader, which stops it again (`NoBadJoin`). |
| `server_teardown` | The client stays connected, waits for the end of its session and does not abort it. A signal then makes main leave (`TeardownCompletes`), except when the server thread starts a session just between main's `gnssdata_stop` and its own next look at the flag: the reader then never hears of the stop and main's join hangs. The exception is part of the property. |
| `discipline_reader` | One reader: nothing is written out of bounds (`WithinBuffers`), and, as long as no drop overlaps a `kfifo_get` of the reader, the reads return whole sentences in order, piece by piece (`ReadsWholeSentences`), and the discipline is a `SentenceQueue`, which never holds more than its slots and loses only its oldest, only when full (`ImplementsQueue`). |
| `discipline_shared` | Two readers: the mutex excludes (`Exclusive`) and records are handed out whole and never backwards (`SharedInOrder`), although a reader that was woken does not look again whether there is still data. |
| `nmea_reader` | However the sentences are cut, whatever is dropped and wherever a session ends, a reader that has the device to itself hands `extract_nmea` one whole sentence at a time, later each time (`WholeSentences`), and no reader is ever offered more room than its buffer has (`FitsBuffer`), even two that share a device. |
| `gnss_reader` | A sample's speed is never newer than its time, though it may be older (`SpeedNotAhead`); its time is of the session (`TimestampOfSession`); samples go forward, and only the first after an emptied buffer may repeat the time of the last one freed (`SamplesAdvance`); nothing of the last session is reported, although its text is kept (`ReportOfSession`); and the reader, under its scheduling, is what `ReaderContract` says, its end included (`KeepsContract`). |
| `accel_day` | Samples stay within the buffer (`WithinCapacity`); the loops find what the definitions without loops say (`StartAsSpecified`, `TimesAreEarliest`); the analysis finds no more checkpoints than the measurement has passed and one for each time it was started, because the sample that starts a measurement is tested for none (`AheadByStarts`); times are ordered and none is negative unless a midnight falls among the samples (`TimesOrdered`). |
| `socket_read` | Two lines are never mixed (`OneLine`); only a line as long as full blocks can be missed (`MissesFullBlocksOnly`); a whole request is handed over whatever lines came before, unless the listener is told to stop (`RequestsServed`); a read comes back except in two waits (`ReadsReturn`): a line its client does not finish, since the timeout is given to `select` only, and the end of the stream, since `recv` then returns 0, which is not `FAIL`. |
| `process_signals` | A signal that finds the process waiting for its client ends it, and one that finds it serving it gets it to `teardown()`, and to its end if that returns (`server_teardown` says when), though handlers may be nested and the address list freed twice; one that comes just before `accept` leaves a request that is found when a client connects (`SignalsEnd`). One that comes earlier, during the set-up, is forgotten: `gnssposget-server.c:108`. |

Two runs end in a violation: each checks what a comment or a message of the source says,
and the code does otherwise.

| run | the source says | the code |
|---|---|---|
| `discipline_drop` | "Dropping oldest element" (`aesd-gnssposget-driver.c:193`) | may hand a reader half of one record and half of another (`DropsOldestOnly`) |
| `gnss_invalid_speed` | "Get speed & timestamp data and validate it" (`gnssposget-server.c:281`) | takes an invalid speed for a sample: -1.0 has become -1.852 (`SpeedsValidated`) |

The models follow the code in other places where its words say something else. The
properties above are stated around them, so that each says up to where the words hold:

| the source says | the code, and where it is in the models |
|---|---|
| a read returns TRUE or FALSE, also after its timeout (`socket_connections.c:155`) | see `ReadsReturn` |
| reads data "and stores it in a buffer" (`socket_connections.c:149`) | returns the last block of a long line only: `OneLine` speaks of the end of a line |
| "No valid data received" (`gnssposget-server.c:403`) | is said when all checkpoints have been passed, and discards them: `MeasureBail` |
| "allowed instances" (`accelmeter-app.h:11`), "exceeded" (`gnssposget-server.c:325`) | gives up at the fifth of five: `WaitAccelBail`, `MeasureBail` |
| "skip possible old data" (`gnssposget-server.c:238`) | reads it, which leaves it there: a first sample may have the speed, never the time, of the session before (`TimestampOfSession`) |
| "Passed checkpoint %d" (`gnssposget-server.c:366`) | may be followed by "not reached", for the analysis asks for more than the checkpoint's speed, and, like the measurement, takes at most one for a sample: `TimesAreEarliest` |
| "seconds since midnight" (`gnssdata.c:439`) | a checkpoint found after a midnight has a negative time and is said not to be reached: `TimesOrdered` |
| "Block until data is available" (`aesd-gnssposget-driver.c:124`) | also blocks when the rest of a record is there: `Read` of `SentenceQueue` |
| "Caught signal, exiting..." (`main.c:91`) | a signal during the set-up is forgotten, and the joins of `teardown()` may hang: `SignalsEnd`, `TeardownCompletes` |

**Fairness** is stated in `FairSpec` and used by the runs with a liveness property only.

- *ServerApp*: weak fairness of the server, listener and main threads, which the kernel schedules
  and of which the first two poll and the third sleeps for a second at a time; of the
  clock; and of a reader told to stop, which returns from its `read` only because the GNSS
  module keeps sending. The last is an assumption on the hardware: were the module silent,
  `gnssdata_stop` would wait for ever. Nothing is assumed of the client, of signals, or
  that a fix is found; a session that gets none ends by its timeout.
- *GnssData*: weak fairness of the reader thread, with the same assumption on its `read`.
- *SocketRead*: weak fairness of the listener. Nothing is assumed of the client: it may
  pause in the middle of a line for ever.
- *Startup*: weak fairness of the handlers and of main, but not of its `accept`, which waits
  for a client that need not come, nor of the return of `teardown()`.

Weak fairness of a whole thread, and not of each action, is what a scheduler gives:
which way a handler goes is never forced.

## 4. What is proved

`ServerAppProofs` (for all sets of readers and requests, all bounds and any client):

- `TypeCorrect`, `TimerSafety`, `IdleSafety`, `ListenerSafety`, `ReaderSafety`,
  `BufferSafety`, `PollSafety`: `TypeOK`, `TimerArmed`, `IdleListens`,
  `NoDoubleListener`, `SessionOwnsReader`, `BufferAlive` and `PollSeesStatus` hold in
  every reachable state, all from the one invariant of `Inductive`.

The properties speak of a *settled* server thread, at the top of its loop or in the
act of choosing a handler, before any teardown is requested (from then on `teardown()`
runs beside it and may take anything away); that is not inductive, for what a new state promises was
established steps before, by the handler that leads to it. `IInv` adds the missing
part: `Prepared` says what a handler holds on its way to its `set_state` (a running
timer and a reader at `start_set`, a live buffer with a sample at `measured_set`,
...), and survives a request that changes the state under it; `BetweenSessions`
says that from `STATE_DONE`'s join to the next `STATE_WAITING_FOR_CLIENT` no
listener exists, so that nobody else sets the state; `ReportExcludesPoll` that a
listener inside a status report and a server polling for a fix exclude each other,
which is why the report's clearing of the flag never hits the poll; `MainAsleep`
that main interferes only after a teardown. The proof has a lemma per thread, and in
it a step per action: first the types (the Boolean variables on their own, a matter
of the provers), then the rest.

`ServerAppPatientProofs` (for all sets of readers and requests and all bounds, with an
`inbox` of any length):

- `StartSafety`: `CleanStart`, for a client that waits for the end of a session before it
  starts the next, whether it stays or leaves. A client's belief is far from what
  the server thread holds, so `PatientInv` follows a request all the way: in the inbox
  starts and aborts occur once and in order (`InboxInOrder`), a request is in the inbox, in the
  listener's hands, in `current_state` or with its handler, and in one of these only
  (`Apart`), and while a start is on its way no session is left (`Knows`, `Stages`: before
  the message that ends a session is sent, timer, buffer and reader are gone). A teardown
  disturbs this from the next handler on, so it is claimed up to there;
- `ContractUse`: `UsesOneReader`, the safety part of the contract as the server's own
  obligation: a reader is started when none is alive, and changes its fix only while asked;
- `JoinSafety`: `NoBadJoin`. For a client that also stays and no signal, `StayingInv` adds that
  no read or send fails (`NoError`) and that every join but an abort's has its thread
  (`Joinable`).

`LineDisciplineProofs` (for all sizes, prefixes and sets of readers):

- `BufferSafety`: `WithinBuffers`, inductive with the types of what it names,
  because only `gnssposget_receive` touches the frame;
- `MutexSafety`: if waits are not interrupted, `Exclusive`. The assumption is
  needed: an interrupted wait unlocks a mutex its thread does not hold.

`LineDisciplineQueueProofs` (for all kfifo sizes, prefixes, lengths and sizes of reads):

- `TypeCorrect`: `TypeOK`, with nothing assumed. That a record has the length of some sentence
  is not local to a step: every slot holds the number of a sentence, or is as it was at first;
- `SharingOrder`: `SharedInOrder`, if there is one reader or waits are not interrupted
  (`Orderly`). While nothing has raced, `OrderInv` says that the records between `out` and
  `in` are the latest sentences in order, at their numbers modulo `Size`; what the receiver has
  looked at before its next access still holds; and what a reader has
  copied is what it is about to remove, no older than what has been returned;
- `WholeSentences`: `ReadsWholeSentences`, for one reader (`OneReader`), with what is kept in
  `nmea_temp` between two reads: the rest of the sentence last returned, or nothing;
- `QueueRefinement`: `ImplementsQueue`, for one reader: from that invariant, each step of
  the driver maps to a step of `SentenceQueue` or to none. That the records in
  the kfifo never share a slot is the arithmetic of it: numbers less than `Size` apart have
  different remainders.

`OneReader` is what the server does with a patient client (`ContractUse`): one reader thread
has the device open, and nobody else reads through the discipline. `Orderly` adds any number
of readers that no signal interrupts; with interrupted waits and more than one reader
the mutex itself fails.

`NmeaReaderProofs` (for all queue sizes, lengths, chunks, buffers and sets of readers):

- `TypeCorrect`: `TypeOK`;
- `FitsSafety`: `FitsBuffer`. What is in a buffer, or will be when a piece has been
  checked, is bounded for each reader on its own, whoever else reads;
- `WholeSafety`: `WholeSentences`. `LoneInv` is the strengthening, and holds while no
  reader has met another: the pieces in a buffer are a chain from the start of one
  sentence, and either complete it or leave a rest that continues it; whatever is queued
  came later; a reader without pieces finds no rest (the reader before it has closed
  the device, and the new one attaches the discipline afresh). The first piece of a chain is
  never a single byte, because a sentence has more than one and a chunk too; so the
  byte looked at is never the one in front of the buffer, and it is the newline exactly
  when the last piece ends the sentence, also when that piece is the NUL alone.

`GnssDataProofs` (for all speeds and any number of sentences and sessions):

- `TypeCorrect`, `PairSafety`, `TimestampSafety`, `ReportSafety`, `AdvanceSafety`:
  `TypeOK`, `SpeedNotAhead`, `TimestampOfSession`, `ReportOfSession`, `SamplesAdvance`. `IInv`
  adds the order in which a sentence is stored (`TimeFirst`: its time is in place
  before its speed) and what a fix brings along (`FixOfSession`: where there is a fix
  of this session, the text and the time are of it too). For `SamplesAdvance`, `TimeFirst` says
  besides that the stored time is no older than the last sample's;
- `ContractSafety`: every behaviour is one of `ReaderContract`, by its steps.

`AccelmeterProofs` (for all speeds, capacities and any number of samples):

- `CapacitySafety`: `WithinCapacity`. The strengthening is that the buffer has a
  capacity while the application runs, for doubling nothing gives nothing, and no samples
  when it does not;
- `TimesSafety`: `TimesOrdered`. The strengthening is that the loops stay within the samples and,
  when the samples from the starting point on grow in time, that what the scan has
  yet to look at is later than what it has found;
- `AheadSafety`: `AheadByStarts`. `AheadInv` says what the two sides mean in samples: if there
  are samples that reach the first one, two or three checkpoints one after the other, as many
  have been passed or starts made (`PassedInv`: a sample at a checkpoint passes it unless it
  starts a measurement, whatever restarts come between); what has been found, samples have
  exceeded in that order (`FoundInOrder`);
- `StartSafety`: `StartAsSpecified`, one invariant for each loop: `RowInv` for the search (the
  length of the current row, and no full row before), `BackInv` for the way back (the sample
  that ended the row, and none or one dip since), `StartInv` for what is left of
  them. What they name by a witness, `StartingPoint` names by `CHOOSE` and `Cardinality`;
- `EarliestSafety`: `TimesAreEarliest` where the samples are taken within a day (`WithinDay`).
  `ScanInv` carries a witness of the samples at which the checkpoints were found;
  the property reads them off the reported times, which determine a sample because samples
  are taken at growing times (`Clock`) less than a day apart (`TimesDistinct`). Samples over
  more than a day may have two of one time, hence the condition.

`SocketReadProofs` (for all block sizes and lengths of lines):

- `OneLineHanded`, `OnlyFullBlocksMissed`: `OneLine` and `MissesFullBlocksOnly`. `LineInv`
  says what a block is: the latest bytes of one line, from a multiple of the block's size on,
  while it is filled (`Filling`) and when it is handed over (`Filled`); that a read begins at
  the start of a line (`Between`); and that of the lines passed each has been handed over, is
  in hand, or ended with a block (`Handed`).

The proofs assume what the modules assume of their constants (named `...Assumption`),
and beyond it only what is said above.

Only model-checked: the liveness properties (`AbortAnswered`, `SessionTerminates`, `SessionsFollow`,
`IdleStartServed`, `TeardownCompletes`, `RequestsServed`, `ReadsReturn`, `SignalsEnd`) and
the fair part of `KeepsContract`, since temporal reasoning with fairness is out of the
prover's reach. Every safety property of a passing run is the statement of a
theorem; `SharedInOrder`, `ReadsWholeSentences`, `ImplementsQueue`, `Exclusive`, `UsesOneReader`
and `TimesAreEarliest` under the conditions given above.

## 5. What is not modelled

- *Logging* (`aesdlog.c`) and the common types: no state that lasts. *Scripts and build files*:
  the exit code of `gnss_module_start.sh` reaches the models as a failing set-up.
- *The contents of sentences*: digits, field separators and checksums, which the code
  does not verify. A field is good, bad, empty or missing.
- *The texts of messages*: refused arguments, the results that are sent. Only what they
  decide is modelled.
- *Failing allocations*, of which some exit and some are not looked at, and running out
  of memory, though the loop at the end of a stream allocates each time round; a
  failing `select`.
- *In the driver*: the registration of the discipline and the failures of its open, straight-line
  code without effect on what is modelled; the ACTIVE flag, which nothing reads and
  `close` sets in memory it has freed. This is why the component is listed as partly modelled.
- *In `gnssdata.c`*: the mutex around `read()`, which one thread takes and nobody
  else; the debug file of the acceleration meter, which is compiled out.

## 6. Plan

What is left to do, most useful first:

1. The pieces of the chain composed in one statement: that a `SentenceQueue` with the
   sizes of the driver is what `NmeaReader` starts from, so that `WholeSentences` follows for
   the discipline itself.
2. `TimesAreEarliest` also of samples over more than a day, by a statement of the property that does not
   read samples off their times.
3. `JoinSafety` with signals, from what main has joined already.
