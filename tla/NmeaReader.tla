----------------------------- MODULE NmeaReader -----------------------------
(***************************************************************************)
(* read_data_task of gnssdata.c on top of the line discipline: the reader  *)
(* threads of successive sessions open the tty, attach the discipline, put *)
(* the pieces that their reads return together, and extract a sentence at  *)
(* every piece that seems to end one.  The line discipline is taken for    *)
(* the queue it implements (SentenceQueue).                                *)
(*                                                                         *)
(* A sentence is a number, and its text as long as its record: the byte    *)
(* before the last one ends the line, the last one is NUL.  The tty core   *)
(* returns one piece to each read(), of at most Chunk bytes.               *)
(***************************************************************************)
EXTENDS SentenceQueue, FiniteSets

CONSTANTS Readers,      \* identities of reader threads
          Chunk,        \* the buffer of the tty core
          BufferSize,   \* sizeof(buffer)
          Overlapping,  \* a reader may be started while another has not returned
          MaxSentences  \* bound: sentences queued in a behaviour

ASSUME ReaderAssumption ==
  /\ Chunk \in Nat \ {0, 1} /\ BufferSize \in Nat /\ MaxSentences \in Nat
  /\ \A len \in Lengths : len > 1 /\ len <= BufferSize
  /\ ReadSizes = 1..Chunk /\ Overlapping \in BOOLEAN

VARIABLES
  run,       \* run_listener
  pc,        \* where each reader is in read_data_task
  open,      \* the readers that hold the tty open
  buffer,    \* the pieces in each reader's buffer
  count,     \* read_count: the bytes in it
  extracted, \* the pieces that were last handed to extract_nmea
  latest,    \* the sentence extracted before
  alone      \* history: no reader has met another

readerVars == <<run, pc, open, buffer, count, extracted, latest, alone>>
vars == <<queueVars, readerVars>>

Alive == {r \in Readers : pc[r] # "none"}

Init ==
  /\ QueueInit /\ ~attached
  /\ run = FALSE /\ pc = [r \in Readers |-> "none"] /\ open = {}
  /\ buffer = [r \in Readers |-> << >>] /\ count = [r \in Readers |-> 0]
  /\ extracted = << >> /\ latest = 0 /\ alone = TRUE

-----------------------------------------------------------------------------
(***************************************************************************)
(* gnssdata_start and gnssdata_stop.                                       *)
(***************************************************************************)
Start(r) ==
  /\ pc[r] = "none" /\ (Overlapping \/ Alive = {})
  /\ run' = TRUE /\ pc' = [pc EXCEPT ![r] = "setup"]
  /\ alone' = (alone /\ Alive = {})
  /\ UNCHANGED <<queueVars, open, buffer, count, extracted, latest>>

Stop == /\ run /\ run' = FALSE
        /\ UNCHANGED <<queueVars, pc, open, buffer, count, extracted, latest, alone>>

-----------------------------------------------------------------------------
(***************************************************************************)
(* read_data_task.                                                         *)
(***************************************************************************)
Goes(r, from, to) == /\ pc[r] = from /\ pc' = [pc EXCEPT ![r] = to]
                     /\ UNCHANGED alone

\* The start script or the open fails: the reader goes on, to the ioctl that fails
\* for want of a device, or to the next look at the flag.
Setup(r) ==
  /\ Goes(r, "setup", "attach")
  /\ \/ open' = open \cup {r} /\ run' \in {run, FALSE}
     \/ run' = FALSE /\ UNCHANGED open
  /\ UNCHANGED <<queueVars, buffer, count, extracted, latest>>

\* TIOCSETD opens the discipline unless it is the one the tty has; when it fails
\* the device is closed and the flag cleared.
AttachDiscipline(r) ==
  /\ Goes(r, "attach", "top")
  /\ \/ r \in open /\ attached /\ UNCHANGED <<queueVars, run, open>>
     \/ r \in open /\ Attach /\ UNCHANGED <<run, open>>
     \/ (r \notin open \/ ~attached) /\ run' = FALSE /\ open' = open \ {r}
        /\ UNCHANGED queueVars
  /\ UNCHANGED <<buffer, count, extracted, latest>>

\* The flag is looked at between two reads only.
LoopTop(r) ==
  /\ IF run THEN Goes(r, "top", "read") ELSE Goes(r, "top", "close")
  /\ UNCHANGED <<queueVars, run, open, buffer, count, extracted, latest>>

Room(r) == BufferSize - count[r]

\* The read fails, interrupted or for want of a device, or returns nothing, for
\* nothing was asked for.
ReadFails(r) ==
  /\ Goes(r, "read", "top") /\ run' = FALSE
  /\ UNCHANGED <<queueVars, open, buffer, count, extracted, latest>>

\* Mutant: the room left in the buffer is not looked at.
ReadPieceAnyway(r) ==
  /\ Goes(r, "read", "check") /\ r \in open
  /\ Read(Chunk)
  /\ buffer' = [buffer EXCEPT ![r] = Append(@, piece')]
  /\ UNCHANGED <<run, open, count, extracted, latest>>

ReadPiece(r) ==
  /\ Goes(r, "read", "check") /\ r \in open /\ Room(r) > 0
  /\ Read(IF Room(r) < Chunk THEN Room(r) ELSE Chunk)
  /\ buffer' = [buffer EXCEPT ![r] = Append(@, piece')]
  /\ UNCHANGED <<run, open, count, extracted, latest>>

\* Whether the byte of a piece at position i, from 0, ends a line.
EndsLine(p, i) == p.from + i = sent[p.id] - 2

LastOf(r) == buffer[r][Len(buffer[r])]

\* Mutant: the end is looked for at the last byte of the piece, which is NUL.
SeemsEndedAtLast(r) == {EndsLine(LastOf(r), LastOf(r).size - 1)}

\* buffer[read_count + (ret - 2)]: a byte of the last piece, of the piece before,
\* or, when there is none, whatever precedes the buffer.
SeemsEnded(r) ==
  LET p == LastOf(r)
      before == buffer[r][Len(buffer[r]) - 1]
  IN IF p.size > 1 THEN {EndsLine(p, p.size - 2)}
     ELSE IF Len(buffer[r]) > 1 THEN {EndsLine(before, before.size - 1)}
     ELSE BOOLEAN

Extract(r) ==
  /\ Goes(r, "check", "top") /\ TRUE \in SeemsEnded(r)
  /\ extracted' = buffer[r] /\ latest' = IF extracted = << >> THEN 0 ELSE extracted[1].id
  /\ buffer' = [buffer EXCEPT ![r] = << >>] /\ count' = [count EXCEPT ![r] = 0]
  /\ UNCHANGED <<queueVars, run, open>>

KeepPiece(r) ==
  /\ Goes(r, "check", "top") /\ FALSE \in SeemsEnded(r)
  /\ count' = [count EXCEPT ![r] = @ + LastOf(r).size]
  /\ UNCHANGED <<queueVars, run, open, buffer, extracted, latest>>

\* Mutant: the thread returns and leaves the device open.
CloseDeviceNever(r) ==
  /\ Goes(r, "close", "none")
  /\ buffer' = [buffer EXCEPT ![r] = << >>] /\ count' = [count EXCEPT ![r] = 0]
  /\ UNCHANGED <<queueVars, open, run, extracted, latest>>

\* The thread returns; the last close of the tty closes the discipline.
CloseDevice(r) ==
  /\ Goes(r, "close", "none")
  /\ open' = open \ {r}
  /\ IF open = {r} /\ attached THEN Detach ELSE UNCHANGED queueVars
  /\ buffer' = [buffer EXCEPT ![r] = << >>] /\ count' = [count EXCEPT ![r] = 0]
  /\ UNCHANGED <<run, extracted, latest>>

ReaderStep(r) == \/ Setup(r) \/ AttachDiscipline(r) \/ LoopTop(r) \/ ReadFails(r)
                 \/ ReadPiece(r) \/ Extract(r) \/ KeepPiece(r) \/ CloseDevice(r)

\* The GNSS module sends; a full queue loses its oldest sentence first.
Arrive(len) == Len(sent) < MaxSentences /\ Put(len) /\ UNCHANGED readerVars
Overflow == Len(sent) < MaxSentences /\ Drop /\ UNCHANGED readerVars

Next == \/ Stop \/ Overflow \/ (\E len \in Lengths : Arrive(len))
        \/ \E r \in Readers : Start(r) \/ ReaderStep(r)

Spec == Init /\ [][Next]_vars

-----------------------------------------------------------------------------
TypeOK ==
  /\ attached \in BOOLEAN /\ run \in BOOLEAN /\ alone \in BOOLEAN
  /\ sent \in Seq(Lengths) /\ queue \in Seq(Nat) /\ Len(queue) <= Size
  /\ rest \in [id : Nat, from : Nat, left : Nat]
  /\ piece \in [id : Nat, from : Nat, size : Nat]
  /\ pc \in [Readers -> {"none", "setup", "attach", "top", "read", "check", "close"}]
  /\ open \subseteq Alive
  /\ buffer \in [Readers -> Seq([id : Nat, from : Nat, size : Nat])]
  /\ count \in [Readers -> Nat]
  /\ extracted \in Seq([id : Nat, from : Nat, size : Nat]) /\ latest \in Nat

\* While readers follow one another, what extract_nmea is given is one sentence,
\* whole, and later than the one before: whatever is dropped, wherever a session
\* was stopped, and however the pieces fell.
WholeSentences ==
  alone /\ extracted # << >> =>
    LET last == extracted[Len(extracted)]
    IN /\ extracted[1].from = 0 /\ extracted[1].id > latest
       /\ \A i \in 2..Len(extracted) :
            /\ extracted[i].id = extracted[1].id
            /\ extracted[i].from = extracted[i - 1].from + extracted[i - 1].size
       /\ last.from + last.size = sent[last.id]

\* No read is given more room than the buffer has, though readers that share the
\* device may put pieces together for as long as none of them ends a line.
FitsBuffer ==
  \A r \in Readers : count[r] + (IF pc[r] = "check" THEN LastOf(r).size ELSE 0) <= BufferSize

=============================================================================
