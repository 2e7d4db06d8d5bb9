--------------------------- MODULE LineDiscipline ---------------------------
(***************************************************************************)
(* The tty line discipline of aesd-gnssposget-driver.c.  The tty core      *)
(* hands it received bytes (gnssposget_receive); it cuts them into         *)
(* sentences and queues the ones it knows in a kfifo, dropping the oldest  *)
(* when the kfifo is full (handle_nmea).  Threads of the server read them  *)
(* back, a piece at a time (gnssposget_read).                              *)
(*                                                                         *)
(* Receiving is serialised by a spinlock, reading by a mutex, and nothing  *)
(* serialises the two: the accesses that kfifo_put and kfifo_get make to   *)
(* in, out and the slots are steps of their own.  A sentence is a number,  *)
(* its position in the order of arrival; a record is copied in two halves, *)
(* so that a copy overlapped by a write can be seen.                       *)
(***************************************************************************)
EXTENDS Integers, Sequences, FiniteSets

CONSTANTS ReaderThreads, \* the threads that may call read
          Nobody,        \* holder of a free mutex
          Size,          \* CIRC_BUFFER_SIZE
          MaxLength,     \* NMEA_MAX_LENGTH
          PrefixLength,  \* NMEA_LEN
          ReadSizes,     \* the sizes the tty core asks for
          MayInterrupt,  \* a signal may interrupt a blocked read
          MaxSentences   \* bound: sentences queued in a behaviour

ASSUME SizeAssumption == Size \in Nat /\ Size > 1
ASSUME LengthAssumption == /\ PrefixLength \in Nat /\ PrefixLength > 0
                           /\ MaxLength \in Nat /\ MaxLength > PrefixLength + 1
ASSUME ReadAssumption == ReadSizes \subseteq Nat \ {0} /\ MayInterrupt \in BOOLEAN
ASSUME NobodyAssumption == Nobody \notin ReaderThreads
ASSUME BoundAssumption == MaxSentences \in Nat

VARIABLES
  attached,    \* the discipline is open on the tty
  valid, index,\* nmeatxt->valid_frame, nmeatxt->index
  sent,        \* length of each sentence given to kfifo_put, by its number
  wpc, wout,   \* where the receiver is in handle_nmea; the out it has loaded
  in, out,     \* the indices of nmea_kfifo
  slots,       \* its records, each in two halves
  mutex,       \* holder of mutex_lock
  temp,        \* nmea_temp: the record being read and what is left of it
  rpc, nr,     \* where each reader is in gnssposget_read; the size it asked for
  rout,        \* the out each reader has loaded
  pieces,      \* history: what the last two reads since open have returned
  base,        \* history: the last sentence before open
  raced        \* history: a drop has overlapped a reader's kfifo_get

frame == <<valid, index>>
receiver == <<frame, sent, wpc, wout>>
reader == <<mutex, temp, rpc, nr, rout, pieces>>
history == <<base, raced>>
vars == <<attached, receiver, in, out, slots, reader, history>>

Slot(i) == i % Size
\* kfifo_len, but for its sign: in the code a difference below 0 wraps to a huge
\* one, so that a kfifo whose out has overtaken its in counts as full.
Backlog == in - out
Full == Backlog \notin 0..(Size - 1)
EmptyRecord == [head |-> 0, tail |-> 0, from |-> 0, len |-> 0, partial |-> FALSE]
Getting == {"copy_head", "copy_tail", "load_out", "store_out"}
Dropping == {"drop", "load_out", "store_out", "put_again", "fill_again", "finish_again"}

Init ==
  /\ attached = TRUE
  /\ valid = FALSE /\ index = 0
  /\ sent = << >> /\ wpc = "idle" /\ wout = 0
  /\ in = 0 /\ out = 0 /\ slots = [i \in 0..(Size - 1) |-> [head |-> 0, tail |-> 0]]
  /\ mutex = Nobody /\ temp = EmptyRecord
  /\ rpc = [r \in ReaderThreads |-> "idle"]
  /\ nr = [r \in ReaderThreads |-> 0]
  /\ rout = [r \in ReaderThreads |-> 0]
  /\ pieces = << >> /\ base = 0 /\ raced = FALSE

-----------------------------------------------------------------------------
(***************************************************************************)
(* gnssposget_receive: one byte, under the spinlock.  A byte is the start  *)
(* of a sentence, an end of line or anything else.  handle_nmea queues a   *)
(* finished sentence when its prefix matches, which an end of line is      *)
(* never part of.                                                          *)
(***************************************************************************)
Bytes == {"$", "eol", "other"}

\* Mutant: the guard leaves no room for the terminating NUL.
ReceiveByteNoRoom(b) ==
  LET open == valid \/ b = "$"
      at   == IF b = "$" THEN 0 ELSE index
  IN /\ attached /\ wpc = "idle"
     /\ CASE ~open -> UNCHANGED frame
          [] open /\ at >= MaxLength -> valid' = FALSE /\ index' = 0
          [] open /\ at < MaxLength /\ b # "eol" -> valid' = TRUE /\ index' = at + 1
          [] OTHER -> valid' = FALSE /\ index' = 0
     /\ UNCHANGED <<attached, sent, wpc, wout, in, out, slots, reader>>

\* Nothing is kept while no frame is open; a frame too long is given up.
ReceiveByte(b) ==
  LET open == valid \/ b = "$"
      at   == IF b = "$" THEN 0 ELSE index
  IN /\ attached /\ wpc = "idle"
     /\ CASE ~open -> UNCHANGED frame
          [] open /\ at >= MaxLength - 1 -> valid' = FALSE /\ index' = 0
          [] open /\ at < MaxLength - 1 /\ b # "eol" -> valid' = TRUE /\ index' = at + 1
          [] OTHER -> valid' = FALSE /\ index' = 0
     /\ UNCHANGED <<attached, sent, wpc, wout, in, out, slots, reader>>

\* An end of line that finishes a sentence of a known kind: the terminating
\* NUL is appended after it.
ReceiveSentence ==
  /\ attached /\ wpc = "idle"
  /\ valid /\ index < MaxLength - 1 /\ index + 1 > PrefixLength
  /\ Len(sent) < MaxSentences
  /\ sent' = Append(sent, index + 2)
  /\ valid' = FALSE /\ index' = 0
  /\ wpc' = "put"
  /\ UNCHANGED <<attached, wout, in, out, slots, reader>>

Receiver(from, to) == wpc = from /\ wpc' = to /\ UNCHANGED <<attached, frame, sent, reader>>

\* Mutant: the oldest record is dropped while there is room for one more.
PutOrDropEarly ==
  /\ IF Backlog \notin 0..(Size - 2) THEN Receiver("put", "drop") ELSE Receiver("put", "fill")
  /\ UNCHANGED <<wout, in, out, slots>>

\* kfifo_put: fails when full; else it writes the record, then advances in.
PutOrDrop ==
  /\ IF Full THEN Receiver("put", "drop") ELSE Receiver("put", "fill")
  /\ UNCHANGED <<wout, in, out, slots>>

Fill ==
  /\ Receiver("fill", "finish") \/ Receiver("fill_again", "finish_again")
  /\ slots' = [slots EXCEPT ![Slot(in)].head = Len(sent)]
  /\ UNCHANGED <<wout, in, out>>

Finish ==
  /\ Receiver("finish", "idle") \/ Receiver("finish_again", "idle")
  /\ slots' = [slots EXCEPT ![Slot(in)].tail = Len(sent)]
  /\ in' = in + 1
  /\ UNCHANGED <<wout, out>>

\* "kfifo full! Dropping oldest element": kfifo_get by the receiver, which
\* throws the record away, then kfifo_put once more, its result ignored.
DropCheck ==
  /\ IF Backlog = 0 THEN Receiver("drop", "put_again") ELSE Receiver("drop", "load_out")
  /\ UNCHANGED <<wout, in, out, slots>>

DropLoad ==
  /\ Receiver("load_out", "store_out")
  /\ wout' = out
  /\ UNCHANGED <<in, out, slots>>

DropStore ==
  /\ Receiver("store_out", "put_again")
  /\ out' = wout + 1 /\ wout' = 0
  /\ UNCHANGED <<in, slots>>

PutAgain ==
  /\ IF Full THEN Receiver("put_again", "idle")
             ELSE Receiver("put_again", "fill_again")
  /\ UNCHANGED <<wout, in, out, slots>>

ReceiverStep == \/ ReceiveSentence \/ (\E b \in Bytes : ReceiveByte(b))
                \/ PutOrDrop \/ Fill \/ Finish \/ DropCheck \/ DropLoad \/ DropStore \/ PutAgain

-----------------------------------------------------------------------------
(***************************************************************************)
(* gnssposget_read.                                                        *)
(***************************************************************************)
Reader(r, from, to) ==
  /\ rpc[r] = from /\ rpc' = [rpc EXCEPT ![r] = to]
  /\ UNCHANGED <<attached, receiver, in, slots>>

Call(r, n) ==
  /\ attached /\ Reader(r, "idle", "lock")
  /\ nr' = [nr EXCEPT ![r] = n]
  /\ UNCHANGED <<out, mutex, temp, rout, pieces>>

\* Mutant: a reader that finds data goes on without the mutex.
LockReleasing(r) ==
  /\ mutex = Nobody
  /\ IF Backlog = 0 THEN Reader(r, "lock", "wait") ELSE Reader(r, "lock", "get")
  /\ UNCHANGED <<out, mutex, temp, nr, rout, pieces>>

\* The first critical section only looks whether there is data; a reader that
\* finds none gives the mutex back and blocks.
Lock(r) ==
  /\ mutex = Nobody
  /\ IF Backlog = 0
     THEN Reader(r, "lock", "wait") /\ UNCHANGED mutex
     ELSE Reader(r, "lock", "get") /\ mutex' = r
  /\ UNCHANGED <<out, temp, nr, rout, pieces>>

Wake(r) ==
  /\ Backlog # 0 /\ Reader(r, "wait", "relock")
  /\ UNCHANGED <<out, mutex, temp, nr, rout, pieces>>

\* Mutant: a reader that has been woken does not take the mutex again.
RelockNothing(r) ==
  /\ Reader(r, "relock", "get")
  /\ UNCHANGED <<out, mutex, temp, nr, rout, pieces>>

Relock(r) ==
  /\ mutex = Nobody /\ mutex' = r /\ Reader(r, "relock", "get")
  /\ UNCHANGED <<out, temp, nr, rout, pieces>>

\* A signal: the read fails, by way of the mutex_unlock of a mutex the thread
\* does not hold.
Interrupt(r) ==
  /\ MayInterrupt /\ Reader(r, "wait", "idle")
  /\ mutex' = Nobody
  /\ UNCHANGED <<out, temp, nr, rout, pieces>>

\* Mutant: the rest of a record is thrown away for the next one.
GetIgnoringRest(r) ==
  /\ IF Backlog = 0 THEN Reader(r, "get", "deliver")
     ELSE out < MaxSentences /\ Reader(r, "get", "copy_head")
  /\ UNCHANGED <<out, mutex, temp, nr, rout, pieces>>

\* The rest of a record is returned before another is taken; a kfifo_get that
\* finds nothing leaves nmea_temp as it is.  Only after lost updates can there be
\* a get beyond the last sentence; it is not followed past MaxSentences.
Get(r) ==
  /\ IF temp.partial \/ Backlog = 0 THEN Reader(r, "get", "deliver")
     ELSE out < MaxSentences /\ Reader(r, "get", "copy_head")
  /\ UNCHANGED <<out, mutex, temp, nr, rout, pieces>>

\* kfifo_get: the record, then the advance of out.
CopyHead(r) ==
  /\ Reader(r, "copy_head", "copy_tail")
  /\ rout' = [rout EXCEPT ![r] = out]
  /\ temp' = [temp EXCEPT !.head = slots[Slot(out)].head]
  /\ UNCHANGED <<out, mutex, nr, pieces>>

\* A record never written is all zeros.
LengthOf(id) == IF id = 0 THEN 0 ELSE sent[id]

CopyTail(r) ==
  LET id == slots[Slot(rout[r])].tail
  IN /\ Reader(r, "copy_tail", "load_out")
     /\ temp' = [temp EXCEPT !.tail = id, !.from = 0, !.len = LengthOf(id), !.partial = FALSE]
     /\ UNCHANGED <<out, mutex, nr, rout, pieces>>

LoadOut(r) ==
  /\ Reader(r, "load_out", "store_out")
  /\ rout' = [rout EXCEPT ![r] = out]
  /\ UNCHANGED <<out, mutex, temp, nr, pieces>>

StoreOut(r) ==
  /\ Reader(r, "store_out", "deliver")
  /\ out' = rout[r] + 1 /\ rout' = [rout EXCEPT ![r] = 0]
  /\ UNCHANGED <<mutex, temp, nr, pieces>>

Taken(r) == IF temp.len > nr[r] THEN nr[r] ELSE temp.len
LastTwo(s) == IF Len(s) > 2 THEN Tail(s) ELSE s

\* Mutant: what is left of a record is computed the wrong way round.
DeliverSwapped(r) ==
  LET rest == temp.len > nr[r]
      n    == IF rest THEN nr[r] ELSE temp.len
  IN /\ Reader(r, "deliver", "idle")
     /\ pieces' = LastTwo(Append(pieces, [head |-> temp.head, tail |-> temp.tail,
                                          from |-> temp.from, size |-> n]))
     /\ temp' = IF rest THEN [temp EXCEPT !.from = @ + n, !.len = n - @, !.partial = TRUE]
                        ELSE [temp EXCEPT !.partial = FALSE]
     /\ mutex' = Nobody /\ nr' = [nr EXCEPT ![r] = 0]
     /\ UNCHANGED <<out, rout>>

\* A record longer than the caller's buffer is returned in part and the rest
\* moved to the front of nmea_temp.
Deliver(r) ==
  /\ Reader(r, "deliver", "idle")
  /\ pieces' = LastTwo(Append(pieces, [head |-> temp.head, tail |-> temp.tail,
                                       from |-> temp.from, size |-> Taken(r)]))
  /\ temp' = IF temp.len > nr[r]
             THEN [temp EXCEPT !.from = @ + Taken(r), !.len = @ - Taken(r), !.partial = TRUE]
             ELSE [temp EXCEPT !.partial = FALSE]
  /\ mutex' = Nobody /\ nr' = [nr EXCEPT ![r] = 0]
  /\ UNCHANGED <<out, rout>>

ReaderStep(r) == \/ Lock(r) \/ Wake(r) \/ Relock(r) \/ Get(r) \/ CopyHead(r)
                 \/ CopyTail(r) \/ LoadOut(r) \/ StoreOut(r) \/ Deliver(r)

-----------------------------------------------------------------------------
(***************************************************************************)
(* gnssposget_close and gnssposget_open.  The tty core calls them while no *)
(* thread is inside another operation of the discipline; open starts from  *)
(* a fresh n_gnssposget and an empty kfifo.                                *)
(***************************************************************************)
Quiet == wpc = "idle" /\ \A r \in ReaderThreads : rpc[r] = "idle"

Close ==
  /\ attached /\ Quiet
  /\ attached' = FALSE /\ in' = 0 /\ out' = 0
  /\ UNCHANGED <<receiver, slots, reader>>

Open ==
  /\ ~attached
  /\ attached' = TRUE
  /\ valid' = FALSE /\ index' = 0 /\ temp' = EmptyRecord
  /\ in' = 0 /\ out' = 0
  /\ pieces' = << >>
  /\ UNCHANGED <<sent, wpc, wout, slots, mutex, rpc, nr, rout>>

Step == \/ ReceiverStep \/ Close \/ Open
        \/ \E r \in ReaderThreads :
             ReaderStep(r) \/ Interrupt(r) \/ \E n \in ReadSizes : Call(r, n)

(***************************************************************************)
(* The history: a drop that is under way while a reader is in its kfifo_get*)
(* is remembered, for what the kfifo promises holds only without one.      *)
(***************************************************************************)
Overlap == wpc \in Dropping /\ \E r \in ReaderThreads : rpc[r] \in Getting

Remember ==
  /\ raced' = (raced \/ Overlap')
  /\ base' = IF ~attached /\ attached' THEN Len(sent) ELSE base

Next == Step /\ Remember

Spec == Init /\ [][Next]_vars

-----------------------------------------------------------------------------
TypeOK ==
  /\ attached \in BOOLEAN /\ valid \in BOOLEAN /\ index \in Nat
  /\ sent \in Seq(Nat)
  /\ wpc \in {"idle", "put", "fill", "finish"} \cup Dropping
  /\ {in, out, wout, base} \subseteq Nat
  /\ slots \in [0..(Size - 1) -> [head : Nat, tail : Nat]]
  /\ mutex \in ReaderThreads \cup {Nobody}
  /\ temp \in [head : Nat, tail : Nat, from : Nat, len : Nat, partial : BOOLEAN]
  /\ rpc \in [ReaderThreads -> {"idle", "lock", "wait", "relock", "get", "deliver"} \cup Getting]
  /\ nr \in [ReaderThreads -> Nat] /\ rout \in [ReaderThreads -> Nat]
  /\ pieces \in Seq([head : Nat, tail : Nat, from : Nat, size : Nat])
  /\ raced \in BOOLEAN

\* Overflow guard of gnssposget_receive: whatever bytes arrive, nmea_text is
\* written within its MaxLength bytes, the NUL of handle_nmea included, and a
\* queued record fits the buffer of struct nmea_cbuf it is copied to.
WithinBuffers ==
  /\ valid => index > 0
  /\ index < MaxLength
  /\ \A id \in DOMAIN sent : sent[id] \in (PrefixLength + 2)..MaxLength

\* What the reads return, put together, is whole sentences: no record is torn,
\* each is returned from its first byte to its last before another is begun, and
\* they come in the order of arrival, none from before the device was opened.
First(i) == pieces[i].from = 0
Ends(i) == pieces[i].from + pieces[i].size = sent[pieces[i].head]
ReadsWholeSentences ==
  ~raced => \A i \in DOMAIN pieces :
    /\ pieces[i].head = pieces[i].tail /\ pieces[i].head > base
    /\ Len(pieces) = 1 => First(1)
    /\ i > 1 => IF First(i)
                THEN Ends(i - 1) /\ pieces[i].head > pieces[i - 1].head
                ELSE /\ pieces[i].head = pieces[i - 1].head
                     /\ pieces[i].from = pieces[i - 1].from + pieces[i - 1].size

\* mutex_lock is held by the one reader that is past it.
Exclusive ==
  \A r \in ReaderThreads :
    rpc[r] \in {"get", "deliver"} \cup Getting => mutex = r

\* Threads that share the device take turns at its records: none is torn, and
\* none comes back after a later one has been returned.
SharedInOrder ==
  ~raced => \A i \in DOMAIN pieces :
    /\ pieces[i].head = pieces[i].tail
    /\ i > 1 => pieces[i].head >= pieces[i - 1].head

(***************************************************************************)
(* With one reader and no overlapped drop the discipline is the queue of   *)
(* SentenceQueue.  A read takes effect when its record has left the kfifo, *)
(* or, for the rest of a record, when it is found; what gnssposget_read    *)
(* then still has to return is counted as returned.                        *)
(***************************************************************************)
Whole(record) == IF record.head = record.tail THEN record.head ELSE 0
Delivering == \E r \in ReaderThreads : rpc[r] = "deliver"
Deliverer == CHOOSE r \in ReaderThreads : rpc[r] = "deliver"
LastPiece == IF Delivering THEN [head |-> temp.head, tail |-> temp.tail, from |-> temp.from,
                                 size |-> Taken(Deliverer)]
                           ELSE pieces[Len(pieces)]

\* The sentences that have been queued, those that wait to be read, what is left of
\* the one being read, and what the last read has returned.
Finished == IF wpc = "idle" THEN sent ELSE SubSeq(sent, 1, Len(sent) - 1)
Waiting == [i \in 1..Backlog |-> Whole(slots[Slot(out + i - 1)])]
LeftOver == IF Delivering /\ temp.len > Taken(Deliverer)
            THEN [id |-> Whole(temp), from |-> temp.from + Taken(Deliverer),
                  left |-> temp.len - Taken(Deliverer)]
            ELSE IF temp.partial /\ ~Delivering
            THEN [id |-> Whole(temp), from |-> temp.from, left |-> temp.len]
            ELSE [id |-> 0, from |-> 0, left |-> 0]
Returned == IF pieces = << >> /\ ~Delivering THEN [id |-> 0, from |-> 0, size |-> 0]
            ELSE [id |-> Whole(LastPiece), from |-> LastPiece.from, size |-> LastPiece.size]

Q == INSTANCE SentenceQueue WITH
       Lengths <- (PrefixLength + 2)..MaxLength,
       sent <- Finished, queue <- Waiting, rest <- LeftOver, piece <- Returned

\* Until a drop first overlaps a read, every step of either side is a step of the
\* queue or none: the sentences leave it whole and in order, and the oldest is
\* lost only to make room in a full one.
ImplementsQueue == Q!QueueInit /\ [][raced' \/ Q!QueueNext]_(Q!queueVars)

(***************************************************************************)
(* What the source says of the drop and the code does not do.              *)
(***************************************************************************)
\* "kfifo full! Dropping oldest element": the price of a full kfifo is its oldest
\* element, whole; what is read is never part of one record and part of another.
DropsOldestOnly == \A i \in DOMAIN pieces : pieces[i].head = pieces[i].tail
=============================================================================
