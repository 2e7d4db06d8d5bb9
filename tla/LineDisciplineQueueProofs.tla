--------------------- MODULE LineDisciplineQueueProofs ---------------------
(***************************************************************************)
(* Proofs about the kfifo and the reads, for every queue size, buffer      *)
(* length and set of read sizes: as long as no drop overlaps a read, what  *)
(* the kfifo holds is the latest sentences in their order, and readers get *)
(* them whole and in order.                                                *)
(***************************************************************************)
EXTENDS LineDisciplineProofs

Record == [head : Nat, tail : Nat, from : Nat, len : Nat, partial : BOOLEAN]
Piece == [head : Nat, tail : Nat, from : Nat, size : Nat]

-----------------------------------------------------------------------------
(***************************************************************************)
(* Types.  A record's length is looked up by its number, so that a slot    *)
(* must hold the number of a sentence, or be as it was at first.           *)
(***************************************************************************)
SlotsNumbered ==
  \A i \in 0..(Size - 1) : slots[i].head \in 0..Len(sent) /\ slots[i].tail \in 0..Len(sent)

TInv == TypeOK /\ SlotsNumbered /\ Len(pieces) <= 2

LEMMA SlotIndex == ASSUME NEW i \in Nat PROVE Slot(i) \in 0..(Size - 1)
BY SizeAssumption DEF Slot

LEMMA TypeInit == Init => TInv
<1> SUFFICES ASSUME Init PROVE TInv
  OBVIOUS
<1>1. attached \in BOOLEAN /\ valid \in BOOLEAN /\ raced \in BOOLEAN
  BY Zenon DEF Init
<1>2. sent \in Seq(Nat) /\ Len(sent) = 0 /\ pieces \in Seq(Piece)
  BY DEF Init
<1>3. temp \in Record
  <2>1. FALSE \in BOOLEAN BY Zenon
  <2>2. QED BY <2>1 DEF Init, EmptyRecord, Record
<1>4. QED BY <1>1, <1>2, <1>3 DEF Init, TInv, TypeOK, SlotsNumbered, Getting, Record, Piece

\* The history.
LEMMA RememberTyped == ASSUME TInv, Remember PROVE base' \in Nat /\ raced' \in BOOLEAN
<1>1. raced' \in BOOLEAN BY Zenon DEF Remember
<1>2. base' \in Nat BY LenProperties DEF Remember, TInv, TypeOK
<1>3. QED BY <1>1, <1>2

LEMMA ReceiveByteTyped ==
  ASSUME TInv, Remember, NEW b \in Bytes, ReceiveByte(b) PROVE TInv'
<1>1. base' \in Nat /\ raced' \in BOOLEAN
  BY RememberTyped
<1>2. valid' \in BOOLEAN
  <2>1. UNCHANGED valid \/ valid' = TRUE \/ valid' = FALSE
    BY DEF ReceiveByte, frame
  <2>2. QED BY <2>1, Zenon DEF TInv, TypeOK
<1>3. index' \in Nat
  <2>1. index' = index \/ index' = 0 \/ index' = (IF b = "$" THEN 0 ELSE index) + 1
    BY DEF ReceiveByte, frame
  <2>2. QED BY <2>1 DEF TInv, TypeOK
<1>4. UNCHANGED <<attached, sent, wpc, wout, in, out, slots, mutex, temp, rpc, nr, rout, pieces>>
  BY DEF ReceiveByte, reader
<1>5. QED BY <1>1, <1>2, <1>3, <1>4 DEF TInv, TypeOK, SlotsNumbered

LEMMA ReceiveSentenceTyped ==
  ASSUME TInv, Remember, ReceiveSentence PROVE TInv'
<1>1. base' \in Nat /\ raced' \in BOOLEAN
  BY RememberTyped
<1>2. valid' \in BOOLEAN
  BY Zenon DEF ReceiveSentence
<1>3. index' \in Nat /\ index + 2 \in Nat /\ sent \in Seq(Nat)
  <2>1. index \in Nat /\ sent \in Seq(Nat) BY DEF TInv, TypeOK
  <2>2. index' = 0 BY DEF ReceiveSentence
  <2>3. QED BY <2>1, <2>2
<1>4. sent' \in Seq(Nat) /\ Len(sent') = Len(sent) + 1 /\ Len(sent) \in Nat
  <2>1. /\ Append(sent, index + 2) \in Seq(Nat) /\ Len(Append(sent, index + 2)) = Len(sent) + 1
        /\ Len(sent) \in Nat
    BY <1>3, AppendProperties, LenProperties
  <2>2. QED BY <2>1 DEF ReceiveSentence
<1>5. SlotsNumbered'
  <2>1. slots' = slots /\ 0..Len(sent) \subseteq 0..Len(sent')
    BY <1>4 DEF ReceiveSentence
  <2>2. QED BY <2>1 DEF TInv, SlotsNumbered
<1>6. /\ UNCHANGED <<attached, wout, in, out, slots, mutex, temp, rpc, nr, rout, pieces>>
      /\ wpc' = "put"
  BY DEF ReceiveSentence, reader
<1>7. QED BY <1>1, <1>2, <1>3, <1>4, <1>5, <1>6 DEF TInv, TypeOK

\* The steps of kfifo_put and kfifo_get by the receiver.
ReceiverMoves == PutOrDrop \/ Fill \/ Finish \/ DropCheck \/ DropLoad \/ DropStore \/ PutAgain
WriterLabels == {"idle", "put", "fill", "finish"} \cup Dropping

LEMMA ReceiverMovesTyped ==
  ASSUME TInv, Remember, ReceiverMoves PROVE TInv'
<1>1. base' \in Nat /\ raced' \in BOOLEAN
  BY RememberTyped
<1>2. UNCHANGED <<attached, valid, index, sent, mutex, temp, rpc, nr, rout, pieces>>
  BY DEF ReceiverMoves, PutOrDrop, Fill, Finish, DropCheck, DropLoad, DropStore, PutAgain, Receiver,
         frame, reader
<1>3. wpc' \in WriterLabels
  BY DEF ReceiverMoves, PutOrDrop, Fill, Finish, DropCheck, DropLoad, DropStore, PutAgain, Receiver,
         WriterLabels, Dropping
<1>4. in' \in Nat /\ out' \in Nat /\ wout' \in Nat
  BY DEF ReceiverMoves, PutOrDrop, Fill, Finish, DropCheck, DropLoad, DropStore, PutAgain, TInv, TypeOK
<1>5. Len(sent) \in 0..Len(sent) /\ Len(sent) \in Nat
  BY LenProperties DEF TInv, TypeOK
<1>6. /\ slots' \in [0..(Size - 1) -> [head : Nat, tail : Nat]]
      /\ \A i \in 0..(Size - 1) : slots'[i].head \in 0..Len(sent) /\ slots'[i].tail \in 0..Len(sent)
  <2>1. Slot(in) \in 0..(Size - 1)
    BY SlotIndex DEF TInv, TypeOK
  <2>2. CASE Fill
    BY <2>1, <2>2, <1>5 DEF Fill, TInv, TypeOK, SlotsNumbered
  <2>3. CASE Finish
    BY <2>1, <2>3, <1>5 DEF Finish, TInv, TypeOK, SlotsNumbered
  <2>4. CASE slots' = slots
    BY <2>4 DEF TInv, TypeOK, SlotsNumbered
  <2>5. QED BY <2>2, <2>3, <2>4 DEF ReceiverMoves, PutOrDrop, DropCheck, DropLoad, DropStore, PutAgain
<1>7. QED BY <1>1, <1>2, <1>3, <1>4, <1>6 DEF TInv, TypeOK, SlotsNumbered, WriterLabels

Reading(r) == ReaderStep(r) \/ Interrupt(r) \/ \E n \in ReadSizes : Call(r, n)

\* What a read leaves alone.
LEMMA ReadingKeeps ==
  ASSUME NEW r \in ReaderThreads, Reading(r)
  PROVE  UNCHANGED <<attached, valid, index, sent, wpc, wout, in, slots>>
BY DEF Reading, ReaderStep, Interrupt, Call, Lock, Wake, Relock, Get, CopyHead, CopyTail, LoadOut,
       StoreOut, Deliver, Reader, receiver, frame

\* The last two of a sequence and one more.
LEMMA LastTwoOf ==
  ASSUME NEW S, NEW s \in Seq(S), Len(s) <= 2, NEW e \in S
  PROVE  /\ LastTwo(Append(s, e)) \in Seq(S)
         /\ Len(LastTwo(Append(s, e))) = IF s = << >> THEN 1 ELSE 2
         /\ LastTwo(Append(s, e))[Len(LastTwo(Append(s, e)))] = e
         /\ s # << >> => LastTwo(Append(s, e))[1] = s[Len(s)]
<1>1. /\ Append(s, e) \in Seq(S) /\ Len(Append(s, e)) = Len(s) + 1 /\ Len(s) \in Nat
      /\ Append(s, e)[Len(s) + 1] = e
      /\ \A i \in 1..Len(s) : Append(s, e)[i] = s[i]
      /\ s = << >> <=> Len(s) = 0
  BY AppendProperties, LenProperties, EmptySeq
<1>2. CASE Len(s) < 2
  BY <1>1, <1>2 DEF LastTwo
<1>3. CASE Len(s) = 2
  <2>1. /\ Tail(Append(s, e)) \in Seq(S) /\ Len(Tail(Append(s, e))) = 2
        /\ \A i \in 1..2 : Tail(Append(s, e))[i] = Append(s, e)[i + 1]
    BY <1>1, <1>3, HeadTailProperties
  <2>2. LastTwo(Append(s, e)) = Tail(Append(s, e))
    BY <1>1, <1>3 DEF LastTwo
  <2>3. QED BY <1>1, <1>3, <2>1, <2>2
<1>4. Len(s) < 2 \/ Len(s) = 2
  BY <1>1
<1>5. QED BY <1>2, <1>3, <1>4, Zenon

ReaderLabels == {"idle", "lock", "wait", "relock", "get", "deliver"} \cup Getting

LEMMA LengthTyped == ASSUME sent \in Seq(Nat), NEW id \in 0..Len(sent) PROVE LengthOf(id) \in Nat
<1>1. id # 0 => id \in 1..Len(sent)
  BY LenProperties
<1>2. QED BY <1>1, ElementOfSeq DEF LengthOf

LEMMA ReadingTyped ==
  ASSUME TInv, Remember, NEW r \in ReaderThreads, Reading(r) PROVE TInv'
<1>1. base' \in Nat /\ raced' \in BOOLEAN
  BY RememberTyped
<1>2. UNCHANGED <<attached, valid, index, sent, wpc, wout, in, slots>>
  BY ReadingKeeps
<1> DEFINE Typed == /\ out' \in Nat /\ mutex' \in ReaderThreads \cup {Nobody}
                    /\ temp' \in Record
                    /\ rpc' \in [ReaderThreads -> ReaderLabels]
                    /\ nr' \in [ReaderThreads -> Nat] /\ rout' \in [ReaderThreads -> Nat]
                    /\ pieces' \in Seq(Piece) /\ Len(pieces') <= 2
<1> SUFFICES Typed
  BY <1>1, <1>2 DEF TInv, TypeOK, SlotsNumbered, Record, Piece, ReaderLabels
<1>3. /\ out \in Nat /\ mutex \in ReaderThreads \cup {Nobody}
      /\ temp \in Record
      /\ rpc \in [ReaderThreads -> ReaderLabels]
      /\ nr \in [ReaderThreads -> Nat] /\ rout \in [ReaderThreads -> Nat]
      /\ pieces \in Seq(Piece) /\ Len(pieces) <= 2 /\ sent \in Seq(Nat)
      /\ slots \in [0..(Size - 1) -> [head : Nat, tail : Nat]]
  BY DEF TInv, TypeOK, Record, Piece, ReaderLabels
<1> USE DEF Reader, ReaderLabels, Getting
<1>4. ASSUME NEW n \in ReadSizes, Call(r, n) PROVE Typed
  BY <1>3, <1>4, ReadAssumption DEF Call
<1>5. CASE Lock(r) \/ Wake(r) \/ Relock(r) \/ Interrupt(r)
  BY <1>3, <1>5 DEF Lock, Wake, Relock, Interrupt
<1>6. CASE Get(r)
  BY <1>3, <1>6 DEF Get
<1>7. CASE CopyHead(r)
  <2>1. slots[Slot(out)].head \in Nat
    BY <1>3, SlotIndex
  <2>2. QED BY <1>3, <1>7, <2>1 DEF CopyHead, Record
<1>8. CASE CopyTail(r)
  <2> DEFINE id == slots[Slot(rout[r])].tail
  <2>1. id \in Nat /\ id \in 0..Len(sent)
    BY <1>3, SlotIndex DEF TInv, SlotsNumbered
  <2>2. LengthOf(id) \in Nat
    BY <1>3, <2>1, LengthTyped
  <2>3. temp' \in Record
    <3>1. temp' = [temp EXCEPT !.tail = id, !.from = 0, !.len = LengthOf(id), !.partial = FALSE]
      BY <1>8 DEF CopyTail
    <3>2. FALSE \in BOOLEAN BY Zenon
    <3>3. QED BY <1>3, <2>1, <2>2, <3>1, <3>2 DEF Record
  <2>4. QED BY <1>3, <1>8, <2>3 DEF CopyTail
<1>9. CASE LoadOut(r) \/ StoreOut(r)
  <2>1. CASE LoadOut(r) BY <1>3, <2>1 DEF LoadOut
  <2>2. CASE StoreOut(r) BY <1>3, <2>2 DEF StoreOut
  <2>3. QED BY <1>9, <2>1, <2>2
<1>10. CASE Deliver(r)
  <2>1. Taken(r) \in Nat /\ temp.len - Taken(r) \in Nat
    BY <1>3 DEF Taken, Record
  <2>2. temp' \in Record
    <3>1. TRUE \in BOOLEAN /\ FALSE \in BOOLEAN BY Zenon
    <3>2. \/ temp' = [temp EXCEPT !.from = @ + Taken(r), !.len = @ - Taken(r), !.partial = TRUE]
          \/ temp' = [temp EXCEPT !.partial = FALSE]
      BY <1>10, Zenon DEF Deliver
    <3>3. temp.from + Taken(r) \in Nat
      BY <1>3, <2>1 DEF Record
    <3>4. QED BY <1>3, <2>1, <3>1, <3>2, <3>3 DEF Record
  <2> DEFINE p == [head |-> temp.head, tail |-> temp.tail, from |-> temp.from, size |-> Taken(r)]
  <2>3. p \in Piece /\ pieces' = LastTwo(Append(pieces, p))
    BY <1>3, <1>10, <2>1 DEF Deliver, Record, Piece
  <2> HIDE DEF p
  <2>4. pieces' \in Seq(Piece) /\ Len(pieces') <= 2
    <3>1. /\ LastTwo(Append(pieces, p)) \in Seq(Piece)
          /\ Len(LastTwo(Append(pieces, p))) = IF pieces = << >> THEN 1 ELSE 2
      BY <1>3, <2>3, LastTwoOf
    <3>2. QED BY <2>3, <3>1
  <2>5. QED BY <1>3, <1>10, <2>2, <2>4 DEF Deliver
<1>11. QED
  BY <1>4, <1>5, <1>6, <1>7, <1>8, <1>9, <1>10, Zenon DEF Reading, ReaderStep

LEMMA OpenCloseTyped == ASSUME TInv, Remember, Close \/ Open PROVE TInv'
<1>1. base' \in Nat /\ raced' \in BOOLEAN
  BY RememberTyped
<1>2. CASE Close
  <2>1. attached' \in BOOLEAN /\ in' \in Nat /\ out' \in Nat
    BY <1>2, Zenon DEF Close, TInv, TypeOK
  <2>2. QED BY <1>1, <1>2, <2>1 DEF Close, receiver, frame, reader, TInv, TypeOK, SlotsNumbered
<1>3. CASE Open
  <2>1. attached' \in BOOLEAN /\ valid' \in BOOLEAN
    BY <1>3, Zenon DEF Open
  <2>2. temp' \in Record
    <3>1. FALSE \in BOOLEAN BY Zenon
    <3>2. QED BY <1>3, <3>1 DEF Open, EmptyRecord, Record
  <2>3. pieces' \in Seq(Piece) /\ Len(pieces') = 0
    BY <1>3 DEF Open
  <2>4. /\ index' = 0 /\ in' = 0 /\ out' = 0
        /\ UNCHANGED <<sent, wpc, wout, slots, mutex, rpc, nr, rout>>
    BY <1>3 DEF Open
  <2>5. /\ sent' \in Seq(Nat) /\ wpc' \in WriterLabels
        /\ wout' \in Nat
        /\ slots' \in [0..(Size - 1) -> [head : Nat, tail : Nat]]
    BY <2>4 DEF TInv, TypeOK, WriterLabels
  <2>6. /\ mutex' \in ReaderThreads \cup {Nobody}
        /\ rpc' \in [ReaderThreads -> ReaderLabels]
        /\ nr' \in [ReaderThreads -> Nat] /\ rout' \in [ReaderThreads -> Nat]
    BY <2>4 DEF TInv, TypeOK, ReaderLabels
  <2>7. TypeOK'
    BY <1>1, <2>1, <2>2, <2>3, <2>4, <2>5, <2>6
       DEF TypeOK, Record, Piece, WriterLabels, ReaderLabels
  <2>8. SlotsNumbered'
    BY <2>4 DEF TInv, SlotsNumbered
  <2>9. QED BY <2>3, <2>7, <2>8 DEF TInv
<1>4. QED BY <1>2, <1>3

\* Next, by who moves.
LEMMA NextCases ==
  ASSUME Next
  PROVE  /\ Remember
         /\ \/ ReceiveSentence \/ (\E b \in Bytes : ReceiveByte(b)) \/ ReceiverMoves
            \/ Close \/ Open \/ \E r \in ReaderThreads : Reading(r)
BY Zenon DEF Next, Step, ReceiverStep, ReceiverMoves, Reading

LEMMA TypeNext == TInv /\ [Next]_vars => TInv'
<1> SUFFICES ASSUME TInv, [Next]_vars PROVE TInv'
  OBVIOUS
<1>1. CASE UNCHANGED vars
  <2>1. UNCHANGED <<attached, valid, raced>> BY <1>1, Zenon DEF vars, receiver, frame, history
  <2>2. {attached', valid', raced'} \subseteq BOOLEAN BY <2>1, Zenon DEF TInv, TypeOK
  <2>3. QED BY <1>1, <2>2 DEF vars, receiver, frame, reader, history, TInv, TypeOK, SlotsNumbered
<1>2. CASE Next
  BY <1>2, NextCases, ReceiveSentenceTyped, ReceiveByteTyped, ReceiverMovesTyped, OpenCloseTyped,
     ReadingTyped
<1>3. QED BY <1>1, <1>2

\* Every variable of the driver keeps to its type, and a record is that of a sentence
\* that has been queued, also when drops have overlapped reads.
THEOREM TypeCorrect == Spec => []TypeOK
<1>1. TInv => TypeOK BY DEF TInv
<1>2. QED BY <1>1, TypeInit, TypeNext, PTL DEF Spec

-----------------------------------------------------------------------------
(***************************************************************************)
(* The kfifo.  While no drop has overlapped a read, one of the two sides   *)
(* moves out at a time: its records are the latest sentences, numbered     *)
(* from the first after open, and what the receiver is about to do still   *)
(* fits what it has looked at.                                             *)
(***************************************************************************)
Number(i) == base + i + 1

\* No two readers are in the critical section.
Alone ==
  \A r, s \in ReaderThreads : rpc[r] \in Critical /\ rpc[s] \in Critical => r = s

InLine ==
  /\ out <= in /\ in - out <= Size
  /\ attached => base + in + (IF wpc = "idle" THEN 0 ELSE 1) = Len(sent)
  /\ ~attached => in = 0 /\ out = 0 /\ Quiet

\* What the receiver has found out is still so.
Writing ==
  /\ wpc \in {"fill", "finish"} => in - out < Size
  /\ wpc \in {"drop", "load_out", "store_out"} => in - out = Size
  /\ wpc = "store_out" => wout = out
  /\ wpc \in {"put_again", "fill_again", "finish_again"} => in - out = Size - 1
  /\ wpc \in {"finish", "finish_again"} => slots[Slot(in)].head = Len(sent)

Contents ==
  \A i \in out..(in - 1) : slots[Slot(i)].head = Number(i) /\ slots[Slot(i)].tail = Number(i)

KfifoInv == ~Overlap /\ InLine /\ Writing /\ Contents

\* What a reader has copied is what it is about to remove.
Hands == {"copy_tail", "load_out", "store_out"}

Holding ==
  \A r \in ReaderThreads :
    /\ rpc[r] \in Getting => out < in
    /\ rpc[r] \in {"copy_tail", "store_out"} => rout[r] = out
    /\ rpc[r] \in Hands => temp.head = Number(out)
    /\ rpc[r] \in {"load_out", "store_out"} => temp.tail = temp.head

\* A number is not divisible by Size in two ways: i = Size * a + i % Size.
LEMMA Divided == ASSUME NEW i \in Nat PROVE i = Size * (i \div Size) + (i % Size) /\ i \div Size \in Int
BY SizeAssumption

\* Positions less than Size apart have slots of their own.
LEMMA SlotsDiffer ==
  ASSUME NEW i \in Nat, NEW j \in Nat, i < j, j - i < Size PROVE Slot(i) # Slot(j)
<1> SUFFICES ASSUME Slot(i) = Slot(j) PROVE FALSE
  OBVIOUS
<1> DEFINE a == i \div Size
           b == j \div Size
<1>1. /\ a \in Int /\ b \in Int /\ i % Size \in Int
      /\ i = Size * a + (i % Size) /\ j = Size * b + (i % Size)
  BY Divided, SizeAssumption DEF Slot
<1> HIDE DEF a, b
<1>2. Size * a \in Int /\ Size * b \in Int
  BY <1>1, SizeAssumption
<1>3. CASE b <= a
  <2>1. Size * b <= Size * a BY <1>1, <1>3, SizeAssumption
  <2>2. QED BY <1>1, <1>2, <2>1
<1>4. CASE a < b
  <2>1. Size * b >= Size * a + Size BY <1>1, <1>4, SizeAssumption
  <2>2. QED BY <1>1, <1>2, <2>1, SizeAssumption
<1>5. QED BY <1>1, <1>3, <1>4

\* The types as they are used below.
LEMMA Types ==
  ASSUME TInv
  PROVE  /\ in \in Nat /\ out \in Nat /\ wout \in Nat /\ base \in Nat
         /\ Len(sent) \in Nat /\ sent \in Seq(Nat)
         /\ slots \in [0..(Size - 1) -> [head : Nat, tail : Nat]]
         /\ temp \in Record /\ pieces \in Seq(Piece) /\ Len(pieces) <= 2
         /\ rpc \in [ReaderThreads -> ReaderLabels]
         /\ nr \in [ReaderThreads -> Nat] /\ rout \in [ReaderThreads -> Nat]
         /\ wpc \in WriterLabels /\ attached \in BOOLEAN
BY LenProperties DEF TInv, TypeOK, Record, Piece, ReaderLabels, WriterLabels

\* As long as nothing has raced, nothing races: the history remembers it.
LEMMA NotRaced ==
  ASSUME Remember, ~raced' PROVE ~raced /\ ~Overlap'
BY DEF Remember

LEMMA BaseKept == ASSUME Remember, attached' = attached PROVE base' = base
BY DEF Remember

LEMMA ReceiveByteKeepsKfifo ==
  ASSUME TInv, KfifoInv, Remember, ~raced', NEW b \in Bytes, ReceiveByte(b)
  PROVE  KfifoInv'
<1>1. UNCHANGED <<attached, sent, wpc, wout, in, out, slots, rpc>>
  BY DEF ReceiveByte, reader
<1>2. base' = base /\ ~Overlap'
  BY <1>1, BaseKept, NotRaced
<1>3. QED BY <1>1, <1>2 DEF KfifoInv, InLine, Writing, Contents, Number, Quiet

LEMMA ReceiveSentenceKeepsKfifo ==
  ASSUME TInv, KfifoInv, Remember, ~raced', ReceiveSentence
  PROVE  KfifoInv'
<1>1. /\ UNCHANGED <<attached, wout, in, out, slots, rpc>> /\ attached
      /\ wpc = "idle" /\ wpc' = "put" /\ Len(sent') = Len(sent) + 1 /\ Len(sent) \in Nat
  <2>1. Len(Append(sent, index + 2)) = Len(sent) + 1 /\ Len(sent) \in Nat
    BY AppendProperties, LenProperties DEF TInv, TypeOK
  <2>2. QED BY <2>1 DEF ReceiveSentence, reader
<1>2. base' = base /\ ~Overlap'
  BY <1>1, BaseKept, NotRaced
<1>3. InLine'
  BY <1>1, <1>2, Types DEF KfifoInv, InLine
<1>4. Contents' /\ Writing'
  BY <1>1, <1>2 DEF KfifoInv, Contents, Writing, Number
<1>5. QED BY <1>2, <1>3, <1>4 DEF KfifoInv

LEMMA ReceiverMovesKeepKfifo ==
  ASSUME TInv, KfifoInv, Remember, ~raced', ReceiverMoves
  PROVE  KfifoInv'
<1>1. UNCHANGED <<attached, sent, rpc>> /\ wpc # "idle"
  BY DEF ReceiverMoves, PutOrDrop, Fill, Finish, DropCheck, DropLoad, DropStore, PutAgain, Receiver,
         frame, reader
<1>2. base' = base /\ ~Overlap'
  BY <1>1, BaseKept, NotRaced
<1>3. attached
  BY <1>1 DEF KfifoInv, InLine, Quiet
<1> DEFINE At(w) == wpc = w
           To(w) == wpc' = w
<1> SUFFICES InLine' /\ Writing' /\ Contents'
  BY <1>2 DEF KfifoInv
<1>4. /\ in \in Nat /\ out \in Nat /\ wout \in Nat /\ base \in Nat /\ Len(sent) \in Nat
      /\ slots \in [0..(Size - 1) -> [head : Nat, tail : Nat]]
      /\ Slot(in) \in 0..(Size - 1)
  BY Types, SlotIndex
<1>5. /\ InLine /\ Writing /\ Contents /\ base + in + 1 = Len(sent) /\ Number(in) = Len(sent)
  BY <1>1, <1>3, <1>4 DEF KfifoInv, InLine, Number
<1>6. ASSUME NEW i \in out..(in - 1)
      PROVE  Slot(i) \in 0..(Size - 1) /\ (in - out < Size => Slot(i) # Slot(in))
  <2>1. i \in Nat /\ i < in /\ (in - out < Size => in - i < Size)
    BY <1>4, SizeAssumption
  <2>2. QED BY <1>4, <2>1, SlotIndex, SlotsDiffer
<1>8. CASE PutOrDrop \/ DropCheck \/ DropLoad \/ PutAgain
  <2>1. UNCHANGED <<in, out, slots>> /\ wpc' # "idle"
    BY <1>8, <1>4, <1>5, SizeAssumption
       DEF PutOrDrop, DropCheck, DropLoad, PutAgain, Receiver, Full, Backlog, Writing
  <2>2. InLine' /\ Contents'
    BY <1>1, <1>2, <1>3, <1>5, <2>1 DEF InLine, Contents, Number
  <2>3. Writing'
    <3>1. CASE PutOrDrop
      BY <1>4, <1>5, <2>1, <3>1, SizeAssumption
         DEF Writing, InLine, PutOrDrop, Receiver, Full, Backlog
    <3>2. CASE DropCheck
      BY <1>4, <1>5, <2>1, <3>2, SizeAssumption DEF Writing, DropCheck, Receiver, Backlog
    <3>3. CASE DropLoad
      BY <1>4, <1>5, <2>1, <3>3 DEF Writing, DropLoad, Receiver
    <3>4. CASE PutAgain
      BY <1>4, <1>5, <2>1, <3>4, SizeAssumption DEF Writing, PutAgain, Receiver, Full, Backlog
    <3>5. QED BY <1>8, <3>1, <3>2, <3>3, <3>4
  <2>4. QED BY <2>2, <2>3
<1>9. CASE Fill
  <2>1. /\ UNCHANGED <<in, out>>
        /\ \/ At("fill") /\ To("finish")
           \/ At("fill_again") /\ To("finish_again")
    BY <1>9 DEF Fill, Receiver
  <2>2. in - out < Size
    BY <1>4, <1>5, <2>1, SizeAssumption DEF Writing
  <2>3. slots' = [slots EXCEPT ![Slot(in)].head = Len(sent)]
    BY <1>9 DEF Fill
  <2>4. /\ slots'[Slot(in)].head = Len(sent)
        /\ \A i \in out..(in - 1) : slots'[Slot(i)] = slots[Slot(i)]
    BY <1>4, <1>6, <2>2, <2>3
  <2>5. InLine' /\ Writing'
    BY <1>1, <1>2, <1>3, <1>4, <1>5, <2>1, <2>2, <2>4 DEF InLine, Writing
  <2>6. Contents'
    BY <1>2, <1>5, <2>1, <2>4 DEF Contents, Number
  <2>7. QED BY <2>5, <2>6
<1>10. CASE Finish
  <2>1. in' = in + 1 /\ out' = out /\ To("idle") /\ (At("finish") \/ At("finish_again"))
    BY <1>10 DEF Finish, Receiver
  <2>2. in - out < Size /\ slots[Slot(in)].head = Len(sent)
    BY <1>4, <1>5, <2>1, SizeAssumption DEF Writing
  <2>3. slots' = [slots EXCEPT ![Slot(in)].tail = Len(sent)]
    BY <1>10 DEF Finish
  <2>4. /\ slots'[Slot(in)].head = Len(sent) /\ slots'[Slot(in)].tail = Len(sent)
        /\ \A i \in out..(in - 1) : slots'[Slot(i)] = slots[Slot(i)]
    BY <1>4, <1>6, <2>2, <2>3
  <2>5. Writing'
    BY <2>1 DEF Writing
  <2>6. InLine'
    <3>1. out' <= in' /\ in' - out' <= Size
      BY <1>4, <1>5, <2>1, <2>2, SizeAssumption DEF InLine
    <3>2. QED BY <1>1, <1>2, <1>3, <1>4, <1>5, <2>1, <3>1 DEF InLine
  <2>7. Contents'
    <3> SUFFICES ASSUME NEW i \in out..in
                 PROVE  slots'[Slot(i)].head = Number(i) /\ slots'[Slot(i)].tail = Number(i)
      BY <1>2, <1>4, <2>1 DEF Contents, Number
    <3>1. i = in \/ i \in out..(in - 1)
      BY <1>4
    <3>2. QED BY <1>5, <2>4, <3>1 DEF Contents
  <2>8. QED BY <2>5, <2>6, <2>7
<1>11. CASE DropStore
  <2>1. UNCHANGED <<in, slots>> /\ out' = out + 1 /\ in - out = Size /\ To("put_again")
    BY <1>5, <1>11 DEF DropStore, Receiver, Writing
  <2>2. InLine' /\ Writing'
    BY <1>1, <1>2, <1>3, <1>4, <1>5, <2>1, SizeAssumption DEF InLine, Writing
  <2>3. Contents'
    BY <1>2, <1>4, <1>5, <2>1 DEF Contents, Number
  <2>4. QED BY <2>2, <2>3
<1>12. QED
  BY <1>8, <1>9, <1>10, <1>11 DEF ReceiverMoves

\* A thread reads only while the discipline is open.
LEMMA ReadingAttached ==
  ASSUME InLine, NEW r \in ReaderThreads, Reading(r) PROVE attached
<1>1. rpc[r] # "idle" \/ attached
  BY DEF Reading, ReaderStep, Interrupt, Call, Lock, Wake, Relock, Get, CopyHead, CopyTail, LoadOut,
         StoreOut, Deliver, Reader
<1>2. QED BY <1>1 DEF InLine, Quiet

\* out is moved by the last step of kfifo_get alone, which moves it by one.
LEMMA ReadingMovesOut ==
  ASSUME TInv, InLine, Holding, NEW r \in ReaderThreads, Reading(r)
  PROVE  out' = out \/ (out' = out + 1 /\ out < in /\ rpc[r] \in Getting)
<1>1. out' = out \/ StoreOut(r)
  BY DEF Reading, ReaderStep, Interrupt, Call, Lock, Wake, Relock, Get, CopyHead, CopyTail, LoadOut,
         Deliver
<1>2. QED BY <1>1 DEF StoreOut, Reader, Holding, Getting

LEMMA ReadingKeepsKfifo ==
  ASSUME TInv, KfifoInv, Holding, Remember, ~raced', NEW r \in ReaderThreads, Reading(r)
  PROVE  KfifoInv'
<1>1. /\ UNCHANGED <<attached, sent, wpc, wout, in, slots>> /\ attached
      /\ base' = base /\ ~Overlap' /\ ~Overlap /\ InLine /\ Writing /\ Contents
  BY ReadingKeeps, ReadingAttached, BaseKept, NotRaced DEF KfifoInv
<1>2. CASE out' = out
  BY <1>1, <1>2 DEF KfifoInv, InLine, Writing, Contents, Number
<1>3. CASE out' = out + 1 /\ out < in /\ rpc[r] \in Getting
  <2>1. wpc \notin Dropping /\ in \in Nat /\ out \in Nat /\ Size \in Nat
    BY <1>1, <1>3, Types, SizeAssumption DEF Overlap
  <2>2. InLine'
    BY <1>1, <1>3, <2>1 DEF InLine
  <2>3. Writing'
    BY <1>1, <1>3, <2>1 DEF Writing, Dropping
  <2>4. Contents'
    BY <1>1, <1>3, <2>1 DEF Contents, Number
  <2>5. QED BY <1>1, <2>2, <2>3, <2>4 DEF KfifoInv
<1>4. QED BY <1>1, <1>2, <1>3, ReadingMovesOut

LEMMA OpenCloseKeepKfifo ==
  ASSUME TInv, KfifoInv, Remember, ~raced', Close \/ Open
  PROVE  KfifoInv'
<1>1. /\ ~Overlap' /\ in' = 0 /\ out' = 0 /\ UNCHANGED <<sent, wpc, rpc>> /\ wpc = "idle" /\ Quiet
      /\ attached' => base' = Len(sent)
  BY NotRaced DEF Close, Open, receiver, reader, KfifoInv, InLine, Quiet, Remember
<1>2. InLine'
  BY <1>1, Types, SizeAssumption DEF InLine, Quiet
<1>3. Contents' /\ Writing'
  BY <1>1 DEF Contents, Writing
<1>4. QED BY <1>1, <1>2, <1>3 DEF KfifoInv

-----------------------------------------------------------------------------
(***************************************************************************)
(* What the readers get.  nmea_temp holds the latest record taken: it is   *)
(* whole but in the middle of a copy, was put before out, and is no older  *)
(* than what has been returned.                                            *)
(***************************************************************************)
Nobodys(labels) == \A r \in ReaderThreads : rpc[r] \notin labels

LatestTaken ==
  /\ Nobodys({"copy_tail"}) => temp.head = temp.tail
  /\ attached /\ Nobodys(Hands) => temp.head <= base + out
  /\ temp.head <= Len(sent)
  /\ \A i \in DOMAIN pieces : pieces[i].head <= temp.head

Ordered ==
  \A i \in DOMAIN pieces :
    /\ pieces[i].head = pieces[i].tail
    /\ i > 1 => pieces[i].head >= pieces[i - 1].head

ReadInv == Holding /\ LatestTaken /\ Ordered

\* What a step of the receiver may do to the readers' side.
LEMMA ReceiverLeaves ==
  ASSUME TInv, KfifoInv, Remember, ~raced',
         ReceiveSentence \/ (\E b \in Bytes : ReceiveByte(b)) \/ ReceiverMoves
  PROVE  /\ UNCHANGED <<attached, base, mutex, temp, rpc, nr, rout, pieces>>
         /\ in' >= in /\ out' >= out /\ Len(sent') >= Len(sent)
         /\ out' = out \/ Nobodys(Getting)
         /\ out < in => out' < in'
         /\ \A id \in 1..Len(sent) : sent'[id] = sent[id]
<1>1. UNCHANGED <<attached, mutex, temp, rpc, nr, rout, pieces>>
  BY DEF ReceiveByte, ReceiveSentence, ReceiverMoves, PutOrDrop, Fill, Finish, DropCheck, DropLoad,
         DropStore, PutAgain, Receiver, reader
<1>2. base' = base
  BY <1>1, BaseKept
<1>3. in' = in \/ in' = in + 1
  BY DEF ReceiveByte, ReceiveSentence, ReceiverMoves, PutOrDrop, Fill, Finish, DropCheck, DropLoad,
         DropStore, PutAgain
<1>4. out' = out \/ (out' = out + 1 /\ Nobodys(Getting) /\ in' = in /\ in - out = Size)
  <2>1. out' = out \/ DropStore
    BY DEF ReceiveByte, ReceiveSentence, ReceiverMoves, PutOrDrop, Fill, Finish, DropCheck, DropLoad,
           PutAgain
  <2>2. DropStore => wout = out /\ Nobodys(Getting) /\ in' = in /\ in - out = Size
    BY DEF DropStore, Receiver, KfifoInv, Writing, Overlap, Dropping, Nobodys
  <2>3. QED BY <2>1, <2>2 DEF DropStore
<1>5. /\ sent' = sent \/ sent' = Append(sent, index + 2)
      /\ Len(Append(sent, index + 2)) = Len(sent) + 1 /\ Len(sent) \in Nat
      /\ \A id \in 1..Len(sent) : Append(sent, index + 2)[id] = sent[id]
  <2>1. sent' = sent \/ sent' = Append(sent, index + 2)
    BY DEF ReceiveByte, ReceiveSentence, ReceiverMoves, PutOrDrop, Fill, Finish, DropCheck, DropLoad,
           DropStore, PutAgain, Receiver
  <2>2. QED BY <2>1, AppendProperties, LenProperties DEF TInv, TypeOK
<1>6. Len(sent') >= Len(sent) /\ \A id \in 1..Len(sent) : sent'[id] = sent[id]
  BY <1>5
<1>7. out < in => out' < in'
  BY <1>3, <1>4, Types, SizeAssumption
<1>8. QED BY <1>1, <1>2, <1>3, <1>4, <1>6, <1>7, Types

LEMMA ReceiverKeepsReads ==
  ASSUME TInv, TInv', KfifoInv, ReadInv, Remember, ~raced',
         ReceiveSentence \/ (\E b \in Bytes : ReceiveByte(b)) \/ ReceiverMoves
  PROVE  ReadInv'
<1>1. /\ UNCHANGED <<attached, base, mutex, temp, rpc, nr, rout, pieces>>
      /\ in' >= in /\ out' >= out /\ Len(sent') >= Len(sent)
      /\ out' = out \/ Nobodys(Getting)
  BY ReceiverLeaves
<1>2. /\ in \in Nat /\ out \in Nat /\ base \in Nat /\ Len(sent) \in Nat /\ temp \in Record
      /\ in' \in Nat /\ out' \in Nat /\ Len(sent') \in Nat
  BY Types, LenProperties DEF TInv, TypeOK
<1>3. Holding'
  <2>1. CASE out' = out BY <1>1, <1>2, <2>1 DEF ReadInv, Holding, Number
  <2>2. CASE Nobodys(Getting) BY <1>1, <2>2 DEF Holding, Nobodys, Getting, Hands
  <2>3. QED BY <1>1, <2>1, <2>2
<1>4. LatestTaken'
  <2>1. temp.head \in Nat /\ UNCHANGED <<attached, base, temp, rpc, pieces>>
    BY <1>1, <1>2 DEF Record
  <2>2. temp.head <= base + out => temp.head <= base + out'
    BY <1>1, <1>2, <2>1
  <2>3. temp.head <= Len(sent) => temp.head <= Len(sent')
    BY <1>1, <1>2, <2>1
  <2>4. QED BY <2>1, <2>2, <2>3 DEF ReadInv, LatestTaken, Nobodys
<1>5. Ordered'
  BY <1>1 DEF ReadInv, Ordered
<1>6. QED BY <1>3, <1>4, <1>5 DEF ReadInv

LEMMA OpenCloseKeepReads ==
  ASSUME TInv, KfifoInv, ReadInv, Remember, ~raced', Close \/ Open
  PROVE  ReadInv'
<1>1. Quiet /\ UNCHANGED rpc
  BY DEF Close, Open, reader, KfifoInv, InLine
<1>2. Holding'
  BY <1>1 DEF Holding, Quiet, Getting, Hands
<1>3. CASE Close
  <2>1. UNCHANGED <<sent, rpc, temp, pieces>> /\ ~attached'
    BY <1>3 DEF Close, receiver, reader
  <2>2. QED BY <1>2, <2>1 DEF ReadInv, LatestTaken, Ordered, Nobodys
<1>4. CASE Open
  <2>1. temp' = EmptyRecord /\ pieces' = << >> /\ out' = 0 /\ base' = Len(sent) /\ sent' = sent
    BY <1>4 DEF Open, Remember
  <2>2. LatestTaken' /\ Ordered'
    BY <2>1, Types DEF LatestTaken, Ordered, EmptyRecord
  <2>3. QED BY <1>2, <2>2 DEF ReadInv
<1>5. QED BY <1>3, <1>4

\* What has been returned, after one more piece.
LEMMA LastPieces ==
  ASSUME pieces \in Seq(Piece), Len(pieces) <= 2, NEW p \in Piece,
         pieces' = LastTwo(Append(pieces, p))
  PROVE  /\ Len(pieces') = (IF pieces = << >> THEN 1 ELSE 2)
         /\ Len(pieces') \in 1..2 /\ pieces'[Len(pieces')] = p
         /\ Len(pieces') = 2 => pieces # << >> /\ pieces'[1] = pieces[Len(pieces)]
         /\ DOMAIN pieces' = 1..Len(pieces')
<1>1. /\ LastTwo(Append(pieces, p)) \in Seq(Piece)
      /\ Len(pieces') = IF pieces = << >> THEN 1 ELSE 2
      /\ pieces'[Len(pieces')] = p
      /\ pieces # << >> => pieces'[1] = pieces[Len(pieces)]
  BY LastTwoOf
<1>2. DOMAIN pieces' = 1..Len(pieces')
  BY <1>1, LenProperties
<1>3. QED BY <1>1, <1>2

\* A step of a reader that neither holds a copy before it nor after it.
LEMMA EmptyHandedKeepsReads ==
  ASSUME TInv, KfifoInv, ReadInv, NEW r \in ReaderThreads, NEW to \in ReaderLabels \ Hands,
         UNCHANGED <<attached, base, sent, in, out, temp, rout, pieces>>,
         rpc[r] \notin Hands, rpc' = [rpc EXCEPT ![r] = to],
         to \in Getting => out < in
  PROVE  ReadInv'
<1>1. rpc \in [ReaderThreads -> ReaderLabels]
  BY Types
<1>2. \A s \in ReaderThreads : rpc'[s] = rpc[s] \/ (s = r /\ rpc'[s] = to)
  BY <1>1
<1>3. \A s \in ReaderThreads : rpc'[s] \in Hands => rpc[s] = rpc'[s]
  BY <1>2
<1>4. Holding'
  BY <1>2 DEF ReadInv, Holding, Number, Hands
<1>5. (Nobodys({"copy_tail"})' => Nobodys({"copy_tail"})) /\ (Nobodys(Hands)' => Nobodys(Hands))
  BY <1>1, <1>2 DEF Nobodys, Hands
<1>6. LatestTaken' /\ Ordered'
  BY <1>5 DEF ReadInv, LatestTaken, Ordered
<1>7. QED BY <1>4, <1>6 DEF ReadInv

LEMMA ReadingKeepsReads ==
  ASSUME TInv, TInv', KfifoInv, ReadInv, Alone, Remember, ~raced',
         NEW r \in ReaderThreads, Reading(r)
  PROVE  ReadInv'
<1>1. UNCHANGED <<attached, sent, wpc, in, slots, base>> /\ attached
  BY ReadingKeeps, ReadingAttached, BaseKept DEF KfifoInv
<1>2. /\ in \in Nat /\ out \in Nat /\ base \in Nat /\ Len(sent) \in Nat /\ temp \in Record
      /\ rpc \in [ReaderThreads -> ReaderLabels] /\ rout \in [ReaderThreads -> Nat]
      /\ pieces \in Seq(Piece) /\ Len(pieces) <= 2
  BY Types
<1>3. /\ out <= in /\ base + in <= Len(sent)
      /\ Contents /\ Holding /\ LatestTaken /\ Ordered
  BY <1>1, <1>2 DEF KfifoInv, InLine, ReadInv
<1> DEFINE Moves(from, to) == rpc[r] = from /\ rpc' = [rpc EXCEPT ![r] = to]
<1>4. ASSUME NEW to, NEW from \in Critical, Moves(from, to)
      PROVE  \A s \in ReaderThreads : s # r => rpc[s] \notin Critical /\ rpc'[s] = rpc[s]
  BY <1>2, <1>4 DEF Alone
<1>5. CASE \/ Lock(r) \/ Wake(r) \/ Relock(r) \/ Get(r) \/ Interrupt(r)
           \/ \E n \in ReadSizes : Call(r, n)
  <2>1. UNCHANGED <<out, temp, rout, pieces>>
    BY <1>5 DEF Lock, Wake, Relock, Get, Interrupt, Call
  <2>2. PICK to \in ReaderLabels \ Hands :
          rpc' = [rpc EXCEPT ![r] = to] /\ rpc[r] \notin Hands /\ (to \in Getting => Backlog # 0)
    BY <1>5 DEF Lock, Wake, Relock, Get, Interrupt, Call, Reader, ReaderLabels, Hands, Getting
  <2>3. to \in Getting => out < in
    BY <1>2, <1>3, <2>2 DEF Backlog
  <2>4. QED BY <1>1, <2>1, <2>2, <2>3, EmptyHandedKeepsReads
<1>6. CASE CopyHead(r)
  <2>1. /\ Moves("copy_head", "copy_tail") /\ UNCHANGED <<out, pieces>>
        /\ rout' = [rout EXCEPT ![r] = out]
        /\ temp' = [temp EXCEPT !.head = slots[Slot(out)].head]
    BY <1>6 DEF CopyHead, Reader
  <2>2. /\ rpc'[r] = "copy_tail"
        /\ \A s \in ReaderThreads : s # r => rpc[s] \notin Critical /\ rpc'[s] = rpc[s]
    BY <1>2, <1>4, <2>1 DEF Critical, Getting
  <2>3. out < in /\ slots[Slot(out)].head = Number(out)
    BY <1>2, <1>3, <2>1 DEF Holding, Contents, Getting
  <2>4. temp'.head = Number(out) /\ rout'[r] = out
    BY <1>2, <2>1, <2>3 DEF Record
  <2>5. Holding'
    BY <1>1, <1>2, <2>1, <2>2, <2>3, <2>4 DEF Holding, Hands, Critical, Getting, Number
  <2>6. Nobodys(Hands) /\ ~Nobodys({"copy_tail"})' /\ ~Nobodys(Hands)'
    BY <2>1, <2>2 DEF Nobodys, Hands, Critical, Getting
  <2>7. temp.head <= base + out /\ temp.head \in Nat
    BY <1>1, <1>2, <1>3, <2>6 DEF LatestTaken, Record
  <2>8. /\ Number(out) <= Len(sent) /\ temp.head <= Number(out)
    BY <1>2, <1>3, <2>3, <2>7 DEF Number
  <2>9. ASSUME NEW i \in DOMAIN pieces PROVE pieces[i].head <= Number(out)
    <3>1. pieces[i] \in Piece
      <4>1. pieces \in Seq(Piece) BY <1>2
      <4>2. i \in 1..Len(pieces) BY <4>1, LenProperties
      <4>3. QED BY <4>1, <4>2, ElementOfSeq
    <3>2. pieces[i].head \in Nat /\ Number(out) \in Nat
      BY <1>2, <3>1 DEF Piece, Number
    <3>3. pieces[i].head <= temp.head
      BY <1>3 DEF LatestTaken
    <3>4. QED BY <2>7, <2>8, <3>2, <3>3
  <2>10. LatestTaken'
    BY <1>1, <2>1, <2>4, <2>6, <2>8, <2>9 DEF LatestTaken
  <2>11. QED BY <1>3, <2>1, <2>5, <2>10 DEF ReadInv, Ordered
<1>7. CASE CopyTail(r)
  <2> DEFINE id == slots[Slot(rout[r])].tail
  <2>1. /\ Moves("copy_tail", "load_out") /\ UNCHANGED <<out, rout, pieces>>
        /\ temp' = [temp EXCEPT !.tail = id, !.from = 0, !.len = LengthOf(id), !.partial = FALSE]
    BY <1>7 DEF CopyTail, Reader
  <2>2. /\ rpc'[r] = "load_out"
        /\ \A s \in ReaderThreads : s # r => rpc[s] \notin Critical /\ rpc'[s] = rpc[s]
    BY <1>2, <1>4, <2>1 DEF Critical, Getting
  <2>3. /\ out < in /\ temp.head = Number(out) /\ id = Number(out)
    BY <1>2, <1>3, <2>1 DEF Holding, Contents, Getting, Hands
  <2> HIDE DEF id
  <2>4. temp'.head = Number(out) /\ temp'.tail = Number(out) /\ temp'.head = temp.head
    BY <1>2, <2>1, <2>3 DEF Record
  <2>5. Holding'
    BY <1>1, <1>2, <2>1, <2>2, <2>3, <2>4 DEF Holding, Hands, Critical, Getting, Number
  <2>6. ~Nobodys(Hands)'
    BY <2>2 DEF Nobodys, Hands
  <2>7. LatestTaken'
    BY <1>1, <1>3, <2>1, <2>4, <2>6 DEF LatestTaken
  <2>8. QED BY <1>3, <2>1, <2>5, <2>7 DEF ReadInv, Ordered
<1>8. CASE LoadOut(r)
  <2>1. /\ Moves("load_out", "store_out") /\ UNCHANGED <<out, temp, pieces>>
        /\ rout' = [rout EXCEPT ![r] = out]
    BY <1>8 DEF LoadOut, Reader
  <2>2. /\ rpc'[r] = "store_out" /\ rout'[r] = out
        /\ \A s \in ReaderThreads : s # r => rpc[s] \notin Critical /\ rpc'[s] = rpc[s]
    BY <1>2, <1>4, <2>1 DEF Critical, Getting
  <2>3. Holding'
    BY <1>1, <1>2, <1>3, <2>1, <2>2 DEF Holding, Hands, Critical, Getting, Number
  <2>4. Nobodys({"copy_tail"}) /\ ~Nobodys(Hands)'
    BY <2>1, <2>2 DEF Nobodys, Hands, Critical, Getting
  <2>5. LatestTaken'
    BY <1>1, <1>3, <2>1, <2>4 DEF LatestTaken
  <2>6. QED BY <1>3, <2>1, <2>3, <2>5 DEF ReadInv, Ordered
<1>9. CASE StoreOut(r)
  <2>1. /\ Moves("store_out", "deliver") /\ UNCHANGED <<temp, pieces>> /\ out' = rout[r] + 1
    BY <1>9 DEF StoreOut, Reader
  <2>2. /\ rpc'[r] = "deliver"
        /\ \A s \in ReaderThreads : s # r => rpc[s] \notin Critical /\ rpc'[s] = rpc[s]
    BY <1>2, <1>4, <2>1 DEF Critical, Getting
  <2>3. out' = out + 1 /\ temp.head = Number(out)
    BY <1>3, <2>1 DEF Holding, Hands
  <2>4. Nobodys({"copy_tail"}) /\ Nobodys(Getting)' /\ temp.head <= base + out'
    BY <1>2, <2>1, <2>2, <2>3 DEF Nobodys, Critical, Getting, Number
  <2>5. Holding'
    BY <2>4 DEF Holding, Nobodys, Hands, Getting
  <2>6. LatestTaken'
    BY <1>1, <1>3, <2>1, <2>4 DEF LatestTaken
  <2>7. QED BY <1>3, <2>1, <2>5, <2>6 DEF ReadInv, Ordered
<1>10. CASE Deliver(r)
  <2> DEFINE p == [head |-> temp.head, tail |-> temp.tail, from |-> temp.from, size |-> Taken(r)]
  <2>1. /\ Moves("deliver", "idle") /\ UNCHANGED <<out, rout>>
        /\ pieces' = LastTwo(Append(pieces, p))
    BY <1>10 DEF Deliver, Reader
  <2>2. temp'.head = temp.head /\ temp'.tail = temp.tail
    <3>1. \/ temp' = [temp EXCEPT !.from = @ + Taken(r), !.len = @ - Taken(r), !.partial = TRUE]
          \/ temp' = [temp EXCEPT !.partial = FALSE]
      BY <1>10, Zenon DEF Deliver
    <3>2. QED BY <1>2, <3>1 DEF Record
  <2>3. p.head = temp.head /\ p.tail = temp.tail /\ p \in Piece
    <3>1. Taken(r) \in Nat
      BY <1>2, Types DEF Taken, Record
    <3>2. QED BY <1>2, <3>1 DEF Record, Piece
  <2> HIDE DEF p
  <2>4. Nobodys(Getting) /\ Nobodys(Getting)'
    BY <1>2, <1>4, <2>1 DEF Nobodys, Critical, Getting
  <2>5. Holding'
    BY <2>4 DEF Holding, Nobodys, Hands, Getting
  <2>6. temp.head = temp.tail /\ temp.head <= base + out
    BY <1>1, <1>3, <2>4 DEF LatestTaken, Nobodys, Hands, Getting
  <2>7. /\ Len(pieces') \in 1..2 /\ pieces'[Len(pieces')] = p
        /\ Len(pieces') = 2 => pieces # << >> /\ pieces'[1] = pieces[Len(pieces)]
        /\ DOMAIN pieces' = 1..Len(pieces')
    BY <1>2, <2>1, <2>3, LastPieces
  <2>8. pieces # << >> => /\ Len(pieces) \in DOMAIN pieces
                          /\ pieces[Len(pieces)].head <= temp.head
                          /\ pieces[Len(pieces)].head = pieces[Len(pieces)].tail
    <3>1. pieces # << >> => Len(pieces) \in DOMAIN pieces
      BY <1>2, LenProperties, EmptySeq
    <3>2. QED BY <1>3, <3>1 DEF LatestTaken, Ordered
  <2>9. LatestTaken'
    <3>1. temp.head \in Nat
      BY <1>2 DEF Record
    <3>2. \A i \in DOMAIN pieces' : i = Len(pieces') \/ (i = 1 /\ Len(pieces') = 2)
      BY <2>7
    <3>3. \A i \in DOMAIN pieces' : pieces'[i].head <= temp'.head
      BY <2>2, <2>3, <2>7, <2>8, <3>1, <3>2
    <3>4. QED BY <1>1, <1>3, <2>1, <2>2, <2>6, <3>3 DEF LatestTaken
  <2>10. Ordered'
    BY <2>3, <2>6, <2>7, <2>8 DEF Ordered
  <2>11. QED BY <2>5, <2>9, <2>10 DEF ReadInv
<1>11. QED
  BY <1>5, <1>6, <1>7, <1>8, <1>9, <1>10 DEF Reading, ReaderStep

\* One reader, or readers that no signal interrupts: then the critical section is one.
\* With one reader it does not matter whether the mutex is held.
OneReader == \A r, s \in ReaderThreads : r = s
Orderly == OneReader \/ ~MayInterrupt

OrderInv == /\ TInv
            /\ ~MayInterrupt => LockInv
            /\ ~raced => KfifoInv /\ ReadInv

LEMMA OrderlyAlone == ASSUME Orderly, ~MayInterrupt => LockInv PROVE Alone
BY DEF Orderly, OneReader, Alone, LockInv, Exclusive, Critical

LEMMA OrderInit == Init => OrderInv
<1> SUFFICES ASSUME Init PROVE OrderInv
  OBVIOUS
<1>1. \A r \in ReaderThreads : rpc[r] = "idle"
  BY DEF Init
<1>2. KfifoInv
  BY <1>1, SizeAssumption
     DEF Init, KfifoInv, Overlap, Getting, InLine, Writing, Contents, Quiet, Dropping
<1>3. ReadInv
  BY <1>1 DEF Init, ReadInv, Holding, LatestTaken, Ordered, Getting, Hands, EmptyRecord, Nobodys
<1>4. QED BY <1>2, <1>3, TypeInit, LockInit DEF OrderInv

LEMMA OrderNext == Orderly /\ OrderInv /\ [Next]_vars => OrderInv'
<1> SUFFICES ASSUME Orderly, OrderInv, [Next]_vars PROVE OrderInv'
  OBVIOUS
<1>1. TInv' /\ (~MayInterrupt => LockInv')
  BY TypeNext, LockStep DEF OrderInv
<1>2. SUFFICES ASSUME ~raced' PROVE KfifoInv' /\ ReadInv'
  BY <1>1 DEF OrderInv
<1>3. CASE UNCHANGED vars
  <2>1. KfifoInv /\ ReadInv
    BY <1>2, <1>3 DEF vars, history, OrderInv
  <2>2. UNCHANGED <<attached, sent, wpc, wout, in, out, slots, temp, rpc, rout, pieces, base>>
    BY <1>3 DEF vars, receiver, reader, history
  <2>3. KfifoInv'
    BY <2>1, <2>2 DEF KfifoInv, Overlap, InLine, Writing, Contents, Number, Quiet
  <2>4. ReadInv'
    BY <2>1, <2>2 DEF ReadInv, Holding, LatestTaken, Ordered, Nobodys, Number
  <2>5. QED BY <2>3, <2>4
<1>4. CASE Next
  <2>1. TInv /\ KfifoInv /\ ReadInv /\ Holding /\ Alone /\ Remember
    BY <1>2, <1>4, NotRaced, OrderlyAlone DEF OrderInv, ReadInv, Next
  <2>2. CASE ReceiveSentence \/ (\E b \in Bytes : ReceiveByte(b)) \/ ReceiverMoves
    <3>1. KfifoInv'
      BY <1>2, <2>1, <2>2, ReceiveSentenceKeepsKfifo, ReceiveByteKeepsKfifo,
         ReceiverMovesKeepKfifo
    <3>2. QED BY <1>1, <1>2, <2>1, <2>2, <3>1, ReceiverKeepsReads
  <2>3. CASE Close \/ Open
    BY <1>2, <2>1, <2>3, OpenCloseKeepKfifo, OpenCloseKeepReads
  <2>4. ASSUME NEW r \in ReaderThreads, Reading(r) PROVE KfifoInv' /\ ReadInv'
    BY <1>1, <1>2, <2>1, <2>4, ReadingKeepsKfifo, ReadingKeepsReads
  <2>5. QED BY <1>4, <2>2, <2>3, <2>4, NextCases
<1>5. QED BY <1>3, <1>4

\* Whatever the size of the kfifo and the pace of the receiver, as long as no drop has
\* overlapped a read: threads that share the device get no torn record, and none that
\* is older than one already returned.
THEOREM SharingOrder == Orderly => (Spec => []SharedInOrder)
<1> SUFFICES ASSUME Orderly PROVE Spec => []SharedInOrder
  OBVIOUS
<1>1. OrderInv => SharedInOrder
  BY DEF OrderInv, ReadInv, Ordered, SharedInOrder
<1>2. OrderInv /\ [Next]_vars => OrderInv'
  BY OrderNext
<1>3. QED BY <1>1, <1>2, OrderInit, PTL DEF Spec

-----------------------------------------------------------------------------
(***************************************************************************)
(* What one reader gets.  A record is taken when the one before has been   *)
(* returned to its end, and its pieces are returned one after the other.   *)
(***************************************************************************)
LastOne == pieces[Len(pieces)]
Fresh == temp.from = 0 /\ temp.len = sent[temp.head]
Newer == pieces # << >> => LastOne.head < temp.head

\* Where a reader is tells what nmea_temp is to the last piece returned.
Stage(r) ==
  /\ rpc[r] # "idle" => nr[r] \in ReadSizes
  /\ rpc[r] \in {"get", "relock"} => out < in
  /\ rpc[r] \in Getting => ~temp.partial
  /\ rpc[r] \in Hands => Newer
  /\ rpc[r] \in {"load_out", "store_out"} => Fresh
  /\ rpc[r] = "deliver" /\ ~temp.partial => Fresh /\ Newer /\ temp.head > base
  /\ rpc[r] \notin Hands \cup {"deliver"} /\ pieces # << >> => temp.head = LastOne.head

\* The rest of a record, when there is one, begins where the last piece ends.
Rest ==
  IF temp.partial
  THEN /\ pieces # << >> /\ temp.head = LastOne.head
       /\ temp.from = LastOne.from + LastOne.size /\ temp.from > 0 /\ temp.len > 0
       /\ temp.from + temp.len = sent[temp.head]
  ELSE pieces # << >> => LastOne.from + LastOne.size = sent[LastOne.head]

Sentences ==
  \A i \in DOMAIN pieces :
    /\ pieces[i].head = pieces[i].tail /\ pieces[i].head > base
    /\ Len(pieces) = 1 => First(1)
    /\ i > 1 => IF First(i)
                THEN Ends(i - 1) /\ pieces[i].head > pieces[i - 1].head
                ELSE /\ pieces[i].head = pieces[i - 1].head
                     /\ pieces[i].from = pieces[i - 1].from + pieces[i - 1].size

WholeInv == (\A r \in ReaderThreads : Stage(r)) /\ Rest /\ Sentences

\* The last piece is one of those returned, and of a sentence that has been queued.
LEMMA LastIn ==
  ASSUME TInv, KfifoInv, ReadInv, Sentences, pieces # << >>
  PROVE  /\ Len(pieces) \in DOMAIN pieces /\ LastOne \in Piece
         /\ LastOne.head = LastOne.tail /\ LastOne.head > base /\ LastOne.head <= temp.head
         /\ LastOne.head \in 1..Len(sent)
<1>1. pieces \in Seq(Piece) /\ Len(pieces) \in DOMAIN pieces
  BY Types, LenProperties, EmptySeq
<1>2. LastOne \in Piece
  BY <1>1, ElementOfSeq, LenProperties DEF LastOne
<1>3. /\ LastOne.head = LastOne.tail /\ LastOne.head > base /\ LastOne.head <= temp.head
      /\ temp.head <= Len(sent)
  BY <1>1 DEF LastOne, Sentences, ReadInv, LatestTaken
<1>4. LastOne.head \in Nat /\ base \in Nat /\ temp.head \in Nat /\ Len(sent) \in Nat
  BY <1>2, Types DEF Piece, Record
<1>5. QED BY <1>1, <1>2, <1>3, <1>4

\* The length of a queued sentence does not change.
LEMMA ReceiverKeepsWhole ==
  ASSUME TInv, KfifoInv, ReadInv, WholeInv, Remember, ~raced',
         ReceiveSentence \/ (\E b \in Bytes : ReceiveByte(b)) \/ ReceiverMoves
  PROVE  WholeInv'
<1>1. /\ UNCHANGED <<base, temp, rpc, nr, pieces>>
      /\ out < in => out' < in'
      /\ \A id \in 1..Len(sent) : sent'[id] = sent[id]
  BY ReceiverLeaves
<1>2. temp.head > base => temp.head \in 1..Len(sent)
  BY Types DEF ReadInv, LatestTaken, Record
<1>3. pieces # << >> => LastOne.head \in 1..Len(sent) /\ LastOne.head > base
  BY LastIn DEF WholeInv
<1>4. temp.head > base => sent'[temp.head] = sent[temp.head]
  BY <1>1, <1>2
<1>5. pieces # << >> => sent'[LastOne.head] = sent[LastOne.head]
  BY <1>1, <1>3
<1>6. ASSUME NEW r \in ReaderThreads PROVE Stage(r)'
  <2>1. rpc[r] \in {"load_out", "store_out"} => temp.head > base
    BY Types DEF ReadInv, Holding, Hands, Number
  <2>2. QED BY <1>1, <1>4, <2>1 DEF WholeInv, Stage, Fresh, Newer, LastOne
<1>7. Rest'
  BY <1>1, <1>3, <1>4, <1>5 DEF WholeInv, Rest, LastOne
<1>8. Sentences'
  <2> SUFFICES ASSUME NEW i \in DOMAIN pieces, i > 1 PROVE Ends(i - 1) => Ends(i - 1)'
    BY <1>1 DEF WholeInv, Sentences, First, Ends
  <2>1. i - 1 \in DOMAIN pieces
    BY Types, LenProperties
  <2>2. pieces[i - 1] \in Piece
    BY <2>1, Types, ElementOfSeq, LenProperties
  <2>3. pieces[i - 1].head > base /\ pieces[i - 1].head <= Len(sent)
    <3>1. /\ pieces[i - 1].head > base /\ pieces[i - 1].head <= temp.head
          /\ temp.head <= Len(sent)
      BY <2>1 DEF WholeInv, Sentences, ReadInv, LatestTaken
    <3>2. /\ pieces[i - 1].head \in Nat /\ temp.head \in Nat
          /\ Len(sent) \in Nat /\ base \in Nat
      BY <2>2, Types DEF Piece, Record
    <3>3. QED BY <3>1, <3>2
  <2>4. pieces[i - 1].head \in 1..Len(sent)
    <3>1. pieces[i - 1].head \in Nat /\ base \in Nat /\ Len(sent) \in Nat
      BY <2>2, Types DEF Piece
    <3>2. QED BY <2>3, <3>1
  <2>5. QED BY <1>1, <2>4 DEF Ends
<1>9. QED BY <1>6, <1>7, <1>8 DEF WholeInv

LEMMA OpenCloseKeepWhole ==
  ASSUME TInv, KfifoInv, ReadInv, WholeInv, Remember, ~raced', Close \/ Open
  PROVE  WholeInv'
<1>1. Quiet /\ UNCHANGED <<rpc, sent>>
  BY DEF Close, Open, receiver, reader, KfifoInv, InLine
<1>2. CASE Close
  <2>1. UNCHANGED <<temp, pieces, base>>
    BY <1>2 DEF Close, Remember, reader
  <2>2. ASSUME NEW r \in ReaderThreads PROVE Stage(r)'
    BY <1>1, <2>1 DEF Quiet, WholeInv, Stage, Hands, Getting, LastOne
  <2>3. QED BY <1>1, <2>1, <2>2 DEF WholeInv, Rest, Sentences, LastOne, First, Ends
<1>3. CASE Open
  <2>1. temp' = EmptyRecord /\ pieces' = << >>
    BY <1>3 DEF Open
  <2>2. ASSUME NEW r \in ReaderThreads PROVE Stage(r)'
    BY <1>1, <2>1 DEF Quiet, Stage, Hands, Getting
  <2>3. Rest'
    BY <2>1 DEF Rest, EmptyRecord
  <2>4. Sentences'
    BY <2>1 DEF Sentences
  <2>5. QED BY <2>2, <2>3, <2>4 DEF WholeInv
<1>4. QED BY <1>2, <1>3

\* A step of the reader that keeps nmea_temp and what has been returned as they are.
LEMMA LookingKeepsWhole ==
  ASSUME OneReader, TInv, KfifoInv, ReadInv, WholeInv, NEW r \in ReaderThreads,
         \/ Lock(r) \/ Wake(r) \/ Relock(r) \/ Get(r) \/ Interrupt(r)
         \/ \E n \in ReadSizes : Call(r, n),
         base' = base
  PROVE  WholeInv'
<1>1. /\ UNCHANGED <<sent, temp, pieces, in, out>>
  BY DEF Lock, Wake, Relock, Get, Interrupt, Call, Reader, receiver
<1>2. Rest' /\ Sentences'
  BY <1>1 DEF WholeInv, Rest, Sentences, LastOne, First, Ends
<1>3. Stage(r)
  BY DEF WholeInv
<1>4. Backlog # 0 => out < in
  BY Types DEF KfifoInv, InLine, Backlog
<1>5. Stage(r)'
  <2>1. CASE \E n \in ReadSizes : Call(r, n)
    BY <1>1, <1>3, <2>1, Types, ReadAssumption DEF Call, Reader, Stage, Hands, Getting, LastOne
  <2>2. CASE Get(r)
    BY <1>1, <1>3, <1>4, <2>2, Types DEF Get, Reader, Stage, Hands, Getting, LastOne, Backlog
  <2>3. CASE Lock(r) \/ Wake(r) \/ Relock(r) \/ Interrupt(r)
    BY <1>1, <1>3, <1>4, <2>3, Types
       DEF Lock, Wake, Relock, Interrupt, Reader, Stage, Hands, Getting, LastOne
  <2>4. QED BY <2>1, <2>2, <2>3
<1>6. \A s \in ReaderThreads : s = r
  BY DEF OneReader
<1>7. QED BY <1>2, <1>5, <1>6 DEF WholeInv

\* The steps of its kfifo_get.
LEMMA GettingKeepsWhole ==
  ASSUME OneReader, TInv, KfifoInv, ReadInv, WholeInv, NEW r \in ReaderThreads,
         CopyHead(r) \/ CopyTail(r) \/ LoadOut(r) \/ StoreOut(r),
         base' = base
  PROVE  WholeInv'
<1>1. UNCHANGED <<sent, pieces, in, nr, slots>>
  BY DEF CopyHead, CopyTail, LoadOut, StoreOut, Reader, receiver
<1>2. /\ Stage(r) /\ Holding /\ Contents /\ LatestTaken /\ Rest
      /\ in \in Nat /\ out \in Nat /\ base \in Nat /\ temp \in Record
      /\ rpc \in [ReaderThreads -> ReaderLabels]
  BY Types DEF WholeInv, ReadInv, KfifoInv
<1>3. rpc[r] \in Getting /\ ~temp.partial
  BY <1>2 DEF CopyHead, CopyTail, LoadOut, StoreOut, Reader, Stage, Getting
<1>4. attached /\ out < in
  BY <1>2, <1>3 DEF KfifoInv, InLine, Quiet, Getting, Holding
<1>5. \A s \in ReaderThreads : s = r
  BY DEF OneReader
<1>6. SUFFICES Stage(r)' /\ ~temp'.partial
  <2>1. Sentences'
    BY <1>1 DEF WholeInv, Sentences, First, Ends
  <2>2. ~temp'.partial => Rest'
    BY <1>1, <1>2, <1>3 DEF Rest, LastOne
  <2>3. QED BY <1>5, <1>6, <2>1, <2>2 DEF WholeInv
<1>7. CASE CopyHead(r)
  <2>1. /\ rpc[r] = "copy_head" /\ rpc'[r] = "copy_tail"
        /\ temp' = [temp EXCEPT !.head = slots[Slot(out)].head]
    BY <1>2, <1>7 DEF CopyHead, Reader
  <2>2. slots[Slot(out)].head = Number(out)
    BY <1>2, <1>4 DEF Contents
  <2>3. temp'.head = Number(out) /\ temp'.partial = temp.partial
    BY <1>2, <2>1, <2>2 DEF Record
  <2>4. temp.head <= base + out
    BY <1>2, <1>4, <1>5, <2>1 DEF LatestTaken, Nobodys, Hands
  <2>5. Newer'
    <3>1. pieces # << >> => LastOne.head = temp.head
      BY <1>2, <2>1 DEF Stage, Hands
    <3>2. temp.head < Number(out)
      BY <1>2, <2>4 DEF Number, Record
    <3>3. QED BY <1>1, <2>3, <3>1, <3>2 DEF Newer, LastOne
  <2>6. QED BY <1>1, <1>2, <1>3, <2>1, <2>3, <2>5 DEF Stage, Hands, Getting
<1>8. CASE CopyTail(r)
  <2> DEFINE id == slots[Slot(rout[r])].tail
  <2>1. /\ rpc[r] = "copy_tail" /\ rpc'[r] = "load_out"
        /\ temp' = [temp EXCEPT !.tail = id, !.from = 0, !.len = LengthOf(id), !.partial = FALSE]
    BY <1>2, <1>8 DEF CopyTail, Reader
  <2>2. id = Number(out) /\ temp.head = Number(out) /\ id # 0
    BY <1>2, <1>4, <2>1 DEF Contents, Holding, Hands, Number
  <2> HIDE DEF id
  <2>3. LengthOf(id) = sent[temp.head]
    BY <2>2 DEF LengthOf
  <2>4. temp'.head = temp.head /\ temp'.from = 0 /\ temp'.len = sent[temp.head] /\ ~temp'.partial
    BY <1>2, <2>1, <2>3 DEF Record
  <2>5. QED BY <1>1, <1>2, <2>1, <2>4 DEF Stage, Hands, Getting, Fresh, Newer, LastOne
<1>9. CASE LoadOut(r)
  BY <1>1, <1>2, <1>3, <1>9 DEF LoadOut, Reader, Stage, Hands, Getting, Fresh, Newer, LastOne
<1>10. CASE StoreOut(r)
  <2>1. rpc[r] = "store_out" /\ rpc'[r] = "deliver" /\ temp' = temp
    BY <1>2, <1>10 DEF StoreOut, Reader
  <2>2. temp.head > base
    BY <1>2, <2>1 DEF Holding, Hands, Number
  <2>3. QED BY <1>1, <1>2, <1>3, <2>1, <2>2 DEF Stage, Hands, Getting, Fresh, Newer, LastOne
<1>11. QED BY <1>7, <1>8, <1>9, <1>10

\* A piece is returned: the first of a record when the last one was complete, else the
\* one that follows it.
LEMMA DeliveringKeepsWhole ==
  ASSUME OneReader, TInv, KfifoInv, ReadInv, WholeInv, NEW r \in ReaderThreads, Deliver(r),
         base' = base
  PROVE  WholeInv'
<1> DEFINE p == [head |-> temp.head, tail |-> temp.tail, from |-> temp.from, size |-> Taken(r)]
<1>1. /\ pieces' = LastTwo(Append(pieces, p)) /\ sent' = sent /\ UNCHANGED <<in, out>>
      /\ rpc[r] = "deliver"
  BY DEF Deliver, Reader, receiver
<1>2. /\ temp \in Record /\ pieces \in Seq(Piece) /\ Len(pieces) <= 2
      /\ rpc \in [ReaderThreads -> ReaderLabels] /\ nr \in [ReaderThreads -> Nat]
      /\ base \in Nat
      /\ Stage(r) /\ Rest /\ Sentences /\ LatestTaken
  BY Types DEF WholeInv, ReadInv
<1>3. rpc'[r] = "idle"
  BY <1>2 DEF Deliver, Reader
<1>4. temp.from \in Nat /\ temp.len \in Nat /\ Taken(r) \in Nat /\ nr[r] \in Nat /\ nr[r] > 0
  BY <1>1, <1>2, ReadAssumption DEF Record, Taken, Stage
<1>5. p \in Piece
  BY <1>2, <1>4 DEF Piece, Record
<1>6. p.head = temp.head /\ p.tail = temp.tail /\ p.from = temp.from /\ p.size = Taken(r)
  OBVIOUS
<1> HIDE DEF p
<1>7. /\ Len(pieces') = (IF pieces = << >> THEN 1 ELSE 2)
      /\ DOMAIN pieces' = 1..Len(pieces') /\ Len(pieces') \in 1..2
      /\ LastOne' = p /\ pieces' # << >>
      /\ pieces # << >> => pieces'[1] = LastOne
  <2>1. /\ Len(pieces') = (IF pieces = << >> THEN 1 ELSE 2)
        /\ Len(pieces') \in 1..2 /\ pieces'[Len(pieces')] = p
        /\ Len(pieces') = 2 => pieces # << >> /\ pieces'[1] = pieces[Len(pieces)]
        /\ DOMAIN pieces' = 1..Len(pieces')
    BY <1>1, <1>2, <1>5, LastPieces
  <2>2. pieces' # << >>
    BY <2>1
  <2>3. QED BY <2>1, <2>2 DEF LastOne
<1>8. \/ /\ temp.len > nr[r] /\ Taken(r) = nr[r]
         /\ temp' = [temp EXCEPT !.from = temp.from + nr[r], !.len = temp.len - nr[r],
                                 !.partial = TRUE]
      \/ /\ ~(temp.len > nr[r]) /\ Taken(r) = temp.len
         /\ temp' = [temp EXCEPT !.partial = FALSE]
  BY Zenon DEF Deliver, Taken
<1>9. \A s \in ReaderThreads : s = r
  BY DEF OneReader
<1>10. p.head = p.tail /\ p.head > base /\ p.from + temp.len = sent[p.head]
  <2>1. temp.head = temp.tail
    BY <1>1, <1>2, <1>9 DEF LatestTaken, Nobodys
  <2>2. CASE temp.partial
    <3>1. LastOne.head > base
      BY <1>2, <2>2, LastIn DEF Rest
    <3>2. QED BY <1>2, <1>6, <2>1, <2>2, <3>1 DEF Rest
  <2>3. CASE ~temp.partial
    BY <1>1, <1>2, <1>4, <1>6, <2>1, <2>3 DEF Stage, Fresh
  <2>4. QED BY <2>2, <2>3
<1>11. /\ temp'.head = p.head
       /\ \/ temp'.partial /\ temp'.from = p.from + p.size /\ temp'.from > 0
             /\ temp'.len = temp.len - p.size /\ temp'.len > 0
          \/ ~temp'.partial /\ p.size = temp.len
  <2>1. CASE /\ temp.len > nr[r] /\ Taken(r) = nr[r]
             /\ temp' = [temp EXCEPT !.from = temp.from + nr[r], !.len = temp.len - nr[r],
                                     !.partial = TRUE]
    BY <1>2, <1>4, <1>6, <2>1 DEF Record
  <2>2. CASE Taken(r) = temp.len /\ temp' = [temp EXCEPT !.partial = FALSE]
    BY <1>2, <1>6, <2>2 DEF Record
  <2>3. QED BY <1>8, <2>1, <2>2
<1>12. Stage(r)'
  BY <1>3, <1>7, <1>11 DEF Stage, Hands, Getting
<1>13. Rest'
  <2>1. CASE temp'.partial
    <3>1. temp'.from + temp'.len = p.from + temp.len
      BY <1>4, <1>6, <1>11, <2>1
    <3>2. QED BY <1>1, <1>7, <1>10, <1>11, <2>1, <3>1 DEF Rest
  <2>2. CASE ~temp'.partial
    BY <1>1, <1>7, <1>10, <1>11, <2>2 DEF Rest
  <2>3. QED BY <2>1, <2>2
<1>14. CASE pieces = << >>
  <2>1. p.from = 0
    BY <1>1, <1>2, <1>6, <1>14 DEF Rest, Stage, Fresh
  <2>2. Sentences'
    BY <1>1, <1>7, <1>10, <1>14, <2>1 DEF Sentences, First, LastOne
  <2>3. QED BY <1>9, <1>12, <1>13, <2>2 DEF WholeInv
<1>15. CASE pieces # << >>
  <2>1. /\ LastOne.head = LastOne.tail /\ LastOne.head > base
        /\ LastOne \in Piece
    BY <1>2, <1>15, LastIn DEF WholeInv
  <2>2. IF p.from = 0
        THEN LastOne.from + LastOne.size = sent[LastOne.head] /\ p.head > LastOne.head
        ELSE p.head = LastOne.head /\ p.from = LastOne.from + LastOne.size
    <3>1. CASE temp.partial
      BY <1>2, <1>4, <1>6, <3>1 DEF Rest
    <3>2. CASE ~temp.partial
      <4>1. p.from = 0 /\ LastOne.head < p.head
        BY <1>1, <1>2, <1>6, <1>15, <3>2 DEF Stage, Fresh, Newer
      <4>2. p.head \in Nat /\ LastOne.head \in Nat
        BY <1>5, <2>1 DEF Piece
      <4>3. QED BY <1>2, <1>15, <3>2, <4>1, <4>2 DEF Rest
    <3>3. QED BY <3>1, <3>2
  <2>3. Len(pieces') = 2 /\ pieces'[1] = LastOne /\ pieces'[2] = p /\ DOMAIN pieces' = 1..2
    BY <1>7, <1>15 DEF LastOne
  <2>4. Sentences'
    <3> SUFFICES ASSUME NEW i \in {1, 2}
                 PROVE  /\ pieces'[i].head = pieces'[i].tail /\ pieces'[i].head > base
                        /\ i > 1 => IF First(i)'
                                    THEN Ends(i - 1)' /\ pieces'[i].head > pieces'[i - 1].head
                                    ELSE /\ pieces'[i].head = pieces'[i - 1].head
                                         /\ pieces'[i].from = pieces'[i - 1].from + pieces'[i - 1].size
      BY <2>3 DEF Sentences
    <3>1. CASE i = 1
      BY <2>1, <2>3, <3>1
    <3>2. CASE i = 2
      BY <1>1, <1>10, <2>2, <2>3, <3>2 DEF First, Ends
    <3>3. QED BY <3>1, <3>2
  <2>5. QED BY <1>9, <1>12, <1>13, <2>4 DEF WholeInv
<1>16. QED BY <1>14, <1>15

WholeOrderInv == OrderInv /\ (~raced => WholeInv)

LEMMA WholeInit == Init => WholeOrderInv
<1> SUFFICES ASSUME Init PROVE WholeInv
  BY OrderInit DEF WholeOrderInv
<1>1. QED BY DEF Init, WholeInv, Stage, Rest, Sentences, EmptyRecord, Getting, Hands

LEMMA WholeNext == OneReader /\ WholeOrderInv /\ [Next]_vars => WholeOrderInv'
<1> SUFFICES ASSUME OneReader, WholeOrderInv, [Next]_vars PROVE WholeOrderInv'
  OBVIOUS
<1>1. OrderInv'
  BY OrderNext DEF WholeOrderInv, Orderly
<1>2. SUFFICES ASSUME ~raced' PROVE WholeInv'
  BY <1>1 DEF WholeOrderInv
<1>3. CASE UNCHANGED vars
  <2>1. UNCHANGED <<sent, in, out, temp, rpc, nr, pieces, base>> /\ WholeInv
    BY <1>2, <1>3 DEF vars, receiver, reader, history, WholeOrderInv
  <2>2. QED
    BY <2>1 DEF WholeInv, Stage, Rest, Sentences, First, Ends, LastOne, Fresh, Newer
<1>4. CASE Next
  <2>1. TInv /\ KfifoInv /\ ReadInv /\ WholeInv /\ Remember
    BY <1>2, <1>4, NotRaced DEF WholeOrderInv, OrderInv, Next
  <2>2. CASE ReceiveSentence \/ (\E b \in Bytes : ReceiveByte(b)) \/ ReceiverMoves
    BY <1>2, <2>1, <2>2, ReceiverKeepsWhole
  <2>3. CASE Close \/ Open
    BY <1>2, <2>1, <2>3, OpenCloseKeepWhole
  <2>4. ASSUME NEW r \in ReaderThreads, Reading(r) PROVE WholeInv'
    <3>1. base' = base
      BY <2>1, <2>4, ReadingKeeps, BaseKept
    <3>2. QED
      BY <2>1, <2>4, <3>1, LookingKeepsWhole, GettingKeepsWhole, DeliveringKeepsWhole
         DEF Reading, ReaderStep
  <2>5. QED BY <1>4, <2>2, <2>3, <2>4, NextCases
<1>5. QED BY <1>3, <1>4

\* The one reader of the server, also when signals interrupt it: as long as no drop has
\* overlapped a read, what the reads return is whole sentences, each from its first byte
\* to its last, in the order of arrival, whatever the size of the kfifo and of the reads.
THEOREM WholeSentences == OneReader => (Spec => []ReadsWholeSentences)
<1> SUFFICES ASSUME OneReader PROVE Spec => []ReadsWholeSentences
  OBVIOUS
<1>1. WholeOrderInv => ReadsWholeSentences
  BY DEF WholeOrderInv, WholeInv, Sentences, ReadsWholeSentences
<1>2. WholeOrderInv /\ [Next]_vars => WholeOrderInv'
  BY WholeNext
<1>3. QED BY <1>1, <1>2, WholeInit, PTL DEF Spec

-----------------------------------------------------------------------------
(***************************************************************************)
(* The refinement of SentenceQueue.  The queue is a run of numbers, from   *)
(* the one after n; a step of the discipline adds one at its end, takes    *)
(* one from its front, or leaves it.                                       *)
(***************************************************************************)
Run(n, k) == [i \in 1..k |-> n + i]

LEMMA RunSeq ==
  ASSUME NEW n \in Nat, NEW k \in Nat
  PROVE  /\ Run(n, k) \in Seq(Nat) /\ Len(Run(n, k)) = k /\ DOMAIN Run(n, k) = 1..k
         /\ \A i \in 1..k : Run(n, k)[i] = n + i
BY DEF Run

LEMMA RunGrows ==
  ASSUME NEW n \in Nat, NEW k \in Nat PROVE Run(n, k + 1) = Append(Run(n, k), n + k + 1)
<1> DEFINE q == Run(n, k)
           e == n + k + 1
<1>1. q \in Seq(Nat) /\ Len(q) = k /\ (\A i \in 1..k : q[i] = n + i) /\ e \in Nat
  BY RunSeq
<1>2. /\ Run(n, k + 1) \in Seq(Nat) /\ Len(Run(n, k + 1)) = k + 1
      /\ \A i \in 1..(k + 1) : Run(n, k + 1)[i] = n + i
  <2>1. k + 1 \in Nat OBVIOUS
  <2>2. QED BY <2>1, RunSeq
<1> HIDE DEF q
<1>3. /\ Append(q, e) \in Seq(Nat) /\ Len(Append(q, e)) = k + 1
      /\ \A i \in 1..k : Append(q, e)[i] = n + i
      /\ Append(q, e)[k + 1] = e
  BY <1>1, AppendProperties
<1>4. \A i \in 1..(k + 1) : Append(q, e)[i] = Run(n, k + 1)[i]
  <2>1. \A i \in 1..(k + 1) : i \in 1..k \/ i = k + 1 OBVIOUS
  <2>2. QED BY <1>2, <1>3, <2>1
<1>5. QED BY <1>2, <1>3, <1>4, SeqEqual DEF q

LEMMA RunShrinks ==
  ASSUME NEW n \in Nat, NEW k \in Nat, k > 0
  PROVE  Run(n, k) # << >> /\ Head(Run(n, k)) = n + 1 /\ Tail(Run(n, k)) = Run(n + 1, k - 1)
<1> DEFINE q == Run(n, k)
           t == Run(n + 1, k - 1)
<1>1. q \in Seq(Nat) /\ Len(q) = k /\ \A i \in 1..k : q[i] = n + i
  BY RunSeq
<1>2. t \in Seq(Nat) /\ Len(t) = k - 1 /\ \A i \in 1..(k - 1) : t[i] = n + 1 + i
  <2>1. k - 1 \in Nat /\ n + 1 \in Nat OBVIOUS
  <2>2. QED BY <2>1, RunSeq
<1> HIDE DEF q, t
<1>3. q # << >>
  BY <1>1
<1>4. /\ Head(q) = q[1] /\ Tail(q) \in Seq(Nat) /\ Len(Tail(q)) = k - 1
      /\ \A i \in 1..(k - 1) : Tail(q)[i] = q[i + 1]
  BY <1>1, <1>3, HeadTailProperties
<1>5. \A i \in 1..(k - 1) : Tail(q)[i] = t[i]
  BY <1>1, <1>2, <1>4
<1>6. Tail(q) = t
  BY <1>2, <1>4, <1>5, SeqEqual
<1>7. QED BY <1>1, <1>3, <1>4, <1>6 DEF q, t

\* All but the last of a sequence.
LEMMA Unappended ==
  ASSUME NEW s \in Seq(Nat)
  PROVE  /\ \A e \in Nat : SubSeq(Append(s, e), 1, Len(Append(s, e)) - 1) = s
         /\ Len(s) > 0 => /\ Append(SubSeq(s, 1, Len(s) - 1), s[Len(s)]) = s
                          /\ Len(SubSeq(s, 1, Len(s) - 1)) = Len(s) - 1
                          /\ \A i \in 1..(Len(s) - 1) : SubSeq(s, 1, Len(s) - 1)[i] = s[i]
<1>1. ASSUME NEW e \in Nat PROVE SubSeq(Append(s, e), 1, Len(Append(s, e)) - 1) = s
  <2> DEFINE t == Append(s, e)
  <2>1. /\ t \in Seq(Nat) /\ Len(t) = Len(s) + 1 /\ Len(s) \in Nat
        /\ \A i \in 1..Len(s) : t[i] = s[i]
    BY AppendProperties, LenProperties
  <2> HIDE DEF t
  <2>2. /\ SubSeq(t, 1, Len(s)) \in Seq(Nat) /\ Len(SubSeq(t, 1, Len(s))) = Len(s)
        /\ \A i \in 1..Len(s) : SubSeq(t, 1, Len(s))[i] = t[i]
    BY <2>1, SubSeqProperties
  <2>3. SubSeq(t, 1, Len(s)) = s
    BY <2>1, <2>2, SeqEqual
  <2>4. QED BY <2>1, <2>3 DEF t
<1>2. ASSUME Len(s) > 0
      PROVE  /\ Append(SubSeq(s, 1, Len(s) - 1), s[Len(s)]) = s
             /\ Len(SubSeq(s, 1, Len(s) - 1)) = Len(s) - 1
             /\ \A i \in 1..(Len(s) - 1) : SubSeq(s, 1, Len(s) - 1)[i] = s[i]
  <2> DEFINE u == SubSeq(s, 1, Len(s) - 1)
  <2>1. Len(s) \in Nat /\ s[Len(s)] \in Nat
    BY <1>2, LenProperties, ElementOfSeq
  <2>2. u \in Seq(Nat) /\ Len(u) = Len(s) - 1 /\ \A i \in 1..(Len(s) - 1) : u[i] = s[i]
    <3>1. \A i \in 1..(Len(s) - 1) : s[i] \in Nat
      BY <2>1, ElementOfSeq
    <3>2. /\ u \in Seq(Nat)
          /\ Len(u) = IF 1 <= Len(s) - 1 THEN (Len(s) - 1) - 1 + 1 ELSE 0
          /\ \A i \in 1..((Len(s) - 1) - 1 + 1) : u[i] = s[1 + i - 1]
      BY <2>1, <3>1, SubSeqProperties
    <3> HIDE DEF u
    <3>3. Len(u) = Len(s) - 1
      <4>1. \A n \in Nat : n > 0 => (IF 1 <= n - 1 THEN (n - 1) - 1 + 1 ELSE 0) = n - 1
        OBVIOUS
      <4>2. QED BY <1>2, <2>1, <3>2, <4>1, Zenon
    <3>4. \A i \in 1..(Len(s) - 1) : i \in 1..((Len(s) - 1) - 1 + 1) /\ 1 + i - 1 = i
      BY <2>1
    <3>5. \A i \in 1..(Len(s) - 1) : u[i] = s[i]
      BY <3>2, <3>4
    <3>6. QED BY <3>2, <3>3, <3>5
  <2> HIDE DEF u
  <2>3. /\ Append(u, s[Len(s)]) \in Seq(Nat) /\ Len(Append(u, s[Len(s)])) = Len(s)
        /\ \A i \in 1..(Len(s) - 1) : Append(u, s[Len(s)])[i] = s[i]
        /\ Append(u, s[Len(s)])[Len(s)] = s[Len(s)]
    BY <1>2, <2>1, <2>2, AppendProperties
  <2>4. \A i \in 1..Len(s) : i \in 1..(Len(s) - 1) \/ i = Len(s)
    BY <2>1
  <2>5. \A i \in 1..Len(s) : Append(u, s[Len(s)])[i] = s[i]
    BY <2>3, <2>4
  <2>6. Append(u, s[Len(s)]) = s
    BY <2>3, <2>5, SeqEqual
  <2>7. QED BY <2>2, <2>6 DEF u
<1>3. QED BY <1>1, <1>2

\* The queue, in the driver's variables.
WaitingRun ==
  /\ Waiting = Run(base + out, in - out)
  /\ base + out \in Nat /\ in - out \in 0..Size /\ in - out \in Nat

LEMMA WaitingIs == TInv /\ KfifoInv => WaitingRun
<1> SUFFICES ASSUME TInv, KfifoInv PROVE WaitingRun
  OBVIOUS
<1>1. /\ in \in Nat /\ out \in Nat /\ base \in Nat /\ out <= in /\ in - out <= Size
      /\ Contents
  BY Types DEF KfifoInv, InLine
<1>2. ASSUME NEW i \in 1..(in - out)
      PROVE  Whole(slots[Slot(out + i - 1)]) = base + out + i
  <2>1. out + i - 1 \in out..(in - 1) /\ Number(out + i - 1) = base + out + i
    BY <1>1 DEF Number
  <2>2. QED BY <1>1, <2>1 DEF Contents, Whole
<1>3. Waiting = Run(base + out, in - out)
  BY <1>2, Zenon DEF Waiting, Run, Backlog
<1>4. QED BY <1>1, <1>3, SizeAssumption DEF WaitingRun

LEMMA WaitingIsAfter == TInv' /\ KfifoInv' => WaitingRun'
BY WaitingIs, PTL

\* The sentences queued so far: all that have arrived, but for the one the receiver has
\* in hand.
FinishedPart ==
  /\ Finished \in Seq(Nat)
  /\ attached => Len(Finished) = base + in
  /\ \A id \in 1..Len(Finished) : Finished[id] = sent[id]

LEMMA FinishedIs == ASSUME TInv, KfifoInv PROVE FinishedPart
<1>1. sent \in Seq(Nat) /\ Len(sent) \in Nat /\ in \in Nat /\ base \in Nat /\ InLine
  BY Types DEF KfifoInv
<1>2. CASE wpc = "idle"
  BY <1>1, <1>2 DEF FinishedPart, Finished, InLine
<1>3. CASE wpc # "idle"
  <2>1. attached /\ Len(sent) = base + in + 1 /\ Len(sent) > 0
    BY <1>1, <1>3 DEF InLine, Quiet
  <2>2. /\ Finished = SubSeq(sent, 1, Len(sent) - 1) /\ Len(Finished) = Len(sent) - 1
        /\ \A id \in 1..(Len(sent) - 1) : Finished[id] = sent[id]
    BY <1>1, <1>3, <2>1, Unappended DEF Finished
  <2>3. \A id \in 1..(Len(sent) - 1) : sent[id] \in Nat
    BY <1>1, ElementOfSeq
  <2>4. Finished \in Seq(Nat)
    BY <1>1, <2>2, <2>3, SubSeqProperties
  <2>5. QED BY <1>1, <2>1, <2>2, <2>4 DEF FinishedPart
<1>4. QED BY <1>2, <1>3

\* The reader's side, by where the one reader is.
LeftIs(r) ==
  LeftOver = IF rpc[r] = "deliver"
             THEN IF temp.len > Taken(r)
                  THEN [id |-> Whole(temp), from |-> temp.from + Taken(r),
                        left |-> temp.len - Taken(r)]
                  ELSE [id |-> 0, from |-> 0, left |-> 0]
             ELSE IF temp.partial
                  THEN [id |-> Whole(temp), from |-> temp.from, left |-> temp.len]
                  ELSE [id |-> 0, from |-> 0, left |-> 0]

ReturnedIs(r) ==
  Returned = IF rpc[r] = "deliver"
             THEN [id |-> Whole(temp), from |-> temp.from, size |-> Taken(r)]
             ELSE IF pieces = << >> THEN [id |-> 0, from |-> 0, size |-> 0]
             ELSE [id |-> Whole(LastOne), from |-> LastOne.from, size |-> LastOne.size]

ReaderSide == \A r \in ReaderThreads : LeftIs(r) /\ ReturnedIs(r)
NoReaderSide ==
  ReaderThreads = {} =>
    /\ LeftOver = IF temp.partial
                  THEN [id |-> Whole(temp), from |-> temp.from, left |-> temp.len]
                  ELSE [id |-> 0, from |-> 0, left |-> 0]
    /\ Returned = IF pieces = << >> THEN [id |-> 0, from |-> 0, size |-> 0]
                  ELSE [id |-> Whole(LastOne), from |-> LastOne.from, size |-> LastOne.size]

LEMMA ReaderSideIs == OneReader => ReaderSide /\ NoReaderSide
<1> SUFFICES ASSUME OneReader PROVE ReaderSide /\ NoReaderSide
  OBVIOUS
<1>1. ASSUME NEW r \in ReaderThreads PROVE LeftIs(r) /\ ReturnedIs(r)
  <2>1. \A s \in ReaderThreads : s = r
    BY DEF OneReader
  <2>2. Delivering <=> rpc[r] = "deliver"
    BY <2>1, Zenon DEF Delivering
  <2>3. Delivering => Deliverer = r
    BY <2>1, Zenon DEF Delivering, Deliverer
  <2>4. Delivering => Taken(Deliverer) = Taken(r)
    BY <2>3
  <2>5. LeftIs(r)
    BY <2>2, <2>4, Zenon DEF LeftIs, LeftOver
  <2>6. CASE Delivering
    <3>1. LastPiece = [head |-> temp.head, tail |-> temp.tail, from |-> temp.from, size |-> Taken(r)]
      BY <2>4, <2>6, Zenon DEF LastPiece
    <3>2. /\ LastPiece.head = temp.head /\ LastPiece.tail = temp.tail
          /\ LastPiece.from = temp.from /\ LastPiece.size = Taken(r)
      BY <3>1
    <3>3. Whole(LastPiece) = Whole(temp)
      BY <3>2 DEF Whole
    <3>4. QED BY <2>2, <2>5, <2>6, <3>2, <3>3, Zenon DEF ReturnedIs, Returned
  <2>7. CASE ~Delivering
    <3>1. LastPiece = LastOne
      BY <2>7 DEF LastPiece, LastOne
    <3>2. QED BY <2>2, <2>5, <2>7, <3>1, Zenon DEF ReturnedIs, Returned
  <2>8. QED BY <2>5, <2>6, <2>7
<1>2. NoReaderSide
  <2> SUFFICES ASSUME ReaderThreads = {}
               PROVE  /\ LeftOver = IF temp.partial
                                    THEN [id |-> Whole(temp), from |-> temp.from, left |-> temp.len]
                                    ELSE [id |-> 0, from |-> 0, left |-> 0]
                      /\ Returned = IF pieces = << >> THEN [id |-> 0, from |-> 0, size |-> 0]
                                    ELSE [id |-> Whole(LastOne), from |-> LastOne.from,
                                          size |-> LastOne.size]
    BY DEF NoReaderSide
  <2>1. ~Delivering
    BY DEF Delivering
  <2>2. LastPiece = LastOne
    BY <2>1 DEF LastPiece, LastOne
  <2>3. QED BY <2>1, <2>2, Zenon DEF LeftOver, Returned
<1>3. QED BY <1>1, <1>2 DEF ReaderSide

LEMMA ReaderSideAfter == OneReader' => (ReaderSide /\ NoReaderSide)'
BY ReaderSideIs, PTL

\* A step that leaves nmea_temp, the readers and what has been returned alone.
LEMMA ReaderSideKept ==
  ASSUME OneReader, UNCHANGED <<temp, rpc, nr, pieces>>
  PROVE  LeftOver' = LeftOver /\ Returned' = Returned
<1>1. ReaderSide /\ NoReaderSide /\ ReaderSide' /\ NoReaderSide'
  BY ReaderSideIs, ReaderSideAfter DEF OneReader
<1>2. CASE ReaderThreads = {}
  BY <1>1, <1>2 DEF NoReaderSide, LastOne, Whole
<1>3. ASSUME NEW r \in ReaderThreads PROVE LeftOver' = LeftOver /\ Returned' = Returned
  BY <1>1 DEF ReaderSide, LeftIs, ReturnedIs, LastOne, Whole, Taken
<1>4. QED BY <1>2, <1>3

\* A state of the discipline that a state of the queue stands for.
Mapped == TInv /\ KfifoInv /\ ReadInv /\ WholeInv /\ FrameInv

LEMMA ReceiverImplements ==
  ASSUME OneReader, Mapped, Mapped', Remember, ~raced',
         ReceiveSentence \/ (\E b \in Bytes : ReceiveByte(b)) \/ ReceiverMoves
  PROVE  [Q!QueueNext]_(Q!queueVars)
<1>1. /\ UNCHANGED <<attached, base, mutex, temp, rpc, nr, rout, pieces>>
      /\ LeftOver' = LeftOver /\ Returned' = Returned
  <2>1. UNCHANGED <<attached, base, mutex, temp, rpc, nr, rout, pieces>>
    BY ReceiverLeaves DEF Mapped
  <2>2. QED BY <2>1, ReaderSideKept
<1>2. WaitingRun /\ WaitingRun' /\ InLine /\ Writing
  BY WaitingIs, WaitingIsAfter DEF Mapped, KfifoInv
<1>3. /\ sent \in Seq(Nat) /\ Len(sent) \in Nat
      /\ in \in Nat /\ out \in Nat /\ base \in Nat
  BY Types DEF Mapped
<1>4. CASE \/ ReceiveSentence \/ (\E b \in Bytes : ReceiveByte(b))
           \/ PutOrDrop \/ Fill \/ DropCheck \/ DropLoad \/ PutAgain
  <2>1. UNCHANGED <<in, out>>
    BY <1>4 DEF ReceiveSentence, ReceiveByte, PutOrDrop, Fill, DropCheck, DropLoad, PutAgain
  <2>2. Waiting' = Waiting
    BY <1>1, <1>2, <2>1 DEF WaitingRun
  <2>3. Finished' = Finished
    <3>1. CASE ReceiveSentence
      <4>1. /\ wpc = "idle" /\ wpc' = "put" /\ sent' = Append(sent, index + 2)
            /\ index + 2 \in Nat
        BY <3>1 DEF ReceiveSentence, Mapped, FrameInv
      <4>2. SubSeq(Append(sent, index + 2), 1, Len(Append(sent, index + 2)) - 1) = sent
        BY <1>3, <4>1, Unappended
      <4>3. QED BY <4>1, <4>2 DEF Finished
    <3>2. CASE \E b \in Bytes : ReceiveByte(b)
      BY <3>2 DEF ReceiveByte, Finished
    <3>3. CASE PutOrDrop \/ Fill \/ DropCheck \/ DropLoad \/ PutAgain
      <4>1. sent' = sent /\ wpc # "idle"
        BY <3>3 DEF PutOrDrop, Fill, DropCheck, DropLoad, PutAgain, Receiver
      <4>2. wpc' # "idle"
        BY <1>2, <1>3, <3>3, SizeAssumption
           DEF PutOrDrop, Fill, DropCheck, DropLoad, PutAgain, Receiver, Full, Backlog, Writing
      <4>3. QED BY <4>1, <4>2 DEF Finished
    <3>4. QED BY <1>4, <3>1, <3>2, <3>3
  <2>4. QED BY <1>1, <2>2, <2>3 DEF Q!queueVars
<1>5. CASE Finish
  <2>1. /\ in' = in + 1 /\ out' = out /\ wpc' = "idle" /\ sent' = sent
        /\ wpc \in {"finish", "finish_again"}
    BY <1>5 DEF Finish, Receiver
  <2>2. attached /\ Len(sent) = base + in + 1 /\ Len(sent) > 0
    BY <1>2, <1>3, <2>1 DEF InLine, Quiet
  <2>3. in - out < Size
    BY <1>2, <1>3, <2>1, SizeAssumption DEF Writing
  <2>4. sent[Len(sent)] \in (PrefixLength + 2)..MaxLength
    <3>1. Len(sent) \in DOMAIN sent
      BY <1>3, <2>2, LenProperties
    <3>2. QED BY <3>1 DEF Mapped, FrameInv, WithinBuffers
  <2>5. /\ Finished' = Append(Finished, sent[Len(sent)])
        /\ Len(Finished) = base + in
    <3>1. Finished' = sent /\ Finished = SubSeq(sent, 1, Len(sent) - 1)
      BY <2>1 DEF Finished
    <3>2. QED BY <1>3, <2>2, <3>1, Unappended
  <2>6. Len(Waiting) < Size /\ Waiting' = Append(Waiting, Len(Finished) + 1)
    <3>1. /\ Waiting = Run(base + out, in - out) /\ Waiting' = Run(base + out, in - out + 1)
          /\ base + out \in Nat /\ in - out \in Nat
          /\ base + out + (in - out) + 1 = base + in + 1
      <4>1. in' - out' = in - out + 1 /\ base' + out' = base + out
        BY <1>1, <1>3, <2>1
      <4>2. QED BY <1>2, <1>3, <4>1 DEF WaitingRun
    <3>2. Waiting' = Append(Waiting, base + out + (in - out) + 1)
      BY <3>1, RunGrows
    <3>3. Len(Waiting) = in - out
      BY <3>1, RunSeq
    <3>4. Len(Finished) + 1 = base + out + (in - out) + 1
      BY <2>5, <3>1
    <3>5. QED BY <2>3, <3>2, <3>3, <3>4
  <2>7. Q!Put(sent[Len(sent)])
    BY <1>1, <2>2, <2>5, <2>6 DEF Q!Put
  <2>8. QED BY <2>4, <2>7 DEF Q!QueueNext
<1>6. CASE DropStore
  <2>1. /\ in' = in /\ out' = out + 1 /\ in - out = Size /\ sent' = sent
        /\ wpc # "idle" /\ wpc' # "idle"
    BY <1>2, <1>6 DEF DropStore, Receiver, Writing
  <2>2. attached
    BY <1>2, <2>1 DEF InLine, Quiet
  <2>3. Finished' = Finished
    BY <2>1 DEF Finished
  <2>4. Len(Waiting) = Size /\ Waiting' = Tail(Waiting)
    <3>1. /\ Waiting = Run(base + out, in - out)
          /\ Waiting' = Run(base + out + 1, in - out - 1)
          /\ base + out \in Nat /\ in - out \in Nat /\ in - out > 0
      <4>1. in' - out' = in - out - 1 /\ base' + out' = base + out + 1
        BY <1>1, <1>3, <2>1
      <4>2. QED BY <1>2, <2>1, <4>1, SizeAssumption DEF WaitingRun
    <3>2. QED BY <2>1, <3>1, RunSeq, RunShrinks
  <2>5. Q!Drop
    BY <1>1, <2>2, <2>3, <2>4 DEF Q!Drop
  <2>6. QED BY <2>5 DEF Q!QueueNext
<1>7. QED BY <1>4, <1>5, <1>6 DEF ReceiverMoves

LEMMA OpenCloseImplement ==
  ASSUME OneReader, Mapped, Mapped', Remember, ~raced', Close \/ Open
  PROVE  [Q!QueueNext]_(Q!queueVars)
<1>1. Waiting' = << >> /\ Finished' = Finished
  <2>1. in' = 0 /\ out' = 0 /\ UNCHANGED <<sent, wpc>>
    BY DEF Close, Open, receiver
  <2>2. Waiting' = [i \in 1..0 |-> Whole(slots[Slot(out + i - 1)])']
    BY <2>1 DEF Waiting, Backlog
  <2>3. QED BY <2>1, <2>2 DEF Finished
<1>2. CASE Close
  <2>1. attached /\ attached' = FALSE /\ UNCHANGED <<temp, rpc, nr, pieces>>
    BY <1>2 DEF Close, reader
  <2>2. LeftOver' = LeftOver /\ Returned' = Returned
    BY <2>1, ReaderSideKept
  <2>3. QED BY <1>1, <2>1, <2>2 DEF Q!QueueNext, Q!Detach
<1>3. CASE Open
  <2>1. /\ ~attached /\ attached' = TRUE /\ temp' = EmptyRecord /\ pieces' = << >>
        /\ rpc' = rpc /\ Quiet
    BY <1>3 DEF Open, Mapped, KfifoInv, InLine
  <2>2. ReaderSide' /\ NoReaderSide'
    BY ReaderSideAfter DEF OneReader
  <2>3. ~temp'.partial
    BY <2>1 DEF EmptyRecord
  <2>4. LeftOver' = Q!NoRest /\ Returned' = Q!NoPiece
    <3>1. CASE ReaderThreads = {}
      BY <2>1, <2>2, <2>3, <3>1 DEF NoReaderSide, Q!NoRest, Q!NoPiece
    <3>2. ASSUME NEW r \in ReaderThreads PROVE LeftOver' = Q!NoRest /\ Returned' = Q!NoPiece
      BY <2>1, <2>2, <2>3 DEF ReaderSide, LeftIs, ReturnedIs, Quiet, Q!NoRest, Q!NoPiece
    <3>3. QED BY <3>1, <3>2
  <2>5. QED BY <1>1, <2>1, <2>4 DEF Q!QueueNext, Q!Attach
<1>4. QED BY <1>2, <1>3

\* A read takes effect when the reader goes on to return what nmea_temp holds: that is
\* what the queue has for it.
LEMMA TakingIsRead ==
  ASSUME OneReader, temp \in Record, nr \in [ReaderThreads -> Nat], NEW r \in ReaderThreads,
         rpc'[r] = "deliver", UNCHANGED <<temp, nr, attached, Finished>>, attached, Waiting # << >>,
         Q!Current = [id |-> Whole(temp), from |-> temp.from, left |-> temp.len],
         Waiting' = IF LeftOver.left > 0 THEN Waiting ELSE Tail(Waiting)
  PROVE  Q!Read(nr[r])
<1>1. ReaderSide'
  BY ReaderSideAfter DEF OneReader
<1>2. Returned' = [id |-> Whole(temp), from |-> temp.from, size |-> Taken(r)]
  BY <1>1 DEF ReaderSide, ReturnedIs, Taken, Whole
<1>3. LeftOver' = IF temp.len > Taken(r)
                  THEN [id |-> Whole(temp), from |-> temp.from + Taken(r),
                        left |-> temp.len - Taken(r)]
                  ELSE [id |-> 0, from |-> 0, left |-> 0]
  BY <1>1 DEF ReaderSide, LeftIs, Taken, Whole
<1>4. /\ Q!Current.id = Whole(temp) /\ Q!Current.from = temp.from /\ Q!Current.left = temp.len
  OBVIOUS
<1>5. /\ temp.len \in Nat /\ nr[r] \in Nat
      /\ Taken(r) = IF Q!Current.left > nr[r] THEN nr[r] ELSE Q!Current.left
  BY <1>4 DEF Record, Taken
<1>6. temp.len > Taken(r) <=> Taken(r) # temp.len
  BY <1>4, <1>5
<1>7. LeftOver' = IF Taken(r) = Q!Current.left THEN Q!NoRest
                  ELSE [id |-> Q!Current.id, from |-> Q!Current.from + Taken(r),
                        left |-> Q!Current.left - Taken(r)]
  BY <1>3, <1>4, <1>6, Zenon DEF Q!NoRest
<1>8. Returned' = [id |-> Q!Current.id, from |-> Q!Current.from, size |-> Taken(r)]
  BY <1>2, <1>4, Zenon
<1>9. QED BY <1>5, <1>7, <1>8, Zenon DEF Q!Read

LEMMA ReadingImplements ==
  ASSUME OneReader, Mapped, Mapped', Remember, ~raced', NEW r \in ReaderThreads, Reading(r)
  PROVE  [Q!QueueNext]_(Q!queueVars)
<1>1. /\ UNCHANGED <<attached, sent, wpc, wout, in, slots, base>> /\ attached
      /\ Finished' = Finished
  <2>1. UNCHANGED <<attached, sent, wpc, wout, in, slots>> /\ attached
    BY ReadingKeeps, ReadingAttached DEF Mapped, KfifoInv
  <2>2. QED BY <2>1, BaseKept DEF Finished
<1>2. /\ WaitingRun /\ WaitingRun' /\ LeftIs(r) /\ ReturnedIs(r) /\ LeftIs(r)' /\ ReturnedIs(r)'
      /\ FinishedPart /\ Stage(r) /\ Rest /\ Holding /\ LatestTaken
  BY WaitingIs, WaitingIsAfter, ReaderSideIs, ReaderSideAfter, FinishedIs
     DEF Mapped, ReaderSide, WholeInv, ReadInv, OneReader
<1>3. /\ in \in Nat /\ out \in Nat /\ base \in Nat /\ temp \in Record
      /\ rpc \in [ReaderThreads -> ReaderLabels] /\ nr \in [ReaderThreads -> Nat]
      /\ rout \in [ReaderThreads -> Nat] /\ pieces \in Seq(Piece) /\ Len(pieces) <= 2
  BY Types DEF Mapped
<1>4. /\ Waiting = Run(base + out, in - out) /\ Waiting' = Run(base + out', in - out')
  BY <1>1, <1>2 DEF WaitingRun
<1>5. \A s \in ReaderThreads : s = r
  BY DEF OneReader
<1>6. rpc[r] # "idle" => nr[r] \in ReadSizes
  BY <1>2 DEF Stage
\* The steps before nmea_temp holds what the read will return.
<1>7. ASSUME out' = out, pieces' = pieces, rpc[r] # "deliver", rpc'[r] # "deliver",
             temp' = temp \/ (~temp.partial /\ ~temp'.partial)
      PROVE  UNCHANGED Q!queueVars
  <2>1. Waiting' = Waiting
    BY <1>4, <1>7
  <2>2. LeftOver' = LeftOver
    BY <1>2, <1>7 DEF LeftIs, Whole
  <2>3. Returned' = Returned
    BY <1>2, <1>7 DEF ReturnedIs, LastOne, Whole
  <2>4. QED BY <1>1, <2>1, <2>2, <2>3 DEF Q!queueVars
<1>8. CASE Lock(r) \/ Wake(r) \/ Relock(r) \/ Interrupt(r) \/ \E n \in ReadSizes : Call(r, n)
  <2>1. /\ UNCHANGED <<out, temp, pieces>> /\ rpc[r] # "deliver" /\ rpc'[r] # "deliver"
    BY <1>3, <1>8 DEF Lock, Wake, Relock, Interrupt, Call, Reader
  <2>2. QED BY <1>7, <2>1
<1>9. CASE CopyHead(r) \/ CopyTail(r) \/ LoadOut(r)
  <2>1. /\ UNCHANGED <<out, pieces>> /\ rpc[r] # "deliver" /\ rpc'[r] # "deliver"
        /\ rpc[r] \in Getting
    BY <1>3, <1>9 DEF CopyHead, CopyTail, LoadOut, Reader, Getting
  <2>2. ~temp.partial
    BY <1>2, <2>1 DEF Stage
  <2>3. ~temp'.partial
    <3>1. CASE CopyHead(r) BY <1>3, <2>2, <3>1 DEF CopyHead, Record
    <3>2. CASE CopyTail(r)
      <4>1. temp' = [temp EXCEPT !.tail = slots[Slot(rout[r])].tail, !.from = 0,
                                 !.len = LengthOf(slots[Slot(rout[r])].tail), !.partial = FALSE]
        BY <3>2 DEF CopyTail
      <4>2. QED BY <1>3, <4>1 DEF Record
    <3>3. CASE LoadOut(r) BY <2>2, <3>3 DEF LoadOut
    <3>4. QED BY <1>9, <3>1, <3>2, <3>3
  <2>4. QED BY <1>7, <2>1, <2>2, <2>3
<1>10. CASE Get(r)
  <2>1. /\ rpc[r] = "get" /\ UNCHANGED <<out, temp, nr, pieces>>
        /\ rpc'[r] = IF temp.partial \/ Backlog = 0 THEN "deliver" ELSE "copy_head"
    BY <1>3, <1>10 DEF Get, Reader
  <2>2. out < in /\ Backlog # 0
    BY <1>2, <1>3, <2>1 DEF Stage, Backlog
  <2>3. CASE ~temp.partial
    BY <1>7, <2>1, <2>2, <2>3
  <2>4. CASE temp.partial
    <3>1. LeftOver = [id |-> Whole(temp), from |-> temp.from, left |-> temp.len]
      BY <1>2, <2>1, <2>4 DEF LeftIs
    <3>2. LeftOver.left > 0
      BY <1>2, <2>4, <3>1 DEF Rest
    <3>3. Q!Current = [id |-> Whole(temp), from |-> temp.from, left |-> temp.len]
      BY <3>1, <3>2 DEF Q!Current
    <3>4. Waiting # << >> /\ Waiting' = Waiting
      <4>1. base + out \in Nat /\ in - out \in Nat /\ in - out > 0
        BY <1>3, <2>2
      <4>2. QED BY <1>4, <2>1, <4>1, RunShrinks
    <3>5. Q!Read(nr[r])
      BY <1>1, <1>3, <2>1, <2>2, <2>4, <3>2, <3>3, <3>4, TakingIsRead
    <3>6. QED BY <1>6, <2>1, <3>5 DEF Q!QueueNext
  <2>5. QED BY <2>3, <2>4
<1>11. CASE StoreOut(r)
  <2>1. /\ rpc[r] = "store_out" /\ UNCHANGED <<temp, nr, pieces>> /\ rpc'[r] = "deliver"
        /\ out' = rout[r] + 1
    BY <1>3, <1>11 DEF StoreOut, Reader
  <2>2. /\ out' = out + 1 /\ out < in /\ ~temp.partial
        /\ temp.head = base + out + 1 /\ temp.tail = temp.head
        /\ temp.from = 0 /\ temp.len = sent[temp.head]
    BY <1>2, <2>1 DEF Holding, Stage, Fresh, Getting, Hands, Number
  <2>3. LeftOver = [id |-> 0, from |-> 0, left |-> 0]
    BY <1>2, <2>1, <2>2 DEF LeftIs
  <2>4. Waiting # << >> /\ Head(Waiting) = base + out + 1 /\ Waiting' = Tail(Waiting)
    <3>1. base + out \in Nat /\ in - out \in Nat /\ in - out > 0
      BY <1>3, <2>2
    <3>2. base + out' = base + out + 1 /\ in - out' = in - out - 1
      BY <1>3, <2>2
    <3>3. QED BY <1>4, <3>1, <3>2, RunShrinks
  <2>5. Finished[Head(Waiting)] = sent[temp.head]
    <3>1. base + out + 1 \in 1..Len(Finished)
      BY <1>1, <1>2, <1>3, <2>2 DEF FinishedPart
    <3>2. QED BY <1>2, <2>2, <2>4, <3>1 DEF FinishedPart
  <2>6. Q!Current = [id |-> Whole(temp), from |-> temp.from, left |-> temp.len]
    <3>1. ~(LeftOver.left > 0)
      BY <2>3
    <3>2. Q!Current = [id |-> Head(Waiting), from |-> 0, left |-> Finished[Head(Waiting)]]
      BY <3>1 DEF Q!Current
    <3>3. Whole(temp) = Head(Waiting)
      BY <2>2, <2>4 DEF Whole
    <3>4. QED BY <2>2, <2>5, <3>2, <3>3
  <2>7. Waiting' = IF LeftOver.left > 0 THEN Waiting ELSE Tail(Waiting)
    BY <2>3, <2>4
  <2>8. Q!Read(nr[r])
    BY <1>1, <1>3, <2>1, <2>4, <2>6, <2>7, TakingIsRead
  <2>9. QED BY <1>6, <2>1, <2>8 DEF Q!QueueNext
<1>12. CASE Deliver(r)
  <2> DEFINE p == [head |-> temp.head, tail |-> temp.tail, from |-> temp.from, size |-> Taken(r)]
  <2>1. /\ rpc[r] = "deliver" /\ rpc'[r] = "idle" /\ out' = out
        /\ pieces' = LastTwo(Append(pieces, p))
    BY <1>3, <1>12 DEF Deliver, Reader
  <2>2. \/ /\ temp.len > nr[r]
           /\ temp' = [temp EXCEPT !.from = @ + Taken(r), !.len = @ - Taken(r), !.partial = TRUE]
        \/ /\ ~(temp.len > nr[r])
           /\ temp' = [temp EXCEPT !.partial = FALSE]
    BY <1>12, Zenon DEF Deliver
  <2>3. /\ temp.len \in Nat /\ nr[r] \in Nat /\ Taken(r) \in Nat
        /\ temp.len > nr[r] <=> temp.len > Taken(r)
    BY <1>3 DEF Record, Taken
  <2>4. p \in Piece
    BY <1>3, <2>3 DEF Piece, Record
  <2>5. p.head = temp.head /\ p.tail = temp.tail /\ p.from = temp.from /\ p.size = Taken(r)
    OBVIOUS
  <2> HIDE DEF p
  <2>6. LastOne' = p /\ pieces' # << >>
    <3>1. Len(pieces') \in 1..2 /\ pieces'[Len(pieces')] = p
      BY <1>3, <2>1, <2>4, LastPieces
    <3>2. QED BY <3>1 DEF LastOne
  <2>7. Returned' = Returned
    <3>1. Returned = [id |-> Whole(temp), from |-> temp.from, size |-> Taken(r)]
      BY <1>2, <2>1 DEF ReturnedIs
    <3>2. Returned' = [id |-> Whole(p), from |-> p.from, size |-> p.size]
      BY <1>2, <2>1, <2>6 DEF ReturnedIs, Whole
    <3>3. Whole(p) = Whole(temp)
      BY <2>5 DEF Whole
    <3>4. QED BY <2>5, <3>1, <3>2, <3>3
  <2>8. LeftOver' = LeftOver
    <3>1. CASE /\ temp.len > nr[r]
               /\ temp' = [temp EXCEPT !.from = @ + Taken(r), !.len = @ - Taken(r), !.partial = TRUE]
      <4>1. /\ temp'.from = temp.from + Taken(r) /\ temp'.len = temp.len - Taken(r)
            /\ temp'.partial /\ temp'.head = temp.head /\ temp'.tail = temp.tail
        BY <1>3, <3>1 DEF Record
      <4>2. Whole(temp)' = Whole(temp)
        BY <4>1 DEF Whole
      <4>3. LeftOver' = [id |-> Whole(temp), from |-> temp'.from, left |-> temp'.len]
        BY <1>2, <2>1, <4>1, <4>2 DEF LeftIs
      <4>4. LeftOver = [id |-> Whole(temp), from |-> temp.from + Taken(r),
                        left |-> temp.len - Taken(r)]
        BY <1>2, <2>1, <2>3, <3>1 DEF LeftIs
      <4>5. QED BY <4>1, <4>3, <4>4
    <3>2. CASE ~(temp.len > nr[r]) /\ temp' = [temp EXCEPT !.partial = FALSE]
      <4>1. ~temp'.partial
        BY <1>3, <3>2 DEF Record
      <4>2. QED BY <1>2, <2>1, <2>3, <3>2, <4>1 DEF LeftIs
    <3>3. QED BY <2>2, <3>1, <3>2
  <2>9. Waiting' = Waiting
    BY <1>4, <2>1
  <2>10. QED BY <1>1, <2>7, <2>8, <2>9 DEF Q!queueVars
<1>13. QED
  BY <1>7, <1>8, <1>9, <1>10, <1>11, <1>12 DEF Reading, ReaderStep

MappedInv == WholeOrderInv /\ FrameInv

LEMMA QueueStart == OneReader /\ Init => Q!QueueInit
<1> SUFFICES ASSUME OneReader, Init PROVE Q!QueueInit
  OBVIOUS
<1>1. attached \in BOOLEAN
  BY Zenon DEF Init
<1>2. Finished = << >> /\ Waiting = << >>
  BY DEF Init, Finished, Waiting, Backlog
<1>3. ~Delivering /\ pieces = << >> /\ ~temp.partial
  BY DEF Init, Delivering, EmptyRecord
<1>4. LeftOver = Q!NoRest /\ Returned = Q!NoPiece
  BY <1>3 DEF LeftOver, Returned, Q!NoRest, Q!NoPiece
<1>5. QED BY <1>1, <1>2, <1>4 DEF Q!QueueInit

LEMMA QueueStep ==
  OneReader /\ MappedInv /\ MappedInv' /\ [Next]_vars => [raced' \/ Q!QueueNext]_(Q!queueVars)
<1> SUFFICES ASSUME OneReader, MappedInv, MappedInv', [Next]_vars, ~raced'
             PROVE  [Q!QueueNext]_(Q!queueVars)
  OBVIOUS
<1>1. CASE UNCHANGED vars
  <2>1. UNCHANGED <<attached, sent, wpc, in, out, slots, temp, rpc, nr, pieces>>
    BY <1>1 DEF vars, receiver, reader
  <2>2. Finished' = Finished /\ Waiting' = Waiting
    BY <2>1 DEF Finished, Waiting, Backlog, Whole
  <2>3. LeftOver' = LeftOver /\ Returned' = Returned
    BY <2>1, ReaderSideKept
  <2>4. QED BY <2>1, <2>2, <2>3 DEF Q!queueVars
<1>2. CASE Next
  <2>1. Remember
    BY <1>2 DEF Next
  <2>2. Mapped /\ Mapped'
    BY <2>1, NotRaced DEF MappedInv, WholeOrderInv, OrderInv, Mapped
  <2>3. QED
    BY <1>2, <2>1, <2>2, NextCases, ReceiverImplements, OpenCloseImplement, ReadingImplements
<1>3. QED BY <1>1, <1>2

\* With the one reader of the server, until a drop first overlaps a read, the kfifo, its
\* unlocked indices and the pieces kept in nmea_temp are the bounded queue of sentences
\* that SentenceQueue describes: every step is a step of the queue or none.
THEOREM QueueRefinement == OneReader => (Spec => ImplementsQueue)
<1> SUFFICES ASSUME OneReader PROVE Spec => ImplementsQueue
  OBVIOUS
<1>1. Init => MappedInv /\ Q!QueueInit
  BY WholeInit, FrameInit, QueueStart DEF MappedInv
<1>2. MappedInv /\ [Next]_vars => MappedInv'
  BY WholeNext, FrameStep DEF MappedInv
<1>3. MappedInv /\ MappedInv' /\ [Next]_vars => [raced' \/ Q!QueueNext]_(Q!queueVars)
  BY QueueStep
<1>4. QED BY <1>1, <1>2, <1>3, PTL DEF Spec, ImplementsQueue
=============================================================================
