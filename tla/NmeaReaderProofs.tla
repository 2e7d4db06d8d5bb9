-------------------------- MODULE NmeaReaderProofs --------------------------
(***************************************************************************)
(* The reader threads never fill their buffers beyond the end, however     *)
(* many share the device, and one that has the device to itself extracts   *)
(* whole sentences: for all lengths, chunks and buffers.                   *)
(***************************************************************************)
EXTENDS NmeaReader, TLAPS, SequenceTheorems

Piece == [id : Nat, from : Nat, size : Nat]
Rest == [id : Nat, from : Nat, left : Nat]
Labels == {"none", "setup", "attach", "top", "read", "check", "close"}

\* What is queued or left to read has been sent.
QueueData ==
  /\ sent \in Seq(Lengths) /\ queue \in Seq(Nat) /\ Len(queue) <= Size
  /\ \A i \in 1..Len(queue) : queue[i] \in 1..Len(sent)
  /\ rest \in Rest /\ (rest.left > 0 => rest.id \in 1..Len(sent))
  /\ piece \in Piece

ReaderData ==
  /\ buffer \in [Readers -> Seq(Piece)] /\ count \in [Readers -> Nat]
  /\ extracted \in Seq(Piece) /\ latest \in Nat
  /\ pc \in [Readers -> Labels]

-----------------------------------------------------------------------------
(***************************************************************************)
(* One read: what it returns, and what it leaves.                          *)
(***************************************************************************)
LEMMA LengthsOfSentences ==
  ASSUME QueueData, NEW id \in 1..Len(sent)
  PROVE  sent[id] \in Lengths /\ sent[id] \in Nat /\ sent[id] > 1 /\ sent[id] <= BufferSize
<1>1. sent[id] \in Lengths BY ElementOfSeq DEF QueueData
<1>2. QED BY <1>1, QueueAssumption, ReaderAssumption

LEMMA CurrentTyped ==
  ASSUME QueueData, queue # << >>
  PROVE  /\ Current \in Rest /\ Current.left > 0 /\ Current.id \in 1..Len(sent)
         /\ Head(queue) = queue[1] /\ 1 \in 1..Len(queue)
<1>1. Len(queue) \in Nat \ {0} /\ Head(queue) = queue[1]
  BY EmptySeq DEF QueueData
<1>2. queue[1] \in 1..Len(sent) /\ Len(sent) \in Nat
  BY <1>1, LenProperties DEF QueueData
<1>3. CASE rest.left > 0
  BY <1>1, <1>3 DEF QueueData, Current
<1>4. CASE ~(rest.left > 0)
  <2>1. Current = [id |-> Head(queue), from |-> 0, left |-> sent[Head(queue)]]
    BY <1>4 DEF Current
  <2>2. sent[queue[1]] \in Nat /\ sent[queue[1]] > 1
    BY <1>2, LengthsOfSentences
  <2>3. QED BY <1>1, <1>2, <2>1, <2>2 DEF Rest
<1>5. QED BY <1>3, <1>4

\* The amount read, named.
Amount(n) == IF Current.left > n THEN n ELSE Current.left

LEMMA ReadFacts ==
  ASSUME QueueData, NEW n \in Nat \ {0}, Read(n)
  PROVE  /\ queue # << >> /\ Amount(n) \in 1..n /\ Amount(n) <= Current.left
         /\ piece' = [id |-> Current.id, from |-> Current.from, size |-> Amount(n)]
         /\ Amount(n) = Current.left => rest' = NoRest
         /\ Amount(n) # Current.left =>
              rest' = [id |-> Current.id, from |-> Current.from + Amount(n),
                       left |-> Current.left - Amount(n)]
         /\ queue' = IF rest.left > 0 THEN queue ELSE Tail(queue)
         /\ UNCHANGED <<attached, sent>>
<1>1. queue # << >> BY DEF Read
<1>2. Current \in Rest /\ Current.left > 0 BY <1>1, CurrentTyped
<1>3. Amount(n) \in 1..n /\ Amount(n) <= Current.left BY <1>2 DEF Amount, Rest
<1>4. /\ piece' = [id |-> Current.id, from |-> Current.from, size |-> Amount(n)]
      /\ rest' = IF Amount(n) = Current.left THEN NoRest
                 ELSE [id |-> Current.id, from |-> Current.from + Amount(n),
                       left |-> Current.left - Amount(n)]
  BY DEF Read, Amount
<1>5. QED BY <1>1, <1>3, <1>4 DEF Read

LEMMA ReadTyped ==
  ASSUME QueueData, NEW n \in Nat \ {0}, Read(n)
  PROVE  /\ piece' \in Piece /\ rest' \in Rest /\ (rest'.left > 0 => rest'.id \in 1..Len(sent'))
         /\ queue' \in Seq(Nat) /\ Len(queue') <= Size /\ sent' = sent
         /\ \A i \in 1..Len(queue') : queue'[i] \in 1..Len(sent')
         /\ \A i \in 1..Len(queue') : \E j \in 1..Len(queue) : queue'[i] = queue[j]
<1>1. queue # << >> BY ReadFacts
<1>2. Current \in Rest /\ Current.left > 0 /\ Current.id \in 1..Len(sent)
  BY <1>1, CurrentTyped
<1>3. piece' \in Piece BY <1>2, ReadFacts DEF Piece, Rest
<1>4. rest' \in Rest /\ (rest'.left > 0 => rest'.id \in 1..Len(sent'))
  <2>1. CASE Amount(n) = Current.left
    BY <2>1, ReadFacts DEF Rest, NoRest
  <2>2. CASE Amount(n) # Current.left
    BY <2>2, <1>2, ReadFacts DEF Rest
  <2>3. QED BY <2>1, <2>2
<1>5. /\ queue' \in Seq(Nat) /\ Len(queue') \in Nat /\ Len(queue') <= Len(queue)
      /\ \A i \in 1..Len(queue') : \E j \in 1..Len(queue) : queue'[i] = queue[j]
  <2>1. Len(queue) \in Nat /\ queue \in Seq(Nat) BY LenProperties DEF QueueData
  <2>2. CASE rest.left > 0
    <3>1. queue' = queue BY <2>2, ReadFacts
    <3>2. QED BY <2>1, <3>1
  <2>3. CASE ~(rest.left > 0)
    <3>1. queue' = Tail(queue) BY <2>3, ReadFacts
    <3>2. /\ Tail(queue) \in Seq(Nat) /\ Len(Tail(queue)) = Len(queue) - 1
          /\ \A i \in 1..Len(Tail(queue)) : Tail(queue)[i] = queue[i + 1]
      BY <1>1, <2>1, HeadTailProperties
    <3>3. Len(queue) - 1 \in Nat BY <1>1, <2>1, EmptySeq
    <3>4. ASSUME NEW i \in 1..Len(queue') PROVE \E j \in 1..Len(queue) : queue'[i] = queue[j]
      <4>1. i + 1 \in 1..Len(queue) BY <3>1, <3>2, <3>3, <2>1
      <4>2. QED BY <4>1, <3>1, <3>2
    <3>5. QED BY <3>1, <3>2, <3>3, <3>4, <2>1
  <2>4. QED BY <2>2, <2>3
<1>6. Len(queue') <= Size /\ sent' = sent
  BY <1>5, ReadFacts, LenProperties, QueueAssumption DEF QueueData
<1>7. \A i \in 1..Len(queue') : queue'[i] \in 1..Len(sent')
  BY <1>5, <1>6 DEF QueueData
<1>8. QED BY <1>3, <1>4, <1>5, <1>6, <1>7

-----------------------------------------------------------------------------
(***************************************************************************)
(* The inductive invariant.  Flags, QueueData and ReaderData type the state*)
(* and FitsInv bounds a buffer before and after a piece is added; LoneInv  *)
(* relates the buffer of a reader that has the device to itself to what is *)
(* queued and to what is left of the sentence being read.                  *)
(***************************************************************************)
Flags == /\ attached \in BOOLEAN /\ run \in BOOLEAN /\ alone \in BOOLEAN
         /\ open \subseteq Alive /\ (attached => open # {})

FitsInv ==
  \A r \in Readers :
    /\ count[r] <= BufferSize
    /\ pc[r] = "check" => buffer[r] # << >> /\ count[r] + LastOf(r).size <= BufferSize

\* Pieces of one sentence, from its beginning, without a gap.
Chain(b) ==
  /\ b[1].from = 0 /\ b[1].size > 1
  /\ \A i \in 1..Len(b) : b[i].id = b[1].id /\ b[i].size > 0
  /\ \A i \in 2..Len(b) : b[i].from = b[i - 1].from + b[i - 1].size

End(p) == p.from + p.size

Complete(b) == End(b[Len(b)]) = sent[b[1].id] /\ rest.left = 0
Unfinished(b) == /\ rest.left > 0 /\ rest.id = b[1].id /\ rest.from = End(b[Len(b)])
                 /\ rest.from + rest.left = sent[b[1].id]

\* What is queued came after sentence id.
Later(id) == id \in 1..Len(sent) /\ \A i \in 1..Len(queue) : queue[i] > id

LoneReader(r) ==
  /\ pc[r] \in {"none", "setup", "attach"} => buffer[r] = << >>
  /\ pc[r] \in {"setup", "attach"} => ~attached
  /\ IF buffer[r] = << >>
     THEN count[r] = 0 /\ (pc[r] \in {"top", "read"} /\ r \in open => rest.left = 0)
     ELSE /\ Chain(buffer[r]) /\ Later(buffer[r][1].id)
          /\ extracted # << >> => extracted[1].id < buffer[r][1].id
          /\ pc[r] \in {"top", "read"} => Unfinished(buffer[r])
          /\ pc[r] = "check" => Complete(buffer[r]) \/ Unfinished(buffer[r])

ExtractedInv ==
  extracted # << >> =>
    /\ Chain(extracted) /\ Later(extracted[1].id) /\ extracted[1].id > latest
    /\ End(extracted[Len(extracted)]) = sent[extracted[1].id]

InOrder == \A i, j \in 1..Len(queue) : i < j => queue[i] < queue[j]

LoneInv ==
  alone => /\ \A r, s \in Alive : r = s
           /\ InOrder
           /\ \A r \in Readers : LoneReader(r)
           /\ ExtractedInv

-----------------------------------------------------------------------------
(***************************************************************************)
(* Types and bounds.                                                       *)
(***************************************************************************)
LEMMA SentGrows ==
  ASSUME QueueData, NEW len \in Lengths, Put(len)
  PROVE  /\ sent' \in Seq(Lengths) /\ Len(sent') = Len(sent) + 1
         /\ \A i \in 1..Len(sent) : i \in 1..Len(sent') /\ sent'[i] = sent[i]
<1>1. sent' = Append(sent, len) BY DEF Put
<1>2. QED BY <1>1, AppendProperties, LenProperties DEF QueueData

LEMMA QueueTyped ==
  ASSUME QueueData,
         \/ \E len \in Lengths : Put(len)
         \/ \E n \in Nat \ {0} : Read(n)
         \/ Drop \/ Detach \/ Attach \/ UNCHANGED queueVars
  PROVE  QueueData'
<1>0. Len(queue) \in Nat /\ Len(sent) \in Nat BY LenProperties DEF QueueData
<1>1. ASSUME NEW len \in Lengths, Put(len) PROVE QueueData'
  <2>1. queue' = Append(queue, Len(sent) + 1) /\ Len(queue) < Size BY <1>1 DEF Put
  <2>2. /\ queue' \in Seq(Nat) /\ Len(queue') = Len(queue) + 1
        /\ \A i \in 1..Len(queue) : queue'[i] = queue[i]
        /\ queue'[Len(queue) + 1] = Len(sent) + 1
    BY <1>0, <2>1, AppendProperties DEF QueueData
  <2>3. Len(queue') <= Size BY <1>0, <2>1, <2>2, QueueAssumption
  <2>4. ASSUME NEW i \in 1..Len(queue') PROVE queue'[i] \in 1..Len(sent')
    <3>1. Len(sent') = Len(sent) + 1 BY <1>1, SentGrows
    <3>2. CASE i \in 1..Len(queue)
      <4>1. queue'[i] = queue[i] /\ queue[i] \in 1..Len(sent) BY <2>2, <3>2 DEF QueueData
      <4>2. QED BY <1>0, <3>1, <4>1
    <3>3. CASE i = Len(queue) + 1 BY <1>0, <2>2, <3>1, <3>3
    <3>4. QED BY <1>0, <2>2, <3>2, <3>3
  <2>5. rest' = rest /\ piece' = piece BY <1>1 DEF Put
  <2>6. QED BY <1>0, <1>1, <2>2, <2>3, <2>4, <2>5, SentGrows DEF QueueData
<1>2. ASSUME NEW n \in Nat \ {0}, Read(n) PROVE QueueData'
  BY <1>2, ReadTyped DEF QueueData
<1>3. CASE Drop
  <2>1. /\ queue' = Tail(queue) /\ queue # << >>
        /\ UNCHANGED <<sent, rest, piece>>
    BY <1>0, <1>3, EmptySeq, QueueAssumption DEF Drop, QueueData
  <2>2. /\ queue' \in Seq(Nat) /\ Len(queue') = Len(queue) - 1
        /\ \A i \in 1..Len(queue') : queue'[i] = queue[i + 1]
    BY <2>1, HeadTailProperties DEF QueueData
  <2>3. ASSUME NEW i \in 1..Len(queue') PROVE queue'[i] \in 1..Len(sent)
    <3>1. i + 1 \in 1..Len(queue) /\ queue'[i] = queue[i + 1] BY <1>0, <2>2
    <3>2. QED BY <3>1 DEF QueueData
  <2>4. QED BY <1>0, <2>1, <2>2, <2>3, QueueAssumption DEF QueueData
<1>4. CASE Detach
  BY <1>4, QueueAssumption, EmptySeq DEF Detach, QueueData
<1>5. CASE Attach
  BY <1>5, QueueAssumption, EmptySeq DEF Attach, QueueData, NoRest, NoPiece, Rest, Piece
<1>6. CASE UNCHANGED queueVars
  BY <1>6 DEF queueVars, QueueData
<1>7. QED BY <1>1, <1>2, <1>3, <1>4, <1>5, <1>6

\* The queue moves as SentenceQueue lets it, in every step.
LEMMA QueueMoves ==
  ASSUME QueueData, ReaderData, FitsInv, [Next]_vars
  PROVE  \/ \E len \in Lengths : Put(len)
         \/ \E n \in Nat \ {0} : Read(n)
         \/ Drop \/ Detach \/ Attach \/ UNCHANGED queueVars
<1>1. ASSUME NEW r \in Readers, ReadPiece(r)
      PROVE  \E n \in Nat \ {0} : Read(n)
  <2>1. Room(r) \in Nat \ {0} BY <1>1, ReaderAssumption DEF ReadPiece, Room, ReaderData, FitsInv
  <2>2. QED BY <1>1, <2>1, ReaderAssumption DEF ReadPiece
<1>2. ASSUME NEW r \in Readers, ReaderStep(r), ~ReadPiece(r)
      PROVE  Detach \/ Attach \/ UNCHANGED queueVars
  BY <1>2 DEF ReaderStep, Setup, AttachDiscipline, LoopTop, ReadFails, Extract, KeepPiece,
              CloseDevice
<1>3. ASSUME NEW r \in Readers, Start(r) PROVE UNCHANGED queueVars
  BY <1>3 DEF Start
<1>4. CASE Stop BY <1>4 DEF Stop
<1>5. CASE Overflow BY <1>5 DEF Overflow
<1>6. ASSUME NEW len \in Lengths, Arrive(len) PROVE Put(len)
  BY <1>6 DEF Arrive
<1>7. CASE UNCHANGED vars BY <1>7 DEF vars
<1>8. QED BY <1>1, <1>2, <1>3, <1>4, <1>5, <1>6, <1>7 DEF Next

\* The last piece in a buffer is one of its pieces.
LEMMA LastTyped ==
  ASSUME ReaderData, NEW r \in Readers, buffer[r] # << >>
  PROVE  /\ buffer[r] \in Seq(Piece) /\ Len(buffer[r]) \in Nat \ {0}
         /\ LastOf(r) \in Piece /\ LastOf(r).size \in Nat
<1>1. buffer[r] \in Seq(Piece) BY DEF ReaderData
<1>2. Len(buffer[r]) \in Nat \ {0} BY <1>1, EmptySeq, LenProperties
<1>3. LastOf(r) \in Piece BY <1>1, <1>2, ElementOfSeq DEF LastOf
<1>4. QED BY <1>1, <1>2, <1>3 DEF Piece

LEMMA ReaderTyped ==
  ASSUME QueueData, ReaderData, FitsInv, [Next]_vars
  PROVE  ReaderData'
<1>1. ASSUME NEW r \in Readers, ReadPiece(r) PROVE ReaderData'
  <2>1. piece' \in Piece BY <1>1, QueueMoves, QueueTyped DEF Next, ReaderStep, QueueData
  <2>2. Append(buffer[r], piece') \in Seq(Piece)
    BY <2>1, AppendProperties DEF ReaderData
  <2>3. buffer' = [buffer EXCEPT ![r] = Append(buffer[r], piece')] BY <1>1 DEF ReadPiece, ReaderData
  <2>4. buffer' \in [Readers -> Seq(Piece)] BY <2>2, <2>3 DEF ReaderData
  <2>5. pc' \in [Readers -> Labels] BY <1>1 DEF ReadPiece, Goes, ReaderData, Labels
  <2>6. UNCHANGED <<count, extracted, latest>> BY <1>1 DEF ReadPiece
  <2>7. QED BY <2>4, <2>5, <2>6 DEF ReaderData
<1>2. ASSUME NEW r \in Readers, Extract(r) PROVE ReaderData'
  <2>1. extracted # << >> => extracted[1].id \in Nat
    <3>1. SUFFICES ASSUME extracted # << >> PROVE extracted[1] \in Piece BY DEF Piece
    <3>2. Len(extracted) \in Nat \ {0} BY <3>1, EmptySeq, LenProperties DEF ReaderData
    <3>3. QED BY <3>2, ElementOfSeq DEF ReaderData
  <2>2. latest' \in Nat BY <1>2, <2>1 DEF Extract, ReaderData
  <2>3. extracted' \in Seq(Piece) /\ count' \in [Readers -> Nat]
    BY <1>2 DEF Extract, ReaderData
  <2>4. buffer' \in [Readers -> Seq(Piece)] BY <1>2, EmptySeq DEF Extract, ReaderData
  <2>5. pc' \in [Readers -> Labels] BY <1>2 DEF Extract, Goes, ReaderData, Labels
  <2>6. QED BY <2>2, <2>3, <2>4, <2>5 DEF ReaderData
<1>3. ASSUME NEW r \in Readers, KeepPiece(r) PROVE ReaderData'
  <2>1. LastOf(r).size \in Nat
    BY <1>3, LastTyped DEF KeepPiece, Goes, FitsInv
  <2>2. count' \in [Readers -> Nat] BY <1>3, <2>1 DEF KeepPiece, ReaderData
  <2>3. pc' \in [Readers -> Labels] BY <1>3 DEF KeepPiece, Goes, ReaderData, Labels
  <2>4. QED BY <1>3, <2>2, <2>3 DEF KeepPiece, ReaderData
<1>4. ASSUME NEW r \in Readers, CloseDevice(r) PROVE ReaderData'
  <2>1. buffer' \in [Readers -> Seq(Piece)] BY <1>4, EmptySeq DEF CloseDevice, ReaderData
  <2>2. count' \in [Readers -> Nat] BY <1>4 DEF CloseDevice, ReaderData
  <2>3. pc' \in [Readers -> Labels] BY <1>4 DEF CloseDevice, Goes, ReaderData, Labels
  <2>4. QED BY <1>4, <2>1, <2>2, <2>3 DEF CloseDevice, ReaderData
<1>5. ASSUME NEW r \in Readers,
             Setup(r) \/ AttachDiscipline(r) \/ LoopTop(r) \/ ReadFails(r) \/ Start(r)
      PROVE  ReaderData'
  <2>1. pc' \in [Readers -> Labels]
    BY <1>5 DEF Setup, AttachDiscipline, LoopTop, ReadFails, Start, Goes, ReaderData, Labels
  <2>2. UNCHANGED <<buffer, count, extracted, latest>>
    BY <1>5 DEF Setup, AttachDiscipline, LoopTop, ReadFails, Start
  <2>3. QED BY <2>1, <2>2 DEF ReaderData
<1>6. CASE Stop \/ Overflow \/ \E len \in Lengths : Arrive(len)
  BY <1>6 DEF Stop, Overflow, Arrive, readerVars, ReaderData
<1>7. CASE UNCHANGED vars BY <1>7 DEF vars, readerVars, ReaderData
<1>8. QED BY <1>1, <1>2, <1>3, <1>4, <1>5, <1>6, <1>7 DEF Next, ReaderStep

\* A piece is no longer than the room that was left.
LEMMA PieceFits ==
  ASSUME QueueData, ReaderData, FitsInv, NEW r \in Readers, ReadPiece(r)
  PROVE  \E n \in Nat \ {0} : /\ Read(n) /\ n <= Room(r) /\ n <= Chunk
                             /\ (Room(r) = BufferSize => n = IF BufferSize < Chunk THEN BufferSize ELSE Chunk)
<1>1. Room(r) \in Nat \ {0}
  BY ReaderAssumption DEF ReadPiece, Room, ReaderData, FitsInv
<1>2. QED BY <1>1, ReaderAssumption DEF ReadPiece

LEMMA FitsStep ==
  ASSUME QueueData, ReaderData, FitsInv, [Next]_vars
  PROVE  FitsInv'
<1>1. ASSUME NEW r \in Readers, ReadPiece(r) PROVE FitsInv'
  <2>1. PICK n \in Nat \ {0} : Read(n) /\ n <= Room(r) BY <1>1, PieceFits
  <2>2. piece' \in Piece /\ piece'.size <= n
    <3>1. piece' \in Piece BY <2>1, ReadTyped
    <3>2. queue # << >> /\ Amount(n) \in 1..n /\ piece'.size = Amount(n) BY <2>1, ReadFacts
    <3>3. QED BY <3>1, <3>2
  <2>3. buffer'[r] = Append(buffer[r], piece') /\ \A s \in Readers \ {r} : buffer'[s] = buffer[s]
    BY <1>1 DEF ReadPiece, ReaderData
  <2>4. buffer'[r] # << >> /\ LastOf(r)' = piece'
    <3>1. buffer[r] \in Seq(Piece) BY DEF ReaderData
    <3>2. /\ Len(Append(buffer[r], piece')) = Len(buffer[r]) + 1
          /\ Append(buffer[r], piece')[Len(buffer[r]) + 1] = piece' /\ Len(buffer[r]) \in Nat
          /\ Append(buffer[r], piece') \in Seq(Piece)
      BY <2>2, <3>1, AppendProperties, LenProperties
    <3>3. QED BY <2>3, <3>2, EmptySeq DEF LastOf
  <2>5. count[r] + piece'.size <= BufferSize
    BY <2>1, <2>2, ReaderAssumption DEF Room, ReaderData, Piece
  <2>6. count' = count /\ \A s \in Readers \ {r} : pc'[s] = pc[s]
    BY <1>1 DEF ReadPiece, Goes, ReaderData
  <2>7. \A s \in Readers \ {r} : LastOf(s)' = LastOf(s) BY <2>3 DEF LastOf
  <2>8. QED BY <2>3, <2>4, <2>5, <2>6, <2>7 DEF FitsInv
<1>2. ASSUME NEW r \in Readers, Extract(r) \/ CloseDevice(r) \/ KeepPiece(r) PROVE FitsInv'
  <2>1. \A s \in Readers \ {r} : /\ pc'[s] = pc[s] /\ count'[s] = count[s]
                                /\ buffer'[s] = buffer[s] /\ LastOf(s)' = LastOf(s)
    BY <1>2 DEF Extract, CloseDevice, KeepPiece, Goes, ReaderData, LastOf
  <2>2. pc'[r] # "check" /\ pc[r] \in {"check", "close"}
    BY <1>2 DEF Extract, CloseDevice, KeepPiece, Goes, ReaderData
  <2>3. count'[r] <= BufferSize
    <3>1. CASE KeepPiece(r) BY <3>1 DEF KeepPiece, Goes, ReaderData, FitsInv
    <3>2. CASE Extract(r) \/ CloseDevice(r)
      <4>1. count' = [count EXCEPT ![r] = 0] BY <3>2 DEF Extract, CloseDevice
      <4>2. count'[r] = 0 BY <4>1 DEF ReaderData
      <4>3. QED BY <4>2, ReaderAssumption
    <3>3. QED BY <1>2, <3>1, <3>2
  <2>4. QED BY <2>1, <2>2, <2>3 DEF FitsInv
<1>3. ASSUME NEW r \in Readers,
             Setup(r) \/ AttachDiscipline(r) \/ LoopTop(r) \/ ReadFails(r) \/ Start(r)
      PROVE  FitsInv'
  <2>1. UNCHANGED <<buffer, count>>
    BY <1>3 DEF Setup, AttachDiscipline, LoopTop, ReadFails, Start
  <2>2. pc'[r] # "check" /\ \A s \in Readers \ {r} : pc'[s] = pc[s]
    BY <1>3 DEF Setup, AttachDiscipline, LoopTop, ReadFails, Start, Goes, ReaderData
  <2>3. QED BY <2>1, <2>2 DEF FitsInv, LastOf
<1>4. CASE UNCHANGED <<pc, buffer, count>>
  BY <1>4 DEF FitsInv, LastOf
<1>5. CASE Stop \/ Overflow \/ (\E len \in Lengths : Arrive(len)) \/ UNCHANGED vars
  BY <1>4, <1>5 DEF Stop, Overflow, Arrive, vars, readerVars
<1>6. QED BY <1>1, <1>2, <1>3, <1>5 DEF Next, ReaderStep

LEMMA FlagsStep ==
  ASSUME QueueData, ReaderData, FitsInv, Flags, [Next]_vars
  PROVE  Flags'
<1>1. ASSUME NEW r \in Readers, CloseDevice(r) PROVE Flags'
  <2>1. CASE open = {r} /\ attached
    BY <1>1, <2>1 DEF CloseDevice, Detach, Goes, ReaderData, Flags, Alive
  <2>2. CASE ~(open = {r} /\ attached)
    <3>1. attached' = attached /\ run' = run /\ alone' = alone /\ open' = open \ {r}
      BY <1>1, <2>2 DEF CloseDevice, Goes, queueVars
    <3>2. attached => open' # {} BY <2>2, <3>1 DEF Flags
    <3>3. open' \subseteq Alive' BY <1>1, <3>1 DEF CloseDevice, Goes, ReaderData, Flags, Alive
    <3>4. QED BY <3>1, <3>2, <3>3 DEF Flags
  <2>3. QED BY <2>1, <2>2
<1>2. ASSUME NEW r \in Readers, ReaderStep(r), ~CloseDevice(r) PROVE Flags'
  <2>1. Alive' = Alive /\ r \in Alive /\ alone' = alone
    BY <1>2 DEF ReaderStep, Setup, AttachDiscipline, LoopTop, ReadFails, ReadPiece, Extract,
                KeepPiece, Goes, ReaderData, Alive
  <2>2. run' \in BOOLEAN
    BY <1>2 DEF ReaderStep, Setup, AttachDiscipline, LoopTop, ReadFails, ReadPiece, Extract,
                KeepPiece, Flags
  <2>3. CASE AttachDiscipline(r)
    <3>1. CASE r \in open /\ attached' \in BOOLEAN /\ open' = open
      BY <2>1, <2>2, <3>1 DEF Flags
    <3>2. CASE (r \notin open \/ ~attached) /\ open' = open \ {r} /\ UNCHANGED queueVars
      BY <2>1, <2>2, <3>2 DEF Flags, queueVars
    <3>3. QED BY <2>3, <3>1, <3>2 DEF AttachDiscipline, Attach, queueVars, Flags
  <2>4. CASE Setup(r)
    BY <2>1, <2>2, <2>4 DEF Setup, Flags, queueVars
  <2>5. CASE UNCHANGED <<attached, open>>
    BY <2>1, <2>2, <2>5 DEF Flags
  <2>6. QED
    BY <1>2, <2>3, <2>4, <2>5 DEF ReaderStep, LoopTop, ReadFails, ReadPiece, Read, Extract,
                                  KeepPiece, queueVars
<1>3. ASSUME NEW r \in Readers, Start(r) PROVE Flags'
  BY <1>3 DEF Start, queueVars, Flags, Alive, ReaderData
<1>4. CASE Stop BY <1>4 DEF Stop, queueVars, Flags, Alive
<1>5. CASE Overflow \/ \E len \in Lengths : Arrive(len)
  BY <1>5 DEF Overflow, Arrive, Drop, Put, readerVars, Flags, Alive
<1>6. CASE UNCHANGED vars BY <1>6 DEF vars, queueVars, readerVars, Flags, Alive
<1>7. QED BY <1>1, <1>2, <1>3, <1>4, <1>5, <1>6 DEF Next

-----------------------------------------------------------------------------
(***************************************************************************)
(* A lone reader.                                                          *)
(***************************************************************************)
\* What any move of the queue keeps.
LEMMA QueueKeeps ==
  ASSUME QueueData,
         \/ \E len \in Lengths : Put(len)
         \/ \E n \in Nat \ {0} : Read(n)
         \/ Drop \/ Detach \/ Attach \/ UNCHANGED queueVars
  PROVE  /\ \A id \in 1..Len(sent) : id \in 1..Len(sent') /\ sent'[id] = sent[id]
         /\ \A id : Later(id) => Later(id)'
         /\ InOrder => InOrder'
<1>0. Len(queue) \in Nat /\ Len(sent) \in Nat /\ \A i \in 1..Len(queue) : queue[i] \in Nat
  BY LenProperties, ElementOfSeq DEF QueueData
<1>1. ASSUME NEW len \in Lengths, Put(len)
      PROVE  /\ \A id \in 1..Len(sent) : id \in 1..Len(sent') /\ sent'[id] = sent[id]
             /\ \A id : Later(id) => Later(id)'
             /\ InOrder => InOrder'
  <2>1. queue' = Append(queue, Len(sent) + 1) BY <1>1 DEF Put
  <2>2. /\ Len(queue') = Len(queue) + 1 /\ queue'[Len(queue) + 1] = Len(sent) + 1
        /\ \A i \in 1..Len(queue) : queue'[i] = queue[i]
    BY <1>0, <2>1, AppendProperties DEF QueueData
  <2>3. \A id \in 1..Len(sent) : id \in 1..Len(sent') /\ sent'[id] = sent[id]
    BY <1>1, SentGrows
  <2>4. ASSUME NEW id, Later(id) PROVE Later(id)'
    <3>1. id \in 1..Len(sent) /\ \A i \in 1..Len(queue) : queue[i] > id BY <2>4 DEF Later
    <3>2. \A i \in 1..Len(queue') : i \in 1..Len(queue) \/ i = Len(queue) + 1 BY <1>0, <2>2
    <3>3. \A i \in 1..Len(queue') : queue'[i] > id BY <1>0, <2>2, <3>1, <3>2
    <3>4. QED BY <2>3, <3>1, <3>3 DEF Later
  <2>5. ASSUME InOrder PROVE InOrder'
    <3>1. SUFFICES ASSUME NEW i \in 1..Len(queue'), NEW j \in 1..Len(queue'), i < j
                   PROVE  queue'[i] < queue'[j]
      BY DEF InOrder
    <3>2. i \in 1..Len(queue) /\ queue'[i] = queue[i] BY <1>0, <2>2, <3>1
    <3>3. CASE j \in 1..Len(queue) BY <2>2, <2>5, <3>2, <3>3, <3>1 DEF InOrder
    <3>4. CASE j = Len(queue) + 1
      <4>1. queue[i] \in 1..Len(sent) BY <3>2 DEF QueueData
      <4>2. QED BY <1>0, <2>2, <3>2, <3>4, <4>1
    <3>5. QED BY <1>0, <2>2, <3>3, <3>4
  <2>6. QED BY <2>3, <2>4, <2>5
<1>2. ASSUME sent' = sent, 
             queue' = queue \/ queue' = << >> \/ (queue # << >> /\ queue' = Tail(queue))
      PROVE  /\ \A id \in 1..Len(sent) : id \in 1..Len(sent') /\ sent'[id] = sent[id]
             /\ \A id : Later(id) => Later(id)'
             /\ InOrder => InOrder'
  <2>1. CASE queue' = queue BY <1>2, <2>1 DEF Later, InOrder
  <2>2. CASE queue' = << >> BY <1>2, <2>2, EmptySeq DEF Later, InOrder
  <2>3. CASE queue # << >> /\ queue' = Tail(queue)
    <3>1. Len(queue') = Len(queue) - 1 /\ \A i \in 1..Len(queue') : queue'[i] = queue[i + 1]
      BY <2>3, HeadTailProperties DEF QueueData
    <3>2. \A i \in 1..Len(queue') : i + 1 \in 1..Len(queue) BY <1>0, <3>1
    <3>3. \A id : Later(id) => Later(id)' BY <1>2, <3>1, <3>2 DEF Later
    <3>4. ASSUME InOrder, NEW i \in 1..Len(queue'), NEW j \in 1..Len(queue'), i < j
          PROVE  queue'[i] < queue'[j]
      <4>1. i + 1 < j + 1 BY <1>0, <3>1, <3>4
      <4>2. QED BY <3>1, <3>2, <3>4, <4>1 DEF InOrder
    <3>5. QED BY <1>2, <3>3, <3>4 DEF InOrder
  <2>4. QED BY <1>2, <2>1, <2>2, <2>3
<1>3. ASSUME NEW n \in Nat \ {0}, Read(n)
      PROVE  sent' = sent /\ (queue' = queue \/ (queue # << >> /\ queue' = Tail(queue)))
  BY <1>3, ReadFacts
<1>4. CASE Drop
  BY <1>0, <1>2, <1>4, EmptySeq, QueueAssumption DEF Drop, QueueData
<1>5. CASE Detach \/ Attach \/ UNCHANGED queueVars
  BY <1>2, <1>5 DEF Detach, Attach, queueVars
<1>6. QED BY <1>1, <1>2, <1>3, <1>4, <1>5

LEMMA EndOfLine ==
  ASSUME NEW p \in Piece, sent[p.id] \in Nat
  PROVE  /\ EndsLine(p, p.size - 2) => End(p) = sent[p.id]
         /\ ~EndsLine(p, p.size - 2) => End(p) # sent[p.id]
         /\ EndsLine(p, p.size - 1) => End(p) + 1 = sent[p.id]
         /\ ~EndsLine(p, p.size - 1) => End(p) + 1 # sent[p.id]
<1>1. p.from \in Nat /\ p.size \in Nat BY DEF Piece
<1>2. End(p) = p.from + p.size BY DEF End
<1>3. \A i \in Int : EndsLine(p, i) <=> p.from + i = sent[p.id] - 2 BY Zenon DEF EndsLine
<1>4. QED BY <1>1, <1>2, <1>3

\* Where a chain seems to end, and where it ends.
LEMMA EndFound ==
  ASSUME QueueData, ReaderData, NEW r \in Readers, buffer[r] # << >>,
         Chain(buffer[r]), Later(buffer[r][1].id)
  PROVE  /\ TRUE \in SeemsEnded(r) => End(LastOf(r)) = sent[buffer[r][1].id]
         /\ FALSE \in SeemsEnded(r) => End(LastOf(r)) # sent[buffer[r][1].id]
<1> DEFINE b == buffer[r]
           n == Len(b)
<1>1. n \in Nat \ {0} /\ LastOf(r) = b[n] /\ \A i \in 1..n : b[i] \in Piece
  BY LastTyped, ElementOfSeq DEF LastOf
<1>2. sent[b[1].id] \in Nat BY LengthsOfSentences DEF Later
<1>3. /\ b[n].id = b[1].id /\ b[n].from \in Nat /\ b[n].size \in Nat \ {0}
  BY <1>1 DEF Chain, Piece
<1>4. CASE b[n].size > 1
  <2>0. b[n] \in Piece /\ b[n].id = b[1].id /\ sent[b[n].id] \in Nat BY <1>1, <1>2, <1>3
  <2>1. SeemsEnded(r) = {EndsLine(b[n], b[n].size - 2)}
    BY <1>1, <1>4 DEF SeemsEnded
  <2>2. /\ TRUE \in SeemsEnded(r) => EndsLine(b[n], b[n].size - 2)
        /\ FALSE \in SeemsEnded(r) => ~EndsLine(b[n], b[n].size - 2)
    BY <2>1, Zenon
  <2>3. EndsLine(b[n], b[n].size - 2) => End(b[n]) = sent[b[1].id]
    BY <2>0, EndOfLine
  <2>4. ~EndsLine(b[n], b[n].size - 2) => End(b[n]) # sent[b[1].id]
    BY <2>0, EndOfLine
  <2>5. QED BY <1>1, <2>2, <2>3, <2>4
<1>5. CASE b[n].size = 1
  <2>1. n > 1 /\ n - 1 \in 1..n /\ n \in 2..n BY <1>1, <1>5 DEF Chain
  <2>2. /\ b[n - 1].id = b[1].id /\ b[n - 1].from \in Nat /\ b[n - 1].size \in Nat
        /\ b[n].from = b[n - 1].from + b[n - 1].size
        /\ b[n - 1] \in Piece
    BY <1>1, <2>1 DEF Chain, Piece
  <2>0. End(b[n]) = End(b[n - 1]) + 1 /\ sent[b[n - 1].id] \in Nat
    BY <1>2, <1>5, <2>2 DEF End
  <2>3. SeemsEnded(r) = {EndsLine(b[n - 1], b[n - 1].size - 1)}
    BY <1>1, <1>5, <2>1 DEF SeemsEnded
  <2>4. /\ TRUE \in SeemsEnded(r) => EndsLine(b[n - 1], b[n - 1].size - 1)
        /\ FALSE \in SeemsEnded(r) => ~EndsLine(b[n - 1], b[n - 1].size - 1)
    BY <2>3, Zenon
  <2>5. EndsLine(b[n - 1], b[n - 1].size - 1) => End(b[n]) = sent[b[1].id]
    BY <2>0, <2>2, EndOfLine
  <2>6. ~EndsLine(b[n - 1], b[n - 1].size - 1) => End(b[n]) # sent[b[1].id]
    BY <2>0, <2>2, EndOfLine
  <2>7. QED BY <1>1, <2>4, <2>5, <2>6
<1>6. b[n].size = 1 \/ b[n].size > 1 BY <1>3
<1>7. QED BY <1>4, <1>5, <1>6

\* A piece that continues a chain makes a longer one.
LEMMA ChainGrows ==
  ASSUME NEW b \in Seq(Piece), b # << >>, Chain(b), NEW p \in Piece,
         p.id = b[1].id, p.size > 0, p.from = End(b[Len(b)])
  PROVE  /\ Append(b, p) \in Seq(Piece) /\ Append(b, p) # << >>
         /\ Append(b, p)[1] = b[1] /\ Append(b, p)[Len(Append(b, p))] = p
         /\ Chain(Append(b, p))
<1> DEFINE n == Len(b)
           c == Append(b, p)
<1>1. n \in Nat \ {0} BY EmptySeq, LenProperties
<1>2. /\ c \in Seq(Piece) /\ Len(c) = n + 1 /\ c[n + 1] = p
      /\ \A i \in 1..n : c[i] = b[i]
  BY <1>1, AppendProperties
<1>3. c # << >> /\ c[1] = b[1] BY <1>1, <1>2, EmptySeq
<1>4. \A i \in 1..Len(c) : c[i].id = c[1].id /\ c[i].size > 0
  <2>1. \A i \in 1..Len(c) : i \in 1..n \/ i = n + 1 BY <1>1, <1>2
  <2>2. QED BY <1>2, <1>3, <2>1 DEF Chain
<1>5. ASSUME NEW i \in 2..Len(c) PROVE c[i].from = c[i - 1].from + c[i - 1].size
  <2>1. i - 1 \in 1..n /\ c[i - 1] = b[i - 1] BY <1>1, <1>2
  <2>2. CASE i \in 2..n
    <3>1. c[i] = b[i] BY <1>1, <1>2, <2>2
    <3>2. QED BY <2>1, <2>2, <3>1 DEF Chain
  <2>3. CASE i = n + 1 BY <1>1, <1>2, <2>1, <2>3 DEF End
  <2>4. QED BY <1>1, <1>2, <2>2, <2>3
<1>6. QED BY <1>2, <1>3, <1>4, <1>5 DEF Chain

\* A step that leaves a reader's buffer and place, or only moves it within the loop,
\* leaves it as it was, whatever arrives.
LEMMA KeptReader ==
  ASSUME QueueData, ReaderData, FitsInv, [Next]_vars, NEW r \in Readers, LoneReader(r),
         UNCHANGED <<attached, rest, extracted, open>>,
         buffer'[r] = buffer[r], count'[r] = count[r],
         \/ pc'[r] = pc[r]
         \/ pc[r] \in {"top", "read"} /\ pc'[r] \in {"top", "read", "close"}
         \/ pc[r] = "none" /\ pc'[r] = "setup" /\ ~attached
         \/ pc[r] = "setup" /\ pc'[r] = "attach"
  PROVE  LoneReader(r)'
<1>1. /\ \A id \in 1..Len(sent) : id \in 1..Len(sent') /\ sent'[id] = sent[id]
      /\ \A id : Later(id) => Later(id)'
  BY QueueKeeps, QueueMoves
<1>2. CASE buffer[r] = << >> BY <1>2 DEF LoneReader
<1>3. CASE buffer[r] # << >>
  <2> DEFINE b == buffer[r]
  <2>1. Chain(b) /\ Later(b[1].id) /\ (extracted # << >> => extracted[1].id < b[1].id)
    BY <1>3 DEF LoneReader
  <2>2. sent'[b[1].id] = sent[b[1].id] /\ Later(b[1].id)' BY <1>1, <2>1 DEF Later
  <2>3. (Complete(b) => Complete(b)') /\ (Unfinished(b) => Unfinished(b)')
    BY <2>2 DEF Complete, Unfinished, End
  <2>4. Chain(b)' BY <2>1 DEF Chain
  <2>5. QED BY <1>3, <2>1, <2>2, <2>3, <2>4 DEF LoneReader
<1>4. QED BY <1>2, <1>3

LEMMA ExtractedKept ==
  ASSUME QueueData, ReaderData, FitsInv, [Next]_vars, ExtractedInv,
         UNCHANGED <<extracted, latest>>
  PROVE  ExtractedInv'
<1>1. /\ \A id \in 1..Len(sent) : sent'[id] = sent[id]
      /\ \A id : Later(id) => Later(id)'
  BY QueueKeeps, QueueMoves
<1>2. CASE extracted = << >> BY <1>2 DEF ExtractedInv
<1>3. CASE extracted # << >>
  <2>1. Later(extracted[1].id) BY <1>3 DEF ExtractedInv
  <2>2. sent'[extracted[1].id] = sent[extracted[1].id] /\ Later(extracted[1].id)'
    BY <1>1, <2>1 DEF Later
  <2>3. Chain(extracted)' BY <1>3 DEF ExtractedInv, Chain
  <2>4. QED BY <1>3, <2>2, <2>3 DEF ExtractedInv, End
<1>4. QED BY <1>2, <1>3

\* A read by a lone reader begins the next sentence, or goes on with the one it has.
LEMMA LoneRead ==
  ASSUME QueueData, ReaderData, FitsInv, InOrder, ExtractedInv,
         NEW r \in Readers, LoneReader(r), ReadPiece(r)
  PROVE  LoneReader(r)'
<1>1. PICK n \in Nat \ {0} :
        Read(n) /\ (Room(r) = BufferSize => n = IF BufferSize < Chunk THEN BufferSize ELSE Chunk)
  BY PieceFits
<1>2. /\ pc[r] = "read" /\ pc'[r] = "check" /\ r \in open
      /\ buffer'[r] = Append(buffer[r], piece') /\ count' = count /\ extracted' = extracted
  BY DEF ReadPiece, Goes, ReaderData
<1>3. /\ Current \in Rest /\ Current.left > 0 /\ Current.id \in 1..Len(sent)
      /\ Head(queue) = queue[1] /\ 1 \in 1..Len(queue)
  BY <1>1, ReadFacts, CurrentTyped
<1>4. /\ Amount(n) \in Nat \ {0} /\ Amount(n) <= Current.left /\ sent' = sent
      /\ piece' = [id |-> Current.id, from |-> Current.from, size |-> Amount(n)]
      /\ Amount(n) = Current.left => rest' = NoRest
      /\ Amount(n) # Current.left =>
           rest' = [id |-> Current.id, from |-> Current.from + Amount(n),
                    left |-> Current.left - Amount(n)]
      /\ piece' \in Piece
  BY <1>1, ReadFacts, ReadTyped
<1>5. End(piece') = Current.from + Amount(n) BY <1>4 DEF End
<1>6. ASSUME buffer'[r] # << >>, Chain(buffer'[r]), buffer'[r][1].id = Current.id,
             buffer'[r][Len(buffer'[r])] = piece',
             Current.from + Current.left = sent[Current.id], \A id : id = Current.id => Later(id)',
             extracted # << >> => extracted[1].id < Current.id
      PROVE  LoneReader(r)'
  <2>1. Complete(buffer[r])' \/ Unfinished(buffer[r])'
    <3>1. CASE Amount(n) = Current.left
      BY <1>3, <1>4, <1>5, <1>6, <3>1 DEF Complete, NoRest
    <3>2. CASE Amount(n) # Current.left
      <4>1. /\ rest'.id = Current.id /\ rest'.from = Current.from + Amount(n)
            /\ rest'.left = Current.left - Amount(n)
        BY <1>4, <3>2
      <4>2. rest'.left > 0 /\ rest'.from + rest'.left = Current.from + Current.left
        BY <1>3, <1>4, <3>2, <4>1 DEF Rest
      <4>3. QED BY <1>4, <1>5, <1>6, <4>1, <4>2 DEF Unfinished
    <3>3. QED BY <3>1, <3>2
  <2>2. Chain(buffer[r])' BY <1>6 DEF Chain
  <2>3. Later(buffer[r][1].id)'
    <3>1. \A id : id = buffer'[r][1].id => Later(id)' BY <1>6
    <3>2. QED BY <3>1
  <2>4. extracted' # << >> => extracted'[1].id < buffer'[r][1].id BY <1>2, <1>6
  <2>5. QED BY <1>2, <1>6, <2>1, <2>2, <2>3, <2>4 DEF LoneReader
<1>7. CASE buffer[r] = << >>
  <2>1. count[r] = 0 /\ rest.left = 0 BY <1>2, <1>7 DEF LoneReader
  <2>2. Current = [id |-> queue[1], from |-> 0, left |-> sent[queue[1]]]
    BY <1>3, <2>1 DEF Current
  <2>3. queue[1] \in 1..Len(sent) /\ sent[queue[1]] \in Nat /\ sent[queue[1]] > 1
        /\ sent[queue[1]] <= BufferSize
    BY <1>3, LengthsOfSentences DEF QueueData
  <2>4. Amount(n) > 1
    <3>1. Room(r) = BufferSize BY <2>1, ReaderAssumption DEF Room
    <3>2. n > 1 BY <1>1, <2>3, <3>1, ReaderAssumption
    <3>3. QED BY <2>2, <2>3, <3>2 DEF Amount
  <2>5. buffer'[r] = <<piece'>> BY <1>2, <1>7, <1>4, AppendProperties, EmptySeq
  <2>6. /\ Len(buffer'[r]) = 1 /\ buffer'[r][1] = piece' /\ buffer'[r] # << >>
    BY <2>5, EmptySeq
  <2>7. piece'.id = queue[1] /\ piece'.from = 0 /\ piece'.size = Amount(n)
    BY <1>4, <2>2
  <2>8. Chain(buffer'[r])
    <3>1. \A i \in 1..Len(buffer'[r]) : i = 1 BY <2>6
    <3>2. \A i \in 2..Len(buffer'[r]) : FALSE BY <2>6
    <3>3. QED BY <1>4, <2>4, <2>6, <2>7, <3>1, <3>2 DEF Chain
  <2>9. ASSUME NEW id, id = queue[1] PROVE Later(id)'
    <3>1. queue' = Tail(queue) /\ queue # << >> BY <1>1, <2>1, ReadFacts
    <3>2. /\ Len(queue') = Len(queue) - 1 /\ Len(queue) \in Nat
          /\ \A i \in 1..Len(queue') : queue'[i] = queue[i + 1]
      BY <3>1, HeadTailProperties, LenProperties DEF QueueData
    <3>3. \A i \in 1..Len(queue') : i + 1 \in 1..Len(queue) /\ 1 < i + 1 BY <3>2
    <3>4. \A i \in 1..Len(queue') : queue'[i] > queue[1]
      <4>1. \A i \in 1..Len(queue') : queue[1] < queue[i + 1] BY <1>3, <3>3 DEF InOrder
      <4>2. \A i \in 1..Len(queue) : queue[i] \in Nat BY ElementOfSeq DEF QueueData
      <4>3. QED BY <1>3, <3>2, <3>3, <4>1, <4>2
    <3>5. QED BY <1>4, <2>3, <2>9, <3>4 DEF Later
  <2>10. extracted # << >> => extracted[1].id < queue[1]
    <3>1. SUFFICES ASSUME extracted # << >> PROVE extracted[1].id < queue[1] OBVIOUS
    <3>2. Later(extracted[1].id) BY <3>1 DEF ExtractedInv
    <3>3. extracted[1].id \in Nat /\ queue[1] \in Nat /\ queue[1] > extracted[1].id
      BY <1>3, <2>3, <3>2 DEF Later
    <3>4. QED BY <3>3
  <2>11. QED BY <1>6, <2>2, <2>3, <2>6, <2>7, <2>8, <2>9, <2>10
<1>8. CASE buffer[r] # << >>
  <2> DEFINE b == buffer[r]
  <2>1. /\ Chain(b) /\ Unfinished(b) /\ Later(b[1].id)
        /\ extracted # << >> => extracted[1].id < b[1].id
    BY <1>2, <1>8 DEF LoneReader
  <2>2. Current = rest BY <2>1 DEF Unfinished, Current
  <2>3. piece'.id = b[1].id /\ piece'.from = End(b[Len(b)]) /\ piece'.size = Amount(n)
    BY <1>4, <2>1, <2>2 DEF Unfinished
  <2>4. b \in Seq(Piece) BY DEF ReaderData
  <2>5. /\ buffer'[r] # << >> /\ buffer'[r][1] = b[1] /\ Chain(buffer'[r])
        /\ buffer'[r][Len(buffer'[r])] = piece'
    <3>1. piece'.size > 0 /\ piece'.id = b[1].id /\ piece'.from = End(b[Len(b)])
      BY <1>4, <2>3
    <3>2. /\ Append(b, piece') # << >> /\ Append(b, piece')[1] = b[1]
          /\ Append(b, piece')[Len(Append(b, piece'))] = piece'
          /\ Chain(Append(b, piece'))
      BY <1>4, <1>8, <2>1, <2>4, <3>1, ChainGrows
    <3>3. QED BY <1>2, <3>2
  <2>6. ASSUME NEW id, id = b[1].id PROVE Later(id)'
    <3>1. queue' = queue BY <1>1, <2>1, ReadFacts DEF Unfinished
    <3>2. QED BY <1>4, <2>1, <2>6, <3>1 DEF Later
  <2>7. b[1].id = Current.id /\ Current.from + Current.left = sent[Current.id]
    BY <2>1, <2>2 DEF Unfinished
  <2>8. QED
    <3>1. \A id : id = Current.id => Later(id)' BY <2>6, <2>7
    <3>2. QED BY <1>6, <2>1, <2>5, <2>7, <3>1
<1>9. QED BY <1>7, <1>8

\* When a lone reader finds an end, it has the whole sentence.
LEMMA LoneExtract ==
  ASSUME QueueData, ReaderData, FitsInv, ExtractedInv, [Next]_vars,
         NEW r \in Readers, LoneReader(r), Extract(r)
  PROVE  LoneReader(r)' /\ ExtractedInv'
<1> DEFINE b == buffer[r]
<1>1. /\ pc[r] = "check" /\ pc'[r] = "top" /\ buffer'[r] = << >> /\ count'[r] = 0
      /\ extracted' = b /\ latest' = IF extracted = << >> THEN 0 ELSE extracted[1].id
      /\ UNCHANGED <<sent, queue, rest, open>> /\ TRUE \in SeemsEnded(r)
  BY DEF Extract, Goes, ReaderData, queueVars
<1>2. b # << >> BY <1>1 DEF FitsInv
<1>3. /\ Chain(b) /\ Later(b[1].id) /\ (Complete(b) \/ Unfinished(b))
      /\ extracted # << >> => extracted[1].id < b[1].id
  BY <1>1, <1>2 DEF LoneReader
<1>4. b[1].id \in Nat \ {0} /\ sent[b[1].id] \in Nat
  BY <1>3, LengthsOfSentences DEF Later
<1>5. End(b[Len(b)]) = sent[b[1].id]
  BY <1>1, <1>2, <1>3, EndFound DEF LastOf
<1>6. Complete(b)
  <2>1. SUFFICES ASSUME Unfinished(b) PROVE FALSE BY <1>3
  <2>2. rest.from \in Nat /\ rest.left \in Nat BY DEF QueueData, Rest
  <2>3. rest.left > 0 /\ rest.from + rest.left = rest.from BY <1>5, <2>1 DEF Unfinished
  <2>4. QED BY <2>2, <2>3
<1>7. LoneReader(r)' BY <1>1, <1>6 DEF LoneReader, Complete
<1>8. latest' < b[1].id BY <1>1, <1>3, <1>4
<1>9. Later(extracted[1].id)'
  <2>1. \A id : Later(id) => Later(id)' BY QueueKeeps, QueueMoves
  <2>2. \A id : id = extracted'[1].id => Later(id)' BY <1>1, <1>3, <2>1
  <2>3. QED BY <2>2
<1>10. Chain(extracted)' BY <1>1, <1>3 DEF Chain
<1>11. extracted'[1].id > latest'
  <2>1. latest' \in Nat BY ReaderTyped DEF ReaderData
  <2>2. QED BY <1>1, <1>4, <1>8, <2>1
<1>12. ExtractedInv'
  BY <1>1, <1>5, <1>9, <1>10, <1>11 DEF ExtractedInv, End
<1>13. QED BY <1>7, <1>12

\* When it finds none, there is more of the sentence to read.
LEMMA LoneKeep ==
  ASSUME QueueData, ReaderData, FitsInv, NEW r \in Readers, LoneReader(r), KeepPiece(r)
  PROVE  LoneReader(r)'
<1> DEFINE b == buffer[r]
<1>1. /\ pc[r] = "check" /\ pc'[r] = "top" /\ buffer' = buffer /\ extracted' = extracted
      /\ UNCHANGED queueVars /\ FALSE \in SeemsEnded(r)
  BY DEF KeepPiece, Goes, ReaderData
<1>2. b # << >> BY <1>1 DEF FitsInv
<1>3. Chain(b) /\ Later(b[1].id) /\ (Complete(b) \/ Unfinished(b))
  BY <1>1, <1>2 DEF LoneReader
<1>4. ~Complete(b) BY <1>1, <1>2, <1>3, EndFound DEF LastOf, Complete
<1>5. Unfinished(b)' BY <1>1, <1>3, <1>4 DEF Unfinished, queueVars, End
<1>6. Chain(b)' /\ Later(b[1].id)' BY <1>1, <1>3 DEF Chain, Later, queueVars
<1>7. QED BY <1>1, <1>2, <1>5, <1>6 DEF LoneReader

\* A reader that has not begun attaches the discipline afresh.
LEMMA LoneAttach ==
  ASSUME ReaderData, NEW r \in Readers, LoneReader(r), AttachDiscipline(r)
  PROVE  LoneReader(r)'
<1>1. /\ pc[r] = "attach" /\ pc'[r] = "top" /\ UNCHANGED <<buffer, count>>
  BY DEF AttachDiscipline, Goes, ReaderData
<1>2. buffer[r] = << >> /\ count[r] = 0 /\ ~attached BY <1>1 DEF LoneReader
<1>3. CASE Attach BY <1>1, <1>2, <1>3 DEF Attach, NoRest, LoneReader
<1>4. CASE open' = open \ {r} BY <1>1, <1>2, <1>4 DEF LoneReader
<1>5. QED BY <1>2, <1>3, <1>4 DEF AttachDiscipline

LEMMA LoneStep ==
  ASSUME QueueData, ReaderData, FitsInv, Flags, LoneInv, [Next]_vars
  PROVE  LoneInv'
<1>1. SUFFICES ASSUME alone' PROVE LoneInv' BY DEF LoneInv
<1>2. alone
  BY <1>1 DEF Next, ReaderStep, Setup, AttachDiscipline, LoopTop, ReadFails, ReadPiece, Extract,
              KeepPiece, CloseDevice, Goes, Start, Stop, Overflow, Arrive, readerVars, vars
<1>3. /\ \A r, s \in Alive : r = s
      /\ InOrder /\ ExtractedInv /\ \A r \in Readers : LoneReader(r)
  BY <1>2 DEF LoneInv
<1>4. InOrder' BY <1>3, QueueKeeps, QueueMoves
<1>5. ASSUME NEW r \in Readers, ReaderStep(r) PROVE LoneInv'
  <2>1. pc[r] # "none" /\ r \in Alive /\ \A s \in Readers \ {r} : pc'[s] = pc[s]
    BY <1>5 DEF ReaderStep, Setup, AttachDiscipline, LoopTop, ReadFails, ReadPiece, Extract,
                KeepPiece, CloseDevice, Goes, ReaderData, Alive
  <2>2. \A s \in Readers \ {r} : pc[s] = "none" BY <1>3, <2>1 DEF Alive
  <2>3. \A s, t \in Alive' : s = t BY <2>1, <2>2 DEF Alive
  <2>4. \A s \in Readers \ {r} : buffer'[s] = buffer[s] /\ count'[s] = count[s]
    BY <1>5 DEF ReaderStep, Setup, AttachDiscipline, LoopTop, ReadFails, ReadPiece, Extract,
                KeepPiece, CloseDevice, ReaderData
  <2>5. ASSUME NEW s \in Readers \ {r} PROVE LoneReader(s)'
    <3>1. buffer'[s] = << >> /\ count'[s] = 0 /\ pc'[s] = "none"
      BY <1>3, <2>1, <2>2, <2>4 DEF LoneReader
    <3>2. QED BY <3>1 DEF LoneReader
  <2>6. LoneReader(r)' /\ ExtractedInv'
    <3>1. CASE Extract(r) BY <1>3, <3>1, LoneExtract
    <3>2. CASE ~Extract(r)
      <4>1. UNCHANGED <<extracted, latest>>
        BY <1>5, <3>2 DEF ReaderStep, Setup, AttachDiscipline, LoopTop, ReadFails, ReadPiece,
                          KeepPiece, CloseDevice
      <4>2. ExtractedInv' BY <1>3, <4>1, ExtractedKept
      <4>3. CASE ReadPiece(r) BY <1>3, <4>2, <4>3, LoneRead
      <4>4. CASE KeepPiece(r) BY <1>3, <4>2, <4>4, LoneKeep
      <4>5. CASE AttachDiscipline(r) BY <1>3, <4>2, <4>5, LoneAttach
      <4>6. CASE CloseDevice(r)
        <5>1. buffer'[r] = << >> /\ count'[r] = 0 /\ pc'[r] = "none"
          BY <4>6 DEF CloseDevice, Goes, ReaderData
        <5>2. QED BY <4>2, <5>1 DEF LoneReader
      <4>7. CASE Setup(r)
        <5>1. /\ buffer'[r] = << >> /\ count'[r] = 0 /\ pc'[r] = "attach" /\ ~attached'
          BY <1>3, <4>7 DEF Setup, Goes, ReaderData, LoneReader, queueVars
        <5>2. QED BY <4>2, <5>1 DEF LoneReader
      <4>8. CASE LoopTop(r) \/ ReadFails(r)
        <5>1. /\ UNCHANGED <<attached, rest, extracted, open, buffer, count>>
              /\ pc[r] \in {"top", "read"} /\ pc'[r] \in {"top", "read", "close"}
          BY <4>8 DEF LoopTop, ReadFails, Goes, ReaderData, queueVars
        <5>2. LoneReader(r) BY <1>3
        <5>3. LoneReader(r)' BY <5>1, <5>2, KeptReader
        <5>4. QED BY <4>2, <5>3
      <4>9. QED BY <1>5, <3>2, <4>3, <4>4, <4>5, <4>6, <4>7, <4>8 DEF ReaderStep
    <3>3. QED BY <3>1, <3>2
  <2>7. \A s \in Readers : LoneReader(s)' BY <2>5, <2>6
  <2>8. QED BY <1>4, <2>3, <2>6, <2>7 DEF LoneInv
<1>6. ASSUME NEW r \in Readers, Start(r) PROVE LoneInv'
  <2>1. /\ Alive = {} /\ pc' = [pc EXCEPT ![r] = "setup"] /\ pc[r] = "none"
        /\ UNCHANGED <<queueVars, open, buffer, count, extracted, latest>>
    BY <1>1, <1>6 DEF Start
  <2>2. ~attached BY <2>1 DEF Flags
  <2>3. \A s, t \in Alive' : s = t BY <2>1 DEF Alive, ReaderData
  <2>4. ASSUME NEW s \in Readers PROVE LoneReader(s)'
    <3>1. pc'[s] = pc[s] \/ (pc[s] = "none" /\ pc'[s] = "setup") BY <2>1 DEF ReaderData
    <3>2. UNCHANGED <<attached, rest, extracted, open>> /\ buffer'[s] = buffer[s] /\ count'[s] = count[s]
      BY <2>1 DEF queueVars
    <3>3. QED BY <1>3, <2>2, <3>1, <3>2, KeptReader
  <2>5. ExtractedInv' BY <1>3, <2>1, ExtractedKept
  <2>6. QED BY <1>4, <2>3, <2>4, <2>5 DEF LoneInv
<1>7. CASE Stop \/ Overflow \/ (\E len \in Lengths : Arrive(len)) \/ UNCHANGED vars
  <2>1. UNCHANGED <<attached, rest, extracted, latest, open, pc, buffer, count>>
    BY <1>7 DEF Stop, Overflow, Arrive, Drop, Put, readerVars, queueVars, vars
  <2>2. ASSUME NEW s \in Readers PROVE LoneReader(s)'
    BY <1>3, <2>1, KeptReader
  <2>3. Alive' = Alive BY <2>1 DEF Alive
  <2>4. ExtractedInv' BY <1>3, <2>1, ExtractedKept
  <2>5. QED BY <1>3, <1>4, <2>2, <2>3, <2>4 DEF LoneInv
<1>8. QED BY <1>5, <1>6, <1>7 DEF Next

-----------------------------------------------------------------------------
(***************************************************************************)
(* The theorems.                                                           *)
(***************************************************************************)
IInv == QueueData /\ ReaderData /\ Flags /\ FitsInv /\ LoneInv

\* The invariant is inductive.
THEOREM Inductive == Spec => []IInv
<1>1. Init => IInv
  <2>1. SUFFICES ASSUME Init PROVE IInv OBVIOUS
  <2>2. Len(queue) = 0 /\ Len(sent) = 0 /\ queue = << >> /\ sent = << >> /\ ~attached
    BY <2>1, EmptySeq DEF Init, QueueInit
  <2>3. QueueData
    BY <2>1, <2>2, EmptySeq, QueueAssumption
    DEF Init, QueueInit, QueueData, NoRest, NoPiece, Rest, Piece
  <2>4. ReaderData BY <2>1, EmptySeq DEF Init, ReaderData, Labels
  <2>5. Flags BY <2>1, <2>2 DEF Init, QueueInit, Flags, Alive
  <2>6. FitsInv BY <2>1, ReaderAssumption DEF Init, FitsInv
  <2>7. LoneInv BY <2>1, <2>2 DEF Init, LoneInv, LoneReader, ExtractedInv, InOrder, Alive
  <2>8. QED BY <2>3, <2>4, <2>5, <2>6, <2>7 DEF IInv
<1>2. IInv /\ [Next]_vars => IInv'
  BY QueueMoves, QueueTyped, ReaderTyped, FlagsStep, FitsStep, LoneStep DEF IInv
<1>3. QED BY <1>1, <1>2, PTL DEF Spec

\* The queue, the readers and their buffers stay within their types, and only a
\* running reader holds the device open.
THEOREM TypeCorrect == Spec => []TypeOK
<1>1. IInv => TypeOK
  <2>1. SUFFICES ASSUME IInv PROVE TypeOK OBVIOUS
  <2>2. attached \in BOOLEAN /\ run \in BOOLEAN /\ alone \in BOOLEAN
    BY <2>1, Zenon DEF IInv, Flags
  <2>3. QED BY <2>1, <2>2 DEF IInv, Flags, QueueData, ReaderData, TypeOK, Rest, Piece, Labels
<1>2. QED BY <1>1, Inductive, PTL

\* The bytes asked for always fit the buffer, for any number of readers that share
\* the device: read_count never passes sizeof(buffer).
THEOREM FitsSafety == Spec => []FitsBuffer
<1>1. IInv => FitsBuffer
  <2>1. SUFFICES ASSUME IInv, NEW r \in Readers
                 PROVE  count[r] + (IF pc[r] = "check" THEN LastOf(r).size ELSE 0) <= BufferSize
    BY DEF FitsBuffer
  <2>2. count[r] \in Nat /\ count[r] <= BufferSize BY <2>1 DEF IInv, ReaderData, FitsInv
  <2>3. pc[r] = "check" => count[r] + LastOf(r).size <= BufferSize BY <2>1 DEF IInv, FitsInv
  <2>4. QED BY <2>2, <2>3, ReaderAssumption
<1>2. QED BY <1>1, Inductive, PTL

\* What a lone reader hands to extract_nmea is one whole sentence, later than the
\* one before, for every length, chunk and buffer that can hold a sentence.
THEOREM WholeSafety == Spec => []WholeSentences
<1>1. IInv => WholeSentences
  <2>1. SUFFICES ASSUME IInv, alone, extracted # << >>
                 PROVE  LET last == extracted[Len(extracted)]
                        IN /\ extracted[1].from = 0 /\ extracted[1].id > latest
                           /\ \A i \in 2..Len(extracted) :
                                /\ extracted[i].id = extracted[1].id
                                /\ extracted[i].from = extracted[i - 1].from + extracted[i - 1].size
                           /\ last.from + last.size = sent[last.id]
    BY DEF WholeSentences
  <2>2. /\ Chain(extracted) /\ extracted[1].id > latest
        /\ End(extracted[Len(extracted)]) = sent[extracted[1].id]
    BY <2>1 DEF IInv, LoneInv, ExtractedInv
  <2>3. Len(extracted) \in Nat \ {0} BY <2>1, EmptySeq, LenProperties DEF IInv, ReaderData
  <2>4. \A i \in 2..Len(extracted) : i \in 1..Len(extracted) BY <2>3
  <2>5. extracted[Len(extracted)].id = extracted[1].id BY <2>2, <2>3 DEF Chain
  <2>6. QED BY <2>2, <2>4, <2>5 DEF Chain, End
<1>2. QED BY <1>1, Inductive, PTL

=============================================================================
