------------------------ MODULE LineDisciplineProofs ------------------------
(***************************************************************************)
(* Proofs about the line discipline, for every queue size, buffer length,  *)
(* prefix length, set of readers and set of read sizes: the bytes it is    *)
(* fed stay within its buffers, and its mutex excludes as long as no       *)
(* blocked read is interrupted.                                            *)
(***************************************************************************)
EXTENDS LineDiscipline, TLAPS, SequenceTheorems

\* WithinBuffers with the types it needs; it is inductive as it stands, for the
\* frame and the queue of sentences are touched under the spinlock only.
FrameInv ==
  /\ index \in Nat
  /\ sent \in Seq(Nat)
  /\ WithinBuffers

\* Exclusive says who is inside the critical section.  That a step of a reader
\* keeps it rests on the types: one program counter per reader, one holder.
LockInv ==
  /\ rpc \in [ReaderThreads -> {"idle", "lock", "wait", "relock", "get", "deliver"} \cup Getting]
  /\ Exclusive

LEMMA FrameInit == Init => FrameInv
  BY LengthAssumption DEF Init, FrameInv, WithinBuffers

\* A byte moves the index by one at most, and only below its bound.
LEMMA ReceiveByteKeepsFrame ==
  ASSUME FrameInv, NEW b \in Bytes, ReceiveByte(b)
  PROVE  FrameInv'
<1> DEFINE open == valid \/ b = "$"
           at   == IF b = "$" THEN 0 ELSE index
<1>1. sent' = sent /\ at \in Nat
  BY DEF ReceiveByte, FrameInv, WithinBuffers
<1>2. CASE UNCHANGED frame
  BY <1>1, <1>2 DEF FrameInv, WithinBuffers, frame
<1>3. CASE valid' = FALSE /\ index' = 0
  BY <1>1, <1>3, LengthAssumption DEF FrameInv, WithinBuffers
<1>4. CASE at < MaxLength - 1 /\ valid' = TRUE /\ index' = at + 1
  BY <1>1, <1>4, LengthAssumption DEF FrameInv, WithinBuffers
<1>5. QED
  BY <1>2, <1>3, <1>4 DEF ReceiveByte

\* A finished sentence is as long as its frame, the end of line and the NUL.
LEMMA ReceiveSentenceKeepsFrame ==
  ASSUME FrameInv, ReceiveSentence
  PROVE  FrameInv'
<1>1. /\ valid' = FALSE /\ index' = 0 /\ sent' = Append(sent, index + 2)
      /\ index + 2 \in (PrefixLength + 2)..MaxLength /\ index + 2 \in Nat
  BY LengthAssumption DEF ReceiveSentence, FrameInv
<1>2. sent \in Seq(Nat)
  BY DEF FrameInv
<1>3. /\ sent' \in Seq(Nat) /\ Len(sent') = Len(sent) + 1
      /\ \A id \in 1..Len(sent) : sent'[id] = sent[id]
      /\ sent'[Len(sent) + 1] = index + 2
  BY <1>1, <1>2, AppendProperties
<1>4. ASSUME NEW id \in DOMAIN sent' PROVE sent'[id] \in (PrefixLength + 2)..MaxLength
  <2>1. id \in 1..Len(sent) \/ id = Len(sent) + 1
    <3>1. DOMAIN sent' = 1..(Len(sent) + 1) /\ Len(sent) \in Nat
      BY <1>2, <1>3, LenProperties
    <3>2. QED
      BY <3>1
  <2>2. CASE id \in 1..Len(sent)
    <3>1. id \in DOMAIN sent /\ sent'[id] = sent[id]
      BY <1>2, <1>3, <2>2, LenProperties
    <3>2. QED
      BY <3>1 DEF FrameInv, WithinBuffers
  <2>3. CASE id = Len(sent) + 1
    BY <1>1, <1>3, <2>3
  <2>4. QED
    BY <2>1, <2>2, <2>3
<1>5. QED
  BY <1>1, <1>3, <1>4, LengthAssumption DEF FrameInv, WithinBuffers

\* No other step touches the frame, but for open, which clears it.
LEMMA FrameStep == FrameInv /\ [Next]_vars => FrameInv'
<1> SUFFICES ASSUME FrameInv, [Next]_vars PROVE FrameInv'
  OBVIOUS
<1> DEFINE Kept == UNCHANGED <<valid, index, sent>>
<1>1. CASE Kept
  BY <1>1 DEF FrameInv, WithinBuffers
<1>2. CASE ReceiverStep
  <2>1. CASE ReceiveSentence
    BY <2>1, ReceiveSentenceKeepsFrame
  <2>2. CASE \E b \in Bytes : ReceiveByte(b)
    BY <2>2, ReceiveByteKeepsFrame
  <2>3. CASE PutOrDrop \/ Fill \/ Finish \/ DropCheck \/ DropLoad \/ DropStore \/ PutAgain
    <3>1. Kept
      BY <2>3 DEF PutOrDrop, Fill, Finish, DropCheck, DropLoad, DropStore, PutAgain, Receiver, frame
    <3>2. QED
      BY <1>1, <3>1
  <2>4. QED
    BY <1>2, <2>1, <2>2, <2>3 DEF ReceiverStep
<1>3. CASE Close
  BY <1>1, <1>3 DEF Close, receiver, frame
<1>4. CASE Open
  BY <1>4, LengthAssumption DEF Open, FrameInv, WithinBuffers
<1>5. ASSUME NEW r \in ReaderThreads,
             ReaderStep(r) \/ Interrupt(r) \/ \E n \in ReadSizes : Call(r, n)
      PROVE  FrameInv'
  <2>1. Kept
    BY <1>5 DEF ReaderStep, Interrupt, Call, Lock, Wake, Relock, Get, CopyHead, CopyTail,
                LoadOut, StoreOut, Deliver, Reader, receiver, frame
  <2>2. QED
    BY <1>1, <2>1
<1>6. CASE UNCHANGED vars
  BY <1>1, <1>6 DEF vars, receiver, frame
<1>7. QED
  BY <1>2, <1>3, <1>4, <1>5, <1>6 DEF Next, Step

\* Whatever bytes the device sends, gnssposget_receive and handle_nmea write
\* within nmea_text, and queue records that fit the buffer they are read into.
THEOREM BufferSafety == Spec => []WithinBuffers
<1>1. FrameInv => WithinBuffers
  BY DEF FrameInv
<1>2. QED
  BY <1>1, FrameInit, FrameStep, PTL DEF Spec

-----------------------------------------------------------------------------
LEMMA LockInit == Init => LockInv
  BY DEF Init, LockInv, Exclusive, Getting

\* A step that moves no reader and leaves the mutex alone.
LEMMA LockKept == LockInv /\ UNCHANGED <<rpc, mutex>> => LockInv'
  BY DEF LockInv, Exclusive

Labels == {"idle", "lock", "wait", "relock", "get", "deliver"} \cup Getting
Critical == {"get", "deliver"} \cup Getting

\* A step of a reader that takes or gives back no mutex: it is inside the critical
\* section afterwards only if it was before.
LEMMA StaysKeepsLock ==
  ASSUME LockInv, NEW r \in ReaderThreads, NEW to \in Labels,
         rpc' = [rpc EXCEPT ![r] = to], mutex' = mutex,
         to \in Critical => rpc[r] \in Critical
  PROVE  LockInv'
  BY DEF LockInv, Exclusive, Labels, Critical

\* Entering: the mutex was free, so nobody was inside.
LEMMA EnteringKeepsLock ==
  ASSUME LockInv, NEW r \in ReaderThreads, NEW to \in Labels,
         rpc' = [rpc EXCEPT ![r] = to], mutex = Nobody, mutex' = r
  PROVE  LockInv'
  BY NobodyAssumption DEF LockInv, Exclusive, Labels, Critical

\* Leaving: the reader was the holder, so nobody else is inside.
LEMMA LeavingKeepsLock ==
  ASSUME LockInv, NEW r \in ReaderThreads, NEW to \in Labels \ Critical,
         rpc[r] \in Critical, rpc' = [rpc EXCEPT ![r] = to], mutex' = Nobody
  PROVE  LockInv'
  BY NobodyAssumption DEF LockInv, Exclusive, Labels, Critical

LEMMA ReaderKeepsLock ==
  ASSUME LockInv, NEW r \in ReaderThreads,
         ReaderStep(r) \/ \E n \in ReadSizes : Call(r, n)
  PROVE  LockInv'
<1>1. CASE \E n \in ReadSizes : Call(r, n)
  BY <1>1, StaysKeepsLock DEF Call, Reader, Labels, Critical, Getting
<1>2. CASE Lock(r)
  <2>1. CASE Backlog = 0
    BY <1>2, <2>1, StaysKeepsLock DEF Lock, Reader, Labels, Critical, Getting
  <2>2. CASE Backlog # 0
    BY <1>2, <2>2, EnteringKeepsLock DEF Lock, Reader, Labels, Critical, Getting
  <2>3. QED
    BY <2>1, <2>2
<1>3. CASE Wake(r)
  BY <1>3, StaysKeepsLock DEF Wake, Reader, Labels, Critical, Getting
<1>4. CASE Relock(r)
  BY <1>4, EnteringKeepsLock DEF Relock, Reader, Labels, Critical, Getting
<1>5. CASE Get(r)
  <2>1. /\ rpc[r] = "get" /\ mutex' = mutex
        /\ rpc' = [rpc EXCEPT ![r] = "deliver"] \/ rpc' = [rpc EXCEPT ![r] = "copy_head"]
    BY <1>5 DEF Get, Reader
  <2>2. QED
    BY <2>1, StaysKeepsLock DEF Labels, Critical, Getting
<1>6. CASE CopyHead(r)
  BY <1>6, StaysKeepsLock DEF CopyHead, Reader, Labels, Critical, Getting
<1>7. CASE CopyTail(r)
  BY <1>7, StaysKeepsLock DEF CopyTail, Reader, Labels, Critical, Getting
<1>8. CASE LoadOut(r)
  BY <1>8, StaysKeepsLock DEF LoadOut, Reader, Labels, Critical, Getting
<1>9. CASE StoreOut(r)
  BY <1>9, StaysKeepsLock DEF StoreOut, Reader, Labels, Critical, Getting
<1>10. CASE Deliver(r)
  <2>1. /\ rpc[r] = "deliver" /\ mutex' = Nobody
        /\ rpc' = [rpc EXCEPT ![r] = "idle"]
    BY <1>10 DEF Deliver, Reader
  <2>2. QED
    BY <2>1, LeavingKeepsLock DEF Labels, Critical, Getting
<1>11. QED
  BY <1>1, <1>2, <1>3, <1>4, <1>5, <1>6, <1>7, <1>8, <1>9, <1>10 DEF ReaderStep

LEMMA LockStep == ~MayInterrupt /\ LockInv /\ [Next]_vars => LockInv'
<1> SUFFICES ASSUME ~MayInterrupt, LockInv, [Next]_vars PROVE LockInv'
  OBVIOUS
<1>1. CASE ReceiverStep
  BY <1>1, LockKept DEF ReceiverStep, ReceiveSentence, ReceiveByte, PutOrDrop, Fill, Finish,
                        DropCheck, DropLoad, DropStore, PutAgain, Receiver, reader
<1>2. CASE Close \/ Open
  BY <1>2, LockKept DEF Close, Open, reader
<1>3. ASSUME NEW r \in ReaderThreads,
             ReaderStep(r) \/ Interrupt(r) \/ \E n \in ReadSizes : Call(r, n)
      PROVE  LockInv'
  BY <1>3, ReaderKeepsLock DEF Interrupt
<1>4. CASE UNCHANGED vars
  BY <1>4, LockKept DEF vars, reader
<1>5. QED
  BY <1>1, <1>2, <1>3, <1>4 DEF Next, Step

\* Without interrupted reads mutex_lock does its work, although the first critical
\* section of gnssposget_read ends, and another begins, in the middle of it.
THEOREM MutexSafety == ~MayInterrupt => (Spec => []Exclusive)
<1> SUFFICES ASSUME ~MayInterrupt PROVE Spec => []Exclusive
  OBVIOUS
<1>1. LockInv => Exclusive
  BY DEF LockInv
<1>2. LockInv /\ [Next]_vars => LockInv'
  BY LockStep
<1>3. QED
  BY <1>1, <1>2, LockInit, PTL DEF Spec
=============================================================================
