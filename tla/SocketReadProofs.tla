-------------------------- MODULE SocketReadProofs --------------------------
(***************************************************************************)
(* Proofs about the reading of a client's lines, for every size of a block *)
(* and all lengths of lines: what is handed to listener_task is the end of *)
(* one line, and only lines that fill their blocks can be missed.          *)
(***************************************************************************)
EXTENDS SocketRead, TLAPS, SequenceTheorems

Byte == [line : Nat, at : Nat]

StreamTyped ==
  /\ lines \in Seq(Nat \ {0}) /\ line \in Nat /\ at \in Nat
  /\ block \in Seq(Byte) /\ taken \in Seq(Nat)

\* The next byte is one of a line that has been begun, or the first of the next line.
Position ==
  /\ line \in 1..(Len(lines) + 1)
  /\ line <= Len(lines) => at < lines[line]
  /\ line = Len(lines) + 1 => at = 0

\* Between reads the listener is at the start of a line, unless it gives up.
Between ==
  /\ phase \in {"select", "handle"} => at = 0
  /\ phase = "check" => at = 0 \/ ~run

\* A block being filled holds the latest bytes of the line, from a multiple of its size.
Filling ==
  phase = "receive" =>
    /\ Len(block) < Block /\ Len(block) <= at /\ (at - Len(block)) % Block = 0
    /\ \A i \in 1..Len(block) : block[i] = [line |-> line, at |-> at - Len(block) + i - 1]

\* A block handed over holds the last bytes of the line before.
Filled ==
  phase = "handle" =>
    /\ line > 1 /\ Len(block) > 0 /\ block[1].at % Block = 0
    /\ \A i \in 1..Len(block) : block[i] = [line |-> line - 1, at |-> block[1].at + i - 1]
    /\ block[Len(block)].at + 1 = lines[line - 1]

\* The lines before the next one have been handed over, are in hand, or were missed.
InHand(n) == phase = "handle" /\ n = line - 1
Handed ==
  /\ \A i \in 1..Len(taken) : taken[i] < line /\ ~InHand(taken[i])
  /\ \A i \in 2..Len(taken) : taken[i - 1] < taken[i]
  /\ \A n \in 1..(line - 1) :
       lines[n] % Block = 0 \/ InHand(n) \/ \E i \in 1..Len(taken) : taken[i] = n

LineInv == StreamTyped /\ Position /\ Between /\ Filling /\ Filled /\ Handed

LEMMA LineInit == Init => LineInv
<1> SUFFICES ASSUME Init PROVE LineInv
  OBVIOUS
<1>1. lines \in Seq(Nat \ {0}) /\ block \in Seq(Byte) /\ taken \in Seq(Nat)
  BY DEF Init
<1>2. QED
  BY <1>1 DEF Init, LineInv, StreamTyped, Position, Between, Filling, Filled, Handed, InHand

\* A block more leaves the remainder as it is.
LEMMA Divided == ASSUME NEW n \in Nat PROVE n = Block * (n \div Block) + (n % Block) /\ n \div Block \in Int
BY BlockAssumption

LEMMA BlockMore == ASSUME NEW n \in Nat, n % Block = 0 PROVE (n + Block) % Block = 0
<1> DEFINE q == n \div Block
           m == (n + Block) \div Block
           r == (n + Block) % Block
<1>1. Block \in Nat /\ Block > 1 /\ n + Block \in Nat
  BY BlockAssumption
<1>2. q \in Int /\ m \in Int /\ n = Block * q /\ n + Block = Block * m + r
  BY <1>1, Divided
<1>3. r \in Int /\ 0 <= r /\ r < Block
  BY <1>1
<1> HIDE DEF q, m, r
<1>4. Block * m \in Int /\ Block * q \in Int /\ Block * (q + 1) = Block * q + Block
  BY <1>1, <1>2
<1>5. CASE m < q + 1
  <2>1. Block * (q + 1) >= Block * m + Block BY <1>1, <1>2, <1>5
  <2>2. QED BY <1>1, <1>2, <1>3, <1>4, <2>1
<1>6. CASE m > q + 1
  <2>1. Block * m >= Block * (q + 1) + Block BY <1>1, <1>2, <1>6
  <2>2. QED BY <1>1, <1>2, <1>3, <1>4, <2>1
<1>7. CASE m = q + 1
  <2>1. r = 0 BY <1>1, <1>2, <1>3, <1>4, <1>7
  <2>2. QED BY <2>1 DEF r
<1>8. QED BY <1>2, <1>5, <1>6, <1>7

\* A step that neither receives nor hands over.
LEMMA ElsewhereKeepsLine ==
  ASSUME LineInv, UNCHANGED <<lines, line, at, taken>>,
         \/ block' = block /\ (phase' = phase \/ {phase, phase'} \cap {"receive", "handle"} = {})
         \/ block' = block /\ phase = "receive" /\ phase' \in {"check", "spin"}
         \/ block' = << >> /\ at = 0 /\ phase = "select" /\ phase' = "receive",
         phase' \in {"select", "handle"} => at = 0,
         phase' = "check" => at = 0 \/ ~run'
  PROVE  LineInv'
<1>1. block' \in Seq(Byte)
  <2>1. block \in Seq(Byte) /\ << >> \in Seq(Byte)
    BY DEF LineInv, StreamTyped
  <2>2. block' = block \/ block' = << >>
    OBVIOUS
  <2>3. QED BY <2>1, <2>2
<1>2. StreamTyped' /\ Position' /\ Between'
  <2>1. StreamTyped' /\ Position'
    BY <1>1 DEF LineInv, StreamTyped, Position
  <2>2. Between'
    BY DEF Between
  <2>3. QED BY <2>1, <2>2
<1>3. Filling'
  <2>1. CASE block' = << >> /\ at = 0 /\ phase' = "receive"
    BY <2>1, BlockAssumption DEF Filling
  <2>2. CASE block' = block /\ (phase' = "receive" => phase = "receive")
    BY <2>2 DEF LineInv, Filling
  <2>3. QED BY <2>1, <2>2
<1>4. Filled'
  BY DEF LineInv, Filled
<1>5. Handed'
  <2>1. \A n : InHand(n)' <=> InHand(n)
    BY DEF InHand
  <2>2. QED BY <2>1 DEF LineInv, Handed
<1>6. QED BY <1>2, <1>3, <1>4, <1>5 DEF LineInv

LEMMA BeginKeepsLine ==
  ASSUME LineInv, NEW len \in LineLengths, Begin(len) PROVE LineInv'
<1>1. lines' = Append(lines, len) /\ UNCHANGED <<run, phase, line, at, block, taken>>
  BY DEF Begin
<1>2. /\ lines \in Seq(Nat \ {0}) /\ len \in Nat \ {0}
  BY LineAssumption DEF LineInv, StreamTyped
<1>3. /\ lines' \in Seq(Nat \ {0}) /\ Len(lines') = Len(lines) + 1 /\ Len(lines) \in Nat
      /\ \A n \in 1..Len(lines) : lines'[n] = lines[n]
      /\ lines'[Len(lines) + 1] = len
  BY <1>1, <1>2, AppendProperties, LenProperties
<1>4. line \in Nat /\ line \in 1..(Len(lines) + 1) /\ at \in Nat
  BY DEF LineInv, StreamTyped, Position
<1>5. \A n \in 1..(line - 1) : lines'[n] = lines[n]
  BY <1>3, <1>4
<1>6. Position'
  BY <1>1, <1>2, <1>3, <1>4 DEF LineInv, Position
<1>7. Filled' /\ Filling'
  BY <1>1, <1>4, <1>5 DEF LineInv, Filled, Filling
<1>8. Handed'
  BY <1>1, <1>5 DEF LineInv, Handed, InHand
<1>9. StreamTyped' /\ Between'
  BY <1>1, <1>3 DEF LineInv, StreamTyped, Between
<1>10. QED BY <1>6, <1>7, <1>8, <1>9 DEF LineInv

\* A byte of the line is received: what is known of it and of the block it goes into.
LEMMA ReceivedByte ==
  ASSUME LineInv, Ready, phase = "receive"
  PROVE  /\ line \in 1..Len(lines) /\ at < lines[line] /\ lines[line] \in Nat
         /\ Received \in Seq(Byte) /\ Len(Received) = Len(block) + 1 /\ Len(Received) <= Block
         /\ \A i \in 1..Len(Received) :
              Received[i] = [line |-> line, at |-> at + 1 - Len(Received) + i - 1]
         /\ at + 1 - Len(Received) \in Nat /\ (at + 1 - Len(Received)) % Block = 0
         /\ Len(Received) = Block => (at + 1) % Block = 0
<1> DEFINE b == [line |-> line, at |-> at]
<1>1. /\ lines \in Seq(Nat \ {0}) /\ line \in Nat /\ at \in Nat /\ block \in Seq(Byte)
      /\ Len(lines) \in Nat /\ Len(block) \in Nat /\ Block \in Nat
  BY LenProperties, BlockAssumption DEF LineInv, StreamTyped
<1>2. line \in 1..Len(lines) /\ at < lines[line] /\ lines[line] \in Nat
  <2>1. line \in 1..Len(lines) BY <1>1 DEF Ready, LineInv, Position
  <2>2. lines[line] \in Nat \ {0} BY <1>1, <2>1, ElementOfSeq
  <2>3. QED BY <2>1, <2>2 DEF LineInv, Position
<1>3. b \in Byte /\ Received = Append(block, b)
  BY <1>1 DEF Byte, Received
<1>4. /\ Received \in Seq(Byte) /\ Len(Received) = Len(block) + 1
      /\ \A i \in 1..Len(block) : Received[i] = block[i]
      /\ Received[Len(block) + 1] = b
  <2> HIDE DEF b
  <2>1. QED BY <1>1, <1>3, AppendProperties
<1>5. /\ Len(block) < Block /\ Len(block) <= at /\ (at - Len(block)) % Block = 0
      /\ \A i \in 1..Len(block) : block[i] = [line |-> line, at |-> at - Len(block) + i - 1]
  BY DEF LineInv, Filling
<1>6. at + 1 - Len(Received) = at - Len(block) /\ at - Len(block) \in Nat /\ Len(Received) <= Block
  BY <1>1, <1>4, <1>5
<1>7. ASSUME NEW i \in 1..Len(Received)
      PROVE  Received[i] = [line |-> line, at |-> at + 1 - Len(Received) + i - 1]
  <2>1. CASE i \in 1..Len(block)
    BY <1>4, <1>5, <1>6, <2>1
  <2>2. CASE i = Len(block) + 1
    <3>1. at + 1 - Len(Received) + i - 1 = at
      BY <1>1, <1>4, <2>2
    <3>2. QED BY <1>4, <2>2, <3>1
  <2>3. QED BY <1>1, <1>4, <2>1, <2>2
<1>8. Len(Received) = Block => (at + 1) % Block = 0
  <2> SUFFICES ASSUME Len(Received) = Block PROVE (at + 1) % Block = 0
    OBVIOUS
  <2>1. at + 1 = (at - Len(block)) + Block
    BY <1>1, <1>4
  <2>2. QED BY <1>5, <1>6, <2>1, BlockMore
<1>9. QED BY <1>2, <1>4, <1>5, <1>6, <1>7, <1>8

LEMMA ReceiveMoreKeepsLine == ASSUME LineInv, ReceiveMore PROVE LineInv'
<1>1. /\ phase = "receive" /\ phase' = "receive" /\ lines' = lines /\ Ready
      /\ EndsLine => Len(Received) = Block
      /\ block' = IF Len(Received) = Block THEN << >> ELSE Received
      /\ Advance /\ taken' = taken
  BY DEF ReceiveMore, Goes, client
<1>2. /\ line \in 1..Len(lines) /\ at < lines[line] /\ lines[line] \in Nat
      /\ Received \in Seq(Byte) /\ Len(Received) = Len(block) + 1 /\ Len(Received) <= Block
      /\ \A i \in 1..Len(Received) :
           Received[i] = [line |-> line, at |-> at + 1 - Len(Received) + i - 1]
      /\ at + 1 - Len(Received) \in Nat /\ (at + 1 - Len(Received)) % Block = 0
      /\ Len(Received) = Block => (at + 1) % Block = 0
  BY <1>1, ReceivedByte
<1>3. /\ lines \in Seq(Nat \ {0}) /\ line \in Nat /\ at \in Nat
      /\ Len(lines) \in Nat /\ Len(Received) \in Nat /\ Block \in Nat /\ Block > 1
  BY <1>2, LenProperties, BlockAssumption DEF LineInv, StreamTyped
<1>4. block' \in Seq(Byte) /\ Between' /\ Filled'
  BY <1>1, <1>2 DEF Between, Filled
<1>5. CASE EndsLine
  <2>1. line' = line + 1 /\ at' = 0 /\ block' = << >> /\ at + 1 = lines[line]
    BY <1>1, <1>5 DEF Advance, EndsLine
  <2>2. StreamTyped' /\ Position'
    <3>1. line + 1 <= Len(lines) => lines[line + 1] \in Nat \ {0}
      BY <1>2, <1>3, ElementOfSeq
    <3>2. Position'
      BY <1>1, <1>2, <1>3, <2>1, <3>1 DEF Position
    <3>3. StreamTyped'
      BY <1>1, <1>3, <1>4, <2>1 DEF LineInv, StreamTyped
    <3>4. QED BY <3>2, <3>3
  <2>3. Filling'
    BY <1>3, <2>1 DEF Filling
  <2>4. lines[line] % Block = 0
    BY <1>1, <1>2, <1>5, <2>1
  <2>5. Handed'
    <3>1. \A n : ~InHand(n) /\ ~InHand(n)'
      BY <1>1 DEF InHand
    <3>2. \A i \in 1..Len(taken) : taken[i] < line + 1
      <4>1. \A i \in 1..Len(taken) : taken[i] \in Nat
        BY ElementOfSeq DEF LineInv, StreamTyped
      <4>2. QED BY <1>3, <4>1 DEF LineInv, Handed
    <3>3. \A n \in 1..line : n \in 1..(line - 1) \/ n = line
      BY <1>3
    <3>4. \A n \in 1..line : lines[n] % Block = 0 \/ \E i \in 1..Len(taken) : taken[i] = n
      BY <2>4, <3>1, <3>3 DEF LineInv, Handed
    <3>5. (line + 1) - 1 = line
      BY <1>3
    <3>6. QED BY <1>1, <2>1, <3>1, <3>2, <3>4, <3>5 DEF LineInv, Handed
  <2>6. QED BY <1>4, <2>2, <2>3, <2>5 DEF LineInv
<1>6. CASE ~EndsLine
  <2>1. line' = line /\ at' = at + 1 /\ at + 1 # lines[line]
    BY <1>1, <1>6 DEF Advance, EndsLine
  <2>2. StreamTyped' /\ Position'
    <3>1. StreamTyped'
      BY <1>1, <1>3, <1>4, <2>1 DEF LineInv, StreamTyped
    <3>2. Position'
      BY <1>1, <1>2, <1>3, <2>1 DEF Position
    <3>3. QED BY <3>1, <3>2
  <2>3. Filling'
    <3>1. CASE Len(Received) = Block
      <4>1. block' = << >> /\ at' % Block = 0 BY <1>1, <1>2, <2>1, <3>1
      <4>2. QED BY <1>3, <2>1, <4>1 DEF Filling
    <3>2. CASE Len(Received) # Block
      <4>1. block' = Received /\ Len(Received) < Block /\ Len(Received) <= at + 1
        BY <1>1, <1>2, <1>3, <3>2
      <4>2. /\ at' - Len(block') = at + 1 - Len(Received) /\ line' = line
            /\ Len(block') < Block /\ Len(block') <= at'
        BY <1>3, <2>1, <4>1
      <4>3. \A i \in 1..Len(block') : block'[i] = [line |-> line', at |-> at' - Len(block') + i - 1]
        BY <1>2, <4>1, <4>2
      <4>4. (at' - Len(block')) % Block = 0
        BY <1>2, <4>2
      <4>5. QED BY <4>2, <4>3, <4>4 DEF Filling
    <3>3. QED BY <3>1, <3>2
  <2>4. Handed'
    BY <1>1, <2>1 DEF LineInv, Handed, InHand
  <2>5. QED BY <1>4, <2>2, <2>3, <2>4 DEF LineInv
<1>7. QED BY <1>5, <1>6

LEMMA ReceiveEndKeepsLine == ASSUME LineInv, ReceiveEnd PROVE LineInv'
<1>1. /\ phase = "receive" /\ phase' = "handle" /\ lines' = lines /\ Ready
      /\ block' = Received /\ line' = line + 1 /\ at' = 0 /\ at + 1 = lines[line] /\ taken' = taken
  BY DEF ReceiveEnd, Goes, client, Advance, EndsLine
<1>2. /\ line \in 1..Len(lines) /\ at < lines[line] /\ lines[line] \in Nat
      /\ Received \in Seq(Byte) /\ Len(Received) = Len(block) + 1
      /\ \A i \in 1..Len(Received) :
           Received[i] = [line |-> line, at |-> at + 1 - Len(Received) + i - 1]
      /\ at + 1 - Len(Received) \in Nat /\ (at + 1 - Len(Received)) % Block = 0
  BY <1>1, ReceivedByte
<1>3. /\ lines \in Seq(Nat \ {0}) /\ line \in Nat /\ at \in Nat
      /\ Len(lines) \in Nat /\ Len(Received) \in Nat /\ Len(Received) > 0
      /\ (line + 1) - 1 = line
  <2>1. Len(block) \in Nat BY LenProperties DEF LineInv, StreamTyped
  <2>2. QED BY <1>2, <2>1, LenProperties DEF LineInv, StreamTyped
<1>4. StreamTyped' /\ Position' /\ Between' /\ Filling'
  <2>1. line + 1 <= Len(lines) => lines[line + 1] \in Nat \ {0}
    BY <1>2, <1>3, ElementOfSeq
  <2>2. Position'
    BY <1>1, <1>2, <1>3, <2>1 DEF Position
  <2>3. StreamTyped'
    BY <1>1, <1>2, <1>3 DEF LineInv, StreamTyped
  <2>4. Between' /\ Filling'
    BY <1>1 DEF Between, Filling
  <2>5. QED BY <2>2, <2>3, <2>4
<1>5. Filled'
  <2>1. 1 \in 1..Len(Received) /\ Len(Received) \in 1..Len(Received)
    BY <1>3
  <2>2. /\ Received[1].at = at + 1 - Len(Received) + 1 - 1
        /\ Received[Len(Received)].at = at + 1 - Len(Received) + Len(Received) - 1
    BY <1>2, <2>1
  <2>3. Received[1].at = at + 1 - Len(Received) /\ Received[Len(Received)].at = at
    BY <1>2, <1>3, <2>2
  <2>4. QED BY <1>1, <1>2, <1>3, <2>3 DEF Filled
<1>6. Handed'
  <2>1. \A n : ~InHand(n) /\ (InHand(n)' <=> n = line)
    BY <1>1, <1>3 DEF InHand
  <2>2. \A i \in 1..Len(taken) : taken[i] < line + 1 /\ taken[i] # line
    <3>1. \A i \in 1..Len(taken) : taken[i] \in Nat
      BY ElementOfSeq DEF LineInv, StreamTyped
    <3>2. QED BY <1>3, <3>1 DEF LineInv, Handed
  <2>3. \A n \in 1..line : n \in 1..(line - 1) \/ n = line
    BY <1>3
  <2>4. \A n \in 1..line :
          lines[n] % Block = 0 \/ n = line \/ \E i \in 1..Len(taken) : taken[i] = n
    BY <2>1, <2>3 DEF LineInv, Handed
  <2>5. QED BY <1>1, <1>3, <2>1, <2>2, <2>4 DEF LineInv, Handed
<1>7. QED BY <1>4, <1>5, <1>6 DEF LineInv

LEMMA HandleKeepsLine == ASSUME LineInv, Handle PROVE LineInv'
<1>1. /\ phase = "handle" /\ phase' = "check" /\ UNCHANGED <<lines, line, at, run>>
      /\ taken' = Append(taken, block[1].line) /\ block' = << >>
  BY DEF Handle, Goes, Keeps, client
<1>2. /\ line > 1 /\ block[1].line = line - 1 /\ line \in Nat
      /\ taken \in Seq(Nat) /\ Len(taken) \in Nat
  <2>1. taken \in Seq(Nat) /\ Len(taken) \in Nat /\ Len(block) \in Nat /\ line \in Nat
    BY LenProperties DEF LineInv, StreamTyped
  <2>2. /\ line > 1 /\ 1 \in 1..Len(block)
        /\ \A i \in 1..Len(block) : block[i] = [line |-> line - 1, at |-> block[1].at + i - 1]
    BY <1>1, <2>1 DEF LineInv, Filled
  <2>3. block[1].line = line - 1
    <3> DEFINE a(i) == block[1].at + i - 1
    <3>1. block[1] = [line |-> line - 1, at |-> a(1)]
      BY <2>2
    <3> HIDE DEF a
    <3>2. QED BY <3>1
  <2>4. QED BY <2>1, <2>2, <2>3
<1>3. /\ taken' \in Seq(Nat) /\ Len(taken') = Len(taken) + 1 /\ taken'[Len(taken) + 1] = line - 1
      /\ \A i \in 1..Len(taken) : taken'[i] = taken[i]
  <2>1. taken' = Append(taken, line - 1) /\ line - 1 \in Nat
    BY <1>1, <1>2
  <2>2. QED BY <1>2, <2>1, AppendProperties
<1>4. /\ \A i \in 1..Len(taken) : taken[i] \in Nat /\ taken[i] < line - 1
      /\ \A i \in 2..Len(taken) : taken[i - 1] < taken[i]
      /\ \A n \in 1..(line - 1) :
           lines[n] % Block = 0 \/ n = line - 1 \/ \E i \in 1..Len(taken) : taken[i] = n
  <2>1. \A n : InHand(n) <=> n = line - 1
    BY <1>1 DEF InHand
  <2>2. \A i \in 1..Len(taken) : taken[i] \in Nat
    BY <1>2, ElementOfSeq
  <2>3. /\ \A i \in 1..Len(taken) : taken[i] < line /\ taken[i] # line - 1
        /\ \A i \in 2..Len(taken) : taken[i - 1] < taken[i]
        /\ \A n \in 1..(line - 1) :
             lines[n] % Block = 0 \/ n = line - 1 \/ \E i \in 1..Len(taken) : taken[i] = n
    BY <2>1 DEF LineInv, Handed
  <2>4. \A i \in 1..Len(taken) : taken[i] < line - 1
    BY <1>2, <2>2, <2>3
  <2>5. QED BY <2>2, <2>3, <2>4
<1>5. Handed'
  <2>1. \A n : ~InHand(n)'
    BY <1>1 DEF InHand
  <2>2. ASSUME NEW i \in 1..Len(taken') PROVE taken'[i] < line
    <3>1. i \in 1..Len(taken) \/ i = Len(taken) + 1
      BY <1>2, <1>3
    <3>2. CASE i \in 1..Len(taken)
      <4>1. taken'[i] = taken[i] /\ taken[i] \in Nat /\ taken[i] < line - 1
        BY <1>3, <1>4, <3>2
      <4>2. QED BY <1>2, <4>1
    <3>3. CASE i = Len(taken) + 1
      BY <1>2, <1>3, <3>3
    <3>4. QED BY <3>1, <3>2, <3>3
  <2>3. ASSUME NEW i \in 2..Len(taken') PROVE taken'[i - 1] < taken'[i]
    <3>1. CASE i \in 2..Len(taken)
      <4>1. i \in 1..Len(taken) /\ i - 1 \in 1..Len(taken)
        BY <1>2, <3>1
      <4>2. taken'[i] = taken[i] /\ taken'[i - 1] = taken[i - 1] /\ taken[i - 1] < taken[i]
        BY <1>3, <1>4, <3>1, <4>1
      <4>3. QED BY <4>2
    <3>2. CASE i = Len(taken) + 1
      BY <1>2, <1>3, <1>4, <3>2
    <3>3. QED BY <1>2, <1>3, <3>1, <3>2
  <2>4. ASSUME NEW n \in 1..(line - 1)
        PROVE  lines[n] % Block = 0 \/ \E i \in 1..Len(taken') : taken'[i] = n
    <3>1. Len(taken) + 1 \in 1..Len(taken') /\ 1..Len(taken) \subseteq 1..Len(taken')
      BY <1>2, <1>3
    <3>2. QED BY <1>3, <1>4, <3>1
  <2>5. QED BY <1>1, <2>1, <2>2, <2>3, <2>4 DEF Handed
<1>6. StreamTyped' /\ Position' /\ Between' /\ Filling' /\ Filled'
  BY <1>1, <1>3 DEF LineInv, StreamTyped, Position, Between, Filling, Filled
<1>7. QED BY <1>5, <1>6 DEF LineInv

LEMMA LineNext == LineInv /\ [Next]_vars => LineInv'
<1> SUFFICES ASSUME LineInv, [Next]_vars PROVE LineInv'
  OBVIOUS
<1>1. CASE \E len \in LineLengths : Begin(len)
  BY <1>1, BeginKeepsLine
<1>2. CASE Continue \/ Leave \/ StopListener
  <2>1. UNCHANGED <<lines, line, at, taken, block, phase>> /\ (run' = run \/ run' = FALSE)
    BY <1>2 DEF Continue, Leave, StopListener, client
  <2>2. QED BY <2>1, ElsewhereKeepsLine DEF LineInv, Between
<1>3. CASE Check
  <2>1. /\ UNCHANGED <<lines, line, at, taken, block>>
        /\ phase = "check" /\ (phase' = "exited" \/ (run /\ phase' = "select"))
    BY <1>3 DEF Check, Goes, Keeps, client
  <2>2. QED BY <2>1, ElsewhereKeepsLine DEF LineInv, Between
<1>4. CASE Select
  <2>1. /\ UNCHANGED <<lines, line, at, taken>> /\ block' = << >>
        /\ phase = "select" /\ phase' = "receive"
    BY <1>4 DEF Select, Goes, Keeps, client
  <2>2. QED BY <2>1, ElsewhereKeepsLine DEF LineInv, Between
<1>5. CASE Timeout
  <2>1. /\ UNCHANGED <<lines, line, at, taken, block>>
        /\ phase = "select" /\ phase' = "check"
    BY <1>5 DEF Timeout, Goes, Keeps, client
  <2>2. QED BY <2>1, ElsewhereKeepsLine DEF LineInv, Between
<1>6. CASE ReceiveMore
  BY <1>6, ReceiveMoreKeepsLine
<1>7. CASE ReceiveEnd
  BY <1>7, ReceiveEndKeepsLine
<1>8. CASE ReceiveFails \/ ReceiveNothing
  <2>1. /\ UNCHANGED <<lines, line, at, taken, block>> /\ phase = "receive"
        /\ (phase' = "check" /\ ~run') \/ phase' = "spin"
    BY <1>8 DEF ReceiveFails, ReceiveNothing, Goes, Keeps, client
  <2>2. QED BY <2>1, ElsewhereKeepsLine
<1>9. CASE Handle
  BY <1>9, HandleKeepsLine
<1>10. CASE UNCHANGED vars
  BY <1>10, ElsewhereKeepsLine DEF vars, client, LineInv, Between
<1>11. QED
  BY <1>1, <1>2, <1>3, <1>4, <1>5, <1>6, <1>7, <1>8, <1>9, <1>10 DEF Next, ListenerStep

LEMMA LineAlways == Spec => []LineInv
BY LineInit, LineNext, PTL DEF Spec

\* What the listener hands over is the last block of one line, whatever the block's
\* size is, however the bytes arrive, and whichever newline before it was missed.
THEOREM OneLineHanded == Spec => []OneLine
<1>1. LineInv => OneLine
  <2> SUFFICES ASSUME LineInv, phase = "handle"
               PROVE  /\ \A i \in DOMAIN block :
                           block[i] = [line |-> block[1].line, at |-> block[1].at + i - 1]
                      /\ block[1].at % Block = 0
                      /\ block[Len(block)].at + 1 = lines[block[1].line]
    BY DEF OneLine
  <2>1. /\ line > 1 /\ Len(block) > 0 /\ block[1].at % Block = 0
        /\ \A i \in 1..Len(block) : block[i] = [line |-> line - 1, at |-> block[1].at + i - 1]
        /\ block[Len(block)].at + 1 = lines[line - 1]
    BY DEF LineInv, Filled
  <2>2. DOMAIN block = 1..Len(block) /\ Len(block) \in Nat
    BY LenProperties DEF LineInv, StreamTyped
  <2>3. block[1].line = line - 1
    BY <2>1, <2>2
  <2>4. QED BY <2>1, <2>2, <2>3
<1>2. QED BY <1>1, LineAlways, PTL

\* A line is handed over once and in its place, and one can be missed only when its
\* bytes fill its blocks, so that its newline is the last byte of a block.
THEOREM OnlyFullBlocksMissed == Spec => []MissesFullBlocksOnly
<1>1. LineInv => MissesFullBlocksOnly
  <2> SUFFICES ASSUME LineInv, phase = "check"
               PROVE  /\ \A i \in 2..Len(taken) : taken[i - 1] < taken[i]
                      /\ \A n \in 1..(line - 1) :
                           lines[n] % Block = 0 \/ \E i \in DOMAIN taken : taken[i] = n
    BY DEF MissesFullBlocksOnly
  <2>1. \A n : ~InHand(n)
    BY DEF InHand
  <2>2. DOMAIN taken = 1..Len(taken)
    BY LenProperties DEF LineInv, StreamTyped
  <2>3. QED BY <2>1, <2>2 DEF LineInv, Handed
<1>2. QED BY <1>1, LineAlways, PTL
=============================================================================
