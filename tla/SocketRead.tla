----------------------------- MODULE SocketRead -----------------------------
(***************************************************************************)
(* socket_connections_read_data_from_client, as listener_task calls it: a  *)
(* line of the client is received a byte at a time into blocks of          *)
(* DATA_BLOCK_SIZE bytes, each allocated when the one before is full and   *)
(* the end of the line has not been seen.                                  *)
(*                                                                         *)
(* A line is its length, the newline that ends it included; what a line    *)
(* says is left to ServerApp.  The client may send a line in parts, pause  *)
(* for ever in the middle of one, or leave.                                *)
(***************************************************************************)
EXTENDS Integers, Sequences

CONSTANTS Block,       \* DATA_BLOCK_SIZE
          LineLengths, \* the lengths of the client's lines
          MaxLines     \* bound: lines sent in a behaviour

ASSUME BlockAssumption == Block \in Nat \ {0, 1} /\ MaxLines \in Nat
ASSUME LineAssumption == LineLengths \subseteq Nat \ {0}

VARIABLES
  lines,    \* the lengths of the lines the client has begun to send
  arrived,  \* how much of the last one has been sent
  peer,     \* the connection, as recv finds it: "open", "fin" or "reset"
  run,      \* run_listener
  phase,    \* where the listener is
  line, at, \* the position in the stream of the next byte to receive
  block,    \* the bytes in *buf, each by its line and position; << >> at the end
  taken     \* history: the lines that have been handed to listener_task

client == <<lines, arrived, peer>>
vars == <<client, run, phase, line, at, block, taken>>

Init ==
  /\ lines = << >> /\ arrived = 0 /\ peer = "open" /\ run = TRUE
  /\ phase = "check" /\ line = 1 /\ at = 0 /\ block = << >> /\ taken = << >>

-----------------------------------------------------------------------------
(***************************************************************************)
(* The client, and the server thread that tells the listener to stop.      *)
(***************************************************************************)
Whole == arrived = IF lines = << >> THEN 0 ELSE lines[Len(lines)]

Begin(len) ==
  /\ peer = "open" /\ Whole /\ Len(lines) < MaxLines
  /\ lines' = Append(lines, len) /\ arrived' \in 1..len
  /\ UNCHANGED <<peer, run, phase, line, at, block, taken>>

Continue ==
  /\ peer = "open" /\ ~Whole
  /\ arrived' \in (arrived + 1)..lines[Len(lines)]
  /\ UNCHANGED <<lines, peer, run, phase, line, at, block, taken>>

Leave ==
  /\ peer = "open" /\ peer' \in {"fin", "reset"}
  /\ UNCHANGED <<lines, arrived, run, phase, line, at, block, taken>>

StopListener ==
  /\ run /\ run' = FALSE
  /\ UNCHANGED <<client, phase, line, at, block, taken>>

-----------------------------------------------------------------------------
(***************************************************************************)
(* The listener.                                                           *)
(***************************************************************************)
Goes(from, to) == phase = from /\ phase' = to /\ UNCHANGED client
Ready == line < Len(lines) \/ (line = Len(lines) /\ at < arrived)
Keeps == UNCHANGED <<line, at>>

Check ==
  /\ IF run THEN Goes("check", "select") ELSE Goes("check", "exited")
  /\ Keeps /\ UNCHANGED <<run, block, taken>>

\* There is data, or the news that there will be none: the first block.
Select ==
  /\ Goes("select", "receive") /\ (Ready \/ peer # "open")
  /\ block' = << >>
  /\ Keeps /\ UNCHANGED <<run, taken>>

\* "TIMEOUT", which listener_task frees again.
Timeout ==
  /\ Goes("select", "check") /\ ~Ready /\ peer = "open"
  /\ Keeps /\ UNCHANGED <<run, block, taken>>

EndsLine == at + 1 = lines[line]
Received == Append(block, [line |-> line, at |-> at])
Advance == IF EndsLine THEN line' = line + 1 /\ at' = 0
                       ELSE at' = at + 1 /\ UNCHANGED line

\* Mutant: a full block is received into again from its start, without clearing it.
ReceiveMoreInto ==
  /\ Goes("receive", "receive") /\ Ready
  /\ EndsLine => Len(Received) = Block
  /\ block' = IF Len(Received) = Block THEN Tail(Received) ELSE Received
  /\ Advance
  /\ UNCHANGED <<run, taken>>

\* Any other byte than a newline; or a newline in the last byte of a block, for
\* strcmp then reads on behind the block and need not find a NUL there.  A full
\* block is left for a new one.
ReceiveMore ==
  /\ Goes("receive", "receive") /\ Ready
  /\ EndsLine => Len(Received) = Block
  /\ block' = IF Len(Received) = Block THEN << >> ELSE Received
  /\ Advance
  /\ UNCHANGED <<run, taken>>

\* Mutant: whatever has arrived is received along with the newline.
ReceiveEndAll ==
  /\ Goes("receive", "handle") /\ Ready /\ EndsLine
  /\ block' = Received
  /\ line' = Len(lines) + 1 /\ at' = 0
  /\ UNCHANGED <<run, taken>>

ReceiveEnd ==
  /\ Goes("receive", "handle") /\ Ready /\ EndsLine
  /\ block' = Received
  /\ Advance
  /\ UNCHANGED <<run, taken>>

\* Mutant: a failing recv is taken for one that has received nothing.
ReceiveFailsOn ==
  /\ Goes("receive", "spin") /\ ~Ready /\ peer = "reset"
  /\ Keeps /\ UNCHANGED <<run, block, taken>>

\* recv fails: read_client_error, and the loop is left.
ReceiveFails ==
  /\ Goes("receive", "check") /\ ~Ready /\ peer = "reset"
  /\ run' = FALSE
  /\ Keeps /\ UNCHANGED <<block, taken>>

\* recv returns 0 at the end of the stream, and the loop goes on with the NUL it
\* has not received.
ReceiveNothing ==
  /\ Goes("receive", "spin") /\ ~Ready /\ peer = "fin"
  /\ Keeps /\ UNCHANGED <<run, block, taken>>

\* listener_task: what was read is compared with the requests, and freed.
Handle ==
  /\ Goes("handle", "check")
  /\ taken' = Append(taken, block[1].line) /\ block' = << >>
  /\ Keeps /\ UNCHANGED run

ListenerStep == \/ Check \/ Select \/ Timeout \/ ReceiveMore \/ ReceiveEnd
                \/ ReceiveFails \/ ReceiveNothing \/ Handle

Next == \/ Continue \/ Leave \/ StopListener \/ (\E len \in LineLengths : Begin(len))
        \/ ListenerStep

Spec == Init /\ [][Next]_vars
FairSpec == Spec /\ WF_vars(ListenerStep)

-----------------------------------------------------------------------------
\* What is handed over is the end of one line, from the start of a block on: two
\* lines are never mixed, also when the newline of the first is missed because it
\* is the last byte of a block.
OneLine ==
  phase = "handle" =>
    /\ \A i \in DOMAIN block : block[i] = [line |-> block[1].line, at |-> block[1].at + i - 1]
    /\ block[1].at % Block = 0
    /\ block[Len(block)].at + 1 = lines[block[1].line]

\* Each line that is shorter than a block is handed over, once and in its place; one
\* can only be missed when its length is a multiple of the block's.
MissesFullBlocksOnly ==
  phase = "check" =>
    /\ \A i \in 2..Len(taken) : taken[i - 1] < taken[i]
    /\ \A n \in 1..(line - 1) :
         lines[n] % Block = 0 \/ \E i \in DOMAIN taken : taken[i] = n

\* A request that has been sent whole is handed to listener_task, whatever lines
\* came before it, unless the listener is told to stop.
RequestsServed ==
  \A n \in 1..MaxLines :
    (n <= Len(lines) /\ lines[n] < Block /\ (n < Len(lines) \/ Whole))
      ~> (~run \/ \E i \in DOMAIN taken : taken[i] = n)

\* The listener comes back to its loop again and again, until it leaves it, or waits
\* for ever in one of two places: a line that its client, still connected, does not
\* finish, and the end of the stream.
ReadsReturn ==
  \/ []<>(phase \in {"check", "exited"})
  \/ <>[](phase = "receive" /\ peer = "open" /\ ~Ready)
  \/ <>[](phase = "spin" /\ peer = "fin")
=============================================================================
