--------------------------- MODULE SentenceQueue ---------------------------
(***************************************************************************)
(* What the line discipline promises its reader: a bounded queue of whole  *)
(* sentences that loses its oldest one when full, read in pieces no longer *)
(* than the reader asks for.  A read needs a sentence in the queue, also   *)
(* when all it returns is the rest of the one before.  LineDiscipline      *)
(* implements it; NmeaReader builds on it.                                 *)
(***************************************************************************)
EXTENDS Integers, Sequences

CONSTANTS Size,      \* CIRC_BUFFER_SIZE
          Lengths,   \* the lengths of sentences
          ReadSizes  \* the sizes the tty core asks for

ASSUME QueueAssumption == Size \in Nat \ {0} /\ Lengths \cup ReadSizes \subseteq Nat \ {0}

VARIABLES
  attached, \* the discipline is open on the tty
  sent,     \* the length of each sentence queued so far, by its number
  queue,    \* the numbers of the sentences waiting to be read
  rest,     \* what is left of the sentence being read
  piece     \* what the last read returned

queueVars == <<attached, sent, queue, rest, piece>>

NoRest == [id |-> 0, from |-> 0, left |-> 0]
NoPiece == [id |-> 0, from |-> 0, size |-> 0]

QueueInit == /\ attached \in BOOLEAN /\ sent = << >> /\ queue = << >>
             /\ rest = NoRest /\ piece = NoPiece

Put(len) ==
  /\ attached /\ Len(queue) < Size
  /\ sent' = Append(sent, len) /\ queue' = Append(queue, Len(sent) + 1)
  /\ UNCHANGED <<attached, rest, piece>>

Drop ==
  /\ attached /\ Len(queue) = Size
  /\ queue' = Tail(queue)
  /\ UNCHANGED <<attached, sent, rest, piece>>

Current == IF rest.left > 0 THEN rest
           ELSE [id |-> Head(queue), from |-> 0, left |-> sent[Head(queue)]]

Read(n) ==
  /\ attached /\ queue # << >>
  /\ LET taken == IF Current.left > n THEN n ELSE Current.left
     IN /\ piece' = [id |-> Current.id, from |-> Current.from, size |-> taken]
        /\ rest' = IF taken = Current.left THEN NoRest
                   ELSE [id |-> Current.id, from |-> Current.from + taken,
                         left |-> Current.left - taken]
  /\ queue' = IF rest.left > 0 THEN queue ELSE Tail(queue)
  /\ UNCHANGED <<attached, sent>>

Detach == /\ attached /\ attached' = FALSE /\ queue' = << >>
          /\ UNCHANGED <<sent, rest, piece>>

Attach == /\ ~attached /\ attached' = TRUE
          /\ queue' = << >> /\ rest' = NoRest /\ piece' = NoPiece
          /\ UNCHANGED sent

QueueNext == \/ Drop \/ Detach \/ Attach
             \/ (\E len \in Lengths : Put(len)) \/ (\E n \in ReadSizes : Read(n))
=============================================================================
