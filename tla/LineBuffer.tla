----------------------------- MODULE LineBuffer -----------------------------
(***************************************************************************)
(* The ring buffer of SysOpy/lab9: the globals BUFFER, numberOfElements,   *)
(* producerPos, consumerPos and lineNumber, and what one critical section  *)
(* does to them.  zad1 (mutex and condition variables) and zad2            *)
(* (semaphores) share this part word for word and differ in what surrounds *)
(* it: ProdConsMonitor and ProdConsSem extend this module.                 *)
(*                                                                         *)
(* A chunk of text is known by the number its `struct line` carries, so a  *)
(* slot holds a line number, or Freed when it owns no text.                *)
(***************************************************************************)
EXTENDS Integers, Sequences

CONSTANTS
    BufferLength,   \* CONF.bufferLength
    StringLength,   \* CONF.stringLength
    SearchMode,     \* CONF.searchMode
    TextLength      \* strlen of each chunk fgets returns, in file order

EQUAL   == 0
LESSER  == 1
GREATER == 2

ASSUME BufferAssumption ==
    /\ BufferLength \in Nat \ {0}
    /\ StringLength \in Nat
    /\ SearchMode \in {EQUAL, LESSER, GREATER}
    /\ TextLength \in Seq(Nat \ {0})

VARIABLES
    BUFFER,             \* the slots
    numberOfElements,
    producerPos,
    consumerPos,
    lineNumber,         \* chunks read from SOURCE so far
    printed             \* the numbers whose printf has returned, in order

bufferVars == <<BUFFER, numberOfElements, producerPos, consumerPos,
                lineNumber, printed>>

NumLines == Len(TextLength)
Slots    == 0 .. BufferLength - 1
Freed    == 0

BufferTypeOK ==
    /\ BUFFER \in [Slots -> 0 .. NumLines]
    /\ numberOfElements \in 0 .. BufferLength
    /\ producerPos \in Slots
    /\ consumerPos \in Slots
    /\ lineNumber \in 0 .. NumLines
    /\ printed \in Seq(1 .. NumLines)

BufferInit ==
    /\ BUFFER = [s \in Slots |-> Freed]
    /\ numberOfElements = 0
    /\ producerPos = 0
    /\ consumerPos = 0
    /\ lineNumber = 0
    /\ printed = <<>>

-----------------------------------------------------------------------------
(* What a critical section does                                            *)

Advance(pos) == IF pos + 1 = BufferLength THEN 0 ELSE pos + 1

\* The search: strlen - 1 leaves the newline out (and one character too
\* many of a last chunk that has none).
Matches(l) ==
    /\ l \in 1 .. NumLines
    /\ LET length == TextLength[l] - 1
       IN  \/ length = StringLength /\ SearchMode = EQUAL
           \/ length < StringLength /\ SearchMode = LESSER
           \/ length > StringLength /\ SearchMode = GREATER

\* The chunk goes into the slot before the counters move.
StoreLine ==
    /\ lineNumber' = lineNumber + 1
    /\ BUFFER' = [BUFFER EXCEPT ![producerPos] = lineNumber + 1]

\* Mutant: the position moves before the chunk is stored.
PutLineAdvanceFirst ==
    /\ lineNumber' = lineNumber + 1
    /\ BUFFER' = [BUFFER EXCEPT ![Advance(producerPos)] = lineNumber + 1]
    /\ numberOfElements' = numberOfElements + 1
    /\ producerPos' = Advance(producerPos)
    /\ UNCHANGED <<consumerPos, printed>>

PutLine ==
    /\ StoreLine
    /\ numberOfElements' = numberOfElements + 1
    /\ producerPos' = Advance(producerPos)
    /\ UNCHANGED <<consumerPos, printed>>

\* Mutant: the slot searched is not the one that is freed.
TakeLineSearchNext ==
    /\ LET next == BUFFER[Advance(consumerPos)]
       IN  printed' = IF Matches(next) THEN Append(printed, next) ELSE printed
    /\ BUFFER' = [BUFFER EXCEPT ![consumerPos] = Freed]
    /\ consumerPos' = Advance(consumerPos)
    /\ numberOfElements' = numberOfElements - 1
    /\ UNCHANGED <<producerPos, lineNumber>>

TakeLine ==
    /\ printed' = IF Matches(BUFFER[consumerPos])
                  THEN Append(printed, BUFFER[consumerPos])
                  ELSE printed
    /\ BUFFER' = [BUFFER EXCEPT ![consumerPos] = Freed]
    /\ consumerPos' = Advance(consumerPos)
    /\ numberOfElements' = numberOfElements - 1
    /\ UNCHANGED <<producerPos, lineNumber>>

-----------------------------------------------------------------------------
(* What the buffer promises                                                *)

\* The slot i places after consumerPos, for i below 2 * BufferLength.
Wrap(i) == IF i < BufferLength THEN i ELSE i - BufferLength

Taken == lineNumber - numberOfElements

RingOK ==
    /\ Taken >= 0
    /\ producerPos = Wrap(consumerPos + numberOfElements)
    /\ \A k \in Slots :
          BUFFER[Wrap(consumerPos + k)] =
             IF k < numberOfElements THEN Taken + 1 + k ELSE Freed

\* Chunks 1 .. last have been searched, each once and in order.
PrintedUpTo(last) ==
    /\ \A i, j \in 1 .. Len(printed) : i < j => printed[i] < printed[j]
    /\ \A l \in 1 .. NumLines :
          (\E i \in 1 .. Len(printed) : printed[i] = l)
             <=> (l <= last /\ Matches(l))

\* The queue the ring stands for, oldest chunk first.
Queued == [k \in 1 .. numberOfElements |-> BUFFER[Wrap(consumerPos + k - 1)]]
=============================================================================
