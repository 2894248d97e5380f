-------------------------- MODULE LineBufferProofs --------------------------
(***************************************************************************)
(* What the operations of the ring buffer preserve.  Both programs of      *)
(* SysOpy/lab9 cite these lemmas; none of them mentions a thread.          *)
(***************************************************************************)
EXTENDS LineBuffer, SequenceTheorems, TLAPS

\* The domain of every slot expression of the code: positions wrap once.
LEMMA WrapInSlots ==
    ASSUME NEW c \in Slots, NEW k \in Nat, k <= BufferLength
    PROVE  Wrap(c + k) \in Slots
  BY BufferAssumption DEF Wrap, Slots

\* Places at different distances from consumerPos are different slots.
LEMMA WrapInjective ==
    ASSUME NEW c \in Slots, NEW j \in Slots, NEW k \in Slots,
           Wrap(c + j) = Wrap(c + k)
    PROVE  j = k
  BY BufferAssumption DEF Wrap, Slots

\* Advance is one step along the ring (main.c:95-97, 160-162).
LEMMA AdvanceWraps ==
    ASSUME NEW c \in Slots
    PROVE  /\ Advance(c) \in Slots
           /\ \A k \in Slots : Wrap(Advance(c) + k) = Wrap(c + IF k = BufferLength - 1 THEN 0 ELSE k + 1)
           /\ \A k \in 0 .. BufferLength - 1 : Advance(Wrap(c + k)) = Wrap(Advance(c) + k)
  BY BufferAssumption DEF Wrap, Slots, Advance

LEMMA NumLinesNat == NumLines \in Nat
  BY BufferAssumption DEF NumLines

\* The initial buffer is an empty ring.
LEMMA InitBuffer ==
    ASSUME BufferInit
    PROVE  BufferTypeOK /\ RingOK /\ PrintedUpTo(Taken)
<1> USE DEF BufferInit, Slots, Freed
<1>1. BufferTypeOK
  BY BufferAssumption, NumLinesNat DEF BufferTypeOK
<1>2. RingOK
  BY BufferAssumption DEF RingOK, Taken, Wrap
<1>3. PrintedUpTo(Taken)
  BY BufferAssumption, NumLinesNat DEF PrintedUpTo, Taken
<1> QED BY <1>1, <1>2, <1>3

\* A producer that has room and a chunk extends the ring by that chunk.
LEMMA PutLineRing ==
    ASSUME BufferTypeOK, RingOK, PutLine,
           numberOfElements # BufferLength, lineNumber < NumLines
    PROVE  BufferTypeOK' /\ RingOK' /\ Taken' = Taken
<1> USE NumLinesNat DEF PutLine, StoreLine, Taken
<1>1. numberOfElements \in Slots
  BY BufferAssumption DEF BufferTypeOK, Slots
<1>2. consumerPos \in Slots /\ producerPos = Wrap(consumerPos + numberOfElements)
  BY DEF BufferTypeOK, RingOK
<1>3. BufferTypeOK'
  BY <1>1, <1>2, AdvanceWraps, BufferAssumption DEF BufferTypeOK, Slots
<1>4. producerPos' = Wrap(consumerPos' + numberOfElements')
  BY <1>1, <1>2, BufferAssumption DEF Advance, Wrap, Slots
<1>5. ASSUME NEW k \in Slots
      PROVE  BUFFER'[Wrap(consumerPos' + k)] =
                IF k < numberOfElements' THEN Taken' + 1 + k ELSE Freed
  <2>1. Wrap(consumerPos + k) \in Slots /\ producerPos \in Slots
    BY <1>2, WrapInSlots, BufferAssumption DEF BufferTypeOK, Slots
  <2>2. BUFFER \in [Slots -> 0 .. NumLines] /\ lineNumber \in Nat
    BY DEF BufferTypeOK
  <2>3. CASE k = numberOfElements
    <3>1. Wrap(consumerPos' + k) = producerPos
      BY <1>2, <2>3
    <3>2. BUFFER'[producerPos] = lineNumber + 1
      BY <2>1, <2>2
    <3>3. k < numberOfElements' /\ Taken' + 1 + k = lineNumber + 1
      BY <2>3 DEF BufferTypeOK
    <3> QED BY <3>1, <3>2, <3>3
  <2>4. CASE k # numberOfElements
    <3>1. Wrap(consumerPos + k) # producerPos
      BY <1>1, <1>2, <2>4, WrapInjective
    <3>2. BUFFER'[Wrap(consumerPos + k)] = BUFFER[Wrap(consumerPos + k)]
      BY <2>1, <2>2, <3>1
    <3> QED BY <1>1, <2>2, <2>4, <3>2 DEF RingOK, Slots
  <2> QED BY <2>3, <2>4
<1>6. Taken' = Taken
  BY DEF BufferTypeOK
<1> QED BY <1>3, <1>4, <1>5, <1>6 DEF RingOK

\* A consumer that finds a chunk takes the oldest one off the ring.
LEMMA TakeLineRing ==
    ASSUME BufferTypeOK, RingOK, TakeLine, numberOfElements # 0
    PROVE  /\ BufferTypeOK' /\ RingOK'
           /\ Taken' = Taken + 1
           /\ BUFFER[consumerPos] = Taken + 1
<1> USE NumLinesNat DEF TakeLine, Taken
<1>1. consumerPos \in Slots /\ 0 \in Slots /\ Wrap(consumerPos + 0) = consumerPos
  BY BufferAssumption DEF BufferTypeOK, Slots, Wrap
<1>2. BUFFER[consumerPos] = Taken + 1
  BY <1>1, SMTT(30) DEF RingOK, BufferTypeOK, Slots
<1>3. Taken' = Taken + 1
  BY DEF BufferTypeOK
<1>4. BufferTypeOK'
  <2>1. BUFFER[consumerPos] \in 1 .. NumLines
    <3>1. BUFFER[consumerPos] \in 0 .. NumLines
      BY DEF BufferTypeOK
    <3> QED BY <1>2, <3>1 DEF BufferTypeOK, RingOK
  <2>2. printed' \in Seq(1 .. NumLines)
    <3>1. printed \in Seq(1 .. NumLines)
      BY DEF BufferTypeOK
    <3>2. Append(printed, BUFFER[consumerPos]) \in Seq(1 .. NumLines)
      BY <2>1, <3>1
    <3> QED BY <3>1, <3>2
  <2>3. consumerPos' \in Slots
    BY <1>1, AdvanceWraps
  <2>4. BUFFER' \in [Slots -> 0 .. NumLines]
    BY <1>1 DEF BufferTypeOK, Freed
  <2>5. numberOfElements' \in 0 .. BufferLength
    BY BufferAssumption DEF BufferTypeOK
  <2> QED BY <2>2, <2>3, <2>4, <2>5 DEF BufferTypeOK
<1>5. producerPos' = Wrap(consumerPos' + numberOfElements')
  BY BufferAssumption DEF Advance, Wrap, Slots, BufferTypeOK, RingOK
<1>6. ASSUME NEW k \in Slots
      PROVE  BUFFER'[Wrap(consumerPos' + k)] =
                IF k < numberOfElements' THEN Taken' + 1 + k ELSE Freed
  <2> DEFINE next == IF k = BufferLength - 1 THEN 0 ELSE k + 1
  <2>1. next \in Slots /\ Wrap(consumerPos' + k) = Wrap(consumerPos + next)
    BY <1>1, BufferAssumption DEF Slots, Wrap, Advance
  <2>2. Wrap(consumerPos + next) \in Slots
    BY <1>1, <2>1, BufferAssumption DEF Slots, Wrap
  <2>3. CASE k = BufferLength - 1
    <3>1. Wrap(consumerPos' + k) = consumerPos
      BY <1>1, <2>1, <2>3
    <3>2. BUFFER'[consumerPos] = Freed
      BY <1>1 DEF BufferTypeOK
    <3>3. ~(k < numberOfElements')
      BY <2>3, BufferAssumption DEF BufferTypeOK, Slots
    <3> QED BY <3>1, <3>2, <3>3
  <2>4. CASE k # BufferLength - 1
    <3>1. Wrap(consumerPos + next) # consumerPos
      BY <1>1, <2>1, <2>4, WrapInjective DEF Slots
    <3>2. BUFFER'[Wrap(consumerPos + next)] = BUFFER[Wrap(consumerPos + next)]
      BY <2>2, <3>1 DEF BufferTypeOK
    <3>3. BUFFER[Wrap(consumerPos + next)] =
             IF next < numberOfElements THEN Taken + 1 + next ELSE Freed
      BY <2>1 DEF RingOK
    <3> QED BY <1>3, <2>1, <2>4, <3>2, <3>3 DEF BufferTypeOK, Slots
  <2> QED BY <2>3, <2>4
<1>7. Taken' >= 0
  BY <1>3 DEF RingOK, BufferTypeOK
<1> QED BY <1>2, <1>3, <1>4, <1>5, <1>6, <1>7 DEF RingOK

\* Taking the next chunk in order keeps the output exact.
LEMMA TakeLinePrinted ==
    ASSUME BufferTypeOK, RingOK, TakeLine, numberOfElements # 0,
           PrintedUpTo(Taken)
    PROVE  PrintedUpTo(Taken)'
<1> DEFINE next == BUFFER[consumerPos]
<1>1. /\ next \in 1 .. NumLines /\ next = Taken + 1
      /\ Taken' = Taken + 1
      /\ Taken \in Nat
  BY TakeLineRing, NumLinesNat DEF BufferTypeOK, RingOK, Taken
<1>2. printed \in Seq(1 .. NumLines) /\ Len(printed) \in Nat
  BY DEF BufferTypeOK
<1>3. \A i \in 1 .. Len(printed) : printed[i] \in 1 .. NumLines
  BY <1>2, ElementOfSeq
<1>4. \A i \in 1 .. Len(printed) : printed[i] < next
  <2> TAKE i \in 1 .. Len(printed)
  <2>1. printed[i] \in 1 .. NumLines
    BY <1>3
  <2>2. printed[i] <= Taken
    BY <2>1 DEF PrintedUpTo
  <2> QED BY <1>1, <2>1, <2>2, NumLinesNat
<1>5. CASE Matches(next)
  <2>1. printed' = Append(printed, next)
    BY <1>5 DEF TakeLine
  <2>2. /\ Len(printed') = Len(printed) + 1
        /\ \A i \in 1 .. Len(printed) : printed'[i] = printed[i]
        /\ printed'[Len(printed) + 1] = next
    BY <1>1, <1>2, <2>1
  <2> HIDE DEF next
  <2>3. ASSUME NEW i \in 1 .. Len(printed'), NEW j \in 1 .. Len(printed'), i < j
        PROVE  printed'[i] < printed'[j]
    <3>1. i \in 1 .. Len(printed)
      BY <1>2, <2>2, <2>3
    <3>2. CASE j = Len(printed) + 1
      BY <1>4, <2>2, <3>1, <3>2
    <3>3. CASE j \in 1 .. Len(printed)
      BY <2>2, <2>3, <3>1, <3>3 DEF PrintedUpTo
    <3> QED BY <1>2, <2>2, <3>2, <3>3
  <2>4. ASSUME NEW l \in 1 .. NumLines
        PROVE  (\E i \in 1 .. Len(printed') : printed'[i] = l)
                  <=> (l <= Taken' /\ Matches(l))
    <3>1. (\E i \in 1 .. Len(printed') : printed'[i] = l)
             <=> l = next \/ \E i \in 1 .. Len(printed) : printed[i] = l
      BY <1>2, <2>2
    <3>2. (\E i \in 1 .. Len(printed) : printed[i] = l)
             <=> (l <= Taken /\ Matches(l))
      BY DEF PrintedUpTo
    <3>3. l <= Taken' <=> l = next \/ l <= Taken
      BY <1>1, NumLinesNat
    <3> QED BY <1>5, <3>1, <3>2, <3>3
  <2> QED BY <2>3, <2>4 DEF PrintedUpTo
<1>6. CASE ~Matches(next)
  <2>1. printed' = printed
    BY <1>6 DEF TakeLine
  <2>2. \A l \in 1 .. NumLines : (l <= Taken' /\ Matches(l)) <=> (l <= Taken /\ Matches(l))
    BY <1>1, <1>6, NumLinesNat
  <2> QED BY <2>1, <2>2 DEF PrintedUpTo
<1> QED BY <1>5, <1>6

-----------------------------------------------------------------------------
(* The queue the ring stands for                                           *)


\* Consecutive chunks
Run(a, n) == [k \in 1 .. n |-> a + k]

LEMMA RunIsSeq ==
    ASSUME NEW a \in Nat, NEW n \in Nat
    PROVE  Run(a, n) \in Seq(Nat) /\ Len(Run(a, n)) = n
  BY DEF Run

LEMMA RunAppend ==
    ASSUME NEW a \in Nat, NEW n \in Nat
    PROVE  Append(Run(a, n), a + n + 1) = Run(a, n + 1)
<1>1. /\ Run(a, n) \in Seq(Nat) /\ Len(Run(a, n)) = n
      /\ Run(a, n + 1) \in Seq(Nat) /\ Len(Run(a, n + 1)) = n + 1
  BY RunIsSeq, SMTT(30)
<1> DEFINE s == Append(Run(a, n), a + n + 1)
<1>2. s \in Seq(Nat) /\ Len(s) = n + 1
  BY <1>1
<1>3. \A i \in 1 .. n + 1 : s[i] = Run(a, n + 1)[i]
  BY <1>1 DEF Run
<1> HIDE DEF s
<1>4. s = Run(a, n + 1)
  BY <1>1, <1>2, <1>3, SeqEqual
<1> QED BY <1>4 DEF s

LEMMA RunTail ==
    ASSUME NEW a \in Nat, NEW n \in Nat \ {0}
    PROVE  /\ Run(a, n) # <<>>
           /\ Head(Run(a, n)) = a + 1
           /\ Tail(Run(a, n)) = Run(a + 1, n - 1)
<1> DEFINE s == Run(a, n)
           t == Run(a + 1, n - 1)
<1>1. s \in Seq(Nat) /\ Len(s) = n /\ t \in Seq(Nat) /\ Len(t) = n - 1
  <2>1. a + 1 \in Nat /\ n - 1 \in Nat /\ n \in Nat
    OBVIOUS
  <2> QED BY <2>1, RunIsSeq
<1>2. /\ \A i \in 1 .. n : s[i] = a + i
      /\ \A i \in 1 .. n - 1 : t[i] = a + 1 + i
  BY DEF Run
<1> HIDE DEF s, t
<1>3. s # <<>> /\ Head(s) = s[1]
  BY <1>1
<1>4. Tail(s) \in Seq(Nat) /\ Len(Tail(s)) = n - 1
  BY <1>1, <1>3, HeadTailProperties
<1>5. \A i \in 1 .. n - 1 : Tail(s)[i] = t[i]
  BY <1>1, <1>2, <1>3, HeadTailProperties
<1>6. Tail(s) = t
  BY <1>1, <1>4, <1>5, SeqEqual
<1> QED BY <1>2, <1>3, <1>6 DEF s, t

LEMMA QueuedIs == BufferTypeOK /\ RingOK => Queued = Run(Taken, numberOfElements)
<1> SUFFICES ASSUME BufferTypeOK, RingOK, NEW k \in 1 .. numberOfElements
             PROVE  BUFFER[Wrap(consumerPos + k - 1)] = Taken + k
  BY DEF Queued, Run
<1>1. k - 1 \in Slots /\ k - 1 < numberOfElements
  BY BufferAssumption DEF BufferTypeOK, Slots
<1>2. consumerPos + (k - 1) = consumerPos + k - 1
  BY DEF BufferTypeOK, Slots
<1>3. BUFFER[Wrap(consumerPos + (k - 1))] = Taken + 1 + (k - 1)
  BY <1>1 DEF RingOK
<1> QED BY <1>1, <1>2, <1>3 DEF Taken, BufferTypeOK, Slots

LEMMA QueuedIsNext ==
    BufferTypeOK' /\ RingOK' => Queued' = Run(Taken', numberOfElements')
<1>1. (BufferTypeOK /\ RingOK => Queued = Run(Taken, numberOfElements))'
  BY QueuedIs, PTL
<1> QED BY <1>1 DEF Run

\* What a producer stores goes to the end of the queue.
LEMMA PutLineQueued ==
    ASSUME BufferTypeOK, RingOK, PutLine,
           numberOfElements # BufferLength, lineNumber < NumLines
    PROVE  /\ Len(Queued) = numberOfElements
           /\ Queued' = Append(Queued, lineNumber + 1)
<1>1. BufferTypeOK' /\ RingOK' /\ Taken' = Taken
  BY PutLineRing
<1>2. Taken \in Nat /\ numberOfElements \in Nat
  BY DEF Taken, BufferTypeOK, RingOK
<1>3. numberOfElements' = numberOfElements + 1 /\ lineNumber + 1 = Taken + numberOfElements + 1
  BY DEF PutLine, Taken, BufferTypeOK
<1> QED BY <1>1, <1>2, <1>3, QueuedIs, QueuedIsNext, RunAppend, RunIsSeq

\* What a consumer takes is the head of the queue.
LEMMA TakeLineQueued ==
    ASSUME BufferTypeOK, RingOK, TakeLine, numberOfElements # 0
    PROVE  Queued # <<>> /\ Head(Queued) = BUFFER[consumerPos] /\ Queued' = Tail(Queued)
<1>1. BufferTypeOK' /\ RingOK' /\ Taken' = Taken + 1 /\ BUFFER[consumerPos] = Taken + 1
  BY TakeLineRing
<1>2. Taken \in Nat /\ numberOfElements \in Nat \ {0}
  BY DEF Taken, BufferTypeOK, RingOK
<1>3. numberOfElements' = numberOfElements - 1
  BY DEF TakeLine
<1> QED BY <1>1, <1>2, <1>3, QueuedIs, QueuedIsNext, RunTail

\* A chunk stored but not counted is outside the queue.
LEMMA StoreLineQueued ==
    ASSUME BufferTypeOK, RingOK, StoreLine, numberOfElements # BufferLength,
           UNCHANGED <<numberOfElements, consumerPos>>
    PROVE  Queued' = Queued
<1>1. ASSUME NEW k \in 1 .. numberOfElements
      PROVE  BUFFER'[Wrap(consumerPos + k - 1)] = BUFFER[Wrap(consumerPos + k - 1)]
  <2>1. /\ k - 1 \in Slots /\ numberOfElements \in Slots /\ consumerPos \in Slots
        /\ consumerPos + (k - 1) = consumerPos + k - 1
        /\ k - 1 # numberOfElements
    BY BufferAssumption DEF BufferTypeOK, Slots
  <2>2. Wrap(consumerPos + (k - 1)) # producerPos
    BY <2>1, WrapInjective DEF RingOK
  <2>3. Wrap(consumerPos + (k - 1)) \in Slots
    BY <2>1, BufferAssumption DEF Wrap, Slots
  <2> QED BY <2>1, <2>2, <2>3 DEF StoreLine, BufferTypeOK
<1> QED BY <1>1 DEF Queued
=============================================================================
