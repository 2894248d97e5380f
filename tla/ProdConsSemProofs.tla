------------------------- MODULE ProdConsSemProofs --------------------------
(***************************************************************************)
(* Safety of SysOpy/lab9/src/zad2/main.c for any number of threads, any    *)
(* file, any buffer length, any search and any SEM_VALUE_MAX, with and     *)
(* without a timeout.                                                      *)
(***************************************************************************)
EXTENDS ProdConsSem, LineBufferProofs

\* sem and what it protects.
LockInv == TypeOK /\ SemOK /\ BufferConsistent

LEMMA InitLockInv == Init => LockInv
<1> SUFFICES ASSUME Init PROVE LockInv
  OBVIOUS
<1>1. BufferTypeOK /\ RingOK
  BY InitBuffer DEF Init
<1>2. TypeOK
  <2>1. /\ sem \in 0 .. SemValueMax
        /\ emptySem \in 0 .. SemValueMax
        /\ fullSem \in 0 .. SemValueMax
    BY ThreadAssumption DEF Init
  <2>2. pc \in [Threads -> Places]
    BY DEF Init, Places
  <2>3. main \in {"join", "sleep"}
    BY ThreadAssumption DEF Init
  <2>4. endOfFile \in BOOLEAN /\ cancelled \subseteq Threads
    BY DEF Init
  <2> QED BY <1>1, <2>1, <2>2, <2>3, <2>4 DEF TypeOK
<1>3. Holders = {}
  BY DEF Init, Holders
<1>4. SemOK
  BY <1>3 DEF Init, SemOK
<1> QED BY <1>1, <1>2, <1>4 DEF LockInv, BufferConsistent

\* A thread inside is alone: sem is taken and the buffer it sees is a ring.
LEMMA InsideSeesRing ==
    ASSUME LockInv, NEW t \in Threads, Inside(t)
    PROVE  /\ Holders = {t} /\ sem = 0
           /\ ~Torn /\ RingOK /\ BufferTypeOK
<1>1. t \in Holders
  BY DEF Inside, Holders
<1>2. Holders = {t} /\ sem = 0
  BY <1>1 DEF LockInv, SemOK, Holders
<1>3. ~Torn
  BY <1>2 DEF Torn, Holders, Inside, Threads
<1> QED BY <1>2, <1>3 DEF LockInv, BufferConsistent, TypeOK

\* Releasing sem frees it, and no torn producer is left behind.
LEMMA LeaveKeepsLock ==
    ASSUME LockInv, NEW t \in Threads, Inside(t),
           NEW place \in {"atFull", "atEmpty", "usleep", "done"},
           Leave(t, place)
    PROVE  /\ sem' \in 0 .. SemValueMax
           /\ pc' \in [Threads -> Places]
           /\ cancelled' = cancelled /\ main' = main
           /\ SemOK' /\ ~Torn'
<1> USE ThreadAssumption DEF LockInv, Leave, Goto
<1>1. Holders = {t} /\ sem = 0
  BY InsideSeesRing
<1>2. pc' \in [Threads -> Places]
  BY DEF TypeOK, Places
<1>3. \A u \in Threads : pc'[u] \notin {"in", "stuck", "torn"}
  BY <1>1 DEF Holders, TypeOK
<1>4. Holders' = {}
  BY <1>3 DEF Holders
<1>5. sem' = 1
  BY <1>1 DEF Posted
<1>6. ~Torn'
  BY <1>3 DEF Torn, Threads
<1> QED BY <1>2, <1>4, <1>5, <1>6 DEF SemOK

LEMMA PostedType ==
    ASSUME NEW v \in 0 .. SemValueMax
    PROVE  Posted(v) \in 0 .. SemValueMax /\ Posted(v) > 0 /\ Posted(v) >= v
  BY ThreadAssumption DEF Posted

LEMMA CallStepLock ==
    ASSUME LockInv, NEW t \in Threads, CallStep(t)
    PROVE  LockInv'
<1> USE DEF LockInv
<1>1. CASE AddLine(t)
  <2>1. /\ sem' \in 0 .. SemValueMax /\ pc' \in [Threads -> Places]
        /\ cancelled' = cancelled /\ main' = main /\ SemOK'
    BY <1>1, LeaveKeepsLock DEF AddLine
  <2>2. RingOK' /\ BufferTypeOK'
    BY <1>1, InsideSeesRing, PutLineRing DEF AddLine
  <2>3. emptySem' \in 0 .. SemValueMax
    BY <1>1, PostedType DEF AddLine, TypeOK
  <2> QED BY <1>1, <2>1, <2>2, <2>3 DEF AddLine, TypeOK, BufferConsistent
<1>2. CASE RemoveLine(t)
  <2>1. /\ sem' \in 0 .. SemValueMax /\ pc' \in [Threads -> Places]
        /\ cancelled' = cancelled /\ main' = main /\ SemOK'
    BY <1>2, LeaveKeepsLock DEF RemoveLine
  <2>2. RingOK' /\ BufferTypeOK'
    BY <1>2, InsideSeesRing, TakeLineRing DEF RemoveLine
  <2>3. fullSem' \in 0 .. SemValueMax
    BY <1>2, PostedType DEF RemoveLine, TypeOK
  <2> QED BY <1>2, <2>1, <2>2, <2>3 DEF RemoveLine, TypeOK, BufferConsistent
<1>3. CASE AddFull(t) \/ AddEOF(t) \/ AddPoll(t) \/ RemoveEmpty(t) \/ RemoveEnd(t)
  <2>1. /\ sem' \in 0 .. SemValueMax /\ pc' \in [Threads -> Places]
        /\ cancelled' = cancelled /\ main' = main /\ SemOK'
    BY <1>3, LeaveKeepsLock DEF AddFull, AddEOF, AddPoll, RemoveEmpty, RemoveEnd
  <2>2. RingOK /\ BufferTypeOK
    BY <1>3, InsideSeesRing DEF AddFull, AddEOF, AddPoll, RemoveEmpty, RemoveEnd
  <2>3. /\ emptySem' \in 0 .. SemValueMax /\ fullSem' \in 0 .. SemValueMax
        /\ endOfFile' \in BOOLEAN
        /\ UNCHANGED bufferVars
    BY <1>3, PostedType DEF AddFull, AddEOF, AddPoll, RemoveEmpty, RemoveEnd, TypeOK
  <2>4. RingOK' /\ BufferTypeOK'
    BY <2>2, <2>3 DEF RingOK, BufferTypeOK, Taken, bufferVars
  <2> QED BY <2>1, <2>3, <2>4 DEF TypeOK, BufferConsistent
<1>4. CASE AddAfterClose(t)
  BY <1>4 DEF AddAfterClose, TypeOK, SemOK, Holders, BufferConsistent,
              BufferTypeOK, RingOK, Taken, Torn, bufferVars, semVars
<1> QED BY <1>1, <1>2, <1>3, <1>4 DEF CallStep

\* The steps of a thread that neither takes nor gives back sem.
Aside(t) == EnterStep(t) \/ PassStep(t) \/ EndSleep(t) \/ DieOutside(t)

LEMMA AsideMoves ==
    ASSUME LockInv, NEW t \in Threads, Aside(t)
    PROVE  /\ UNCHANGED <<bufferVars, sem, endOfFile, cancelled, main>>
           /\ emptySem' \in 0 .. SemValueMax /\ fullSem' \in 0 .. SemValueMax
           /\ pc' \in [Threads -> Places]
           /\ Holders' = Holders /\ (Torn' <=> Torn)
<1> USE DEF Aside, EnterStep, EnterFull, EnterEmpty, PassStep, LeaveFull,
            LeaveEmpty, EndSleep, DieOutside, semVars
<1>0. /\ emptySem \in 0 .. SemValueMax /\ fullSem \in 0 .. SemValueMax
      /\ pc \in [Threads -> Places]
  BY DEF LockInv, TypeOK
<1>1. UNCHANGED <<bufferVars, sem, endOfFile, cancelled, main>>
  OBVIOUS
<1>2. emptySem' \in 0 .. SemValueMax /\ fullSem' \in 0 .. SemValueMax
  <2>1. CASE EnterFull(t) \/ EnterEmpty(t)
    BY <1>0, <2>1, ThreadAssumption
  <2>2. CASE LeaveFull(t)
    BY <1>0, <2>2, PostedType
  <2>3. CASE LeaveEmpty(t)
    BY <1>0, <2>3, PostedType
  <2>4. CASE EndSleep(t) \/ DieOutside(t)
    BY <1>0, <2>4
  <2> QED BY <2>1, <2>2, <2>3, <2>4
<1>3. /\ pc[t] \notin {"in", "stuck", "torn"}
      /\ \E place \in Places \ {"in", "stuck", "torn"} : pc' = [pc EXCEPT ![t] = place]
  BY DEF Goto, Places
<1>4. \A u \in Threads : u # t => pc'[u] = pc[u]
  BY <1>0, <1>3
<1>5. pc' \in [Threads -> Places] /\ pc'[t] \notin {"in", "stuck", "torn"}
  BY <1>0, <1>3
<1>6. Holders' = Holders /\ (Torn' <=> Torn)
  BY <1>3, <1>4, <1>5 DEF Holders, Torn, Threads
<1> QED BY <1>1, <1>2, <1>5, <1>6

LEMMA LockInvStep == LockInv /\ [Next]_vars => LockInv'
<1> SUFFICES ASSUME LockInv, [Next]_vars PROVE LockInv'
  OBVIOUS
<1> USE ThreadAssumption DEF LockInv
<1>1. ASSUME NEW t \in Threads, Lock(t)
      PROVE  LockInv'
  <2>1. Holders = {} /\ sem = 1
    BY <1>1 DEF Lock, SemOK
  <2>2. pc' \in [Threads -> Places] /\ sem' = 0 /\ UNCHANGED <<bufferVars, emptySem, fullSem, endOfFile, cancelled, main>>
    BY <1>1, <2>1 DEF Lock, Goto, TypeOK, Places
  <2>3. Holders' = {t} /\ ~Torn /\ ~Torn'
    BY <1>1, <2>1 DEF Lock, Goto, Holders, Torn, TypeOK, Threads
  <2>4. SemOK'
    BY <2>2, <2>3 DEF SemOK
  <2> QED BY <2>2, <2>3, <2>4 DEF TypeOK, BufferTypeOK, BufferConsistent, RingOK, Taken, bufferVars
<1>2. ASSUME NEW t \in Threads, Aside(t)
      PROVE  LockInv'
  BY <1>2, AsideMoves DEF TypeOK, BufferTypeOK, SemOK, BufferConsistent, RingOK, Taken, bufferVars
<1>3. ASSUME NEW t \in Threads, DieInside(t)
      PROVE  LockInv'
  <2>1. Holders = {t} /\ ~Torn
    BY <1>3, InsideSeesRing DEF DieInside
  <2>2. Holders' = {t} /\ ~Torn' /\ pc' \in [Threads -> Places]
    BY <1>3, <2>1 DEF DieInside, Goto, Holders, Torn, TypeOK, Places, Threads
  <2> QED BY <1>3, <2>1, <2>2 DEF DieInside, TypeOK, SemOK, BufferTypeOK, BufferConsistent, RingOK, Taken, bufferVars, semVars
<1>4. ASSUME NEW t \in Threads, DieStoring(t)
      PROVE  LockInv'
  <2>1. Holders = {t}
    BY <1>4, InsideSeesRing DEF DieStoring
  <2>2. Holders' = {t} /\ Torn' /\ pc' \in [Threads -> Places]
    BY <1>4, <2>1 DEF DieStoring, Goto, Holders, Torn, TypeOK, Places
  <2>3. lineNumber' \in 0 .. NumLines /\ BUFFER' \in [Slots -> 0 .. NumLines]
    BY <1>4, NumLinesNat DEF DieStoring, StoreLine, TypeOK, BufferTypeOK
  <2> QED BY <1>4, <2>1, <2>2, <2>3 DEF DieStoring, TypeOK, SemOK, BufferTypeOK, BufferConsistent, semVars
<1>5. CASE MainStep \/ UNCHANGED vars
  <2>1. /\ UNCHANGED <<bufferVars, semVars, pc, endOfFile>>
        /\ cancelled' \subseteq Threads
        /\ main' \in {"join", "sleep", "cancel", "closed", "exited", "crashed"}
    BY <1>5 DEF MainStep, Join, WakeUp, Cancel, Close, Return, MainGoes, TypeOK, vars, bufferVars, semVars
  <2> QED BY <2>1 DEF TypeOK, SemOK, Holders, BufferConsistent, BufferTypeOK, RingOK, Taken, Torn, bufferVars, semVars
<1> QED BY <1>1, <1>2, <1>3, <1>4, <1>5, CallStepLock DEF Next, DieStep, Aside, Terminated

LEMMA LockInvariant == Spec => []LockInv
  BY InitLockInv, LockInvStep, PTL DEF Spec

\* Every variable keeps its type: no position or count leaves the buffer, no
\* semaphore passes SEM_VALUE_MAX (main.c:65-173).
THEOREM TypeCorrect == Spec => []TypeOK
<1>1. LockInv => TypeOK
  BY DEF LockInv
<1> QED BY <1>1, LockInvariant, PTL

\* sem excludes, and the buffer is a ring of the chunks read and not yet taken
\* whenever it can be seen (main.c:65-173).
THEOREM RingSafe == Spec => [](SemOK /\ BufferConsistent)
<1>1. LockInv => SemOK /\ BufferConsistent
  BY DEF LockInv
<1> QED BY <1>1, LockInvariant, PTL

-----------------------------------------------------------------------------
(* The turnstiles                                                          *)

LEMMA TurnstilesStep == LockInv /\ TurnstilesOpen /\ [Next]_vars => TurnstilesOpen'
<1> SUFFICES ASSUME LockInv, TurnstilesOpen, [Next]_vars PROVE TurnstilesOpen'
  OBVIOUS
<1> USE ThreadAssumption DEF LockInv
<1>0. emptySem \in 0 .. SemValueMax /\ fullSem \in 0 .. SemValueMax /\ lineNumber \in Nat
  BY DEF TypeOK, BufferTypeOK
<1>1. ASSUME NEW t \in Threads, CallStep(t)
      PROVE  TurnstilesOpen'
  <2>1. /\ pc[t] = "in" /\ \A u \in Threads : u # t => pc'[u] = pc[u]
        /\ emptySem' >= emptySem /\ fullSem' >= fullSem
        /\ ~Torn /\ BufferTypeOK /\ RingOK
    <3>1. Inside(t) /\ \A u \in Threads : u # t => pc'[u] = pc[u]
      BY <1>1 DEF CallStep, AddFull, AddLine, AddEOF, AddPoll, AddAfterClose,
                  RemoveEmpty, RemoveEnd, RemoveLine, Leave, Goto, TypeOK
    <3>2. emptySem' >= emptySem /\ fullSem' >= fullSem
      BY <1>0, <1>1, PostedType
         DEF CallStep, AddFull, AddLine, AddEOF, AddPoll, AddAfterClose,
             RemoveEmpty, RemoveEnd, RemoveLine, semVars
    <3> QED BY <3>1, <3>2, InsideSeesRing DEF Inside
  <2>2. \/ lineNumber' = lineNumber /\ endOfFile' = endOfFile
        \/ emptySem' > 0
        \/ lineNumber > 0
    <3>1. CASE AddLine(t)
      <4>1. lineNumber = 0 => numberOfElements = 0
        BY <2>1 DEF BufferTypeOK, RingOK, Taken
      <4>2. lineNumber = 0 => emptySem' = Posted(emptySem)
        BY <3>1, <4>1 DEF AddLine, PutLine
      <4> QED BY <1>0, <4>2, PostedType
    <3>2. CASE AddEOF(t)
      BY <1>0, <3>2, PostedType DEF AddEOF
    <3>3. CASE ~AddLine(t) /\ ~AddEOF(t)
      BY <1>1, <3>3 DEF CallStep, AddFull, AddPoll, AddAfterClose, RemoveEmpty,
                        RemoveEnd, RemoveLine, TakeLine, bufferVars
    <3> QED BY <3>1, <3>2, <3>3
  <2>3. sem' \in Int /\ emptySem' \in Int /\ fullSem' \in Int
    BY LockInvStep DEF TypeOK
  <2>4. fullSem' > 0 \/ \E u \in Threads : pc'[u] = "inFull"
    BY <1>0, <2>1, <2>3 DEF TurnstilesOpen
  <2>5. lineNumber' > 0 \/ endOfFile' =>
           emptySem' > 0 \/ \E u \in Threads : pc'[u] = "inEmpty"
    BY <1>0, <2>1, <2>2, <2>3 DEF TurnstilesOpen
  <2> QED BY <2>4, <2>5 DEF TurnstilesOpen
<1>2. ASSUME NEW t \in Threads, Aside(t)
      PROVE  TurnstilesOpen'
  <2>1. UNCHANGED <<lineNumber, endOfFile>> /\ (Torn' <=> Torn)
    BY <1>2, AsideMoves DEF bufferVars
  <2>2. CASE EnterFull(t) \/ LeaveFull(t)
    <3>1. fullSem' > 0 \/ \E u \in Threads : pc'[u] = "inFull"
      BY <1>0, <2>2, PostedType DEF EnterFull, LeaveFull, Goto, TypeOK
    <3>2. emptySem' = emptySem /\ \A u \in Threads : pc[u] = "inEmpty" => pc'[u] = "inEmpty"
      BY <2>2 DEF EnterFull, LeaveFull, Goto, TypeOK
    <3> QED BY <2>1, <3>1, <3>2 DEF TurnstilesOpen
  <2>3. CASE EnterEmpty(t) \/ LeaveEmpty(t)
    <3>1. emptySem' > 0 \/ \E u \in Threads : pc'[u] = "inEmpty"
      BY <1>0, <2>3, PostedType DEF EnterEmpty, LeaveEmpty, Goto, TypeOK
    <3>2. fullSem' = fullSem /\ \A u \in Threads : pc[u] = "inFull" => pc'[u] = "inFull"
      BY <2>3 DEF EnterEmpty, LeaveEmpty, Goto, TypeOK
    <3> QED BY <2>1, <3>1, <3>2 DEF TurnstilesOpen
  <2>4. CASE EndSleep(t) \/ DieOutside(t)
    <3>1. /\ UNCHANGED semVars
          /\ \A u \in Threads : pc[u] \in {"inFull", "inEmpty"} => pc'[u] = pc[u]
      BY <2>4 DEF EndSleep, DieOutside, Goto, TypeOK
    <3> QED BY <2>1, <3>1 DEF TurnstilesOpen, semVars
  <2> QED BY <1>2, <2>2, <2>3, <2>4 DEF Aside, EnterStep, PassStep
<1>3. ASSUME NEW t \in Threads, Lock(t) \/ DieInside(t)
      PROVE  TurnstilesOpen'
  <2>1. /\ UNCHANGED <<lineNumber, endOfFile, emptySem, fullSem>>
        /\ \A u \in Threads : pc[u] \in {"inFull", "inEmpty", "torn"} => pc'[u] = pc[u]
    BY <1>3 DEF Lock, DieInside, Inside, Goto, TypeOK, bufferVars, semVars
  <2> QED BY <2>1 DEF TurnstilesOpen, Torn, Threads
<1>4. ASSUME NEW t \in Threads, DieStoring(t)
      PROVE  TurnstilesOpen'
  <2>1. /\ UNCHANGED semVars /\ Torn'
        /\ \A u \in Threads : pc[u] \in {"inFull", "inEmpty"} => pc'[u] = pc[u]
    BY <1>4 DEF DieStoring, Inside, Goto, TypeOK, Torn
  <2> QED BY <2>1 DEF TurnstilesOpen, semVars
<1>5. CASE MainStep \/ UNCHANGED vars
  <2>1. UNCHANGED <<bufferVars, semVars, pc, endOfFile>>
    BY <1>5 DEF MainStep, Join, WakeUp, Cancel, Close, Return, MainGoes, vars, bufferVars, semVars
  <2> QED BY <2>1 DEF TurnstilesOpen, Torn, bufferVars, semVars
<1> QED BY <1>1, <1>2, <1>3, <1>4, <1>5 DEF Next, DieStep, Aside, Terminated

\* Nobody is kept at a turnstile: emptySem is open from the first chunk or the
\* end of the file on, and fullSem always, up to the thread that is passing it
\* (main.c:72-73, 102, 108-111, 135-136, 165-168, 215).
THEOREM TurnstilesStayOpen == Spec => []TurnstilesOpen
<1>1. Init => TurnstilesOpen
  BY DEF Init, BufferInit, TurnstilesOpen
<1> QED BY <1>1, LockInvariant, TurnstilesStep, PTL DEF Spec

-----------------------------------------------------------------------------
(* What is printed                                                         *)

\* Away from TakeLine and StoreLine the output stays exact.
LEMMA PrintedUnchanged ==
    ASSUME PrintedExactly, UNCHANGED <<printed, Taken>>, Torn' <=> Torn
    PROVE  PrintedExactly'
  BY DEF PrintedExactly, PrintedUpTo

\* Taking sem or dying with it leaves the buffer alone, and the torn producer,
\* if there is one, where it is.
LEMMA HolderMoves ==
    ASSUME LockInv, NEW t \in Threads, Lock(t) \/ DieInside(t)
    PROVE  UNCHANGED bufferVars /\ (Torn' <=> Torn)
  BY DEF Lock, DieInside, Inside, Goto, Torn, LockInv, TypeOK, Threads

LEMMA MainMoves ==
    ASSUME MainStep \/ UNCHANGED vars
    PROVE  UNCHANGED <<bufferVars, semVars, pc, endOfFile>> /\ (Torn' <=> Torn)
  BY DEF MainStep, Join, WakeUp, Cancel, Close, Return, MainGoes, Torn, vars,
         bufferVars, semVars

LEMMA PrintedStep == LockInv /\ PrintedExactly /\ [Next]_vars => PrintedExactly'
<1> SUFFICES ASSUME LockInv, PrintedExactly, [Next]_vars
             PROVE  PrintedExactly'
  OBVIOUS
<1>1. ASSUME NEW t \in Threads, CallStep(t)
      PROVE  PrintedExactly'
  <2>1. CASE AddLine(t)
    <3>1. ~Torn /\ RingOK /\ BufferTypeOK /\ ~Torn'
      BY <2>1, InsideSeesRing, LeaveKeepsLock DEF AddLine
    <3>2. Taken' = Taken /\ printed' = printed
      BY <2>1, <3>1, PutLineRing DEF AddLine, PutLine
    <3> QED BY <3>1, <3>2, PrintedUnchanged
  <2>2. CASE RemoveLine(t)
    <3>1. ~Torn /\ RingOK /\ BufferTypeOK /\ ~Torn'
      BY <2>2, InsideSeesRing, LeaveKeepsLock DEF RemoveLine
    <3>2. PrintedUpTo(Taken)'
      BY <2>2, <3>1, TakeLinePrinted DEF RemoveLine, PrintedExactly
    <3> QED BY <3>1, <3>2 DEF PrintedExactly
  <2>3. CASE AddFull(t) \/ AddEOF(t) \/ AddPoll(t) \/ RemoveEmpty(t) \/ RemoveEnd(t)
    <3>1. ~Torn /\ ~Torn'
      BY <2>3, InsideSeesRing, LeaveKeepsLock DEF AddFull, AddEOF, AddPoll, RemoveEmpty, RemoveEnd
    <3>2. UNCHANGED <<printed, Taken>>
      BY <2>3 DEF AddFull, AddEOF, AddPoll, RemoveEmpty, RemoveEnd, bufferVars, Taken
    <3> QED BY <3>1, <3>2, PrintedUnchanged
  <2>4. CASE AddAfterClose(t)
    BY <2>4, PrintedUnchanged DEF AddAfterClose, Torn, bufferVars, Taken
  <2> QED BY <1>1, <2>1, <2>2, <2>3, <2>4 DEF CallStep
<1>2. ASSUME NEW t \in Threads, Aside(t) \/ Lock(t) \/ DieInside(t)
      PROVE  PrintedExactly'
  <2>1. UNCHANGED bufferVars /\ (Torn' <=> Torn)
    BY <1>2, AsideMoves, HolderMoves
  <2> QED BY <2>1, PrintedUnchanged DEF bufferVars, Taken
<1>3. ASSUME NEW t \in Threads, DieStoring(t)
      PROVE  PrintedExactly'
  <2>1. ~Torn /\ Torn'
    BY <1>3, InsideSeesRing DEF DieStoring, Goto, Torn, LockInv, TypeOK
  <2>2. Taken' - 1 = Taken /\ printed' = printed
    BY <1>3 DEF DieStoring, StoreLine, Taken, LockInv, TypeOK, BufferTypeOK
  <2> QED BY <2>1, <2>2 DEF PrintedExactly, PrintedUpTo
<1>4. CASE MainStep \/ UNCHANGED vars
  BY <1>4, MainMoves, PrintedUnchanged DEF bufferVars, Taken
<1> QED BY <1>1, <1>2, <1>3, <1>4 DEF Next, DieStep, Aside, Terminated

\* Whichever threads run, pass a turnstile, or are cancelled, the lines printed
\* are those the search selects among the chunks taken, once each and in file
\* order (main.c:147-163).
THEOREM PrintsExactly == Spec => []PrintedExactly
<1>1. Init => PrintedExactly
  <2> SUFFICES ASSUME Init PROVE PrintedExactly
    OBVIOUS
  <2>1. ~Torn
    BY DEF Init, Torn, Threads
  <2>2. PrintedUpTo(Taken)
    BY InitBuffer DEF Init
  <2> QED BY <2>1, <2>2 DEF PrintedExactly
<1> QED BY <1>1, LockInvariant, PrintedStep, PTL DEF Spec

\* The lock, the buffer, the output and those who wait, together (main.c:65-173).
THEOREM SafetyHolds == Spec => []Safety
<1>1. TypeOK /\ SemOK /\ BufferConsistent /\ PrintedExactly /\ TurnstilesOpen => Safety
  BY DEF Safety
<1> QED BY <1>1, TypeCorrect, RingSafe, PrintsExactly, TurnstilesStayOpen, PTL

\* Nothing is written to the buffer after a producer died between storing a
\* chunk and counting it (main.c:87-94, 243).
THEOREM TornLocked == Spec => TornStaysLocked
<1>1. LockInv /\ [Next]_vars => [Torn => UNCHANGED bufferVars]_vars
  <2> SUFFICES ASSUME LockInv, Next, Torn PROVE UNCHANGED bufferVars
    OBVIOUS
  <2>1. ASSUME NEW t \in Threads PROVE ~CallStep(t) /\ ~DieStoring(t)
    BY InsideSeesRing DEF CallStep, AddFull, AddLine, AddEOF, AddPoll,
       AddAfterClose, RemoveEmpty, RemoveEnd, RemoveLine, DieStoring
  <2>2. ASSUME NEW t \in Threads, Aside(t) \/ Lock(t) \/ DieInside(t)
        PROVE  UNCHANGED bufferVars
    BY <2>2, AsideMoves, HolderMoves
  <2>3. CASE MainStep \/ UNCHANGED vars
    BY <2>3, MainMoves
  <2> QED BY <2>1, <2>2, <2>3 DEF Next, DieStep, Aside, Terminated
<1> QED BY <1>1, LockInvariant, PTL DEF Spec, TornStaysLocked

-----------------------------------------------------------------------------
(* The end of the file, with timeout 0                                     *)

\* A thread that has returned saw the end: no producer has anything left to
\* read, and after the first consumer returned nobody adds a chunk again.
EndInv ==
    ~Timed =>
      /\ cancelled = {}
      /\ main \in {"join", "closed", "exited"}
      /\ endOfFile => lineNumber = NumLines
      /\ \A t \in Consumers : pc[t] = "done" => endOfFile /\ numberOfElements = 0
      /\ main # "join" => \A t \in Threads : pc[t] = "done"

LEMMA EndInvStep == LockInv /\ EndInv /\ [Next]_vars => EndInv'
<1> SUFFICES ASSUME LockInv, EndInv, [Next]_vars, ~Timed PROVE EndInv'
  BY DEF EndInv
<1> USE DEF LockInv, TypeOK, BufferTypeOK
<1>0. /\ cancelled = {}
      /\ main \in {"join", "closed", "exited"}
      /\ endOfFile => lineNumber = NumLines
      /\ \A t \in Consumers : pc[t] = "done" => endOfFile /\ numberOfElements = 0
      /\ main # "join" => \A t \in Threads : pc[t] = "done"
  BY DEF EndInv
<1>1. ASSUME NEW t \in Threads, CallStep(t)
      PROVE  EndInv'
  <2>1. main = "join" /\ cancelled' = {} /\ main' \in {"join", "crashed"}
    BY <1>0, <1>1 DEF CallStep, AddFull, AddLine, AddEOF, AddPoll, AddAfterClose,
       RemoveEmpty, RemoveEnd, RemoveLine, Inside, Leave
  <2>2. CASE AddFull(t) \/ RemoveEmpty(t) \/ RemoveEnd(t)
    BY <1>0, <2>1, <2>2, ThreadAssumption
       DEF AddFull, RemoveEmpty, RemoveEnd, Leave, Goto, bufferVars, EndInv, Threads
  <2>3. CASE AddLine(t)
    BY <1>0, <2>1, <2>3, NumLinesNat, ThreadAssumption
       DEF AddLine, PutLine, StoreLine, Leave, Goto, EndInv, Threads
  <2>4. CASE AddEOF(t)
    BY <1>0, <2>1, <2>4, ThreadAssumption DEF AddEOF, Leave, Goto, bufferVars, EndInv, Threads
  <2>5. CASE RemoveLine(t)
    BY <1>0, <2>1, <2>5, ThreadAssumption
       DEF RemoveLine, TakeLine, Leave, Goto, EndInv, Threads
  <2>6. ~AddPoll(t) /\ ~AddAfterClose(t)
    BY DEF AddPoll, AddAfterClose
  <2> QED BY <1>1, <2>2, <2>3, <2>4, <2>5, <2>6 DEF CallStep
<1>2. ASSUME NEW t \in Threads, Lock(t) \/ EnterStep(t) \/ PassStep(t) \/ EndSleep(t)
      PROVE  EndInv'
  <2>1. /\ UNCHANGED <<bufferVars, endOfFile, cancelled, main>>
        /\ pc[t] # "done"
        /\ \E place \in Places \ {"done"} : pc' = [pc EXCEPT ![t] = place]
    BY <1>2 DEF Lock, EnterStep, EnterFull, EnterEmpty, PassStep, LeaveFull,
                LeaveEmpty, EndSleep, Goto, Places
  <2> QED BY <1>0, <2>1 DEF EndInv, bufferVars, Threads
<1>3. ASSUME NEW t \in Threads PROVE ~DieStep(t)
  BY <1>0 DEF DieStep, DieOutside, DieInside, DieStoring
<1>4. CASE MainStep \/ UNCHANGED vars
  BY <1>0, <1>4 DEF MainStep, Join, WakeUp, Cancel, Close, Return, MainGoes, vars,
                    bufferVars, EndInv
<1> QED BY <1>1, <1>2, <1>3, <1>4 DEF Next, Terminated

\* When main has joined its threads the whole file has been read and searched,
\* for any number of producers that meet its end one after the other
\* (main.c:98-106, 141-145, 234-238).
THEOREM JoinedSearchedAll == Spec => []JoinedMeansAllSearched
<1>1. Init => EndInv
  BY DEF Init, EndInv, Threads
<1>2. EndInv => JoinedMeansAllSearched
  BY ThreadAssumption DEF EndInv, JoinedMeansAllSearched, Threads
<1> QED BY <1>1, <1>2, LockInvariant, EndInvStep, PTL DEF Spec

-----------------------------------------------------------------------------
(* Refinement                                                              *)

LEMMA RefinesInit == Init => Abstract!Init
<1> SUFFICES ASSUME Init PROVE Abstract!Init
  OBVIOUS
<1>1. ~Torn
  BY DEF Init, Torn, Threads
<1>2. Queued = <<>>
  BY DEF Init, BufferInit, Queued
<1> QED BY <1>1, <1>2 DEF Abstract!Init, Init, BufferInit

\* A step that touches neither the ring nor `torn' is a stutter.
LEMMA RefinesStutter ==
    ASSUME UNCHANGED bufferVars, Torn' <=> Torn
    PROVE  UNCHANGED Abstract!vars
<1>1. Queued' = Queued
  BY DEF Queued, bufferVars, Wrap
<1> QED BY <1>1 DEF Abstract!vars, bufferVars

LEMMA RefinesStep == LockInv /\ [Next]_vars => [Abstract!Next]_(Abstract!vars)
<1> SUFFICES ASSUME LockInv, [Next]_vars
             PROVE  Abstract!Next \/ UNCHANGED Abstract!vars
  OBVIOUS
<1>1. ASSUME NEW t \in Threads, CallStep(t)
      PROVE  Abstract!Next \/ UNCHANGED Abstract!vars
  <2>1. CASE AddLine(t)
    <3>1. ~Torn /\ RingOK /\ BufferTypeOK /\ ~Torn'
      BY <2>1, InsideSeesRing, LeaveKeepsLock DEF AddLine
    <3>2. Len(Queued) = numberOfElements /\ Queued' = Append(Queued, lineNumber + 1)
      BY <2>1, <3>1, PutLineQueued DEF AddLine
    <3>3. /\ numberOfElements < BufferLength /\ lineNumber < NumLines
          /\ lineNumber' = lineNumber + 1 /\ printed' = printed
      BY <2>1, <3>1, BufferAssumption DEF AddLine, PutLine, StoreLine, BufferTypeOK
    <3>4. Abstract!Read
      BY <3>1, <3>2, <3>3 DEF Abstract!Read
    <3> QED BY <3>4 DEF Abstract!Next
  <2>2. CASE RemoveLine(t)
    <3>1. ~Torn /\ RingOK /\ BufferTypeOK /\ ~Torn'
      BY <2>2, InsideSeesRing, LeaveKeepsLock DEF RemoveLine
    <3>2. /\ Queued # <<>> /\ Head(Queued) = BUFFER[consumerPos]
          /\ Queued' = Tail(Queued)
      BY <2>2, <3>1, TakeLineQueued DEF RemoveLine
    <3>3. /\ lineNumber' = lineNumber
          /\ printed' = IF Matches(BUFFER[consumerPos])
                        THEN Append(printed, BUFFER[consumerPos]) ELSE printed
      BY <2>2 DEF RemoveLine, TakeLine
    <3>4. Abstract!Deliver
      BY <3>1, <3>2, <3>3 DEF Abstract!Deliver
    <3> QED BY <3>4 DEF Abstract!Next
  <2>3. CASE AddFull(t) \/ AddEOF(t) \/ AddPoll(t) \/ RemoveEmpty(t) \/ RemoveEnd(t)
    <3>1. ~Torn /\ ~Torn'
      BY <2>3, InsideSeesRing, LeaveKeepsLock DEF AddFull, AddEOF, AddPoll, RemoveEmpty, RemoveEnd
    <3>2. UNCHANGED bufferVars
      BY <2>3 DEF AddFull, AddEOF, AddPoll, RemoveEmpty, RemoveEnd
    <3> QED BY <3>1, <3>2, RefinesStutter
  <2>4. CASE AddAfterClose(t)
    BY <2>4, RefinesStutter DEF AddAfterClose, Torn
  <2> QED BY <1>1, <2>1, <2>2, <2>3, <2>4 DEF CallStep
<1>2. ASSUME NEW t \in Threads, Aside(t) \/ Lock(t) \/ DieInside(t)
      PROVE  UNCHANGED Abstract!vars
  BY <1>2, AsideMoves, HolderMoves, RefinesStutter
<1>3. ASSUME NEW t \in Threads, DieStoring(t)
      PROVE  UNCHANGED Abstract!vars
  <2>1. ~Torn /\ Torn' /\ RingOK /\ BufferTypeOK
    BY <1>3, InsideSeesRing DEF DieStoring, Goto, Torn, LockInv, TypeOK
  <2>2. Queued' = Queued
    BY <1>3, <2>1, StoreLineQueued DEF DieStoring
  <2>3. lineNumber' - 1 = lineNumber /\ printed' = printed
    BY <1>3, <2>1 DEF DieStoring, StoreLine, BufferTypeOK
  <2> QED BY <2>1, <2>2, <2>3 DEF Abstract!vars
<1>4. CASE MainStep \/ UNCHANGED vars
  BY <1>4, MainMoves, RefinesStutter
<1> QED BY <1>1, <1>2, <1>3, <1>4 DEF Next, DieStep, Aside, Terminated

\* The program implements one bounded first-in first-out queue between the
\* file and the search, for any number of threads, any file, any buffer length
\* and any SEM_VALUE_MAX, cancellations included (main.c:65-201).
THEOREM Refinement == Spec => ImplementsQueue
<1> QED BY RefinesInit, RefinesStep, LockInvariant, PTL
        DEF Spec, ImplementsQueue, Abstract!Spec
=============================================================================
