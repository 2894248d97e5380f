----------------------- MODULE ProdConsMonitorProofs ------------------------
(***************************************************************************)
(* Safety of SysOpy/lab9/src/zad1/main.c for any number of threads, any    *)
(* file, any buffer length and any search, with and without a timeout.     *)
(***************************************************************************)
EXTENDS ProdConsMonitor, LineBufferProofs

\* The lock and what it protects.  None of the parts is inductive alone: that
\* the ring stays a ring needs that only the owner of the mutex touches it,
\* and that nobody owns it together with a torn producer.
LockInv == TypeOK /\ MutexOK /\ BufferConsistent

LEMMA InitLockInv == Init => LockInv
<1> SUFFICES ASSUME Init PROVE LockInv
  OBVIOUS
<1>1. BufferTypeOK /\ RingOK
  BY InitBuffer DEF Init
<1>2. TypeOK
  BY <1>1 DEF Init, TypeOK, Places
<1>3. MutexOK
  BY ThreadAssumption DEF Init, MutexOK, Threads
<1> QED BY <1>1, <1>2, <1>3 DEF LockInv, BufferConsistent

\* The state in which a thread starts the body of a call: it owns the mutex
\* and the buffer it sees is a ring.
LEMMA InsideSeesRing ==
    ASSUME LockInv, NEW t \in Threads, Inside(t)
    PROVE  ~Torn /\ RingOK /\ BufferTypeOK
<1>1. ~Torn
  BY ThreadAssumption DEF LockInv, MutexOK, Inside, Torn, Threads
<1> QED BY <1>1 DEF LockInv, BufferConsistent, TypeOK

\* Leaving a critical section for a place outside keeps the lock's invariant,
\* whoever is woken.
LEMMA LeaveKeepsLock ==
    ASSUME LockInv, NEW t \in Threads, Inside(t),
           NEW next \in {"waitFull", "waitEmpty", "usleep", "done"},
           NEW woken \in SUBSET {"waitFull", "waitEmpty"},
           Leave(t, next, woken)
    PROVE  /\ mutex' = NoThread
           /\ pc' \in [Threads -> Places]
           /\ MutexOK' /\ ~Torn'
<1> USE DEF LockInv, Inside, Leave
<1>1. pc' \in [Threads -> Places]
  BY DEF TypeOK, Places
<1>2. \A u \in Threads : pc'[u] \notin {"in", "torn"}
  <2> TAKE u \in Threads
  <2>1. u # t => pc[u] \notin {"in", "torn"}
    BY DEF MutexOK
  <2> QED BY <2>1
<1>3. MutexOK'
  BY <1>2, ThreadAssumption DEF MutexOK
<1>4. ~Torn'
  BY <1>2 DEF Torn, Threads
<1> QED BY <1>1, <1>3, <1>4

LEMMA LockInvStep == LockInv /\ [Next]_vars => LockInv'
<1> SUFFICES ASSUME LockInv, [Next]_vars PROVE LockInv'
  OBVIOUS
<1> USE DEF LockInv
<1>1. ASSUME NEW t \in Threads, Lock(t)
      PROVE  LockInv'
  <2>1. TypeOK'
    BY <1>1 DEF Lock, TypeOK, BufferTypeOK, bufferVars, Places
  <2>2. MutexOK'
    BY <1>1, ThreadAssumption DEF Lock, MutexOK, TypeOK
  <2>3. BufferConsistent'
    <3>1. ~Torn
      BY <1>1, ThreadAssumption DEF Lock, Torn, MutexOK, Threads
    <3> QED BY <1>1, <3>1 DEF Lock, BufferConsistent, RingOK, Taken, bufferVars
  <2> QED BY <2>1, <2>2, <2>3
<1>2. ASSUME NEW t \in Threads, CallStep(t)
      PROVE  LockInv'
  <2>1. CASE AddFull(t)
    <3>1. /\ pc' \in [Threads -> Places] /\ MutexOK' /\ mutex' = NoThread
      BY <2>1, LeaveKeepsLock DEF AddFull
    <3>2. RingOK /\ BufferTypeOK
      BY <2>1, InsideSeesRing DEF AddFull
    <3> QED BY <2>1, <3>1, <3>2 DEF AddFull, Leave, TypeOK, BufferTypeOK, BufferConsistent, RingOK, Taken, bufferVars
  <2>2. CASE AddLine(t)
    <3>1. /\ pc' \in [Threads -> Places] /\ MutexOK' /\ mutex' = NoThread
      BY <2>2, LeaveKeepsLock DEF AddLine
    <3>2. RingOK /\ BufferTypeOK
      BY <2>2, InsideSeesRing DEF AddLine
    <3>3. RingOK' /\ BufferTypeOK'
      BY <2>2, <3>2, PutLineRing DEF AddLine
    <3> QED BY <2>2, <3>1, <3>3 DEF AddLine, Leave, TypeOK, BufferConsistent
  <2>3. CASE AddEOF(t)
    <3>1. /\ pc' \in [Threads -> Places] /\ MutexOK' /\ mutex' = NoThread
      BY <2>3, LeaveKeepsLock DEF AddEOF
    <3>2. RingOK /\ BufferTypeOK
      BY <2>3, InsideSeesRing DEF AddEOF
    <3> QED BY <2>3, <3>1, <3>2 DEF AddEOF, Leave, TypeOK, BufferTypeOK, BufferConsistent, RingOK, Taken, bufferVars
  <2>4. CASE AddPoll(t)
    <3>1. /\ pc' \in [Threads -> Places] /\ MutexOK' /\ mutex' = NoThread
      BY <2>4, LeaveKeepsLock DEF AddPoll
    <3>2. RingOK /\ BufferTypeOK
      BY <2>4, InsideSeesRing DEF AddPoll
    <3> QED BY <2>4, <3>1, <3>2 DEF AddPoll, Leave, TypeOK, BufferTypeOK, BufferConsistent, RingOK, Taken, bufferVars
  <2>5. CASE AddAfterClose(t)
    BY <2>5 DEF AddAfterClose, TypeOK, MutexOK, BufferConsistent, BufferTypeOK, RingOK, Taken, Torn, bufferVars
  <2>6. CASE RemoveEmpty(t)
    <3>1. /\ pc' \in [Threads -> Places] /\ MutexOK' /\ mutex' = NoThread
      BY <2>6, LeaveKeepsLock DEF RemoveEmpty
    <3>2. RingOK /\ BufferTypeOK
      BY <2>6, InsideSeesRing DEF RemoveEmpty
    <3> QED BY <2>6, <3>1, <3>2 DEF RemoveEmpty, Leave, TypeOK, BufferTypeOK, BufferConsistent, RingOK, Taken, bufferVars
  <2>7. CASE RemoveEnd(t)
    <3>1. /\ pc' \in [Threads -> Places] /\ MutexOK' /\ mutex' = NoThread
      BY <2>7, LeaveKeepsLock DEF RemoveEnd
    <3>2. RingOK /\ BufferTypeOK
      BY <2>7, InsideSeesRing DEF RemoveEnd
    <3> QED BY <2>7, <3>1, <3>2 DEF RemoveEnd, Leave, TypeOK, BufferTypeOK, BufferConsistent, RingOK, Taken, bufferVars
  <2>8. CASE RemoveLine(t)
    <3>1. /\ pc' \in [Threads -> Places] /\ MutexOK' /\ mutex' = NoThread
      BY <2>8, LeaveKeepsLock DEF RemoveLine
    <3>2. RingOK /\ BufferTypeOK
      BY <2>8, InsideSeesRing DEF RemoveLine
    <3>3. RingOK' /\ BufferTypeOK'
      BY <2>8, <3>2, TakeLineRing DEF RemoveLine
    <3> QED BY <2>8, <3>1, <3>3 DEF RemoveLine, Leave, TypeOK, BufferConsistent
  <2> QED BY <1>2, <2>1, <2>2, <2>3, <2>4, <2>5, <2>6, <2>7, <2>8 DEF CallStep
<1>3. ASSUME NEW t \in Threads, SpuriousWake(t) \/ Relock(t) \/ EndSleep(t) \/ DieAtSleep(t)
      PROVE  LockInv'
  <2>1. /\ UNCHANGED <<bufferVars, mutex, endOfFile, cancelled, main>>
        /\ \E place \in {"relock", "usleep", "call", "dead"} : pc' = [pc EXCEPT ![t] = place]
        /\ pc[t] \notin {"in", "torn", "dead"}
    BY <1>3 DEF SpuriousWake, Relock, EndSleep, DieAtSleep
  <2>2. mutex # t
    BY <2>1 DEF MutexOK
  <2>3. TypeOK'
    BY <2>1 DEF TypeOK, BufferTypeOK, bufferVars, Places
  <2>4. MutexOK'
    BY <2>1, <2>2 DEF MutexOK, TypeOK
  <2>5. Torn' <=> Torn
    BY <2>1 DEF Torn, TypeOK, Threads
  <2> QED BY <2>1, <2>3, <2>4, <2>5 DEF BufferConsistent, RingOK, Taken, bufferVars
<1>4. ASSUME NEW t \in Threads, DieWaiting(t)
      PROVE  LockInv'
  <2>1. TypeOK'
    BY <1>4 DEF DieWaiting, TypeOK, BufferTypeOK, bufferVars, Places
  <2>2. MutexOK'
    BY <1>4, ThreadAssumption DEF DieWaiting, MutexOK, TypeOK
  <2>3. Torn' <=> Torn
    BY <1>4 DEF DieWaiting, Torn, TypeOK, Threads
  <2> QED BY <1>4, <2>1, <2>2, <2>3 DEF DieWaiting, BufferConsistent, RingOK, Taken, bufferVars
<1>5. ASSUME NEW t \in Threads, DieInside(t)
      PROVE  LockInv'
  <2>1. TypeOK'
    BY <1>5 DEF DieInside, TypeOK, BufferTypeOK, bufferVars, Places
  <2>2. MutexOK'
    BY <1>5 DEF DieInside, Inside, MutexOK, TypeOK
  <2>3. Torn' <=> Torn
    BY <1>5 DEF DieInside, Inside, Torn, TypeOK, Threads
  <2> QED BY <1>5, <2>1, <2>2, <2>3 DEF DieInside, BufferConsistent, RingOK, Taken, bufferVars
<1>6. ASSUME NEW t \in Threads, DieStoring(t)
      PROVE  LockInv'
  <2>1. TypeOK'
    <3>1. lineNumber' \in 0 .. NumLines /\ BUFFER' \in [Slots -> 0 .. NumLines]
      BY <1>6, NumLinesNat DEF DieStoring, StoreLine, TypeOK, BufferTypeOK
    <3> QED BY <1>6, <3>1 DEF DieStoring, TypeOK, BufferTypeOK, Places
  <2>2. MutexOK'
    BY <1>6 DEF DieStoring, Inside, MutexOK, TypeOK
  <2>3. Torn'
    BY <1>6 DEF DieStoring, Torn, TypeOK
  <2> QED BY <2>1, <2>2, <2>3 DEF BufferConsistent
<1>7. CASE MainStep \/ UNCHANGED vars
  <2>1. /\ UNCHANGED <<bufferVars, mutex, pc, endOfFile>>
        /\ cancelled' \subseteq Threads
        /\ main' \in {"join", "sleep", "cancel", "closed", "exited", "crashed"}
    BY <1>7 DEF MainStep, Join, WakeUp, Cancel, Close, Return, TypeOK, vars, bufferVars
  <2> QED BY <2>1 DEF TypeOK, MutexOK, BufferConsistent, BufferTypeOK, RingOK, Taken, Torn, bufferVars
<1> QED BY <1>1, <1>2, <1>3, <1>4, <1>5, <1>6, <1>7 DEF Next, DieStep, Terminated

\* Every variable keeps its type: no position leaves the buffer and no count
\* leaves 0 .. bufferLength, whatever the threads do (main.c:90-97, 159-163).
THEOREM TypeCorrect == Spec => []TypeOK
<1>1. LockInv => TypeOK
  BY DEF LockInv
<1> QED BY <1>1, InitLockInv, LockInvStep, PTL DEF Spec

\* The mutex excludes, and the buffer is a ring of the chunks read and not yet
\* taken, in file order, whenever it can be seen (main.c:69-173).
THEOREM RingSafe == Spec => [](MutexOK /\ BufferConsistent)
<1>1. LockInv => MutexOK /\ BufferConsistent
  BY DEF LockInv
<1> QED BY <1>1, InitLockInv, LockInvStep, PTL DEF Spec

-----------------------------------------------------------------------------
(* What is printed                                                         *)

\* Away from TakeLine and StoreLine the output stays exact.
LEMMA PrintedUnchanged ==
    ASSUME PrintedExactly, UNCHANGED <<printed, Taken>>, Torn' <=> Torn
    PROVE  PrintedExactly'
  BY DEF PrintedExactly, PrintedUpTo

LEMMA PrintedStep == LockInv /\ LockInv' /\ PrintedExactly /\ [Next]_vars => PrintedExactly'
<1> SUFFICES ASSUME LockInv, LockInv', PrintedExactly, [Next]_vars
             PROVE  PrintedExactly'
  OBVIOUS
<1>1. ASSUME NEW t \in Threads, CallStep(t)
      PROVE  PrintedExactly'
  <2>1. CASE AddLine(t)
    <3>1. ~Torn /\ RingOK /\ BufferTypeOK /\ ~Torn'
      BY <2>1, InsideSeesRing, LeaveKeepsLock DEF AddLine
    <3>2. Taken' = Taken /\ printed' = printed
      BY <2>1, <3>1, PutLineRing DEF AddLine, PutLine
    <3> QED BY <3>1, <3>2, PrintedUnchanged
  <2>2. CASE RemoveLine(t)
    <3>1. ~Torn /\ RingOK /\ BufferTypeOK /\ ~Torn'
      BY <2>2, InsideSeesRing, LeaveKeepsLock DEF RemoveLine
    <3>2. PrintedUpTo(Taken)'
      BY <2>2, <3>1, TakeLinePrinted DEF RemoveLine, PrintedExactly
    <3> QED BY <3>1, <3>2 DEF PrintedExactly
  <2>3. CASE AddFull(t) \/ AddEOF(t) \/ AddPoll(t) \/ RemoveEmpty(t) \/ RemoveEnd(t)
    <3>1. ~Torn /\ ~Torn'
      BY <2>3, InsideSeesRing, LeaveKeepsLock DEF AddFull, AddEOF, AddPoll, RemoveEmpty, RemoveEnd
    <3>2. UNCHANGED <<printed, Taken>>
      BY <2>3 DEF AddFull, AddEOF, AddPoll, RemoveEmpty, RemoveEnd, bufferVars, Taken
    <3> QED BY <3>1, <3>2, PrintedUnchanged
  <2>4. CASE AddAfterClose(t)
    BY <2>4, PrintedUnchanged DEF AddAfterClose, Torn, bufferVars, Taken
  <2> QED BY <1>1, <2>1, <2>2, <2>3, <2>4 DEF CallStep
<1>2. ASSUME NEW t \in Threads,
             \/ Lock(t) \/ SpuriousWake(t) \/ Relock(t) \/ EndSleep(t)
             \/ DieAtSleep(t) \/ DieWaiting(t) \/ DieInside(t)
      PROVE  PrintedExactly'
  <2>1. Torn' <=> Torn
    BY <1>2 DEF Lock, SpuriousWake, Relock, EndSleep, DieAtSleep, DieWaiting,
                DieInside, Inside, Torn, LockInv, TypeOK, Threads
  <2>2. UNCHANGED <<printed, Taken>>
    BY <1>2 DEF Lock, SpuriousWake, Relock, EndSleep, DieAtSleep, DieWaiting,
                DieInside, bufferVars, Taken
  <2> QED BY <2>1, <2>2, PrintedUnchanged
<1>3. ASSUME NEW t \in Threads, DieStoring(t)
      PROVE  PrintedExactly'
  <2>1. ~Torn /\ Torn'
    BY <1>3, InsideSeesRing DEF DieStoring, Torn, LockInv, TypeOK
  <2>2. Taken' - 1 = Taken /\ printed' = printed
    BY <1>3 DEF DieStoring, StoreLine, Taken, LockInv, TypeOK, BufferTypeOK
  <2> QED BY <2>1, <2>2 DEF PrintedExactly, PrintedUpTo
<1>4. CASE MainStep \/ UNCHANGED vars
  <2>1. UNCHANGED <<bufferVars, pc>>
    BY <1>4 DEF MainStep, Join, WakeUp, Cancel, Close, Return, vars, bufferVars
  <2> QED BY <2>1, PrintedUnchanged DEF Torn, bufferVars, Taken
<1> QED BY <1>1, <1>2, <1>3, <1>4 DEF Next, DieStep, Terminated

\* Whichever threads run, wait, or are cancelled, the lines printed are those
\* the search selects among the chunks taken, once each and in file order
\* (main.c:147-163).
THEOREM PrintsExactly == Spec => []PrintedExactly
<1>1. Init => PrintedExactly
  <2> SUFFICES ASSUME Init PROVE PrintedExactly
    OBVIOUS
  <2>1. ~Torn
    BY DEF Init, Torn, Threads
  <2>2. PrintedUpTo(Taken)
    BY InitBuffer DEF Init
  <2> QED BY <2>1, <2>2 DEF PrintedExactly
<1> QED BY <1>1, InitLockInv, LockInvStep, PrintedStep, PTL DEF Spec

-----------------------------------------------------------------------------
(* Waiting                                                                 *)

LEMMA WakeupStep == LockInv /\ NoLostWakeup /\ [Next]_vars => NoLostWakeup'
<1> SUFFICES ASSUME LockInv, NoLostWakeup, [Next]_vars,
                    NEW u \in Threads
             PROVE  /\ pc'[u] = "waitFull" => numberOfElements' = BufferLength
                    /\ pc'[u] = "waitEmpty" => numberOfElements' = 0 /\ ~endOfFile'
  BY DEF NoLostWakeup
<1> USE DEF LockInv, TypeOK, BufferTypeOK
<1>0. /\ pc[u] = "waitFull" => numberOfElements = BufferLength
      /\ pc[u] = "waitEmpty" => numberOfElements = 0 /\ ~endOfFile
  BY DEF NoLostWakeup
<1>1. ASSUME NEW t \in Threads, CallStep(t)
      PROVE  /\ pc'[u] = "waitFull" => numberOfElements' = BufferLength
             /\ pc'[u] = "waitEmpty" => numberOfElements' = 0 /\ ~endOfFile'
  <2>1. CASE AddFull(t) \/ RemoveEmpty(t) \/ AddPoll(t) \/ RemoveEnd(t) \/ AddAfterClose(t)
    BY <1>0, <2>1, BufferAssumption
       DEF AddFull, RemoveEmpty, AddPoll, RemoveEnd, AddAfterClose, Leave, bufferVars
  <2>2. CASE AddLine(t)
    BY <1>0, <2>2, BufferAssumption DEF AddLine, PutLine, Leave
  <2>3. CASE AddEOF(t)
    BY <1>0, <2>3 DEF AddEOF, Leave, bufferVars
  <2>4. CASE RemoveLine(t)
    BY <1>0, <2>4, BufferAssumption DEF RemoveLine, TakeLine, Leave
  <2> QED BY <1>1, <2>1, <2>2, <2>3, <2>4 DEF CallStep
<1>2. ASSUME NEW t \in Threads,
             \/ Lock(t) \/ SpuriousWake(t) \/ Relock(t) \/ EndSleep(t) \/ DieStep(t)
      PROVE  /\ pc'[u] = "waitFull" => numberOfElements' = BufferLength
             /\ pc'[u] = "waitEmpty" => numberOfElements' = 0 /\ ~endOfFile'
  <2>1. UNCHANGED <<numberOfElements, endOfFile>>
    BY <1>2 DEF Lock, SpuriousWake, Relock, EndSleep, DieStep, DieAtSleep,
                DieWaiting, DieInside, DieStoring, bufferVars
  <2>2. \E place \in Places \ {"waitFull", "waitEmpty"} : pc' = [pc EXCEPT ![t] = place]
    BY <1>2 DEF Lock, SpuriousWake, Relock, EndSleep, DieStep, DieAtSleep,
                DieWaiting, DieInside, DieStoring, Places
  <2> QED BY <1>0, <2>1, <2>2
<1>3. CASE MainStep \/ UNCHANGED vars
  <2>1. UNCHANGED <<bufferVars, pc, endOfFile>>
    BY <1>3 DEF MainStep, Join, WakeUp, Cancel, Close, Return, vars, bufferVars
  <2> QED BY <1>0, <2>1 DEF bufferVars
<1> QED BY <1>1, <1>2, <1>3 DEF Next, Terminated

\* No producer waits while there is room and no consumer while there is a
\* chunk or the file has ended, for any number of waiters (main.c:75, 105,
\* 110, 136, 165).
THEOREM NoWakeupLost == Spec => []NoLostWakeup
<1>1. Init => NoLostWakeup
  BY DEF Init, NoLostWakeup
<1> QED BY <1>1, InitLockInv, LockInvStep, WakeupStep, PTL DEF Spec

\* The lock, the buffer, the output and those who wait, together (main.c:69-173).
THEOREM SafetyHolds == Spec => []Safety
<1>1. TypeOK /\ MutexOK /\ BufferConsistent /\ PrintedExactly /\ NoLostWakeup => Safety
  BY DEF Safety
<1> QED BY <1>1, TypeCorrect, RingSafe, PrintsExactly, NoWakeupLost, PTL

\* Nothing is written to the buffer after a producer died between storing a
\* chunk and counting it (main.c:90-97, 237).
THEOREM TornLocked == Spec => TornStaysLocked
<1>1. LockInv /\ [Next]_vars => [Torn => UNCHANGED bufferVars]_vars
  <2> SUFFICES ASSUME LockInv, Next, Torn PROVE UNCHANGED bufferVars
    OBVIOUS
  <2>1. \A t \in Threads : ~CallStep(t) \/ UNCHANGED bufferVars
    BY InsideSeesRing DEF CallStep, AddFull, AddLine, AddEOF, AddPoll,
       AddAfterClose, RemoveEmpty, RemoveEnd, RemoveLine
  <2>2. \A t \in Threads : ~DieStoring(t)
    BY InsideSeesRing DEF DieStoring
  <2> QED BY <2>1, <2>2 DEF Next, Lock, SpuriousWake, Relock, EndSleep, DieStep,
            DieAtSleep, DieWaiting, DieInside, MainStep, Join, WakeUp, Cancel,
            Close, Return, Terminated, vars, bufferVars
<1> QED BY <1>1, InitLockInv, LockInvStep, PTL DEF Spec, TornStaysLocked

-----------------------------------------------------------------------------
(* The end of the file, with timeout 0                                     *)

\* A thread that has returned saw the end: no producer has anything left to
\* read, and after the first consumer returned nobody adds a chunk again.
EndInv ==
    ~Timed =>
      /\ cancelled = {}
      /\ main \in {"join", "closed", "exited"}
      /\ endOfFile => lineNumber = NumLines
      /\ \A t \in Consumers : pc[t] = "done" => endOfFile /\ numberOfElements = 0
      /\ main # "join" => \A t \in Threads : pc[t] = "done"

LEMMA EndInvStep == LockInv /\ EndInv /\ [Next]_vars => EndInv'
<1> SUFFICES ASSUME LockInv, EndInv, [Next]_vars, ~Timed PROVE EndInv'
  BY DEF EndInv
<1> USE DEF LockInv, TypeOK, BufferTypeOK
<1>0. /\ cancelled = {}
      /\ main \in {"join", "closed", "exited"}
      /\ endOfFile => lineNumber = NumLines
      /\ \A t \in Consumers : pc[t] = "done" => endOfFile /\ numberOfElements = 0
      /\ main # "join" => \A t \in Threads : pc[t] = "done"
  BY DEF EndInv
<1>1. ASSUME NEW t \in Threads, CallStep(t)
      PROVE  EndInv'
  <2>1. main = "join" /\ cancelled' = {} /\ main' \in {"join", "crashed"}
    BY <1>0, <1>1 DEF CallStep, AddFull, AddLine, AddEOF, AddPoll, AddAfterClose,
       RemoveEmpty, RemoveEnd, RemoveLine, Inside, Leave
  <2>2. CASE AddFull(t) \/ RemoveEmpty(t) \/ RemoveEnd(t)
    BY <1>0, <2>1, <2>2, ThreadAssumption
       DEF AddFull, RemoveEmpty, RemoveEnd, Leave, bufferVars, EndInv, Threads
  <2>3. CASE AddLine(t)
    BY <1>0, <2>1, <2>3, NumLinesNat, ThreadAssumption
       DEF AddLine, PutLine, StoreLine, Leave, EndInv, Threads
  <2>4. CASE AddEOF(t)
    BY <1>0, <2>1, <2>4, ThreadAssumption DEF AddEOF, Leave, bufferVars, EndInv, Threads
  <2>5. CASE RemoveLine(t)
    BY <1>0, <2>1, <2>5, ThreadAssumption
       DEF RemoveLine, TakeLine, Leave, EndInv, Threads
  <2>6. ~AddPoll(t) /\ ~AddAfterClose(t)
    BY DEF AddPoll, AddAfterClose
  <2> QED BY <1>1, <2>2, <2>3, <2>4, <2>5, <2>6 DEF CallStep
<1>2. ASSUME NEW t \in Threads, Lock(t) \/ SpuriousWake(t) \/ Relock(t) \/ EndSleep(t)
      PROVE  EndInv'
  <2>1. /\ UNCHANGED <<bufferVars, endOfFile, cancelled, main>>
        /\ pc[t] # "done"
        /\ \E place \in Places \ {"done"} : pc' = [pc EXCEPT ![t] = place]
    BY <1>2 DEF Lock, SpuriousWake, Relock, EndSleep, Places
  <2> QED BY <1>0, <2>1 DEF EndInv, bufferVars, Threads
<1>3. ASSUME NEW t \in Threads PROVE ~DieStep(t)
  BY <1>0 DEF DieStep, DieAtSleep, DieWaiting, DieInside, DieStoring
<1>4. CASE MainStep \/ UNCHANGED vars
  BY <1>0, <1>4 DEF MainStep, Join, WakeUp, Cancel, Close, Return, vars, bufferVars, EndInv
<1> QED BY <1>1, <1>2, <1>3, <1>4 DEF Next, Terminated

\* When main has joined its threads the whole file has been read and searched,
\* for any number of producers that meet its end one after the other
\* (main.c:101-107, 141-145, 228-232).
THEOREM JoinedSearchedAll == Spec => []JoinedMeansAllSearched
<1>1. Init => EndInv
  BY DEF Init, EndInv, Threads
<1>2. EndInv => JoinedMeansAllSearched
  BY ThreadAssumption DEF EndInv, JoinedMeansAllSearched, Threads
<1> QED BY <1>1, <1>2, InitLockInv, LockInvStep, EndInvStep, PTL DEF Spec

-----------------------------------------------------------------------------
(* Refinement                                                              *)

LEMMA RefinesInit == Init => Abstract!Init
<1> SUFFICES ASSUME Init PROVE Abstract!Init
  OBVIOUS
<1>1. ~Torn
  BY DEF Init, Torn, Threads
<1>2. Queued = <<>>
  BY DEF Init, BufferInit, Queued
<1> QED BY <1>1, <1>2 DEF Abstract!Init, Init, BufferInit

\* A step that touches neither the ring nor `torn' is a stutter.
LEMMA RefinesStutter ==
    ASSUME UNCHANGED bufferVars, Torn' <=> Torn
    PROVE  UNCHANGED Abstract!vars
<1>1. Queued' = Queued
  BY DEF Queued, bufferVars, Wrap
<1> QED BY <1>1 DEF Abstract!vars, bufferVars

LEMMA RefinesStep == LockInv /\ [Next]_vars => [Abstract!Next]_(Abstract!vars)
<1> SUFFICES ASSUME LockInv, [Next]_vars
             PROVE  Abstract!Next \/ UNCHANGED Abstract!vars
  OBVIOUS
<1>1. ASSUME NEW t \in Threads, CallStep(t)
      PROVE  Abstract!Next \/ UNCHANGED Abstract!vars
  <2>1. CASE AddLine(t)
    <3>1. ~Torn /\ RingOK /\ BufferTypeOK /\ ~Torn'
      BY <2>1, InsideSeesRing, LeaveKeepsLock DEF AddLine
    <3>2. Len(Queued) = numberOfElements /\ Queued' = Append(Queued, lineNumber + 1)
      BY <2>1, <3>1, PutLineQueued DEF AddLine
    <3>3. /\ numberOfElements < BufferLength /\ lineNumber < NumLines
          /\ lineNumber' = lineNumber + 1 /\ printed' = printed
      BY <2>1, <3>1, BufferAssumption DEF AddLine, PutLine, StoreLine, BufferTypeOK
    <3>4. Abstract!Read
      BY <3>1, <3>2, <3>3 DEF Abstract!Read
    <3> QED BY <3>4 DEF Abstract!Next
  <2>2. CASE RemoveLine(t)
    <3>1. ~Torn /\ RingOK /\ BufferTypeOK /\ ~Torn'
      BY <2>2, InsideSeesRing, LeaveKeepsLock DEF RemoveLine
    <3>2. /\ Queued # <<>> /\ Head(Queued) = BUFFER[consumerPos]
          /\ Queued' = Tail(Queued)
      BY <2>2, <3>1, TakeLineQueued DEF RemoveLine
    <3>3. /\ lineNumber' = lineNumber
          /\ printed' = IF Matches(BUFFER[consumerPos])
                        THEN Append(printed, BUFFER[consumerPos]) ELSE printed
      BY <2>2 DEF RemoveLine, TakeLine
    <3>4. Abstract!Deliver
      BY <3>1, <3>2, <3>3 DEF Abstract!Deliver
    <3> QED BY <3>4 DEF Abstract!Next
  <2>3. CASE AddFull(t) \/ AddEOF(t) \/ AddPoll(t) \/ RemoveEmpty(t) \/ RemoveEnd(t)
    <3>1. ~Torn /\ ~Torn'
      BY <2>3, InsideSeesRing, LeaveKeepsLock DEF AddFull, AddEOF, AddPoll, RemoveEmpty, RemoveEnd
    <3>2. UNCHANGED bufferVars
      BY <2>3 DEF AddFull, AddEOF, AddPoll, RemoveEmpty, RemoveEnd
    <3> QED BY <3>1, <3>2, RefinesStutter
  <2>4. CASE AddAfterClose(t)
    BY <2>4, RefinesStutter DEF AddAfterClose, Torn
  <2> QED BY <1>1, <2>1, <2>2, <2>3, <2>4 DEF CallStep
<1>2. ASSUME NEW t \in Threads,
             \/ Lock(t) \/ SpuriousWake(t) \/ Relock(t) \/ EndSleep(t)
             \/ DieAtSleep(t) \/ DieWaiting(t) \/ DieInside(t)
      PROVE  UNCHANGED Abstract!vars
  <2>1. Torn' <=> Torn
    BY <1>2 DEF Lock, SpuriousWake, Relock, EndSleep, DieAtSleep, DieWaiting,
                DieInside, Inside, Torn, LockInv, TypeOK, Threads
  <2>2. UNCHANGED bufferVars
    BY <1>2 DEF Lock, SpuriousWake, Relock, EndSleep, DieAtSleep, DieWaiting,
                DieInside
  <2> QED BY <2>1, <2>2, RefinesStutter
<1>3. ASSUME NEW t \in Threads, DieStoring(t)
      PROVE  UNCHANGED Abstract!vars
  <2>1. ~Torn /\ Torn' /\ RingOK /\ BufferTypeOK
    BY <1>3, InsideSeesRing DEF DieStoring, Torn, LockInv, TypeOK
  <2>2. Queued' = Queued
    BY <1>3, <2>1, StoreLineQueued DEF DieStoring
  <2>3. lineNumber' - 1 = lineNumber /\ printed' = printed
    BY <1>3, <2>1 DEF DieStoring, StoreLine, BufferTypeOK
  <2> QED BY <2>1, <2>2, <2>3 DEF Abstract!vars
<1>4. CASE MainStep \/ UNCHANGED vars
  <2>1. UNCHANGED <<bufferVars, pc>>
    BY <1>4 DEF MainStep, Join, WakeUp, Cancel, Close, Return, vars, bufferVars
  <2> QED BY <2>1, RefinesStutter DEF Torn
<1> QED BY <1>1, <1>2, <1>3, <1>4 DEF Next, DieStep, Terminated

\* The program implements one bounded first-in first-out queue between the
\* file and the search, for any number of threads, any file and any buffer
\* length, cancellations included (main.c:69-199).
THEOREM Refinement == Spec => ImplementsQueue
<1> QED BY RefinesInit, RefinesStep, InitLockInv, LockInvStep, PTL
        DEF Spec, ImplementsQueue, Abstract!Spec
=============================================================================
