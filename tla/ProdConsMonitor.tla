-------------------------- MODULE ProdConsMonitor ---------------------------
(***************************************************************************)
(* SysOpy/lab9/src/zad1/main.c: producers copy the chunks of a file into a *)
(* ring buffer and consumers search them, under one mutex and the          *)
(* condition variables `empty` and `full`.                                 *)
(*                                                                         *)
(* A thread is at one of these places (pc):                                *)
(*   "call"      before pthread_mutex_lock                                 *)
(*   "in"        holding the mutex                                         *)
(*   "waitFull"  in pthread_cond_wait(&full)     (producers)               *)
(*   "waitEmpty" in pthread_cond_wait(&empty)    (consumers)               *)
(*   "relock"    woken, still inside pthread_cond_wait                     *)
(*   "usleep"    between two calls                                         *)
(*   "done"      returned NULL                                             *)
(*   "dead"      cancelled                                                 *)
(*   "torn"      cancelled inside printf after storing a chunk it had not  *)
(*               counted                                                   *)
(* A critical section is the step from "in" to the unlock; everything it   *)
(* touches is protected by the mutex.  endOfFile and SOURCE are the only   *)
(* globals besides the buffer.                                             *)
(***************************************************************************)
EXTENDS LineBuffer

CONSTANTS
    Producers, Consumers,   \* the threads
    NoThread,               \* the owner of a free mutex
    Timed,                  \* CONF.timeout # 0
    Verbal                  \* CONF.verbalMode # 0

Threads == Producers \cup Consumers

\* There is a thread on either side: the file conf names the numbers.
ASSUME ThreadAssumption ==
    /\ Producers # {} /\ Consumers # {}
    /\ Producers \cap Consumers = {}
    /\ NoThread \notin Threads
    /\ Timed \in BOOLEAN
    /\ Verbal \in BOOLEAN

VARIABLES
    mutex,      \* its owner
    pc,
    endOfFile,
    cancelled,  \* the threads main has called pthread_cancel for
    main        \* where main is; "closed" after fclose(SOURCE)

vars == <<BUFFER, numberOfElements, producerPos, consumerPos, lineNumber,
          printed, mutex, pc, endOfFile, cancelled, main>>

Places == {"call", "in", "waitFull", "waitEmpty", "relock", "usleep",
           "done", "dead", "torn"}

TypeOK ==
    /\ BufferTypeOK
    /\ mutex \in Threads \cup {NoThread}
    /\ pc \in [Threads -> Places]
    /\ endOfFile \in BOOLEAN
    /\ cancelled \subseteq Threads
    /\ main \in {"join", "sleep", "cancel", "closed", "exited", "crashed"}

Init ==
    /\ BufferInit
    /\ mutex = NoThread
    /\ pc = [t \in Threads |-> "call"]
    /\ endOfFile = FALSE
    /\ cancelled = {}
    /\ main = IF Timed THEN "sleep" ELSE "join"

-----------------------------------------------------------------------------
(* Threads.  They run until main has returned.                             *)

Running == main \notin {"exited", "crashed"}

Lock(t) ==
    /\ Running
    /\ pc[t] = "call"
    /\ mutex = NoThread
    /\ mutex' = t
    /\ pc' = [pc EXCEPT ![t] = "in"]
    /\ UNCHANGED <<bufferVars, endOfFile, cancelled, main>>

Inside(t) == Running /\ pc[t] = "in" /\ mutex = t

\* t releases the mutex and goes on at next; the threads waiting at a place
\* of woken have been broadcast to.
Leave(t, next, woken) ==
    /\ mutex' = NoThread
    /\ pc' = [u \in Threads |-> IF u = t THEN next
                                ELSE IF pc[u] \in woken THEN "relock"
                                ELSE pc[u]]
    /\ UNCHANGED <<cancelled, main>>

\* addToBuffer
AddFull(t) ==
    /\ t \in Producers /\ Inside(t)
    /\ numberOfElements = BufferLength
    /\ Leave(t, "waitFull", {})
    /\ UNCHANGED <<bufferVars, endOfFile>>

\* Mutant: no check for room.
AddLineNoCheck(t) ==
    /\ t \in Producers /\ Inside(t)
    /\ lineNumber < NumLines /\ main # "closed"
    /\ PutLine
    /\ Leave(t, "usleep", IF numberOfElements' = 1 THEN {"waitEmpty"} ELSE {})
    /\ UNCHANGED endOfFile

AddLine(t) ==
    /\ t \in Producers /\ Inside(t)
    /\ numberOfElements # BufferLength
    /\ lineNumber < NumLines /\ main # "closed"
    /\ PutLine
    /\ Leave(t, "usleep", IF numberOfElements' = 1 THEN {"waitEmpty"} ELSE {})
    /\ UNCHANGED endOfFile

\* Mutant: the end of the file is not broadcast.
AddEOFNoBroadcast(t) ==
    /\ t \in Producers /\ Inside(t)
    /\ numberOfElements # BufferLength
    /\ lineNumber = NumLines /\ ~Timed
    /\ endOfFile' = TRUE
    /\ Leave(t, "done", {})
    /\ UNCHANGED bufferVars

AddEOF(t) ==
    /\ t \in Producers /\ Inside(t)
    /\ numberOfElements # BufferLength
    /\ lineNumber = NumLines /\ ~Timed
    /\ endOfFile' = TRUE
    /\ Leave(t, "done", {"waitEmpty"})
    /\ UNCHANGED bufferVars

\* fgets fails and CONF.timeout # 0: the producer polls the source.  On a
\* stream main has closed fgets may fail too.
AddPoll(t) ==
    /\ t \in Producers /\ Inside(t)
    /\ numberOfElements # BufferLength
    /\ lineNumber = NumLines \/ main = "closed"
    /\ Timed
    /\ Leave(t, "usleep", IF numberOfElements = 1 THEN {"waitEmpty"} ELSE {})
    /\ UNCHANGED <<bufferVars, endOfFile>>

\* fgets on the closed stream: the other outcome is the end of the process.
AddAfterClose(t) ==
    /\ t \in Producers /\ Inside(t)
    /\ numberOfElements # BufferLength
    /\ main = "closed"
    /\ Timed
    /\ main' = "crashed"
    /\ UNCHANGED <<bufferVars, mutex, pc, endOfFile, cancelled>>

\* removeFromBuffer
RemoveEmpty(t) ==
    /\ t \in Consumers /\ Inside(t)
    /\ numberOfElements = 0 /\ ~endOfFile
    /\ Leave(t, "waitEmpty", {})
    /\ UNCHANGED <<bufferVars, endOfFile>>

\* Mutant: a consumer returns at the end of the file whatever the buffer holds.
RemoveEndNoCheck(t) ==
    /\ t \in Consumers /\ Inside(t)
    /\ endOfFile
    /\ Leave(t, "done", {})
    /\ UNCHANGED <<bufferVars, endOfFile>>

RemoveEnd(t) ==
    /\ t \in Consumers /\ Inside(t)
    /\ endOfFile /\ numberOfElements = 0
    /\ Leave(t, "done", {})
    /\ UNCHANGED <<bufferVars, endOfFile>>

\* Mutant: room is announced one chunk too late.
RemoveLineLateBroadcast(t) ==
    /\ t \in Consumers /\ Inside(t)
    /\ numberOfElements # 0
    /\ TakeLine
    /\ Leave(t, "usleep", IF numberOfElements' = BufferLength - 2
                          THEN {"waitFull"} ELSE {})
    /\ UNCHANGED endOfFile

RemoveLine(t) ==
    /\ t \in Consumers /\ Inside(t)
    /\ numberOfElements # 0
    /\ TakeLine
    /\ Leave(t, "usleep", IF numberOfElements' = BufferLength - 1
                          THEN {"waitFull"} ELSE {})
    /\ UNCHANGED endOfFile

\* pthread_cond_wait may return without a broadcast.
SpuriousWake(t) ==
    /\ Running
    /\ pc[t] \in {"waitFull", "waitEmpty"}
    /\ pc' = [pc EXCEPT ![t] = "relock"]
    /\ UNCHANGED <<bufferVars, mutex, endOfFile, cancelled, main>>

\* pthread_cond_wait takes the mutex back and the caller releases it at once.
Relock(t) ==
    /\ Running
    /\ pc[t] = "relock"
    /\ mutex = NoThread
    /\ pc' = [pc EXCEPT ![t] = "usleep"]
    /\ UNCHANGED <<bufferVars, mutex, endOfFile, cancelled, main>>

EndSleep(t) ==
    /\ Running
    /\ pc[t] = "usleep"
    /\ t \notin cancelled
    /\ pc' = [pc EXCEPT ![t] = "call"]
    /\ UNCHANGED <<bufferVars, mutex, endOfFile, cancelled, main>>

-----------------------------------------------------------------------------
(* Cancellation is deferred: it acts in usleep, pthread_cond_wait, fgets   *)
(* and printf.  The last three leave the mutex locked for ever.            *)

DieAtSleep(t) ==
    /\ Running
    /\ t \in cancelled
    /\ pc[t] = "usleep"
    /\ pc' = [pc EXCEPT ![t] = "dead"]
    /\ UNCHANGED <<bufferVars, mutex, endOfFile, cancelled, main>>

\* A cancelled pthread_cond_wait takes the mutex back before it unwinds.
DieWaiting(t) ==
    /\ Running
    /\ t \in cancelled
    /\ pc[t] \in {"waitFull", "waitEmpty", "relock"}
    /\ mutex = NoThread
    /\ mutex' = t
    /\ pc' = [pc EXCEPT ![t] = "dead"]
    /\ UNCHANGED <<bufferVars, endOfFile, cancelled, main>>

\* Before fgets or a consumer's printf has returned: nothing is stored or taken.
DieInside(t) ==
    /\ Inside(t)
    /\ t \in cancelled
    /\ \/ t \in Producers /\ numberOfElements # BufferLength
       \/ /\ t \in Consumers /\ numberOfElements # 0
          /\ Verbal \/ Matches(BUFFER[consumerPos])
    /\ pc' = [pc EXCEPT ![t] = "dead"]
    /\ UNCHANGED <<bufferVars, mutex, endOfFile, cancelled, main>>

\* Mutant: a cancelled producer gives the mutex back.
DieStoringReleases(t) ==
    /\ Inside(t)
    /\ t \in cancelled
    /\ Verbal
    /\ t \in Producers
    /\ numberOfElements # BufferLength
    /\ lineNumber < NumLines /\ main # "closed"
    /\ StoreLine
    /\ pc' = [pc EXCEPT ![t] = "torn"]
    /\ mutex' = NoThread
    /\ UNCHANGED <<numberOfElements, producerPos, consumerPos, printed,
                   endOfFile, cancelled, main>>

\* In the printf of verbal mode, between BUFFER[producerPos] = and the ++.
DieStoring(t) ==
    /\ Inside(t)
    /\ t \in cancelled
    /\ Verbal
    /\ t \in Producers
    /\ numberOfElements # BufferLength
    /\ lineNumber < NumLines /\ main # "closed"
    /\ StoreLine
    /\ pc' = [pc EXCEPT ![t] = "torn"]
    /\ UNCHANGED <<numberOfElements, producerPos, consumerPos, printed,
                   mutex, endOfFile, cancelled, main>>

-----------------------------------------------------------------------------
(* main                                                                    *)

Join ==
    /\ main = "join"
    /\ \A t \in Threads : pc[t] = "done"
    /\ main' = "closed"
    /\ UNCHANGED <<bufferVars, mutex, pc, endOfFile, cancelled>>

WakeUp ==
    /\ main = "sleep"
    /\ main' = "cancel"
    /\ UNCHANGED <<bufferVars, mutex, pc, endOfFile, cancelled>>

\* threads[] holds the consumers first.
Cancel(t) ==
    /\ main = "cancel"
    /\ t \notin cancelled
    /\ t \in Producers => Consumers \subseteq cancelled
    /\ cancelled' = cancelled \cup {t}
    /\ UNCHANGED <<bufferVars, mutex, pc, endOfFile, main>>

Close ==
    /\ main = "cancel"
    /\ cancelled = Threads
    /\ main' = "closed"
    /\ UNCHANGED <<bufferVars, mutex, pc, endOfFile, cancelled>>

Return ==
    /\ main = "closed"
    /\ main' = "exited"
    /\ UNCHANGED <<bufferVars, mutex, pc, endOfFile, cancelled>>

MainStep == Join \/ WakeUp \/ (\E t \in Threads : Cancel(t)) \/ Close \/ Return

Terminated == ~Running /\ UNCHANGED vars

-----------------------------------------------------------------------------

CallStep(t) ==
    \/ AddFull(t) \/ AddLine(t) \/ AddEOF(t) \/ AddPoll(t) \/ AddAfterClose(t)
    \/ RemoveEmpty(t) \/ RemoveEnd(t) \/ RemoveLine(t)

DieStep(t) == DieAtSleep(t) \/ DieWaiting(t) \/ DieInside(t) \/ DieStoring(t)

Next ==
    \/ \E t \in Threads : \/ Lock(t) \/ CallStep(t) \/ SpuriousWake(t)
                          \/ Relock(t) \/ EndSleep(t) \/ DieStep(t)
    \/ MainStep
    \/ Terminated

Spec == Init /\ [][Next]_vars

\* Every thread runs.  A thread that wants the mutex gets it although others
\* take it in between: each of them sleeps after every call, so the mutex is
\* free again and again.  Nothing is assumed of spurious wake-ups, nor of when
\* a cancellation acts.
ThreadFairness ==
    \A t \in Threads :
       /\ SF_vars(Lock(t)) /\ SF_vars(Relock(t))
       /\ WF_vars(CallStep(t)) /\ WF_vars(EndSleep(t))

FairSpec == Spec /\ ThreadFairness /\ WF_vars(MainStep)

\* sleep(CONF.timeout) may be as long as it likes.
PatientSpec == Spec /\ ThreadFairness
-----------------------------------------------------------------------------
(* Properties                                                              *)

Torn == \E t \in Producers : pc[t] = "torn"

\* A thread inside addToBuffer or removeFromBuffer owns the mutex, and no
\* thread holds it between calls or in a wait: main.c:71-118, 132-170.
MutexOK ==
    \A t \in Threads :
       /\ pc[t] \in {"in", "torn"} => mutex = t
       /\ mutex = t => pc[t] \in {"in", "dead", "torn"}

\* Whoever can look at the buffer sees a ring that holds the chunks read and
\* not yet taken, in file order and each once; a chunk stored by a producer
\* that died before counting it is behind a mutex nobody releases
\* (main.c:90-97, 159-163).
BufferConsistent == ~Torn => RingOK

\* The lines printed are those of the chunks taken that the search selects:
\* none is skipped, printed twice or out of file order whichever consumers
\* take them, and when threads are cancelled (main.c:147-163).
PrintedExactly == PrintedUpTo(IF Torn THEN Taken - 1 ELSE Taken)

\* No wake-up is lost: broadcasting only when the count passes 1 or
\* bufferLength - 1, and at the end of the file, leaves no producer waiting
\* for room there is, and no consumer for a chunk or an end of file that has
\* come (main.c:75, 105, 110, 136, 165).
NoLostWakeup ==
    \A t \in Threads :
       /\ pc[t] = "waitFull" => numberOfElements = BufferLength
       /\ pc[t] = "waitEmpty" => numberOfElements = 0 /\ ~endOfFile

\* What holds of every variable, of the lock, of what it protects and of those
\* who wait for it, with and without a timeout (main.c:69-173).
Safety == TypeOK /\ MutexOK /\ BufferConsistent /\ PrintedExactly /\ NoLostWakeup

\* When main has joined every thread, the whole file has been read and
\* searched: a consumer returns on the end of the file only once the buffer
\* is empty, and no producer can fill it again (main.c:101-107, 141-145).
JoinedMeansAllSearched ==
    ~Timed /\ main \in {"closed", "exited"} =>
       lineNumber = NumLines /\ numberOfElements = 0

\* A chunk stored but not counted is never followed by another access: the
\* dead producer keeps the mutex (main.c:90-97 under pthread_cancel, 237).
TornStaysLocked == [][Torn => UNCHANGED bufferVars]_vars

\* With timeout 0 the program ends: every producer finds the end of the file
\* and every consumer the end of the buffer (main.c:228-232).
Terminates == ~Timed => <>(main = "exited")

\* With a timeout, producers that poll the end of the file do not keep the
\* consumers from it: before main cancels anything the whole file is searched
\* if main sleeps long enough (main.c:101-113, 235).
PollingDelivers ==
    <>(main = "sleep" => lineNumber = NumLines /\ numberOfElements = 0)

\* The abstract queue: a chunk enters it when it is counted.
Abstract == INSTANCE LineQueue WITH
    Capacity <- BufferLength, SourceLength <- NumLines, Selects <- Matches,
    read <- IF Torn THEN lineNumber - 1 ELSE lineNumber,
    queue <- Queued, output <- printed

\* The threads, the ring and the cancellations implement one FIFO queue
\* between the file and the search.
ImplementsQueue == Abstract!Spec

\* With timeout 0 they implement it fairly too: every chunk is read and every
\* chunk read is searched.
ImplementsFairQueue == Abstract!FairSpec
=============================================================================
