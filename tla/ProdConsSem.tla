---------------------------- MODULE ProdConsSem -----------------------------
(***************************************************************************)
(* SysOpy/lab9/src/zad2/main.c: the same producers and consumers, with a   *)
(* semaphore `sem` for the buffer and two more, `emptySem` and `fullSem`,  *)
(* that a thread passes through (wait, then post) when it found nothing to *)
(* take or no room.                                                        *)
(*                                                                         *)
(* A thread is at one of these places (pc):                                *)
(*   "call"      before sem_wait(&sem)                                     *)
(*   "in"        holding sem                                               *)
(*   "atFull"    before sem_wait(&fullSem), having released sem            *)
(*   "inFull"    between sem_wait(&fullSem) and sem_post(&fullSem)         *)
(*   "atEmpty", "inEmpty"   the same for emptySem                          *)
(*   "usleep"    between two calls                                         *)
(*   "done"      returned NULL                                             *)
(*   "dead"      cancelled, holding nothing                                *)
(*   "stuck"     cancelled while holding sem                               *)
(*   "torn"      the same, after storing a chunk it had not counted        *)
(***************************************************************************)
EXTENDS LineBuffer, FiniteSets

CONSTANTS
    Producers, Consumers,   \* the threads
    SemValueMax,            \* sem_post fails (EOVERFLOW, ignored) beyond it
    Timed,                  \* CONF.timeout # 0
    Verbal                  \* CONF.verbalMode # 0

Threads == Producers \cup Consumers

\* There is a thread on either side: the file conf names the numbers.
ASSUME ThreadAssumption ==
    /\ Producers # {} /\ Consumers # {}
    /\ Producers \cap Consumers = {}
    /\ IsFiniteSet(Threads)
    /\ SemValueMax \in Nat \ {0}
    /\ Timed \in BOOLEAN
    /\ Verbal \in BOOLEAN

VARIABLES
    sem, emptySem, fullSem,
    pc,
    endOfFile,
    cancelled,  \* the threads main has called pthread_cancel for
    main        \* where main is; "closed" after fclose(SOURCE)

semVars == <<sem, emptySem, fullSem>>
vars == <<BUFFER, numberOfElements, producerPos, consumerPos, lineNumber,
          printed, sem, emptySem, fullSem, pc, endOfFile, cancelled, main>>

Places == {"call", "in", "atFull", "inFull", "atEmpty", "inEmpty", "usleep",
           "done", "dead", "stuck", "torn"}

TypeOK ==
    /\ BufferTypeOK
    /\ sem \in 0 .. SemValueMax
    /\ emptySem \in 0 .. SemValueMax
    /\ fullSem \in 0 .. SemValueMax
    /\ pc \in [Threads -> Places]
    /\ endOfFile \in BOOLEAN
    /\ cancelled \subseteq Threads
    /\ main \in {"join", "sleep", "cancel", "closed", "exited", "crashed"}

Init ==
    /\ BufferInit
    /\ sem = 1
    /\ emptySem = 0
    /\ fullSem = 1
    /\ pc = [t \in Threads |-> "call"]
    /\ endOfFile = FALSE
    /\ cancelled = {}
    /\ main = IF Timed THEN "sleep" ELSE "join"

-----------------------------------------------------------------------------
(* Threads.  They run until main has returned.                             *)

Running == main \notin {"exited", "crashed"}

Posted(value) == IF value = SemValueMax THEN value ELSE value + 1

Goto(t, place) == pc' = [pc EXCEPT ![t] = place]

Lock(t) ==
    /\ Running
    /\ pc[t] = "call"
    /\ sem > 0
    /\ sem' = sem - 1
    /\ Goto(t, "in")
    /\ UNCHANGED <<bufferVars, emptySem, fullSem, endOfFile, cancelled, main>>

Inside(t) == Running /\ pc[t] = "in"

\* sem_post(&sem) and on to place
Leave(t, place) ==
    /\ sem' = Posted(sem)
    /\ Goto(t, place)
    /\ UNCHANGED <<cancelled, main>>

\* addToBuffer
AddFull(t) ==
    /\ t \in Producers /\ Inside(t)
    /\ numberOfElements = BufferLength
    /\ Leave(t, "atFull")
    /\ UNCHANGED <<bufferVars, emptySem, fullSem, endOfFile>>

\* Mutant: the first chunk does not open emptySem.
AddLineNoPost(t) ==
    /\ t \in Producers /\ Inside(t)
    /\ numberOfElements # BufferLength
    /\ lineNumber < NumLines /\ main # "closed"
    /\ PutLine
    /\ Leave(t, "usleep")
    /\ UNCHANGED <<emptySem, fullSem, endOfFile>>

AddLine(t) ==
    /\ t \in Producers /\ Inside(t)
    /\ numberOfElements # BufferLength
    /\ lineNumber < NumLines /\ main # "closed"
    /\ PutLine
    /\ emptySem' = IF numberOfElements' = 1 THEN Posted(emptySem) ELSE emptySem
    /\ Leave(t, "usleep")
    /\ UNCHANGED <<fullSem, endOfFile>>

\* Mutant: the end of the file opens emptySem but is not recorded.
AddEOFNoFlag(t) ==
    /\ t \in Producers /\ Inside(t)
    /\ numberOfElements # BufferLength
    /\ lineNumber = NumLines /\ ~Timed
    /\ emptySem' = Posted(emptySem)
    /\ Leave(t, "done")
    /\ UNCHANGED <<bufferVars, fullSem, endOfFile>>

AddEOF(t) ==
    /\ t \in Producers /\ Inside(t)
    /\ numberOfElements # BufferLength
    /\ lineNumber = NumLines /\ ~Timed
    /\ endOfFile' = TRUE
    /\ emptySem' = Posted(emptySem)
    /\ Leave(t, "done")
    /\ UNCHANGED <<bufferVars, fullSem>>

\* fgets fails and CONF.timeout # 0: the producer polls the source, and posts
\* emptySem on every poll that finds one chunk.  On a stream main has closed
\* fgets may fail too.
AddPoll(t) ==
    /\ t \in Producers /\ Inside(t)
    /\ numberOfElements # BufferLength
    /\ lineNumber = NumLines \/ main = "closed"
    /\ Timed
    /\ emptySem' = IF numberOfElements = 1 THEN Posted(emptySem) ELSE emptySem
    /\ Leave(t, "usleep")
    /\ UNCHANGED <<bufferVars, fullSem, endOfFile>>

\* fgets on the closed stream: the other outcome is the end of the process.
AddAfterClose(t) ==
    /\ t \in Producers /\ Inside(t)
    /\ numberOfElements # BufferLength
    /\ main = "closed"
    /\ Timed
    /\ main' = "crashed"
    /\ UNCHANGED <<bufferVars, semVars, pc, endOfFile, cancelled>>

\* removeFromBuffer
RemoveEmpty(t) ==
    /\ t \in Consumers /\ Inside(t)
    /\ numberOfElements = 0 /\ ~endOfFile
    /\ Leave(t, "atEmpty")
    /\ UNCHANGED <<bufferVars, emptySem, fullSem, endOfFile>>

\* Mutant: a consumer returns at the end of the file whatever the buffer holds.
RemoveEndNoCheck(t) ==
    /\ t \in Consumers /\ Inside(t)
    /\ endOfFile
    /\ Leave(t, "done")
    /\ UNCHANGED <<bufferVars, emptySem, fullSem, endOfFile>>

RemoveEnd(t) ==
    /\ t \in Consumers /\ Inside(t)
    /\ endOfFile /\ numberOfElements = 0
    /\ Leave(t, "done")
    /\ UNCHANGED <<bufferVars, emptySem, fullSem, endOfFile>>

RemoveLine(t) ==
    /\ t \in Consumers /\ Inside(t)
    /\ numberOfElements # 0
    /\ TakeLine
    /\ fullSem' = IF numberOfElements' = BufferLength - 1 THEN Posted(fullSem)
                                                          ELSE fullSem
    /\ Leave(t, "usleep")
    /\ UNCHANGED <<emptySem, endOfFile>>

\* The turnstiles
EnterFull(t) ==
    /\ Running
    /\ pc[t] = "atFull" /\ fullSem > 0
    /\ fullSem' = fullSem - 1
    /\ Goto(t, "inFull")
    /\ UNCHANGED <<bufferVars, sem, emptySem, endOfFile, cancelled, main>>

LeaveFull(t) ==
    /\ Running
    /\ pc[t] = "inFull"
    /\ fullSem' = Posted(fullSem)
    /\ Goto(t, "usleep")
    /\ UNCHANGED <<bufferVars, sem, emptySem, endOfFile, cancelled, main>>

EnterEmpty(t) ==
    /\ Running
    /\ pc[t] = "atEmpty" /\ emptySem > 0
    /\ emptySem' = emptySem - 1
    /\ Goto(t, "inEmpty")
    /\ UNCHANGED <<bufferVars, sem, fullSem, endOfFile, cancelled, main>>

\* Mutant: the permit is not given back.
LeaveEmptyNoPost(t) ==
    /\ Running
    /\ pc[t] = "inEmpty"
    /\ Goto(t, "usleep")
    /\ UNCHANGED <<bufferVars, semVars, endOfFile, cancelled, main>>

LeaveEmpty(t) ==
    /\ Running
    /\ pc[t] = "inEmpty"
    /\ emptySem' = Posted(emptySem)
    /\ Goto(t, "usleep")
    /\ UNCHANGED <<bufferVars, sem, fullSem, endOfFile, cancelled, main>>

EndSleep(t) ==
    /\ Running
    /\ pc[t] = "usleep"
    /\ t \notin cancelled
    /\ Goto(t, "call")
    /\ UNCHANGED <<bufferVars, semVars, endOfFile, cancelled, main>>

-----------------------------------------------------------------------------
(* Cancellation is deferred: it acts in usleep, sem_wait, fgets and printf.*)

DieOutside(t) ==
    /\ Running
    /\ t \in cancelled
    /\ pc[t] \in {"usleep", "call", "atFull", "atEmpty"}
    /\ Goto(t, "dead")
    /\ UNCHANGED <<bufferVars, semVars, endOfFile, cancelled, main>>

\* Before fgets or a consumer's printf has returned: nothing is stored or taken.
DieInside(t) ==
    /\ Inside(t)
    /\ t \in cancelled
    /\ \/ t \in Producers /\ numberOfElements # BufferLength
       \/ /\ t \in Consumers /\ numberOfElements # 0
          /\ Verbal \/ Matches(BUFFER[consumerPos])
    /\ Goto(t, "stuck")
    /\ UNCHANGED <<bufferVars, semVars, endOfFile, cancelled, main>>

\* Mutant: a cancelled producer gives sem back.
DieStoringReleases(t) ==
    /\ Inside(t)
    /\ t \in cancelled
    /\ Verbal
    /\ t \in Producers
    /\ numberOfElements # BufferLength
    /\ lineNumber < NumLines /\ main # "closed"
    /\ StoreLine
    /\ Goto(t, "torn")
    /\ sem' = Posted(sem)
    /\ UNCHANGED <<numberOfElements, producerPos, consumerPos, printed,
                   emptySem, fullSem, endOfFile, cancelled, main>>

\* In the printf of verbal mode, between BUFFER[producerPos] = and the ++.
DieStoring(t) ==
    /\ Inside(t)
    /\ t \in cancelled
    /\ Verbal
    /\ t \in Producers
    /\ numberOfElements # BufferLength
    /\ lineNumber < NumLines /\ main # "closed"
    /\ StoreLine
    /\ Goto(t, "torn")
    /\ UNCHANGED <<numberOfElements, producerPos, consumerPos, printed,
                   semVars, endOfFile, cancelled, main>>

-----------------------------------------------------------------------------
(* main                                                                    *)

MainGoes(from, to) ==
    /\ main = from
    /\ main' = to
    /\ UNCHANGED <<bufferVars, semVars, pc, endOfFile, cancelled>>

Join   == MainGoes("join", "closed") /\ \A t \in Threads : pc[t] = "done"
WakeUp == MainGoes("sleep", "cancel")
Close  == MainGoes("cancel", "closed") /\ cancelled = Threads
Return == MainGoes("closed", "exited")

\* threads[] holds the consumers first.
Cancel(t) ==
    /\ main = "cancel"
    /\ t \notin cancelled
    /\ t \in Producers => Consumers \subseteq cancelled
    /\ cancelled' = cancelled \cup {t}
    /\ UNCHANGED <<bufferVars, semVars, pc, endOfFile, main>>

MainStep == Join \/ WakeUp \/ (\E t \in Threads : Cancel(t)) \/ Close \/ Return

Terminated == ~Running /\ UNCHANGED vars

-----------------------------------------------------------------------------

CallStep(t) ==
    \/ AddFull(t) \/ AddLine(t) \/ AddEOF(t) \/ AddPoll(t) \/ AddAfterClose(t)
    \/ RemoveEmpty(t) \/ RemoveEnd(t) \/ RemoveLine(t)

PassStep(t) == LeaveFull(t) \/ LeaveEmpty(t)
EnterStep(t) == EnterFull(t) \/ EnterEmpty(t)

DieStep(t) == DieOutside(t) \/ DieInside(t) \/ DieStoring(t)

Next ==
    \/ \E t \in Threads : \/ Lock(t) \/ CallStep(t) \/ EnterStep(t)
                          \/ PassStep(t) \/ EndSleep(t) \/ DieStep(t)
    \/ MainStep
    \/ Terminated

Spec == Init /\ [][Next]_vars

\* Every thread runs, and gets through a semaphore that is free again and
\* again: the threads that compete for it sleep after every call.
ThreadFairness ==
    \A t \in Threads :
       /\ SF_vars(Lock(t)) /\ SF_vars(EnterStep(t))
       /\ WF_vars(CallStep(t)) /\ WF_vars(PassStep(t)) /\ WF_vars(EndSleep(t))

FairSpec == Spec /\ ThreadFairness /\ WF_vars(MainStep)

\* sleep(CONF.timeout) may be as long as it likes.
PatientSpec == Spec /\ ThreadFairness

-----------------------------------------------------------------------------
(* Properties                                                              *)

Torn == \E t \in Producers : pc[t] = "torn"

Holders == {t \in Threads : pc[t] \in {"in", "stuck", "torn"}}

\* sem is a lock: no two threads are between sem_wait(&sem) and its post, and
\* a thread that died there keeps everyone out (main.c:67-114, 130-170).
SemOK ==
    /\ \A t, u \in Holders : t = u
    /\ sem = IF Holders = {} THEN 1 ELSE 0

\* Whoever can look at the buffer sees a ring that holds the chunks read and
\* not yet taken, in file order and each once (main.c:87-94, 159-163).
BufferConsistent == ~Torn => RingOK

\* The lines printed are those of the chunks taken that the search selects,
\* each once and in file order (main.c:147-163).
PrintedExactly == PrintedUpTo(IF Torn THEN Taken - 1 ELSE Taken)

\* A consumer waits at emptySem only until the first chunk or the end of the
\* file, a producer at fullSem never for good: the turnstiles open and stay
\* open, a permit is there or in the hands of a thread that is passing
\* (main.c:72-73, 102, 108-111, 135-136, 165-168, 215).
TurnstilesOpen ==
    /\ lineNumber > 0 \/ endOfFile => \/ emptySem > 0 \/ Torn
                                      \/ \E t \in Threads : pc[t] = "inEmpty"
    /\ fullSem > 0 \/ \E t \in Threads : pc[t] = "inFull"

\* What holds of every variable, of the lock, of what it protects and of the
\* turnstiles, with and without a timeout (main.c:65-173).
Safety == TypeOK /\ SemOK /\ BufferConsistent /\ PrintedExactly /\ TurnstilesOpen

\* When main has joined every thread, the whole file has been read and
\* searched (main.c:98-106, 141-145).
JoinedMeansAllSearched ==
    ~Timed /\ main \in {"closed", "exited"} =>
       lineNumber = NumLines /\ numberOfElements = 0

\* A chunk stored but not counted is never followed by another access: the
\* dead producer keeps sem (main.c:87-94 under pthread_cancel, 243).
TornStaysLocked == [][Torn => UNCHANGED bufferVars]_vars

\* With timeout 0 the program ends, at any SemValueMax (main.c:234-238).
Terminates == ~Timed => <>(main = "exited")

\* With a timeout the whole file is searched if main sleeps long enough,
\* although a producer that polls posts emptySem again and again
\* (main.c:98-111, 241).
PollingDelivers ==
    <>(main = "sleep" => lineNumber = NumLines /\ numberOfElements = 0)

\* The abstract queue: a chunk enters it when it is counted.
Abstract == INSTANCE LineQueue WITH
    Capacity <- BufferLength, SourceLength <- NumLines, Selects <- Matches,
    read <- IF Torn THEN lineNumber - 1 ELSE lineNumber,
    queue <- Queued, output <- printed

\* This program too implements one FIFO queue between file and search, ...
ImplementsQueue == Abstract!Spec

\* ... and with timeout 0 implements it fairly.
ImplementsFairQueue == Abstract!FairSpec
=============================================================================
