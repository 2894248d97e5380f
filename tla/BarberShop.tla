----------------------------- MODULE BarberShop -----------------------------
(***************************************************************************)
(* SysOpy/lab7/src/zad1: a sleeping barber.  barber.c and the processes    *)
(* forked by client.c share one struct data, guarded by a System V         *)
(* semaphore, and a message queue that holds the waiting clients.  Every   *)
(* process polls: it takes the semaphore, looks at the struct, changes it  *)
(* if it is its turn, and releases the semaphore.                          *)
(*                                                                         *)
(* The semaphore, the segment and the queue are new when the barber        *)
(* starts, and the barber is not interrupted.  With EarlyClients the       *)
(* client program may start as soon as they exist; the barber posts the    *)
(* semaphore before it fills the struct, so these clients race with it.    *)
(* main's 20-byte struct copy is two stores: the counts, then the pair of  *)
(* status and clientPid.                                                   *)
(*                                                                         *)
(* A client is at one of these places (cpc):                               *)
(*   "out"     before semop -1                                             *)
(*   "in"      holding the semaphore                                       *)
(*   "seen"    holding it, having seen the barber asleep                   *)
(*   "waking"  holding it, between the stores to clientPid and status      *)
(*   "exited"                                                              *)
(* and the barber (bpc) before semop +1 ("post"), before either store      *)
(* ("counts", "status"), and in its loop outside or inside the lock.       *)
(***************************************************************************)
EXTENDS Integers, Sequences, FiniteSets

CONSTANTS
    Clients,        \* pids of the forked clients
    NoPid,          \* 0
    QueueLength,    \* the barber's argument
    NumberOfShaves, \* the client program's second argument
    EarlyClients

\* msgsnd never blocks: the kernel's queue holds QueueLength messages.
ASSUME ShopAssumption ==
    /\ NoPid \notin Clients
    /\ IsFiniteSet(Clients)
    /\ QueueLength \in Nat
    /\ NumberOfShaves \in Nat \ {0}
    /\ EarlyClients \in BOOLEAN

VARIABLES
    sem,
    status, clientPid, waitingClients, queueLength,     \* struct data
    queue,      \* the message queue
    bpc,
    cpc,
    client,     \* each client's own global `client'
    shaves      \* the visits each client has finished

shared == <<sem, status, clientPid, waitingClients, queueLength, queue>>
vars == <<sem, status, clientPid, waitingClients, queueLength, queue,
          bpc, cpc, client, shaves>>

Status == {"SLEEP", "WAKES", "SITS", "SITS_FIRST", "START", "END", "LEAVES",
           "INVITES"}

TypeOK ==
    /\ sem \in {0, 1}
    /\ status \in Status
    /\ clientPid \in Clients \cup {NoPid}
    /\ waitingClients \in 0 .. QueueLength
    /\ queueLength \in {0, QueueLength}
    /\ queue \in Seq(Clients)
    /\ bpc \in {"post", "counts", "status", "out", "in"}
    /\ cpc \in [Clients -> {"out", "in", "seen", "waking", "exited"}]
    /\ client \in [Clients -> Clients \cup {NoPid}]
    /\ shaves \in [Clients -> 0 .. NumberOfShaves]

\* shmget returns a segment of zeros, and SLEEP is 0.
Init ==
    /\ sem = 0
    /\ status = "SLEEP" /\ clientPid = NoPid
    /\ waitingClients = 0 /\ queueLength = 0
    /\ queue = <<>>
    /\ bpc = "post"
    /\ cpc = [c \in Clients |-> "out"]
    /\ client = [c \in Clients |-> NoPid]
    /\ shaves = [c \in Clients |-> 0]

-----------------------------------------------------------------------------
(* The barber                                                              *)

clientVars == <<cpc, client, shaves>>

\* Mutant: the semaphore is created with a permit and posted as well, as in
\* lab7/src/zad2.
PostTwice ==
    /\ bpc = "post"
    /\ sem' = sem + 2
    /\ bpc' = "counts"
    /\ UNCHANGED <<status, clientPid, waitingClients, queueLength, queue, clientVars>>

Post ==
    /\ bpc = "post"
    /\ sem' = sem + 1
    /\ bpc' = "counts"
    /\ UNCHANGED <<status, clientPid, waitingClients, queueLength, queue, clientVars>>

StoreCounts ==
    /\ bpc = "counts"
    /\ waitingClients' = 0 /\ queueLength' = QueueLength
    /\ bpc' = "status"
    /\ UNCHANGED <<sem, status, clientPid, queue, clientVars>>

StoreStatus ==
    /\ bpc = "status"
    /\ status' = "INVITES" /\ clientPid' = NoPid
    /\ bpc' = "out"
    /\ UNCHANGED <<sem, waitingClients, queueLength, queue, clientVars>>

BarberEnter ==
    /\ bpc = "out" /\ sem > 0
    /\ sem' = sem - 1
    /\ bpc' = "in"
    /\ UNCHANGED <<status, clientPid, waitingClients, queueLength, queue, clientVars>>

BarberLeave ==
    /\ bpc = "in"
    /\ sem' = sem + 1
    /\ bpc' = "out"
    /\ UNCHANGED <<waitingClients, queueLength, clientVars>>

BarberAdvance(from, to) ==
    /\ BarberLeave
    /\ status = from
    /\ status' = to
    /\ UNCHANGED <<clientPid, queue>>

BarberWakes  == BarberAdvance("WAKES", "SITS_FIRST")
BarberStarts == BarberAdvance("START", "END")
BarberEnds   == BarberAdvance("END", "LEAVES")

\* msgrcv with IPC_NOWAIT: from an empty queue msg keeps whatever pid it held.
BarberInvites ==
    /\ BarberLeave
    /\ status = "INVITES" /\ waitingClients > 0
    /\ clientPid' \in IF queue # <<>> THEN {Head(queue)} ELSE Clients \cup {NoPid}
    /\ queue' = IF queue # <<>> THEN Tail(queue) ELSE queue
    /\ status' = "SITS"

BarberSleeps ==
    /\ BarberLeave
    /\ status = "INVITES" /\ waitingClients <= 0
    /\ status' = "SLEEP"
    /\ clientPid' = NoPid
    /\ UNCHANGED queue

BarberWaits ==
    /\ BarberLeave
    /\ status \notin {"WAKES", "START", "END", "INVITES"}
    /\ UNCHANGED <<status, clientPid, queue>>

-----------------------------------------------------------------------------
(* A client                                                                *)

Enter(c) ==
    /\ EarlyClients \/ bpc \in {"out", "in"}
    /\ cpc[c] = "out" /\ sem > 0
    /\ sem' = sem - 1
    /\ cpc' = [cpc EXCEPT ![c] = "in"]
    /\ UNCHANGED <<status, clientPid, waitingClients, queueLength, queue,
                   bpc, client, shaves>>

\* The first branch, up to its two stores; FinishWaking releases.
SeesBarberAsleep(c) ==
    /\ cpc[c] = "in"
    /\ status = "SLEEP" /\ clientPid = NoPid /\ client[c] = NoPid
    /\ cpc' = [cpc EXCEPT ![c] = "seen"]
    /\ UNCHANGED <<shared, bpc, client, shaves>>

StartWaking(c) ==
    /\ cpc[c] = "seen"
    /\ clientPid' = c
    /\ cpc' = [cpc EXCEPT ![c] = "waking"]
    /\ UNCHANGED <<sem, status, waitingClients, queueLength, queue, bpc, client, shaves>>

\* semop +1 and round the inner loop
Release(c) ==
    /\ sem' = sem + 1
    /\ cpc' = [cpc EXCEPT ![c] = "out"]
    /\ UNCHANGED <<queueLength, bpc, shaves>>

\* semop +1 and break: the visit is over
EndVisit(c) ==
    /\ sem' = sem + 1
    /\ shaves' = [shaves EXCEPT ![c] = @ + 1]
    /\ cpc' = [cpc EXCEPT ![c] = IF shaves[c] + 1 = NumberOfShaves THEN "exited" ELSE "out"]
    /\ UNCHANGED <<queueLength, bpc>>

FinishWaking(c) ==
    /\ cpc[c] = "waking"
    /\ status' = "WAKES"
    /\ Release(c)
    /\ UNCHANGED <<clientPid, waitingClients, queue, client>>

Invited(c, s) == cpc[c] = "in" /\ status = s /\ clientPid = c

\* Mutant: the first client does not note that it is in the shop.
SitsFirstNoClient(c) ==
    /\ Invited(c, "SITS_FIRST")
    /\ status' = "START"
    /\ Release(c)
    /\ UNCHANGED <<clientPid, waitingClients, queue, client>>

SitsFirst(c) ==
    /\ Invited(c, "SITS_FIRST")
    /\ status' = "START"
    /\ client' = [client EXCEPT ![c] = c]
    /\ Release(c)
    /\ UNCHANGED <<clientPid, waitingClients, queue>>

\* Mutant: the seat in the waiting room is not given up.
SitsKeepsSeat(c) ==
    /\ Invited(c, "SITS")
    /\ status' = "START"
    /\ Release(c)
    /\ UNCHANGED <<clientPid, waitingClients, queue, client>>

Sits(c) ==
    /\ Invited(c, "SITS")
    /\ status' = "START"
    /\ waitingClients' = waitingClients - 1
    /\ Release(c)
    /\ UNCHANGED <<clientPid, queue, client>>

\* Mutant: the client that leaves stays named in the struct.
LeavesKeepsName(c) ==
    /\ Invited(c, "LEAVES")
    /\ status' = "INVITES"
    /\ client' = [client EXCEPT ![c] = NoPid]
    /\ EndVisit(c)
    /\ UNCHANGED <<clientPid, waitingClients, queue>>

\* Mutant: the client that leaves does not reset its own `client'.
LeavesKeepsClient(c) ==
    /\ Invited(c, "LEAVES")
    /\ status' = "INVITES" /\ clientPid' = NoPid
    /\ EndVisit(c)
    /\ UNCHANGED <<waitingClients, queue, client>>

Leaves(c) ==
    /\ Invited(c, "LEAVES")
    /\ status' = "INVITES" /\ clientPid' = NoPid
    /\ client' = [client EXCEPT ![c] = NoPid]
    /\ EndVisit(c)
    /\ UNCHANGED <<waitingClients, queue>>

\* A visitor that no earlier branch took: the barber has a client, perhaps
\* the visitor itself on its way from waking him to the chair.
Visits(c) ==
    /\ cpc[c] = "in"
    /\ client[c] = NoPid /\ clientPid # NoPid
    /\ ~(clientPid = c /\ status \in {"SITS_FIRST", "SITS", "LEAVES"})

\* Mutant: whoever leaves clears the chair.
LeavesFullClears(c) ==
    /\ Visits(c)
    /\ queueLength <= waitingClients
    /\ clientPid' = NoPid
    /\ EndVisit(c)
    /\ UNCHANGED <<status, waitingClients, queue, client>>

LeavesFull(c) ==
    /\ Visits(c)
    /\ queueLength <= waitingClients
    /\ EndVisit(c)
    /\ UNCHANGED <<status, clientPid, waitingClients, queue, client>>

\* Mutant: one seat too many.
WaitsOffByOne(c) ==
    /\ Visits(c)
    /\ queueLength >= waitingClients
    /\ client' = [client EXCEPT ![c] = c]
    /\ waitingClients' = waitingClients + 1
    /\ queue' = Append(queue, c)
    /\ Release(c)
    /\ UNCHANGED <<status, clientPid>>

Waits(c) ==
    /\ Visits(c)
    /\ queueLength > waitingClients
    /\ client' = [client EXCEPT ![c] = c]
    /\ waitingClients' = waitingClients + 1
    /\ queue' = Append(queue, c)
    /\ Release(c)
    /\ UNCHANGED <<status, clientPid>>

LooksAgain(c) ==
    /\ cpc[c] = "in"
    /\ ~(status = "SLEEP" /\ clientPid = NoPid /\ client[c] = NoPid)
    /\ ~(clientPid = c /\ status \in {"SITS_FIRST", "SITS", "LEAVES"})
    /\ ~(client[c] = NoPid /\ clientPid # NoPid)
    /\ Release(c)
    /\ UNCHANGED <<status, clientPid, waitingClients, queue, client>>

-----------------------------------------------------------------------------

Setup == Post \/ StoreCounts \/ StoreStatus

BarberActs == \/ BarberWakes \/ BarberStarts \/ BarberEnds \/ BarberInvites
              \/ BarberSleeps \/ BarberWaits

ClientActs(c) ==
    \/ SeesBarberAsleep(c) \/ StartWaking(c) \/ FinishWaking(c)
    \/ SitsFirst(c) \/ Sits(c) \/ Leaves(c)
    \/ LeavesFull(c) \/ Waits(c) \/ LooksAgain(c)

Next ==
    \/ Setup \/ BarberEnter \/ BarberActs
    \/ \E c \in Clients : Enter(c) \/ ClientActs(c)

Spec == Init /\ [][Next]_vars

\* Every process is scheduled, and one that waits in semop gets the semaphore
\* in the end: the kernel serves the waiters of a semaphore in order.
Fairness ==
    /\ WF_vars(Setup) /\ SF_vars(BarberEnter) /\ WF_vars(BarberActs)
    /\ \A c \in Clients : SF_vars(Enter(c)) /\ WF_vars(ClientActs(c))

FairSpec == Spec /\ Fairness

-----------------------------------------------------------------------------
(* Properties                                                              *)

Inside == {c \in Clients : cpc[c] \in {"in", "seen", "waking"}}

\* The semaphore is a lock: at most one process is between semop -1 and semop
\* +1, and it is free when none is (barber.c:70-139, client.c:70-155).
MutualExclusion ==
    /\ \A c, d \in Inside : c = d
    /\ bpc = "in" => Inside = {}
    /\ sem = IF bpc \in {"post", "in"} \/ Inside # {} THEN 0 ELSE 1

\* waitingClients counts the messages in the queue and the client that is on
\* its way to the chair, and never exceeds queueLength; so the barber's
\* msgrcv always finds a message (barber.c:112-116, client.c:98-101,
\* 125-138).
SeatAccounting ==
    /\ waitingClients = Len(queue) + (IF status = "SITS" THEN 1 ELSE 0)
    /\ waitingClients <= queueLength

\* The same, with every variable in its type.
SeatsSafe == TypeOK /\ SeatAccounting

\* The struct names a client exactly while the chair is somebody's, unless a
\* client is in the middle of the two stores that wake the barber. Clients
\* that start early break this: client.c:76-77 against barber.c:182.
ChairNamed ==
    ~EarlyClients /\ ~(\E c \in Clients : cpc[c] = "waking") =>
       (clientPid = NoPid <=> status \in {"SLEEP", "INVITES"})

\* With one visit each, a client that has sat down in the chair stays alive
\* until it leaves, and its own `client' says where it is. With a second visit
\* this fails: a client called by the message of its first one sits down by
\* the branch that does not set `client', and polls on as a visitor
\* (client.c:86-122).
ServedIsPresent ==
    NumberOfShaves = 1 /\ status \in {"START", "END", "LEAVES"} =>
       clientPid \in Clients /\ cpc[clientPid] # "exited" /\ client[clientPid] = clientPid

\* The chair changes hands only through the barber's invitation: the client it
\* is reserved for keeps it until that client leaves (barber.c:114-116,
\* client.c:110-114).
ChairKept ==
    [][clientPid # NoPid /\ clientPid' # clientPid /\ ~Setup
          => status = "LEAVES" /\ clientPid' = NoPid]_vars

\* The waiting room: whoever has a message in the queue, and the client just
\* invited, which has not given up its seat yet.
Room == INSTANCE WaitingRoom WITH
    Customers <- Clients, Chairs <- QueueLength,
    seated <- IF status = "SITS" THEN <<clientPid>> \o queue ELSE queue

\* Clients are called in the order they sat down, and no seat is taken twice
\* or lost (barber.c:112-116, client.c:98-101, 135-138).
ImplementsWaitingRoom == Room!Spec

\* The one way the shop comes to a standstill: the chair is reserved for a
\* client that has gone. A client that woke the barber looks again before the
\* barber has got up, takes itself for another visitor (client.c:123) and
\* leaves, or queues for a second visit it will not make. Otherwise
\* every client makes all its visits.
AllServedOrChairLost ==
    ~EarlyClients =>
       \/ <>(\A c \in Clients : cpc[c] = "exited")
       \/ <>[](clientPid # NoPid /\ cpc[clientPid] = "exited")

\* Without a waiting room nobody waits for ever, whatever becomes of the
\* chair (client.c:125-133).
NoRoomNoWait ==
    QueueLength = 0 /\ ~EarlyClients => <>(\A c \in Clients : cpc[c] = "exited")

\* "Barber invites next client" (barber.c:117): the invited client is one that
\* is waiting, not one that has left the shop.
InvitesSomebody ==
    status = "SITS" => cpc[clientPid] # "exited"
=============================================================================
