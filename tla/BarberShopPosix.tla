---------------------------- MODULE BarberShopPosix ----------------------------
(***************************************************************************)
(* SysOpy/lab7/src/zad2: the barber shop of zad1 on POSIX shared memory.   *)
(* The semaphore is opened with the value 1 and then posted, and never     *)
(* unlinked, so a barber's first run has two permits and every later run   *)
(* one more.  Permits is their number.  Processes in their critical        *)
(* sections then act on a struct that others are changing: what a process  *)
(* has seen becomes a list of stores, each of them a step of its own.      *)
(*                                                                         *)
(* A process sees status and clientPid together, where the code loads them *)
(* one after the other: the behaviours here are some of those of the code. *)
(* Clients start when the barber has filled the struct.                    *)
(***************************************************************************)
EXTENDS Integers, Sequences

CONSTANTS
    Clients, NoPid, Barber,         \* pids, all different
    QueueLength, NumberOfShaves,    \* the arguments: natural numbers, at least one visit
    Permits                         \* at least 2

Processes == Clients \cup {Barber}

VARIABLES
    sem,
    mem,        \* *cMemPtr: status, clientPid, waitingClients
    queue,
    at, todo,   \* where a process is, and the stores it has still to make
    client,     \* each client's own global `client'
    visits,     \* the visits each client has still to make
    msgPid,     \* msg.pid of the barber
    chair       \* the clients that said they sit on the chair and have not left

vars == <<sem, mem, queue, at, todo, client, visits, msgPid, chair>>

TypeOK ==
    /\ sem \in 0 .. Permits
    /\ mem.clientPid \in Clients \cup {NoPid} /\ mem.waitingClients \in Int
    /\ queue \in Seq(Clients)
    /\ at \in [Processes -> {"out", "in", "stores", "exited"}]
    /\ client \in [Clients -> Clients \cup {NoPid}] /\ visits \in [Clients -> 0 .. NumberOfShaves]
    /\ msgPid \in Clients \cup {NoPid} /\ chair \subseteq Clients

Init ==
    /\ sem = Permits
    /\ mem = [status |-> "INVITES", clientPid |-> NoPid, waitingClients |-> 0]
    /\ queue = <<>> /\ msgPid = NoPid /\ chair = {}
    /\ at = [p \in Processes |-> "out"] /\ todo = [p \in Processes |-> <<>>]
    /\ client = [c \in Clients |-> NoPid] /\ visits = [c \in Clients |-> NumberOfShaves]

Enter(p) ==
    /\ at[p] = "out" /\ sem > 0 /\ sem' = sem - 1
    /\ at' = [at EXCEPT ![p] = "in"]
    /\ UNCHANGED <<mem, queue, todo, client, visits, msgPid, chair>>

\* One load or store of p's list; an increment is a load and a store.
Store(p) ==
    /\ at[p] = "stores" /\ todo[p] # <<>>
    /\ LET s == Head(todo[p]) IN
       \/ /\ s[1] = "load"
          /\ todo' = [todo EXCEPT ![p] = <<<<"waitingClients", mem.waitingClients + s[2]>>>> \o Tail(@)]
          /\ UNCHANGED <<mem, queue, chair>>
       \/ /\ s[1] = "msgsnd" /\ queue' = Append(queue, p)
          /\ todo' = [todo EXCEPT ![p] = Tail(@)] /\ UNCHANGED <<mem, chair>>
       \/ /\ s[1] = "printf" /\ chair' = IF s[2] = "sits" THEN chair \cup {p} ELSE chair \ {p}
          /\ todo' = [todo EXCEPT ![p] = Tail(@)] /\ UNCHANGED <<mem, queue>>
       \/ /\ s[1] \in DOMAIN mem /\ mem' = [mem EXCEPT ![s[1]] = s[2]]
          /\ todo' = [todo EXCEPT ![p] = Tail(@)] /\ UNCHANGED <<queue, chair>>
    /\ UNCHANGED <<sem, at, client, visits, msgPid>>

Post(p) ==
    /\ at[p] = "stores" /\ todo[p] = <<>> /\ sem' = sem + 1
    /\ at' = [at EXCEPT ![p] = IF p # Barber /\ visits[p] = 0 THEN "exited" ELSE "out"]
    /\ UNCHANGED <<mem, queue, todo, client, visits, msgPid, chair>>

\* p goes on to make these stores.
Does(p, stores) ==
    /\ at[p] = "in" /\ at' = [at EXCEPT ![p] = "stores"]
    /\ todo' = [todo EXCEPT ![p] = stores]
    /\ UNCHANGED <<sem, mem, chair>>

-----------------------------------------------------------------------------
(* The barber                                                              *)

Advance(from, to) ==
    mem.status = from /\ Does(Barber, <<<<"status", to>>>>) /\ UNCHANGED <<queue, msgPid>>

\* msgrcv with IPC_NOWAIT leaves msg as it was when the queue is empty.
Invites ==
    /\ mem.status = "INVITES" /\ mem.waitingClients > 0
    /\ msgPid' = IF queue = <<>> THEN msgPid ELSE Head(queue)
    /\ queue' = IF queue = <<>> THEN queue ELSE Tail(queue)
    /\ Does(Barber, <<<<"clientPid", msgPid'>>, <<"status", "SITS">>>>)

Sleeps ==
    /\ mem.status = "INVITES" /\ mem.waitingClients <= 0
    /\ Does(Barber, <<<<"status", "SLEEP">>, <<"clientPid", NoPid>>>>) /\ UNCHANGED <<queue, msgPid>>

BarberLooksAgain ==
    /\ mem.status \notin {"WAKES", "START", "END", "INVITES"}
    /\ Does(Barber, <<>>) /\ UNCHANGED <<queue, msgPid>>

BarberLooks ==
    /\ \/ Advance("WAKES", "SITS_FIRST") \/ Advance("START", "END") \/ Advance("END", "LEAVES")
       \/ Invites \/ Sleeps \/ BarberLooksAgain
    /\ UNCHANGED <<client, visits>>

-----------------------------------------------------------------------------
(* A client                                                                *)

Asleep(c) == mem.status = "SLEEP" /\ mem.clientPid = NoPid /\ client[c] = NoPid
Called(c, status) == mem.status = status /\ mem.clientPid = c
Seated(c) == \E s \in {"SITS_FIRST", "SITS", "LEAVES"} : Called(c, s)
Visitor(c) == ~Asleep(c) /\ ~Seated(c) /\ client[c] = NoPid /\ mem.clientPid # NoPid

Wakes(c) ==
    Asleep(c) /\ Does(c, <<<<"clientPid", c>>, <<"status", "WAKES">>>>) /\ UNCHANGED <<client, visits>>

SitsFirst(c) ==
    /\ Called(c, "SITS_FIRST") /\ Does(c, <<<<"status", "START">>, <<"printf", "sits">>>>)
    /\ client' = [client EXCEPT ![c] = c] /\ UNCHANGED visits

Sits(c) ==
    /\ Called(c, "SITS") /\ Does(c, <<<<"status", "START">>, <<"load", -1>>, <<"printf", "sits">>>>)
    /\ UNCHANGED <<client, visits>>

Leaves(c) ==
    /\ Called(c, "LEAVES") /\ Does(c, <<<<"status", "INVITES">>, <<"clientPid", NoPid>>, <<"printf", "leaves">>>>)
    /\ client' = [client EXCEPT ![c] = NoPid]
    /\ visits' = [visits EXCEPT ![c] = @ - 1]

LeavesFull(c) ==
    /\ Visitor(c) /\ QueueLength <= mem.waitingClients /\ Does(c, <<>>)
    /\ visits' = [visits EXCEPT ![c] = @ - 1] /\ UNCHANGED client

Waits(c) ==
    /\ Visitor(c) /\ QueueLength > mem.waitingClients
    /\ Does(c, <<<<"load", 1>>, <<"msgsnd", c>>>>)
    /\ client' = [client EXCEPT ![c] = c] /\ UNCHANGED visits

LooksAgain(c) ==
    /\ ~Asleep(c) /\ ~Seated(c) /\ (client[c] # NoPid \/ mem.clientPid = NoPid)
    /\ Does(c, <<>>) /\ UNCHANGED <<client, visits>>

ClientLooks(c) ==
    /\ Wakes(c) \/ SitsFirst(c) \/ Sits(c) \/ Leaves(c) \/ LeavesFull(c) \/ Waits(c) \/ LooksAgain(c)
    /\ UNCHANGED <<queue, msgPid>>

Next ==
    \/ \E p \in Processes : Enter(p) \/ Store(p) \/ Post(p)
    \/ BarberLooks
    \/ \E c \in Clients : ClientLooks(c)

Spec == Init /\ [][Next]_vars

-----------------------------------------------------------------------------
(* Properties                                                              *)

\* "Client sits on the chair" (client.c:93, 101) is printed by one client at a
\* time: the one before has left.
OneInChair == \A c, d \in chair : c = d
===============================================================================
