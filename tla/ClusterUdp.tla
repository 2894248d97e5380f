------------------------------- MODULE ClusterUdp -------------------------------
(***************************************************************************)
(* SysOpy/lab10/src/zad2: the cluster of zad1 on datagrams.  A slot of the *)
(* table holds an address; ping is not started, so nodes never leave it.   *)
(* monitor stores a slot field by field while calc reads it without a lock.*)
(*                                                                         *)
(* netFd and localFd are watched with EPOLLET and one datagram is read for *)
(* each event.  Datagrams of netFd may be lost.  calc sends on netFd,      *)
(* which fails for the address of a local node.                            *)
(***************************************************************************)
EXTENDS Integers, Sequences, FiniteSets, FiniteSetsExt

CONSTANTS Nodes, Local,         \* the nodes, and those of them on localFd
          Names, NameOf, None, NoName,
          ClusterSize,
          MaxDatagrams          \* bound: datagrams unread on a socket

ClusterUdpAssumption ==
    /\ Local \subseteq Nodes /\ None \notin Nodes /\ NoName \notin Names
    /\ NameOf \in [Nodes -> Names] /\ ClusterSize \in Nat \ {0} /\ MaxDatagrams \in Nat

Slots == 0 .. ClusterSize - 1
Sockets == {"netFd", "localFd"}

VARIABLES
    clients, numOfClients,
    inbox, edge,            \* the datagrams on a socket, and whether epoll reports it
    monitor, calc,          \* where the threads are, with their locals
    state,                  \* "out", "asks", "in" or "gone"
    work                    \* the request a node has, by the slot it came with

table == <<clients, numOfClients>>
vars == <<table, inbox, edge, monitor, calc, state, work>>

Free == [name |-> NoName, addr |-> None, type |-> 0, num |-> -1]
Idle == [at |-> "idle", slot |-> 0, addr |-> None]
Datagrams == [kind : {"1", "3"}, from : Nodes]

TypeOK ==
    /\ clients \in [Slots -> [name : Names \cup {NoName}, addr : Nodes \cup {None}, type : {0, 1}, num : Nat \cup {-1}]]
    /\ numOfClients \in Nat
    /\ inbox \in [Sockets -> Seq(Datagrams)] /\ edge \in [Sockets -> BOOLEAN]
    /\ \A t \in {monitor, calc} : t.slot \in Slots /\ t.addr \in Nodes \cup {None}
    /\ state \in [Nodes -> {"out", "asks", "in", "gone"}]
    /\ work \in [Nodes -> Slots \cup {-1}]

Init ==
    /\ clients = [s \in Slots |-> Free] /\ numOfClients = 0
    /\ inbox = [i \in Sockets |-> <<>>] /\ edge = [i \in Sockets |-> FALSE]
    /\ monitor = Idle /\ calc = Idle
    /\ state = [n \in Nodes |-> "out"] /\ work = [n \in Nodes |-> -1]

Type(n) == IF n \in Local THEN 1 ELSE 0
SocketOf(n) == IF n \in Local THEN "localFd" ELSE "netFd"

-----------------------------------------------------------------------------
(* Nodes                                                                   *)

Sends(n, kind) ==
    \/ /\ Len(inbox[SocketOf(n)]) < MaxDatagrams
       /\ inbox' = [inbox EXCEPT ![SocketOf(n)] = Append(@, [kind |-> kind, from |-> n])]
       /\ edge' = [edge EXCEPT ![SocketOf(n)] = TRUE]
    \/ n \notin Local /\ UNCHANGED <<inbox, edge>>

Ask(n) ==
    /\ state[n] = "out" /\ state' = [state EXCEPT ![n] = "asks"]
    /\ Sends(n, "1") /\ UNCHANGED <<table, monitor, calc, work>>

Compute(n) ==
    /\ state[n] = "in" /\ work[n] # -1 /\ work' = [work EXCEPT ![n] = -1]
    /\ Sends(n, "3") /\ UNCHANGED <<table, monitor, calc, state>>

Leave(n) ==
    /\ state[n] \in {"asks", "in"} /\ state' = [state EXCEPT ![n] = "gone"]
    /\ work' = [work EXCEPT ![n] = -1]
    /\ UNCHANGED <<table, inbox, edge, monitor, calc>>

-----------------------------------------------------------------------------
(* monitor                                                                 *)

Goes(at) == monitor' = [monitor EXCEPT !.at = at]

\* One datagram of the socket that epoll_wait reports; a result is printed.
Read(i) ==
    /\ monitor.at = "idle" /\ edge[i] /\ edge' = [edge EXCEPT ![i] = FALSE]
    /\ inbox' = [inbox EXCEPT ![i] = Tail(@)]
    /\ LET d == Head(inbox[i]) IN
       monitor' = IF d.kind = "1" THEN [at |-> "checks", slot |-> 0, addr |-> d.from] ELSE monitor
    /\ UNCHANGED <<table, calc, state, work>>

Known == \E s \in Slots : clients[s].name = NameOf[monitor.addr]

\* An answer that is lost, or sent to a node that has gone, changes nothing.
Replies(to) ==
    \/ state[monitor.addr] = "asks" /\ state' = [state EXCEPT ![monitor.addr] = to]
    \/ UNCHANGED state

Refuse ==
    /\ monitor.at = "checks" /\ Known /\ monitor' = Idle
    /\ Replies("gone") /\ UNCHANGED <<table, inbox, edge, calc, work>>

StoreName ==
    /\ monitor.at = "checks" /\ ~Known
    /\ LET free == {s \in Slots : clients[s].num = -1} IN
       IF free = {} THEN Goes("replies") /\ UNCHANGED clients
       ELSE /\ monitor' = [monitor EXCEPT !.at = "addr", !.slot = Min(free)]
            /\ clients' = [clients EXCEPT ![Min(free)].name = NameOf[monitor.addr]]
    /\ UNCHANGED <<numOfClients, inbox, edge, calc, state, work>>

Store(at, next, slot) ==
    /\ monitor.at = at /\ Goes(next)
    /\ clients' = [clients EXCEPT ![monitor.slot] = slot]
    /\ UNCHANGED <<numOfClients, inbox, edge, calc, state, work>>

\* Mutant: the number is stored with the address, before the type.
StoreAddrAndNum == Store("addr", "type", [clients[monitor.slot] EXCEPT !.addr = monitor.addr, !.num = numOfClients])

StoreAddr == Store("addr", "type", [clients[monitor.slot] EXCEPT !.addr = monitor.addr])
StoreType == Store("type", "num", [clients[monitor.slot] EXCEPT !.type = Type(monitor.addr)])
StoreNum == Store("num", "replies", [clients[monitor.slot] EXCEPT !.num = numOfClients])

Reply ==
    /\ monitor.at = "replies" /\ monitor' = Idle
    /\ numOfClients' = numOfClients + 1
    /\ Replies("in") /\ UNCHANGED <<clients, inbox, edge, calc, work>>

-----------------------------------------------------------------------------
(* calc                                                                    *)

Pick(s) ==
    /\ calc.at = "idle" /\ clients[s].num # -1
    /\ calc' = [at |-> "sends", slot |-> s, addr |-> None]
    /\ UNCHANGED <<table, inbox, edge, monitor, state, work>>

\* A node that is asking takes the request for a wrong answer and leaves.
Send ==
    /\ calc.at = "sends" /\ calc' = Idle
    /\ LET n == clients[calc.slot].addr IN
       \/ n \notin Local /\ state[n] = "in" /\ work[n] = -1
          /\ work' = [work EXCEPT ![n] = calc.slot] /\ UNCHANGED state
       \/ n \notin Local /\ state[n] = "asks"
          /\ state' = [state EXCEPT ![n] = "gone"] /\ UNCHANGED work
       \/ UNCHANGED <<state, work>>
    /\ UNCHANGED <<table, inbox, edge, monitor>>

MonitorStep == (\E i \in Sockets : Read(i)) \/ Refuse \/ StoreName \/ StoreAddr \/ StoreType \/ StoreNum \/ Reply
Next == \/ MonitorStep
        \/ (\E s \in Slots : Pick(s)) \/ Send
        \/ \E n \in Nodes : Ask(n) \/ Compute(n) \/ Leave(n)

Spec == Init /\ [][Next]_vars

-----------------------------------------------------------------------------
(* Properties                                                              *)

\* Whoever sees the number of a slot (server.c:276) sees all of it, because the
\* number is stored last (server.c:169-172); a name and a node have one slot; and
\* a request reaches its node with the slot that is its own.
SlotsComplete ==
    /\ TypeOK
    /\ \A s \in Slots : clients[s].num # -1 =>
          /\ clients[s].addr \in Nodes
          /\ clients[s].name = NameOf[clients[s].addr] /\ clients[s].type = Type(clients[s].addr)
          /\ \A t \in Slots \ {s} : clients[s].name # clients[t].name
    /\ \A n \in Nodes : work[n] # -1 => clients[work[n]].addr = n
=================================================================================
