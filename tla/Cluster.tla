-------------------------------- MODULE Cluster --------------------------------
(***************************************************************************)
(* SysOpy/lab10/src/zad1: a server that hands expressions typed at it to   *)
(* the nodes of a cluster.  Three threads share the table clients without  *)
(* a lock, so every store to a slot is a step: monitor accepts nodes and   *)
(* prints results, ping finds out who has gone, calc sends requests.       *)
(*                                                                         *)
(* Both listening sockets behave alike and are one here; they are watched  *)
(* with EPOLLET and one connection is accepted for each event.  monitor    *)
(* then waits for the name, and serves nobody meanwhile; a node that has   *)
(* left without sending it costs the server a descriptor.  A write to a    *)
(* node that has gone is lost, or kills the server with SIGPIPE; ping      *)
(* alone asks not to be killed.  The kernel gives out the lowest free      *)
(* descriptor.                                                             *)
(***************************************************************************)
EXTENDS Integers, Sequences, FiniteSets, FiniteSetsExt

CONSTANTS Nodes, Names, NameOf, None, NoName,
          ClusterSize, Fds,
          MaxResults        \* bound: results in the sockets

ASSUME ClusterAssumption ==
    /\ NameOf \in [Nodes -> Names] /\ None \notin Nodes /\ NoName \notin Names
    /\ ClusterSize \in Nat \ {0} /\ IsFiniteSet(Fds) /\ Fds \subseteq Nat
    /\ MaxResults \in Nat

Slots == 0 .. ClusterSize - 1

VARIABLES
    server,                 \* "up", "killed" by SIGPIPE, or "stopped" by SIGINT
    clients, numOfClients,  \* the table
    conn,                   \* the node at the other end of a descriptor
    backlog, edge,          \* connections not accepted, and whether epoll reports them
    monitor, ping, calc,    \* where the threads are, with their locals
    state,                  \* where a node is, see States
    work, results           \* the request a node has, and the results in the sockets

table == <<clients, numOfClients>>
threads == <<monitor, ping, calc>>
net == <<backlog, edge, state>>
vars == <<server, table, conn, threads, net, work, results>>

Free == [name |-> NoName, fd |-> -1, num |-> -1]
Idle == [at |-> "idle", slot |-> 0, fd |-> -1]

\* A node "asks" when it has sent its name, and is "confused" when it will find
\* a message before the answer to it; it is "mute" when it has left without it.
States == {"out", "connects", "confused", "asks", "in", "gone", "mute"}
HasLeft(n) == state[n] \in {"gone", "mute"}

TypeOK ==
    /\ server \in {"up", "killed", "stopped"}
    /\ clients \in [Slots -> [name : Names \cup {NoName}, fd : Fds \cup {-1}, num : Nat \cup {-1}]]
    /\ numOfClients \in Nat
    /\ conn \in [Fds -> Nodes \cup {None}]
    /\ backlog \in Seq(Nodes) /\ edge \in BOOLEAN
    /\ \A t \in {monitor, ping, calc} : t.slot \in Slots /\ t.fd \in Fds \cup {-1}
    /\ state \in [Nodes -> States]
    /\ work \in [Nodes -> Slots \cup {-1}] /\ results \subseteq Nodes \X Slots

Init ==
    /\ server = "up"
    /\ clients = [s \in Slots |-> Free] /\ numOfClients = 0
    /\ conn = [f \in Fds |-> None]
    /\ backlog = <<>> /\ edge = FALSE
    /\ monitor = Idle /\ ping = Idle /\ calc = Idle
    /\ state = [n \in Nodes |-> "out"]
    /\ work = [n \in Nodes |-> -1] /\ results = {}

Live == {s \in Slots : clients[s].fd # -1}

-----------------------------------------------------------------------------
(* Nodes                                                                   *)

Connect(n) ==
    /\ state[n] = "out" /\ state' = [state EXCEPT ![n] = "connects"]
    /\ backlog' = Append(backlog, n) /\ edge' = TRUE
    /\ UNCHANGED <<server, table, conn, threads, work, results>>

\* A node that reads anything but the answer to its name leaves.
SendName(n) ==
    /\ \/ state[n] = "connects" /\ state' = [state EXCEPT ![n] = "asks"]
       \/ state[n] = "confused" /\ state' = [state EXCEPT ![n] = "gone"]
    /\ UNCHANGED <<server, table, conn, threads, backlog, edge, work, results>>

Leave(n) ==
    /\ \/ state[n] \in {"connects", "confused"} /\ state' = [state EXCEPT ![n] = "mute"]
       \/ state[n] \in {"asks", "in"} /\ state' = [state EXCEPT ![n] = "gone"]
    /\ work' = [work EXCEPT ![n] = -1]
    /\ UNCHANGED <<server, table, conn, threads, backlog, edge, results>>

\* The answer carries the slot that came with the request.
Compute(n) ==
    /\ state[n] = "in" /\ work[n] # -1 /\ Cardinality(results) < MaxResults
    /\ results' = results \cup {<<n, work[n]>>}
    /\ work' = [work EXCEPT ![n] = -1]
    /\ UNCHANGED <<server, table, conn, threads, net>>

-----------------------------------------------------------------------------
(* monitor                                                                 *)

Accept ==
    /\ monitor.at = "idle" /\ edge /\ edge' = FALSE
    /\ LET free == {f \in Fds : conn[f] = None} IN
       IF free = {} THEN UNCHANGED <<conn, monitor, backlog>>
       ELSE /\ conn' = [conn EXCEPT ![Min(free)] = Head(backlog)]
            /\ monitor' = [at |-> "reads", slot |-> 0, fd |-> Min(free)]
            /\ backlog' = Tail(backlog)
    /\ UNCHANGED <<server, table, ping, calc, state, work, results>>

Asker == conn[monitor.fd]
Goes(at) == monitor' = [monitor EXCEPT !.at = at]

\* recv waits for the name.  Of a node that has left without it comes nothing:
\* an unknown message, after which the descriptor is neither kept nor closed.
Listen ==
    /\ monitor.at = "reads"
    /\ \/ state[Asker] \in {"asks", "gone"} /\ Goes("checks")
       \/ state[Asker] = "mute" /\ monitor' = Idle
    /\ UNCHANGED <<server, table, conn, ping, calc, net, work, results>>

\* A message that is not read by a node that has gone.
Writes(f) ==
    IF conn[f] # None /\ HasLeft(conn[f]) THEN server' \in {"up", "killed"} ELSE server' = server

\* A node leaves when the first message it gets is not the answer to its name.
Confuses(f) ==
    state' = IF conn[f] = None THEN state
             ELSE [state EXCEPT ![conn[f]] = CASE @ = "connects" -> "confused"
                                               [] @ = "asks" -> "gone"
                                               [] OTHER -> @]

Refuse ==
    /\ monitor.at = "checks" /\ \E s \in Slots : clients[s].name = NameOf[Asker]
    /\ Writes(monitor.fd)
    /\ state' = [state EXCEPT ![Asker] = "gone"]
    /\ conn' = [conn EXCEPT ![monitor.fd] = None]
    /\ monitor' = Idle
    /\ UNCHANGED <<table, ping, calc, backlog, edge, work, results>>

\* The slot is chosen by its fd, and filled field by field.
StoreName ==
    /\ monitor.at = "checks" /\ \A s \in Slots : clients[s].name # NameOf[Asker]
    /\ LET free == Slots \ Live IN
       IF free = {} THEN Goes("replies") /\ UNCHANGED clients
       ELSE /\ monitor' = [monitor EXCEPT !.at = "fd", !.slot = Min(free)]
            /\ clients' = [clients EXCEPT ![Min(free)].name = NameOf[Asker]]
    /\ UNCHANGED <<server, numOfClients, conn, ping, calc, net, work, results>>

StoreFd ==
    /\ monitor.at = "fd" /\ Goes("num")
    /\ clients' = [clients EXCEPT ![monitor.slot].fd = monitor.fd]
    /\ UNCHANGED <<server, numOfClients, conn, ping, calc, net, work, results>>

StoreNum ==
    /\ monitor.at = "num" /\ Goes("replies")
    /\ clients' = [clients EXCEPT ![monitor.slot].num = numOfClients]
    /\ UNCHANGED <<server, numOfClients, conn, ping, calc, net, work, results>>

\* "1Y", with or without a slot; ping may have closed the descriptor.
Reply ==
    /\ monitor.at = "replies" /\ monitor' = Idle
    /\ numOfClients' = numOfClients + 1
    /\ Writes(monitor.fd)
    /\ state' = IF Asker # None /\ state[Asker] = "asks" THEN [state EXCEPT ![Asker] = "in"] ELSE state
    /\ UNCHANGED <<clients, conn, ping, calc, backlog, edge, work, results>>

PrintResult ==
    /\ monitor.at = "idle"
    /\ \E r \in results : results' = results \ {r}
    /\ UNCHANGED <<server, table, conn, threads, net, work>>

-----------------------------------------------------------------------------
(* ping                                                                    *)

PingAt(at) == ping' = [ping EXCEPT !.at = at]

\* Mutant: ping looks at the number to see whether a slot is in use.
FindsByNumber(s) ==
    /\ ping.at = "idle" /\ clients[s].num # -1 /\ clients[s].fd # -1
    /\ conn[clients[s].fd] = None \/ state[conn[clients[s].fd]] = "gone"
    /\ ping' = [at |-> "closes", slot |-> s, fd |-> -1]
    /\ UNCHANGED <<server, table, conn, monitor, calc, net, work, results>>

Finds(s) ==
    /\ ping.at = "idle" /\ clients[s].fd # -1
    /\ conn[clients[s].fd] = None \/ state[conn[clients[s].fd]] = "gone"
    /\ ping' = [at |-> "closes", slot |-> s, fd |-> -1]
    /\ UNCHANGED <<server, table, conn, monitor, calc, net, work, results>>

Greets(s) ==
    /\ ping.at = "idle" /\ clients[s].fd # -1
    /\ Confuses(clients[s].fd)
    /\ UNCHANGED <<server, table, conn, threads, backlog, edge, work, results>>

Close ==
    /\ ping.at = "closes" /\ PingAt("fd")
    /\ LET f == clients[ping.slot].fd IN
       /\ results' = {r \in results : r[1] # conn[f]}
       /\ conn' = [conn EXCEPT ![f] = None]
    /\ UNCHANGED <<server, table, monitor, calc, net, work>>

\* Mutant: the number is cleared instead of the descriptor.
ClearNumOnly ==
    /\ ping.at = "fd" /\ PingAt("name")
    /\ clients' = [clients EXCEPT ![ping.slot].num = -1]
    /\ UNCHANGED <<server, numOfClients, conn, monitor, calc, net, work, results>>

ClearFd ==
    /\ ping.at = "fd" /\ PingAt("name")
    /\ clients' = [clients EXCEPT ![ping.slot].fd = -1]
    /\ UNCHANGED <<server, numOfClients, conn, monitor, calc, net, work, results>>

ClearName ==
    /\ ping.at = "name" /\ PingAt("num")
    /\ clients' = [clients EXCEPT ![ping.slot].name = NoName]
    /\ UNCHANGED <<server, numOfClients, conn, monitor, calc, net, work, results>>

ClearNum ==
    /\ ping.at = "num" /\ ping' = Idle
    /\ clients' = [clients EXCEPT ![ping.slot].num = -1]
    /\ UNCHANGED <<server, numOfClients, conn, monitor, calc, net, work, results>>

-----------------------------------------------------------------------------
(* calc                                                                    *)

Pick(s) ==
    /\ calc.at = "idle" /\ clients[s].fd # -1
    /\ calc' = [at |-> "writes", slot |-> s, fd |-> clients[s].fd]
    /\ UNCHANGED <<server, table, conn, monitor, ping, net, work, results>>

\* The request may be lost in the node's buffer, behind a ping or a request.
Write ==
    /\ calc.at = "writes" /\ calc' = Idle
    /\ Writes(calc.fd)
    /\ LET n == conn[calc.fd] IN
       \/ n # None /\ state[n] = "in" /\ work[n] = -1 /\ work' = [work EXCEPT ![n] = calc.slot]
       \/ UNCHANGED work
    /\ Confuses(calc.fd)
    /\ UNCHANGED <<table, conn, monitor, ping, backlog, edge, results>>

Interrupt == server' = "stopped" /\ UNCHANGED <<table, conn, threads, net, work, results>>

MonitorStep == Accept \/ Listen \/ Refuse \/ StoreName \/ StoreFd \/ StoreNum \/ Reply \/ PrintResult
PingStep == (\E s \in Slots : Finds(s) \/ Greets(s)) \/ Close \/ ClearFd \/ ClearName \/ ClearNum
CalcStep == (\E s \in Slots : Pick(s)) \/ Write
ServerStep == server = "up" /\ (MonitorStep \/ PingStep \/ CalcStep \/ Interrupt)
Next == ServerStep \/ \E n \in Nodes : Connect(n) \/ SendName(n) \/ Leave(n) \/ Compute(n)

Spec == Init /\ [][Next]_vars

\* The threads run, and ping comes to every slot again and again.
Fairness ==
    /\ WF_vars(server = "up" /\ (Accept \/ Listen \/ Refuse \/ StoreName \/ StoreFd \/ StoreNum \/ Reply))
    /\ WF_vars(server = "up" /\ (Close \/ ClearFd \/ ClearName \/ ClearNum))
    /\ \A s \in Slots : SF_vars(server = "up" /\ Finds(s))

-----------------------------------------------------------------------------
(* Properties                                                              *)

\* A slot in use has a descriptor that is open and no other slot's, whatever
\* monitor fills and ping clears meanwhile (server.c:127-133, 181-192), but for
\* the one slot whose descriptor ping has closed and not yet cleared.  What calc
\* has read from a slot before (server.c:212-218) is not in it.
Cleared == IF ping.at = "fd" THEN {ping.slot} ELSE {}
SlotsOwnDescriptors ==
    /\ TypeOK
    /\ \A s \in Live \ Cleared :
          /\ conn[clients[s].fd] # None
          /\ \A t \in Live \ Cleared : clients[s].fd = clients[t].fd => s = t

\* A node that has gone loses its slot, whatever happens to the slot's other
\* fields while it is being filled or cleared (server.c:131-133, 181-192).
GoneIsRemoved ==
    \A n \in Nodes :
        (state[n] = "gone" /\ \E s \in Live : conn[clients[s].fd] = n)
            ~> (server # "up" \/ ~ \E s \in Live : conn[clients[s].fd] = n)
================================================================================
