---------------------------- MODULE ClustersProofs ----------------------------
(***************************************************************************)
(* Safety of the two clusters of SysOpy/lab10 for any number of nodes,     *)
(* names, slots and descriptors: the tables that the threads of a server   *)
(* share without a lock.                                                   *)
(***************************************************************************)
EXTENDS MCClusters, WellFoundedInduction, SequenceTheorems, TLAPS

\* Min finds what it looks for.
LEMMA MinIsMember ==
    ASSUME NEW S \in SUBSET Nat, S # {}
    PROVE  Min(S) \in S
<1> DEFINE R == {p \in Nat \X Nat : p[1] < p[2]}
<1>1. IsWellFoundedOn(R, Nat)
  BY NatLessThanWellFounded DEF OpToRel
<1>2. PICK m \in S : \A k \in S : <<k, m>> \notin R
  BY <1>1, WFMin
<1>3. ASSUME NEW k \in S
      PROVE  m <= k
  <2>1. <<k, m>> \notin R
    BY <1>2
  <2>2. k \in Nat /\ m \in Nat /\ <<k, m>>[1] = k /\ <<k, m>>[2] = m
    OBVIOUS
  <2>3. ~(k < m)
    BY <2>1, <2>2
  <2> QED BY <2>2, <2>3
<1> QED BY <1>3 DEF Min

-----------------------------------------------------------------------------
(* zad1: connections                                                       *)

Places ==
    /\ monitor \in [at : {"idle", "reads", "checks", "fd", "num", "replies"},
                    slot : Slots, fd : Fds \cup {-1}]
    /\ ping \in [at : {"idle", "closes", "fd", "name", "num"}, slot : Slots, fd : Fds \cup {-1}]
    /\ calc \in [at : {"idle", "writes"}, slot : Slots, fd : Fds \cup {-1}]

\* The descriptor of a node that is not in the table yet is open, and no slot
\* has it but the one whose descriptor ping has closed.
AskerInv ==
    monitor.at \in {"reads", "checks", "fd"} =>
       /\ monitor.fd \in Fds /\ conn[monitor.fd] # None
       /\ \A s \in Live \ Cleared : clients[s].fd # monitor.fd

\* monitor fills a slot that is not in use, and ping clears one that is: this is
\* why the two need no lock for the descriptor.
FillsFree == monitor.at = "fd" => clients[monitor.slot].fd = -1
ClearsUsed == ping.at \in {"closes", "fd"} => clients[ping.slot].fd # -1

EdgeInv == edge => backlog # <<>>

StreamInv == SlotsOwnDescriptors /\ Places /\ AskerInv /\ FillsFree /\ ClearsUsed /\ EdgeInv


LEMMA StreamInit == Init => StreamInv
<1> SUFFICES ASSUME Init PROVE StreamInv
  OBVIOUS
<1> USE ClusterAssumption DEF Init, Free, Idle
<1>1. 0 \in Slots
  BY DEF Slots
<1>2. TypeOK /\ Places
  BY <1>1 DEF TypeOK, Places
<1>3. Live = {}
  BY DEF Live
<1>4. SlotsOwnDescriptors /\ AskerInv /\ FillsFree /\ ClearsUsed /\ EdgeInv
  BY <1>2, <1>3 DEF SlotsOwnDescriptors, AskerInv, FillsFree, ClearsUsed, EdgeInv
<1> QED BY <1>2, <1>4 DEF StreamInv

Connections == conn \in [Fds -> Nodes \cup {None}] /\ backlog \in Seq(Nodes)
NodeTypes ==
    /\ state \in [Nodes -> States]
    /\ work \in [Nodes -> Slots \cup {-1}] /\ results \subseteq Nodes \X Slots
Table == [Slots -> [name : Names \cup {NoName}, fd : Fds \cup {-1}, num : Nat \cup {-1}]]

\* TypeOK in the groups of variables that steps change together.
LEMMA TypeParts ==
    Places => (TypeOK <=> /\ server \in {"up", "killed", "stopped"}
                          /\ clients \in Table /\ numOfClients \in Nat
                          /\ Connections /\ edge \in BOOLEAN /\ NodeTypes)
  BY DEF TypeOK, Places, Connections, NodeTypes, Table

\* A step that moves neither a descriptor nor the threads that do.
LEMMA StreamQuiet ==
    ASSUME StreamInv, UNCHANGED <<clients, conn, monitor, ping>>, TypeOK', Places', EdgeInv'
    PROVE  StreamInv'
  BY DEF StreamInv, SlotsOwnDescriptors, AskerInv, FillsFree, ClearsUsed, Live, Cleared

LEMMA NodeStep ==
    ASSUME StreamInv, NEW n \in Nodes, Connect(n) \/ SendName(n) \/ Leave(n) \/ Compute(n)
    PROVE  StreamInv'
<1> USE ClusterAssumption DEF StreamInv, SlotsOwnDescriptors, table, threads, net
<1>1. UNCHANGED <<server, clients, numOfClients, conn, monitor, ping, calc>>
  BY DEF Connect, SendName, Leave, Compute
<1>2. Places'
  BY <1>1 DEF Places
<1>3. Connections' /\ edge' \in BOOLEAN /\ EdgeInv'
  <2>1. CASE Connect(n)
    BY <2>1, AppendProperties DEF Connect, Connections, TypeOK, EdgeInv
  <2>2. CASE SendName(n) \/ Leave(n) \/ Compute(n)
    BY <2>2 DEF SendName, Leave, Compute, Connections, TypeOK, EdgeInv
  <2> QED BY <2>1, <2>2
<1>4. NodeTypes'
  <2>1. CASE Connect(n)
    BY <2>1 DEF Connect, NodeTypes, TypeOK, States
  <2>2. CASE SendName(n)
    BY <2>2 DEF SendName, NodeTypes, TypeOK, States
  <2>3. CASE Leave(n)
    BY <2>3 DEF Leave, NodeTypes, TypeOK, States
  <2>4. CASE Compute(n)
    BY <2>4 DEF Compute, NodeTypes, TypeOK
  <2> QED BY <2>1, <2>2, <2>3, <2>4
<1>5. TypeOK'
  BY <1>1, <1>2, <1>3, <1>4 DEF TypeOK, Places, Connections, NodeTypes
<1> QED BY <1>1, <1>2, <1>3, <1>5, StreamQuiet

\* Printing, greeting a node, handing out a request, and SIGINT.
LEMMA TalkStep ==
    ASSUME StreamInv, server = "up",
           \/ PrintResult \/ Interrupt \/ Write
           \/ \E s \in Slots : Greets(s) \/ Pick(s)
    PROVE  StreamInv'
<1> USE ClusterAssumption DEF StreamInv, SlotsOwnDescriptors, table, threads, net
<1>1. UNCHANGED <<clients, numOfClients, conn, monitor, ping, backlog, edge>>
  BY DEF PrintResult, Interrupt, Write, Greets, Pick
<1>2. Places'
  <2>1. calc' = calc \/ calc' = Idle \/ \E s \in Slots : calc' = [at |-> "writes", slot |-> s, fd |-> clients[s].fd]
    BY DEF PrintResult, Interrupt, Write, Greets, Pick
  <2>2. 0 \in Slots
    BY DEF Slots
  <2>3. \A s \in Slots : clients[s].fd \in Fds \cup {-1}
    BY DEF TypeOK
  <2> QED BY <1>1, <2>1, <2>2, <2>3 DEF Places, Idle
<1>3. server' \in {"up", "killed", "stopped"}
  BY DEF PrintResult, Interrupt, Write, Writes, Greets, Pick
<1>4. state' \in [Nodes -> States]
  BY DEF TypeOK, States, PrintResult, Interrupt, Write, Greets, Pick, Confuses
<1>5. work' \in [Nodes -> Slots \cup {-1}]
  BY DEF TypeOK, Places, PrintResult, Interrupt, Write, Greets, Pick
<1>6. results' \subseteq Nodes \X Slots
  BY DEF TypeOK, PrintResult, Interrupt, Write, Greets, Pick
<1>7. TypeOK' /\ EdgeInv'
  BY <1>1, <1>2, <1>3, <1>4, <1>5, <1>6 DEF TypeOK, Places, EdgeInv
<1> QED BY <1>1, <1>2, <1>7, StreamQuiet

\* The descriptor that accept gives out is no slot's: theirs are open.
LEMMA AcceptStep == StreamInv /\ server = "up" /\ Accept => StreamInv'
<1> SUFFICES ASSUME StreamInv, server = "up", Accept PROVE StreamInv'
  OBVIOUS
<1> USE ClusterAssumption DEF StreamInv, SlotsOwnDescriptors, table
<1> DEFINE free == {f \in Fds : conn[f] = None}
           f == Min(free)
<1>1. UNCHANGED <<server, clients, numOfClients, ping, calc, state, work, results>> /\ edge' = FALSE
  BY DEF Accept
<1>2. CASE free = {}
  <2>1. UNCHANGED <<conn, monitor, backlog>>
    BY <1>2 DEF Accept
  <2>2. TypeOK' /\ Places' /\ EdgeInv'
    BY <1>1, <2>1 DEF TypeOK, Places, EdgeInv
  <2> QED BY <1>1, <2>1, <2>2, StreamQuiet
<1>3. CASE free # {}
  <2>1. f \in Fds /\ conn[f] = None
    <3>1. f \in free
      BY <1>3, MinIsMember
    <3> QED BY <3>1
  <2>2. /\ conn' = [conn EXCEPT ![f] = Head(backlog)]
        /\ monitor' = [at |-> "reads", slot |-> 0, fd |-> f]
        /\ backlog' = Tail(backlog)
    BY <1>3 DEF Accept
  <2>3. Head(backlog) \in Nodes /\ Tail(backlog) \in Seq(Nodes)
    BY HeadTailProperties DEF Accept, EdgeInv, TypeOK
  <2> HIDE DEF f, free
  <2>4. Places' /\ EdgeInv'
    <3>1. 0 \in Slots
      BY DEF Slots
    <3> QED BY <1>1, <2>1, <2>2, <3>1 DEF Places, EdgeInv
  <2>5. TypeOK'
    BY <1>1, <2>1, <2>2, <2>3, <2>4 DEF TypeOK, Places
  <2>6. /\ conn'[f] # None /\ \A g \in Fds \ {f} : conn'[g] = conn[g]
    BY <2>1, <2>2, <2>3 DEF TypeOK
  <2>7. Live' = Live /\ Cleared' = Cleared /\ \A s \in Live : clients[s].fd \in Fds
    BY <1>1 DEF Live, Cleared, TypeOK
  <2>8. \A s \in Live \ Cleared : clients[s].fd # f
    BY <2>1
  <2>9. SlotsOwnDescriptors'
    BY <1>1, <2>5, <2>6, <2>7, <2>8
  <2>10. AskerInv' /\ FillsFree' /\ ClearsUsed'
    BY <1>1, <2>1, <2>2, <2>6, <2>7, <2>8 DEF AskerInv, FillsFree, ClearsUsed
  <2> QED BY <2>4, <2>9, <2>10
<1> QED BY <1>2, <1>3

\* Whether a name comes or not, the descriptor stays open.
LEMMA ListenStep == StreamInv /\ server = "up" /\ Listen => StreamInv'
<1> SUFFICES ASSUME StreamInv, server = "up", Listen PROVE StreamInv'
  OBVIOUS
<1> USE ClusterAssumption DEF StreamInv, SlotsOwnDescriptors, table, net
<1>1. /\ UNCHANGED <<server, clients, numOfClients, conn, ping, calc, backlog, edge, state, work, results>>
      /\ monitor.at = "reads"
      /\ monitor' = [monitor EXCEPT !.at = "checks"] \/ monitor' = Idle
  BY DEF Listen, Goes
<1>2. Places'
  <2>1. 0 \in Slots
    BY DEF Slots
  <2> QED BY <1>1, <2>1 DEF Places, Idle
<1>3. TypeOK' /\ EdgeInv'
  BY <1>1, <1>2 DEF TypeOK, Places, EdgeInv
<1>4. Live' = Live /\ Cleared' = Cleared /\ FillsFree' /\ ClearsUsed'
  BY <1>1, <1>2 DEF Live, Cleared, FillsFree, ClearsUsed, Places, Idle
<1>5. AskerInv'
  <2>1. monitor'.at = "idle" \/ (monitor'.at = "checks" /\ monitor'.fd = monitor.fd)
    BY <1>1 DEF Places, Idle
  <2> QED BY <1>1, <1>4, <2>1 DEF AskerInv
<1>6. SlotsOwnDescriptors'
  BY <1>1, <1>3, <1>4
<1> QED BY <1>2, <1>3, <1>4, <1>5, <1>6

\* The descriptor that a refusal closes is no slot's.
LEMMA RefuseStep == StreamInv /\ server = "up" /\ Refuse => StreamInv'
<1> SUFFICES ASSUME StreamInv, server = "up", Refuse PROVE StreamInv'
  OBVIOUS
<1> USE ClusterAssumption DEF StreamInv, SlotsOwnDescriptors, table
<1>1. /\ UNCHANGED <<clients, numOfClients, ping, calc, backlog, edge, work, results>>
      /\ monitor' = Idle /\ conn' = [conn EXCEPT ![monitor.fd] = None]
      /\ state' = [state EXCEPT ![Asker] = "gone"]
  BY DEF Refuse
<1>2. monitor.fd \in Fds /\ \A s \in Live \ Cleared : clients[s].fd # monitor.fd
  BY DEF Refuse, AskerInv
<1>3. server' \in {"up", "killed", "stopped"}
  BY DEF Refuse, Writes
<1>4. Places' /\ EdgeInv' /\ AskerInv' /\ FillsFree' /\ ClearsUsed'
  <2>1. 0 \in Slots
    BY DEF Slots
  <2> QED BY <1>1, <2>1 DEF Places, Idle, EdgeInv, AskerInv, FillsFree, ClearsUsed
<1>5. Connections' /\ NodeTypes'
  BY <1>1, <1>2 DEF TypeOK, Connections, NodeTypes, States
<1>6. TypeOK'
  BY <1>1, <1>3, <1>4, <1>5 DEF TypeOK, Places, Connections, NodeTypes
<1>7. Live' = Live /\ Cleared' = Cleared /\ \A s \in Live : clients[s].fd \in Fds
  BY <1>1 DEF Live, Cleared, TypeOK
<1>8. SlotsOwnDescriptors'
  BY <1>1, <1>2, <1>6, <1>7 DEF TypeOK
<1> QED BY <1>4, <1>8

\* Storing a name or a number, and the answer, leave the descriptors alone.
LEMMA NoteStep ==
    ASSUME StreamInv, server = "up", StoreName \/ StoreNum \/ Reply
    PROVE  StreamInv'
<1> USE ClusterAssumption DEF StreamInv, SlotsOwnDescriptors, table, net
<1>1. UNCHANGED <<conn, ping, calc, backlog, edge, work, results>> /\ numOfClients' \in Nat
  BY DEF StoreName, StoreNum, Reply, TypeOK
<1> DEFINE MonitorOK ==
      /\ monitor' \in [at : {"idle", "reads", "checks", "fd", "num", "replies"}, slot : Slots, fd : Fds \cup {-1}]
      /\ monitor'.at \in {"reads", "checks", "fd"} =>
            monitor.at = "checks" /\ monitor'.fd = monitor.fd /\ clients[monitor'.slot].fd = -1
<1>2. clients' \in Table /\ (\A s \in Slots : clients'[s].fd = clients[s].fd) /\ MonitorOK
  <2>1. CASE StoreName
    <3> DEFINE free == Slots \ Live
               m == Min(free)
    <3>1. CASE free = {}
      <4>1. clients' = clients /\ monitor' = [monitor EXCEPT !.at = "replies"]
        BY <2>1, <3>1 DEF StoreName, Goes
      <4>2. MonitorOK
        BY <4>1 DEF Places
      <4> QED BY <4>1, <4>2 DEF Table, TypeOK
    <3>2. CASE free # {}
      <4>1. m \in free
        <5>1. free \subseteq Nat
          BY DEF Slots
        <5> QED BY <3>2, <5>1, MinIsMember
      <4>2. m \in Slots /\ clients[m].fd = -1
        BY <4>1 DEF Live
      <4>3. /\ monitor' = [monitor EXCEPT !.at = "fd", !.slot = m] /\ monitor.at = "checks"
            /\ clients' = [clients EXCEPT ![m] = [clients[m] EXCEPT !.name = NameOf[Asker]]]
        BY <2>1, <3>2 DEF StoreName
      <4>4. NameOf[Asker] \in Names
        BY <4>3 DEF Asker, AskerInv, TypeOK
      <4> HIDE DEF m, free
      <4>5. clients[m] \in [name : Names \cup {NoName}, fd : Fds \cup {-1}, num : Nat \cup {-1}]
        BY <4>2 DEF TypeOK
      <4> DEFINE v == [clients[m] EXCEPT !.name = NameOf[Asker]]
      <4>6. v \in [name : Names \cup {NoName}, fd : Fds \cup {-1}, num : Nat \cup {-1}]
               /\ v.fd = clients[m].fd
        BY <4>4, <4>5
      <4>7. clients' = [clients EXCEPT ![m] = v]
        BY <4>3
      <4> HIDE DEF v
      <4>8. clients' \in Table /\ \A s \in Slots : clients'[s].fd = clients[s].fd
        BY <4>2, <4>6, <4>7 DEF Table, TypeOK
      <4>9. MonitorOK
        BY <4>2, <4>3 DEF Places
      <4> QED BY <4>8, <4>9
    <3> QED BY <3>1, <3>2
  <2>2. CASE StoreNum
    <3> DEFINE m == monitor.slot
               v == [clients[m] EXCEPT !.num = numOfClients]
    <3>1. m \in Slots /\ clients[m] \in [name : Names \cup {NoName}, fd : Fds \cup {-1}, num : Nat \cup {-1}]
      BY DEF Places, TypeOK
    <3>2. v \in [name : Names \cup {NoName}, fd : Fds \cup {-1}, num : Nat \cup {-1}]
             /\ v.fd = clients[m].fd
      BY <3>1 DEF TypeOK
    <3>3. clients' = [clients EXCEPT ![m] = v] /\ monitor' = [monitor EXCEPT !.at = "replies"]
      BY <2>2 DEF StoreNum, Goes
    <3>4. MonitorOK
      BY <3>3 DEF Places
    <3> HIDE DEF v, m
    <3>5. clients' \in Table /\ \A s \in Slots : clients'[s].fd = clients[s].fd
      BY <3>1, <3>2, <3>3 DEF Table, TypeOK
    <3> QED BY <3>4, <3>5
  <2>3. CASE Reply
    <3>1. 0 \in Slots
      BY DEF Slots
    <3> QED BY <2>3, <3>1 DEF Reply, Table, TypeOK, Idle
  <2> QED BY <2>1, <2>2, <2>3
<1>3. server' \in {"up", "killed", "stopped"} /\ NodeTypes'
  BY <1>1 DEF StoreName, StoreNum, Reply, Writes, TypeOK, NodeTypes, States
<1>4. Places'
  BY <1>1, <1>2 DEF Places
<1>5. TypeOK' /\ EdgeInv'
  BY <1>1, <1>2, <1>3, <1>4 DEF TypeOK, Places, Connections, NodeTypes, Table, EdgeInv
<1>6. Live' = Live /\ Cleared' = Cleared /\ \A s \in Live : clients'[s].fd = clients[s].fd
  BY <1>1, <1>2 DEF Live, Cleared
<1>7. SlotsOwnDescriptors'
  <2> HIDE DEF MonitorOK
  <2>1. \A s \in Live' \ Cleared' :
           /\ conn'[clients'[s].fd] # None
           /\ \A t \in Live' \ Cleared' : clients'[s].fd = clients'[t].fd => s = t
    BY <1>1, <1>6
  <2> QED BY <1>5, <2>1
<1>8. ClearsUsed'
  BY <1>1, <1>2 DEF ClearsUsed, Places
<1>9. AskerInv'
  BY <1>1, <1>2, <1>6 DEF AskerInv
<1>10. FillsFree'
  BY <1>2 DEF FillsFree
<1> QED BY <1>4, <1>5, <1>7, <1>8, <1>9, <1>10

\* The slot that gets the descriptor is one that was not in use, so it is not
\* the one that ping is clearing.
LEMMA StoreFdStep == StreamInv /\ server = "up" /\ StoreFd => StreamInv'
<1> SUFFICES ASSUME StreamInv, server = "up", StoreFd PROVE StreamInv'
  OBVIOUS
<1> USE ClusterAssumption DEF StreamInv, SlotsOwnDescriptors, net
<1> DEFINE m == monitor.slot
           f == monitor.fd
           v == [clients[m] EXCEPT !.fd = f]
<1>1. /\ UNCHANGED <<server, numOfClients, conn, ping, calc, backlog, edge, state, work, results>>
      /\ clients' = [clients EXCEPT ![m] = v] /\ monitor' = [monitor EXCEPT !.at = "num"]
      /\ monitor.at = "fd"
  BY DEF StoreFd, Goes
<1>2. /\ m \in Slots /\ clients[m].fd = -1 /\ f \in Fds /\ conn[f] # None
      /\ \A s \in Live \ Cleared : clients[s].fd # f
  BY <1>1 DEF Places, FillsFree, AskerInv
<1>3. v \in [name : Names \cup {NoName}, fd : Fds \cup {-1}, num : Nat \cup {-1}] /\ v.fd = f
  <2>1. clients[m] \in [name : Names \cup {NoName}, fd : Fds \cup {-1}, num : Nat \cup {-1}]
    BY <1>2 DEF TypeOK
  <2> QED BY <1>2, <2>1
<1>4. Places' /\ EdgeInv' /\ AskerInv' /\ FillsFree'
  BY <1>1 DEF Places, EdgeInv, AskerInv, FillsFree
<1> HIDE DEF m, f, v
<1>5. /\ clients' \in Table /\ clients'[m].fd = f
      /\ \A s \in Slots \ {m} : clients'[s] = clients[s]
  BY <1>1, <1>2, <1>3 DEF Table, TypeOK
<1>6. TypeOK'
  BY <1>1, <1>4, <1>5 DEF TypeOK, Places, Table
<1>7. /\ ping.at \in {"closes", "fd"} => ping.slot # m
      /\ ping.slot \in Slots /\ -1 \notin Fds
  BY <1>2 DEF ClearsUsed, Places
<1>8. Live' = Live \cup {m} /\ Cleared' = Cleared /\ m \notin Cleared /\ m \notin Live /\ Live \subseteq Slots
  BY <1>1, <1>2, <1>5, <1>7 DEF Live, Cleared
<1>9. SlotsOwnDescriptors'
  <2>1. \A s \in Live' \ Cleared' : IF s = m THEN clients'[s].fd = f
                                    ELSE s \in Live \ Cleared /\ clients'[s].fd = clients[s].fd
    BY <1>5, <1>8
  <2>2. ASSUME NEW s \in Live' \ Cleared'
        PROVE  /\ conn'[clients'[s].fd] # None
               /\ \A t \in Live' \ Cleared' : clients'[s].fd = clients'[t].fd => s = t
    BY <1>1, <1>2, <2>1
  <2> QED BY <1>6, <2>2
<1>10. ClearsUsed'
  BY <1>1, <1>5, <1>7 DEF ClearsUsed
<1> QED BY <1>4, <1>9, <1>10

\* Closing a descriptor takes it from the slot that ping clears, and from no
\* other: not from one in use, and not from the node that is being accepted.
LEMMA CloseStep == StreamInv /\ server = "up" /\ Close => StreamInv'
<1> SUFFICES ASSUME StreamInv, server = "up", Close PROVE StreamInv'
  OBVIOUS
<1> USE ClusterAssumption DEF StreamInv, SlotsOwnDescriptors, table, net
<1> DEFINE p == ping.slot
           f == clients[p].fd
<1>1. /\ UNCHANGED <<server, clients, numOfClients, monitor, calc, backlog, edge, state, work>>
      /\ results' \subseteq results /\ conn' = [conn EXCEPT ![f] = None]
      /\ ping.at = "closes" /\ ping' = [ping EXCEPT !.at = "fd"]
  BY DEF Close, PingAt
<1>2. p \in Slots /\ f \in Fds /\ f # -1 /\ -1 \notin Fds
  BY <1>1 DEF ClearsUsed, Places, TypeOK
<1>3. Places' /\ EdgeInv' /\ FillsFree' /\ ClearsUsed'
  BY <1>1, <1>2 DEF Places, EdgeInv, FillsFree, ClearsUsed
<1>4. Cleared = {} /\ Cleared' = {p} /\ Live' = Live /\ p \in Live
      /\ \A s \in Live : clients[s].fd \in Fds
  BY <1>1, <1>2 DEF Cleared, Live, Places, TypeOK
<1>5. f # monitor.fd \/ monitor.at \notin {"reads", "checks", "fd"}
  BY <1>4 DEF AskerInv
<1> HIDE DEF f, p
<1>6. conn' \in [Fds -> Nodes \cup {None}] /\ \A g \in Fds \ {f} : conn'[g] = conn[g]
  BY <1>1, <1>2 DEF TypeOK
<1>7. TypeOK'
  BY <1>1, <1>3, <1>6 DEF TypeOK, Places
<1>8. \A s \in Live' \ Cleared' : clients[s].fd # f
  BY <1>4 DEF f
<1>9. SlotsOwnDescriptors'
  BY <1>1, <1>4, <1>6, <1>7, <1>8
<1>10. AskerInv'
  BY <1>1, <1>2, <1>4, <1>5, <1>6 DEF AskerInv
<1> QED BY <1>3, <1>9, <1>10

\* What ping does to a slot before and after.
LEMMA PingStepInv ==
    ASSUME StreamInv, server = "up",
           ClearFd \/ ClearName \/ ClearNum \/ \E s \in Slots : Finds(s)
    PROVE  StreamInv'
<1> USE ClusterAssumption DEF StreamInv, SlotsOwnDescriptors, table, net
<1> DEFINE p == ping.slot
<1>1. UNCHANGED <<server, numOfClients, conn, monitor, calc, backlog, edge, state, work, results>>
  BY DEF ClearFd, ClearName, ClearNum, Finds
<1>2. p \in Slots /\ clients[p] \in [name : Names \cup {NoName}, fd : Fds \cup {-1}, num : Nat \cup {-1}]
  BY DEF Places, TypeOK
<1>3. clients' \in Table /\ \A s \in Slots :
         clients'[s].fd = IF ClearFd /\ s = p THEN -1 ELSE clients[s].fd
  <2>1. ASSUME NEW v \in [name : Names \cup {NoName}, fd : Fds \cup {-1}, num : Nat \cup {-1}],
               clients' = [clients EXCEPT ![p] = v],
               v.fd = IF ClearFd THEN -1 ELSE clients[p].fd
        PROVE  clients' \in Table /\ \A s \in Slots :
                  clients'[s].fd = IF ClearFd /\ s = p THEN -1 ELSE clients[s].fd
    BY <1>2, <2>1 DEF Table, TypeOK
  <2>2. CASE ClearFd
    BY <1>2, <2>1, <2>2 DEF ClearFd
  <2>3. CASE ClearName
    BY <1>2, <2>1, <2>3 DEF ClearName, ClearFd
  <2>4. CASE ClearNum
    BY <1>2, <2>1, <2>4 DEF ClearNum, ClearFd
  <2>5. CASE \E s \in Slots : Finds(s)
    BY <2>5 DEF Finds, ClearFd, Table, TypeOK
  <2> QED BY <2>2, <2>3, <2>4, <2>5
<1>4. Places'
  <2>1. 0 \in Slots
    BY DEF Slots
  <2> QED BY <1>1, <2>1 DEF ClearFd, ClearName, ClearNum, Finds, PingAt, Idle, Places
<1>5. TypeOK' /\ EdgeInv'
  BY <1>1, <1>3, <1>4 DEF TypeOK, Places, EdgeInv, Table
<1>6. ClearsUsed' /\ Cleared' = {} /\ (ClearFd => Cleared = {p}) /\ (~ClearFd => Cleared = {})
  BY <1>3 DEF ClearFd, ClearName, ClearNum, Finds, PingAt, Idle, ClearsUsed, Cleared, Places
<1>7. Live' \ Cleared' = Live \ Cleared /\ \A s \in Live \ Cleared : clients'[s].fd = clients[s].fd
  <2>1. CASE ClearFd
    BY <1>3, <1>6, <2>1 DEF Live
  <2>2. CASE ~ClearFd
    BY <1>3, <1>6, <2>2 DEF Live
  <2> QED BY <2>1, <2>2
<1>8. SlotsOwnDescriptors'
  BY <1>1, <1>5, <1>7
<1>9. AskerInv' /\ FillsFree'
  BY <1>1, <1>3, <1>7 DEF AskerInv, FillsFree, Places
<1> QED BY <1>4, <1>5, <1>6, <1>8, <1>9

LEMMA StreamStep == StreamInv /\ [Next]_vars => StreamInv'
<1> SUFFICES ASSUME StreamInv, [Next]_vars PROVE StreamInv'
  OBVIOUS
<1>1. CASE UNCHANGED vars
  BY <1>1, StreamQuiet DEF vars, table, threads, net, StreamInv, SlotsOwnDescriptors, TypeOK,
                           Places, EdgeInv
<1>2. CASE Next
  BY <1>2, NodeStep, TalkStep, AcceptStep, ListenStep, RefuseStep, NoteStep, StoreFdStep, CloseStep, PingStepInv
     DEF Next, ServerStep, MonitorStep, PingStep, CalcStep
<1> QED BY <1>1, <1>2

\* Every slot in use has a descriptor that is open and nobody else's, except the
\* one whose descriptor ping has just closed: for any number of nodes, slots and
\* descriptors, though three threads share the table without a lock
\* (zad1/server.c:124-133, 181-192).
THEOREM DescriptorsAreOwned == Spec => []SlotsOwnDescriptors
<1>1. StreamInv => SlotsOwnDescriptors
  BY DEF StreamInv
<1> QED BY <1>1, StreamInit, StreamStep, PTL DEF Spec

-----------------------------------------------------------------------------
(* zad2: datagrams                                                         *)

UdpPlaces ==
    /\ monitor2 \in [at : {"idle", "checks", "addr", "type", "num", "replies"},
                     slot : Udp!Slots, addr : Nodes \cup {None}]
    /\ calc2 \in [at : {"idle", "sends"}, slot : Udp!Slots, addr : Nodes \cup {None}]
    /\ monitor2.at # "idle" => monitor2.addr \in Nodes

\* The slot that monitor fills is complete as far as it has got.
UdpFilling ==
    LET m == clients2[monitor2.slot] IN
    /\ monitor2.at \in {"addr", "type", "num"} => m.num = -1 /\ m.name = NameOf[monitor2.addr]
    /\ monitor2.at \in {"type", "num"} => m.addr = monitor2.addr
    /\ monitor2.at = "num" => m.type = Udp!Type(monitor2.addr)

\* No two slots have the same name, complete or not.
UdpNamesDiffer ==
    \A s, t \in Udp!Slots : s # t /\ clients2[s].name # NoName => clients2[s].name # clients2[t].name

\* Only slots with a number are on their way to a node.
UdpNumbered ==
    /\ calc2.at = "sends" => clients2[calc2.slot].num # -1
    /\ \A n \in Nodes : work2[n] # -1 => clients2[work2[n]].num # -1

UdpEdgeInv == \A i \in Udp!Sockets : edge2[i] => inbox[i] # <<>>

UdpInv ==
    /\ UdpSlotsComplete /\ UdpPlaces /\ UdpFilling /\ UdpNamesDiffer
    /\ UdpNumbered /\ UdpEdgeInv

LEMMA UdpInit == Udp!Init => UdpInv
<1> SUFFICES ASSUME Udp!Init PROVE UdpInv
  OBVIOUS
<1> USE UdpAssumption DEF Udp!Init, Udp!ClusterUdpAssumption, Udp!Free, Udp!Idle
<1>1. 0 \in Udp!Slots
  BY DEF Udp!Slots
<1>2. Udp!TypeOK /\ UdpPlaces
  BY <1>1 DEF Udp!TypeOK, UdpPlaces
<1>3. UdpSlotsComplete /\ UdpFilling /\ UdpNamesDiffer /\ UdpNumbered /\ UdpEdgeInv
  BY <1>1, <1>2 DEF UdpSlotsComplete, Udp!SlotsComplete, UdpFilling, UdpNamesDiffer,
                    UdpNumbered, UdpEdgeInv
<1> QED BY <1>2, <1>3 DEF UdpInv

LEMMA UdpSends ==
    ASSUME UdpInv, NEW n \in Nodes, NEW kind \in {"1", "3"}, Udp!Sends(n, kind)
    PROVE  /\ inbox' \in [Udp!Sockets -> Seq(Udp!Datagrams)]
           /\ edge2' \in [Udp!Sockets -> BOOLEAN]
           /\ UdpEdgeInv'
<1> DEFINE i == Udp!SocketOf(n)
           d == [kind |-> kind, from |-> n]
<1>1. /\ inbox \in [Udp!Sockets -> Seq(Udp!Datagrams)] /\ edge2 \in [Udp!Sockets -> BOOLEAN]
      /\ UdpEdgeInv
  BY DEF UdpInv, UdpSlotsComplete, Udp!SlotsComplete, Udp!TypeOK
<1>2. i \in Udp!Sockets /\ d \in Udp!Datagrams
  BY DEF Udp!SocketOf, Udp!Sockets, Udp!Datagrams
<1>3. CASE UNCHANGED <<inbox, edge2>>
  BY <1>1, <1>3 DEF UdpEdgeInv
<1>4. CASE /\ inbox' = [inbox EXCEPT ![i] = Append(@, d)]
           /\ edge2' = [edge2 EXCEPT ![i] = TRUE]
  <2>1. Append(inbox[i], d) \in Seq(Udp!Datagrams) /\ Append(inbox[i], d) # <<>>
    BY <1>1, <1>2, AppendProperties
  <2> HIDE DEF i, d
  <2> QED BY <1>1, <1>2, <1>4, <2>1 DEF UdpEdgeInv
<1> QED BY <1>3, <1>4 DEF Udp!Sends

\* A node's own steps touch neither the table nor the threads.
LEMMA UdpNodeStep ==
    ASSUME UdpInv, NEW n \in Nodes, Udp!Ask(n) \/ Udp!Compute(n) \/ Udp!Leave(n)
    PROVE  UdpInv'
<1> USE DEF UdpInv, UdpSlotsComplete, Udp!SlotsComplete, Udp!table
<1>1. UNCHANGED <<clients2, numOfClients2, monitor2, calc2>>
  BY DEF Udp!Ask, Udp!Compute, Udp!Leave
<1>2. /\ inbox' \in [Udp!Sockets -> Seq(Udp!Datagrams)]
      /\ edge2' \in [Udp!Sockets -> BOOLEAN] /\ UdpEdgeInv'
  BY UdpSends DEF Udp!Ask, Udp!Compute, Udp!Leave, Udp!TypeOK, UdpEdgeInv
<1>3. /\ state2' \in [Nodes -> {"out", "asks", "in", "gone"}]
      /\ work2' \in [Nodes -> Udp!Slots \cup {-1}]
      /\ \A m \in Nodes : work2'[m] # -1 => work2'[m] = work2[m]
  <2>1. CASE Udp!Ask(n)
    BY <2>1 DEF Udp!Ask, Udp!TypeOK
  <2>2. CASE Udp!Compute(n)
    BY <2>2 DEF Udp!Compute, Udp!TypeOK
  <2>3. CASE Udp!Leave(n)
    BY <2>3 DEF Udp!Leave, Udp!TypeOK
  <2> QED BY <2>1, <2>2, <2>3
<1>4. Udp!TypeOK'
  BY <1>1, <1>2, <1>3 DEF Udp!TypeOK
<1>5. UdpPlaces' /\ UdpFilling' /\ UdpNamesDiffer'
  BY <1>1 DEF UdpPlaces, UdpFilling, UdpNamesDiffer
<1>6. UdpNumbered' /\ Udp!SlotsComplete'
  BY <1>1, <1>3, <1>4 DEF UdpNumbered
<1> QED BY <1>2, <1>5, <1>6

\* What calc sends is the slot of a node that is complete.
LEMMA UdpCalcStep ==
    ASSUME UdpInv, (\E s \in Udp!Slots : Udp!Pick(s)) \/ Udp!Send
    PROVE  UdpInv'
<1> USE UdpAssumption DEF UdpInv, UdpSlotsComplete, Udp!SlotsComplete, Udp!table, Udp!Idle,
                          Udp!ClusterUdpAssumption
<1>1. UNCHANGED <<clients2, numOfClients2, inbox, edge2, monitor2>>
  BY DEF Udp!Pick, Udp!Send
<1>2. 0 \in Udp!Slots /\ -1 \notin Udp!Slots
  BY DEF Udp!Slots
<1>3. CASE \E s \in Udp!Slots : Udp!Pick(s)
  <2>1. PICK s \in Udp!Slots : Udp!Pick(s)
    BY <1>3
  <2>2. Udp!TypeOK' /\ UdpPlaces' /\ UdpNumbered'
    BY <1>1, <2>1 DEF Udp!Pick, Udp!TypeOK, UdpPlaces, UdpNumbered
  <2> QED BY <1>1, <2>1, <2>2 DEF Udp!Pick, UdpFilling, UdpNamesDiffer, UdpEdgeInv
<1>4. CASE Udp!Send
  <2> DEFINE n == clients2[calc2.slot].addr
  <2>1. calc2.slot \in Udp!Slots /\ clients2[calc2.slot].num # -1 /\ n \in Nodes
    BY <1>4 DEF Udp!Send, UdpNumbered, UdpPlaces
  <2>2. \A m \in Nodes : work2'[m] = work2[m] \/ (m = n /\ work2'[m] = calc2.slot)
    <3>1. work2' = work2 \/ work2' = [work2 EXCEPT ![n] = calc2.slot]
      BY <1>4 DEF Udp!Send
    <3> HIDE DEF n
    <3> QED BY <2>1, <3>1 DEF Udp!TypeOK
  <2>3. Udp!TypeOK' /\ UdpPlaces'
    <3>1. \/ UNCHANGED <<work2, state2>>
          \/ work2' = [work2 EXCEPT ![n] = calc2.slot] /\ UNCHANGED state2
          \/ state2' = [state2 EXCEPT ![n] = "gone"] /\ UNCHANGED work2
      BY <1>4 DEF Udp!Send
    <3>2. /\ state2' \in [Nodes -> {"out", "asks", "in", "gone"}]
          /\ work2' \in [Nodes -> Udp!Slots \cup {-1}]
      <4> HIDE DEF n
      <4> QED BY <2>1, <3>1 DEF Udp!TypeOK
    <3>3. calc2' = [at |-> "idle", slot |-> 0, addr |-> None]
      BY <1>4 DEF Udp!Send
    <3> QED BY <1>1, <1>2, <3>2, <3>3 DEF Udp!TypeOK, UdpPlaces
  <2>4. UdpNumbered' /\ \A m \in Nodes : work2'[m] # -1 => clients2'[work2'[m]].addr = m
    BY <1>1, <1>2, <1>4, <2>1, <2>2 DEF Udp!Send, UdpNumbered
  <2> QED BY <1>1, <2>3, <2>4 DEF UdpFilling, UdpNamesDiffer, UdpEdgeInv
<1> QED BY <1>3, <1>4

LEMMA UdpReadStep ==
    ASSUME UdpInv, NEW i \in Udp!Sockets, Udp!Read(i)
    PROVE  UdpInv'
<1> USE UdpAssumption DEF UdpInv, UdpSlotsComplete, Udp!SlotsComplete, Udp!table, Udp!Read,
                          Udp!ClusterUdpAssumption
<1> DEFINE d == Head(inbox[i])
<1>1. d \in Udp!Datagrams /\ Tail(inbox[i]) \in Seq(Udp!Datagrams)
  BY HeadTailProperties DEF UdpEdgeInv, Udp!TypeOK
<1>2. \/ monitor2' = monitor2
      \/ monitor2' = [at |-> "checks", slot |-> 0, addr |-> d.from]
  OBVIOUS
<1>3. d.from \in Nodes /\ 0 \in Udp!Slots
  BY <1>1 DEF Udp!Datagrams, Udp!Slots
<1>4. UdpPlaces' /\ UdpFilling'
  <2> HIDE DEF d
  <2> QED BY <1>2, <1>3 DEF UdpPlaces, UdpFilling
<1>5. /\ inbox' \in [Udp!Sockets -> Seq(Udp!Datagrams)]
      /\ edge2' \in [Udp!Sockets -> BOOLEAN] /\ UdpEdgeInv'
  BY <1>1 DEF Udp!TypeOK, UdpEdgeInv
<1>6. Udp!TypeOK'
  BY <1>4, <1>5 DEF Udp!TypeOK, UdpPlaces
<1>7. UdpNamesDiffer' /\ UdpNumbered'
  BY DEF UdpNamesDiffer, UdpNumbered
<1> QED BY <1>4, <1>5, <1>6, <1>7

\* The name goes into a slot that nobody reads yet, and is nobody else's.
LEMMA UdpStoreNameStep == UdpInv /\ Udp!StoreName => UdpInv'
<1> SUFFICES ASSUME UdpInv, Udp!StoreName PROVE UdpInv'
  OBVIOUS
<1> USE UdpAssumption DEF UdpInv, UdpSlotsComplete, Udp!SlotsComplete, Udp!table, Udp!Goes,
                          Udp!ClusterUdpAssumption
<1> DEFINE free == {s \in Udp!Slots : clients2[s].num = -1}
           m == Udp!Min(free)
<1>1. /\ monitor2.addr \in Nodes /\ NameOf[monitor2.addr] \in Names
      /\ \A s \in Udp!Slots : clients2[s].name # NameOf[monitor2.addr]
  BY DEF Udp!StoreName, UdpPlaces, Udp!Known
<1>2. UNCHANGED <<numOfClients2, inbox, edge2, calc2, state2, work2>>
  BY DEF Udp!StoreName
<1>3. CASE free = {}
  <2>1. clients2' = clients2 /\ monitor2' = [monitor2 EXCEPT !.at = "replies"]
    BY <1>3 DEF Udp!StoreName
  <2> QED BY <1>1, <1>2, <2>1, SMTT(30) DEF Udp!TypeOK, UdpPlaces, UdpFilling, UdpNamesDiffer,
                                            UdpNumbered, UdpEdgeInv
<1>4. CASE free # {}
  <2>1. m \in free
    <3>1. free \subseteq Nat
      BY DEF Udp!Slots
    <3>2. Udp!Min(free) = Min(free)
      BY DEF Udp!Min, Min
    <3> QED BY <1>4, <3>1, <3>2, MinIsMember
  <2>2. /\ monitor2' = [monitor2 EXCEPT !.at = "addr", !.slot = m]
        /\ clients2' = [clients2 EXCEPT ![m].name = NameOf[monitor2.addr]]
    BY <1>4 DEF Udp!StoreName
  <2>3. m \in Udp!Slots /\ clients2[m].num = -1
    BY <2>1
  <2> HIDE DEF m, free
  <2>4. /\ clients2'[m] = [clients2[m] EXCEPT !.name = NameOf[monitor2.addr]]
        /\ \A s \in Udp!Slots \ {m} : clients2'[s] = clients2[s]
    BY <2>2, <2>3 DEF Udp!TypeOK
  <2>5. UdpPlaces'
    BY <1>1, <1>2, <2>2, <2>3 DEF UdpPlaces
  <2>6. Udp!TypeOK'
    <3>1. clients2' \in [Udp!Slots -> [name : Names \cup {NoName}, addr : Nodes \cup {None},
                                       type : {0, 1}, num : Nat \cup {-1}]]
      <4> DEFINE v == [clients2[m] EXCEPT !.name = NameOf[monitor2.addr]]
      <4>1. v \in [name : Names \cup {NoName}, addr : Nodes \cup {None}, type : {0, 1}, num : Nat \cup {-1}]
        <5>1. clients2[m] \in [name : Names \cup {NoName}, addr : Nodes \cup {None},
                               type : {0, 1}, num : Nat \cup {-1}]
          BY <2>3 DEF Udp!TypeOK
        <5> QED BY <1>1, <5>1
      <4>2. clients2' = [clients2 EXCEPT ![m] = v]
        BY <2>2
      <4> HIDE DEF v
      <4> QED BY <2>3, <4>1, <4>2 DEF Udp!TypeOK
    <3> QED BY <1>2, <2>5, <3>1 DEF Udp!TypeOK, UdpPlaces
  <2>7. /\ clients2'[m].num = -1 /\ clients2'[m].name = NameOf[monitor2.addr]
        /\ monitor2'.slot = m /\ monitor2'.at = "addr" /\ monitor2'.addr = monitor2.addr
    BY <2>2, <2>3, <2>4 DEF Udp!TypeOK, UdpPlaces
  <2>8. UdpFilling'
    BY <2>7 DEF UdpFilling
  <2>9. UdpNamesDiffer'
    <3> SUFFICES ASSUME NEW s \in Udp!Slots, NEW t \in Udp!Slots, s # t,
                        clients2'[s].name # NoName
                 PROVE  clients2'[s].name # clients2'[t].name
      BY DEF UdpNamesDiffer
    <3>1. CASE s = m
      BY <1>1, <2>4, <2>7, <3>1
    <3>2. CASE t = m
      BY <1>1, <2>4, <2>7, <3>2
    <3>3. CASE s # m /\ t # m
      BY <2>4, <3>3 DEF UdpNamesDiffer
    <3> QED BY <3>1, <3>2, <3>3
  <2>10. UdpNumbered' /\ UdpEdgeInv'
    BY <1>2, <2>3, <2>4, SMTT(30) DEF UdpNumbered, UdpEdgeInv, UdpPlaces, Udp!TypeOK
  <2>11. Udp!SlotsComplete'
    <3>1. \A s \in Udp!Slots : clients2'[s].num # -1 => s # m /\ clients2'[s] = clients2[s]
      BY <2>4, <2>7
    <3>2. \A n \in Nodes : work2'[n] # -1 => clients2'[work2'[n]] = clients2[work2[n]]
      BY <1>2, <2>3, <2>4 DEF UdpNumbered, Udp!TypeOK
    <3>3. ASSUME NEW s \in Udp!Slots, clients2'[s].num # -1, NEW t \in Udp!Slots \ {s}
          PROVE  clients2'[s].name # clients2'[t].name
      <4>1. CASE t = m
        BY <1>1, <2>7, <3>1, <3>3, <4>1
      <4>2. CASE t # m
        BY <2>4, <3>1, <3>3, <4>2
      <4> QED BY <4>1, <4>2
    <3> QED BY <1>2, <2>6, <3>1, <3>2, <3>3
  <2> QED BY <2>5, <2>8, <2>9, <2>10, <2>11
<1> QED BY <1>3, <1>4

\* The other fields go into the slot that has just been named; the number, which
\* shows it to calc, is the last.
LEMMA UdpStoreStep ==
    ASSUME UdpInv, Udp!StoreAddr \/ Udp!StoreType \/ Udp!StoreNum
    PROVE  UdpInv'
<1> USE UdpAssumption DEF UdpInv, UdpSlotsComplete, Udp!SlotsComplete, Udp!ClusterUdpAssumption
<1> DEFINE m == monitor2.slot
           n == monitor2.addr
<1>1. PICK v, at :
         /\ clients2' = [clients2 EXCEPT ![m] = v]
         /\ monitor2' = [monitor2 EXCEPT !.at = at]
         /\ \/ /\ monitor2.at = "addr" /\ at = "type" /\ v = [clients2[m] EXCEPT !.addr = n]
            \/ /\ monitor2.at = "type" /\ at = "num"
               /\ v = [clients2[m] EXCEPT !.type = Udp!Type(n)]
            \/ /\ monitor2.at = "num" /\ at = "replies"
               /\ v = [clients2[m] EXCEPT !.num = numOfClients2]
  BY DEF Udp!StoreAddr, Udp!StoreType, Udp!StoreNum, Udp!Store, Udp!Goes
<1>2. UNCHANGED <<numOfClients2, inbox, edge2, calc2, state2, work2>>
  BY DEF Udp!StoreAddr, Udp!StoreType, Udp!StoreNum, Udp!Store
<1>3. m \in Udp!Slots /\ n \in Nodes /\ clients2[m].num = -1 /\ clients2[m].name = NameOf[n]
  BY <1>1 DEF UdpPlaces, UdpFilling
<1>4. /\ monitor2'.slot = m /\ monitor2'.addr = n /\ monitor2'.at = at
      /\ monitor2' \in [at : {"idle", "checks", "addr", "type", "num", "replies"},
                        slot : Udp!Slots, addr : Nodes \cup {None}]
  BY <1>1 DEF UdpPlaces
<1>5. /\ v \in [name : Names \cup {NoName}, addr : Nodes \cup {None}, type : {0, 1}, num : Nat \cup {-1}]
      /\ v.name = NameOf[n] /\ NameOf[n] \in Names
  BY <1>1, <1>3, SMTT(30) DEF Udp!TypeOK, Udp!Type
<1>6. clients2'[m] = v /\ \A s \in Udp!Slots \ {m} : clients2'[s] = clients2[s]
  BY <1>1, <1>3 DEF Udp!TypeOK
<1>7. /\ at = "type" => v.num = -1 /\ v.addr = n
      /\ at = "num" => v.num = -1 /\ v.addr = n /\ v.type = Udp!Type(n)
      /\ at = "replies" => v.num # -1 /\ v.addr = n /\ v.type = Udp!Type(n)
  BY <1>1, <1>3 DEF Udp!TypeOK, UdpFilling
<1> HIDE DEF m, n
<1>8. UdpPlaces'
  BY <1>2, <1>3, <1>4 DEF UdpPlaces
<1>9. Udp!TypeOK'
  BY <1>1, <1>2, <1>3, <1>5, <1>8 DEF Udp!TypeOK, UdpPlaces
<1>10. UdpFilling'
  BY <1>1, <1>4, <1>5, <1>6, <1>7 DEF UdpFilling
<1>11. \A s \in Udp!Slots : clients2'[s].name = clients2[s].name
  BY <1>3, <1>5, <1>6
<1>12. UdpNamesDiffer' /\ UdpEdgeInv'
  BY <1>2, <1>11 DEF UdpNamesDiffer, UdpEdgeInv
<1>13. /\ UdpNumbered'
       /\ \A k \in Nodes : work2'[k] # -1 => clients2'[work2'[k]].addr = k
  <2>1. \A s \in Udp!Slots : clients2[s].num # -1 => clients2'[s] = clients2[s]
    BY <1>3, <1>6
  <2>2. calc2.slot \in Udp!Slots /\ \A k \in Nodes : work2[k] # -1 => work2[k] \in Udp!Slots
    BY DEF UdpPlaces, Udp!TypeOK
  <2>3. \A k \in Nodes : work2[k] # -1 =>
           clients2[work2[k]].num # -1 /\ clients2[work2[k]].addr = k
    BY DEF UdpNumbered
  <2> QED BY <1>2, <2>1, <2>2, <2>3 DEF UdpNumbered
<1>14. Udp!SlotsComplete'
  <2>1. ASSUME NEW s \in Udp!Slots, clients2'[s].num # -1
        PROVE  /\ clients2'[s].addr \in Nodes
               /\ clients2'[s].name = NameOf[clients2'[s].addr]
               /\ clients2'[s].type = Udp!Type(clients2'[s].addr)
    <3>1. CASE s = m
      BY <1>1, <1>3, <1>5, <1>6, <1>7, <2>1, <3>1
    <3>2. CASE s # m
      BY <1>6, <2>1, <3>2
    <3> QED BY <3>1, <3>2
  <2>2. \A s \in Udp!Slots : clients2'[s].num # -1 => clients2'[s].name # NoName
    BY <1>5, <2>1
  <2>3. \A s \in Udp!Slots : clients2'[s].num # -1 =>
           \A t \in Udp!Slots \ {s} : clients2'[s].name # clients2'[t].name
    BY <1>12, <2>2 DEF UdpNamesDiffer
  <2> QED BY <1>9, <1>13, <2>1, <2>3 DEF Udp!Type
<1> QED BY <1>8, <1>10, <1>12, <1>13, <1>14

\* An answer changes the state of its node alone.
LEMMA UdpAnswerStep == UdpInv /\ (Udp!Refuse \/ Udp!Reply) => UdpInv'
<1> SUFFICES ASSUME UdpInv, Udp!Refuse \/ Udp!Reply PROVE UdpInv'
  OBVIOUS
<1> USE UdpAssumption DEF UdpInv, UdpSlotsComplete, Udp!SlotsComplete, Udp!table,
                          Udp!ClusterUdpAssumption
<1>1. /\ UNCHANGED <<clients2, inbox, edge2, calc2, work2>>
      /\ monitor2' = Udp!Idle /\ numOfClients2' \in Nat
  BY DEF Udp!Refuse, Udp!Reply, Udp!TypeOK
<1>2. state2' \in [Nodes -> {"out", "asks", "in", "gone"}]
  BY DEF Udp!Refuse, Udp!Reply, Udp!Replies, Udp!TypeOK
<1>3. Udp!TypeOK' /\ UdpPlaces'
  <2>1. 0 \in Udp!Slots
    BY DEF Udp!Slots
  <2> QED BY <1>1, <1>2, <2>1 DEF Udp!TypeOK, UdpPlaces, Udp!Idle
<1>4. UdpFilling' /\ UdpNamesDiffer' /\ UdpNumbered' /\ UdpEdgeInv'
  BY <1>1 DEF UdpFilling, UdpNamesDiffer, UdpNumbered, UdpEdgeInv, Udp!Idle
<1> QED BY <1>1, <1>3, <1>4

LEMMA UdpStep == UdpInv /\ [Udp!Next]_(Udp!vars) => UdpInv'
<1> SUFFICES ASSUME UdpInv, [Udp!Next]_(Udp!vars) PROVE UdpInv'
  OBVIOUS
<1>1. CASE UNCHANGED Udp!vars
  BY <1>1 DEF Udp!vars, Udp!table, UdpInv, UdpSlotsComplete, Udp!SlotsComplete, Udp!TypeOK,
              UdpPlaces, UdpFilling, UdpNamesDiffer, UdpNumbered, UdpEdgeInv
<1>2. CASE Udp!Next
  BY <1>2, UdpNodeStep, UdpCalcStep, UdpReadStep, UdpStoreNameStep, UdpStoreStep, UdpAnswerStep
     DEF Udp!Next, Udp!MonitorStep
<1> QED BY <1>1, <1>2

\* Whoever sees the number of a slot sees all of it, a name and a node have one
\* slot, and a request reaches its node with the slot that is its own; for any
\* number of nodes, slots and datagrams (zad2/server.c:169-172, :276).
THEOREM NumberedSlotsAreComplete == Udp!Spec => []UdpSlotsComplete
<1>1. UdpInv => UdpSlotsComplete
  BY DEF UdpInv
<1> QED BY <1>1, UdpInit, UdpStep, PTL DEF Udp!Spec
=============================================================================
