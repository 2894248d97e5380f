------------------------------- MODULE MCClusters -------------------------------
(* The two clusters of SysOpy/lab10 for TLC, side by side: a behaviour is of   *)
(* the one chosen at its start, and the other stays in its initial state.  The *)
(* last two of three nodes have the same name; one of them is local.           *)
EXTENDS Cluster

CONSTANTS x, y, z, anna, ben,
          Local, MaxDatagrams

VARIABLES program,
          clients2, numOfClients2, inbox, edge2, monitor2, calc2, state2, work2

udpVars == <<clients2, numOfClients2, inbox, edge2, monitor2, calc2, state2, work2>>

Udp == INSTANCE ClusterUdp WITH
    clients <- clients2, numOfClients <- numOfClients2, edge <- edge2, monitor <- monitor2,
    calc <- calc2, state <- state2, work <- work2

ASSUME UdpAssumption == Udp!ClusterUdpAssumption

TwoNamesake == [n \in {x, y, z} |-> IF n = x THEN anna ELSE ben]
Descriptors == 4 .. 6

ClustersInit == Init /\ Udp!Init /\ program \in {"stream", "datagram"}

ClustersNext ==
    /\ \/ program = "stream" /\ Next /\ UNCHANGED udpVars
       \/ program = "datagram" /\ Udp!Next /\ UNCHANGED vars
    /\ program' = program

ClustersSpec ==
    /\ ClustersInit /\ [][ClustersNext]_<<program, vars, udpVars>>
    /\ program = "stream" => Fairness

\* In the datagram version a slot is complete when calc can see it
\* (zad2/server.c:169-172, :276).
UdpSlotsComplete == Udp!SlotsComplete
=================================================================================
