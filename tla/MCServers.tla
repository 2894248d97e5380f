------------------------------- MODULE MCServers -------------------------------
(* Three servers for TLC, side by side: the two of SysOpy/lab6, on System V   *)
(* and on POSIX queues, and the Erlang server of pollution.erl.  A behaviour  *)
(* is of the one chosen at its start; the others stay in their initial state. *)
EXTENDS MsgServer

CONSTANTS Room, Descriptors,
          Callers, Names, Locations, Times, Types, ExportAll, MaxMailbox

VARIABLES program,
          server2, requests2, opened, answers2, linked, heard, state2, sent2, got2,
          process, monitor, mailbox, caller

posixVars == <<server2, requests2, opened, answers2, linked, heard, state2, sent2, got2>>
erlangVars == <<process, monitor, mailbox, caller>>

Posix == INSTANCE MsgServerPosix WITH
    server <- server2, requests <- requests2, answers <- answers2,
    state <- state2, sent <- sent2, got <- got2

Erlang == INSTANCE PollutionServer WITH Clients <- Callers, server <- process, client <- caller

ASSUME PosixAssumption == Posix!MsgServerPosixAssumption
ASSUME ErlangAssumption == Erlang!PollutionServerAssumption

\* Every client has drawn a key of its own.
OwnKeys == Clients
OwnKey == [c \in Clients |-> c]

ServersInit == Init /\ Posix!Init /\ Erlang!Init /\ program \in {"System V", "POSIX", "Erlang"}

ServersNext ==
    /\ \/ program = "System V" /\ Next /\ UNCHANGED <<posixVars, erlangVars>>
       \/ program = "POSIX" /\ Posix!Next /\ UNCHANGED <<vars, erlangVars>>
       \/ program = "Erlang" /\ Erlang!Next /\ UNCHANGED <<vars, posixVars>>
    /\ program' = program

ServersSpec ==
    /\ ServersInit /\ [][ServersNext]_<<program, vars, posixVars, erlangVars>>
    /\ program = "System V" => Fairness
    /\ program = "POSIX" => Posix!Fairness

\* The POSIX server keeps the same promise as the System V one (zad2/server.c:80-178).
PosixImplementsRequestReply == Posix!ImplementsRequestReply

\* The POSIX server answers what waits in its queue until an END, a CALC that kills
\* it or its last descriptor (zad2/server.c:80, :114-116, :147-159).
PosixAnsweredUntilEnd == Posix!AnsweredUntilEnd

\* The monitor of the Erlang server keeps what its clauses rely on (pollution.erl:14-18).
MonitorConsistent == Erlang!MonitorConsistent
===============================================================================
