------------------------------- MODULE MCSignals -------------------------------
(* The two exchanges of signals of SysOpy/lab4 for TLC, side by side: a       *)
(* behaviour is of the one chosen at its start, and the other stays in its    *)
(* initial state.  The arguments of zad2 include one that is never reached.   *)
EXTENDS SignalRequests

CONSTANT Numbers

VARIABLES program,
          type, numberOfSignals, parent, child3, toChild, toParent,
          SENT, RECEIVED_CHILD, RECEIVED_PARENT

countVars == <<type, numberOfSignals, parent, child3, toChild, toParent,
               SENT, RECEIVED_CHILD, RECEIVED_PARENT>>

Count == INSTANCE SignalCount WITH child <- child3

ASSUME CountAssumption == Count!NumbersAssumption

ArgumentValues == {-1, 0, 1, 2, 3, 5}

SignalsInit ==
    \/ program = "requests" /\ Init /\ Count!Init /\ type = 1 /\ numberOfSignals = 0
    \/ program = "counts" /\ Init /\ Count!Init /\ REQUESTS = 0

SignalsNext ==
    /\ \/ program = "requests" /\ Next /\ UNCHANGED countVars
       \/ program = "counts" /\ Count!Next /\ UNCHANGED vars
    /\ program' = program

SignalsSpec ==
    /\ SignalsInit /\ [][SignalsNext]_<<program, vars, countVars>>
    /\ program = "requests" => Fairness
    /\ program = "counts" => Count!Fairness

\* zad2: nobody waits for ever but for a signal that was lost (zad2.c:115, :173).
RequestsReapedOrLost == program = "requests" => AllReapedOrLost

\* zad3: neither process counts a signal that was not sent (zad3.c:187).
CountsAgree == Count!CountsAgree

\* zad3: the program ends unless the parent pauses too late (zad3.c:159).
CountEndsOrMissedAnswer == program = "counts" => Count!EndsOrMissedAnswer
================================================================================
