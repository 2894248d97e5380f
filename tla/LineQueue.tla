----------------------------- MODULE LineQueue ------------------------------
(***************************************************************************)
(* What both producer/consumer programs of SysOpy/lab9 promise: the chunks *)
(* of the source pass through one bounded first-in first-out queue, and    *)
(* those the search selects are printed, each once and in file order.      *)
(* Neither threads, nor locks, nor a ring: ProdConsMonitor and ProdConsSem *)
(* implement it.                                                           *)
(***************************************************************************)
EXTENDS Integers, Sequences

CONSTANTS
    Capacity,       \* chunks the queue holds
    SourceLength,   \* chunks in the source
    Selects(_)      \* the search, on chunk numbers

VARIABLES read, queue, output

vars == <<read, queue, output>>

Init ==
    /\ read = 0
    /\ queue = <<>>
    /\ output = <<>>

Read ==
    /\ read < SourceLength
    /\ Len(queue) < Capacity
    /\ read' = read + 1
    /\ queue' = Append(queue, read + 1)
    /\ UNCHANGED output

Deliver ==
    /\ queue # <<>>
    /\ queue' = Tail(queue)
    /\ output' = IF Selects(Head(queue)) THEN Append(output, Head(queue))
                                         ELSE output
    /\ UNCHANGED read

Next == Read \/ Deliver

\* Safety alone: a program that is cancelled may stop anywhere.
Spec == Init /\ [][Next]_vars

\* A program that runs to the end of its source delivers all of it.
FairSpec == Spec /\ WF_vars(Read) /\ WF_vars(Deliver)
=============================================================================
