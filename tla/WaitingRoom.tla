---------------------------- MODULE WaitingRoom -----------------------------
(***************************************************************************)
(* What the barber shops of SysOpy/lab7 promise about the chairs of the    *)
(* waiting room: no more than Chairs of them are taken, and they are given *)
(* up in the order they were taken, by the customer who took them.         *)
(***************************************************************************)
EXTENDS Naturals, Sequences

CONSTANTS Customers, Chairs

VARIABLE seated     \* who holds a chair, longest first

Init == seated = <<>>

Take(c) ==
    /\ Len(seated) < Chairs
    /\ seated' = Append(seated, c)

GiveUp ==
    /\ seated # <<>>
    /\ seated' = Tail(seated)

Next == (\E c \in Customers : Take(c)) \/ GiveUp

Spec == Init /\ [][Next]_seated
=============================================================================
