----------------------------- MODULE RequestReply -----------------------------
(***************************************************************************)
(* What the message-queue servers of SysOpy/lab6 promise to their clients: *)
(* a client has one request under way at a time, a request is carried out  *)
(* at most once, by a service that is open, and its client gets the answer *)
(* to that request and no other.  Nothing is promised once it has closed.  *)
(***************************************************************************)
EXTENDS Naturals

CONSTANT Clients

VARIABLES
    sent, served, got,  \* how many requests of a client were made, carried out, answered
    open                \* the service answers requests

vars == <<sent, served, got, open>>

Init ==
    /\ sent = [c \in Clients |-> 0] /\ served = sent /\ got = sent
    /\ open \in BOOLEAN

Ask(c) ==
    /\ got[c] = sent[c]
    /\ sent' = [sent EXCEPT ![c] = @ + 1]
    /\ UNCHANGED <<served, got, open>>

Serve(c) ==
    /\ open /\ served[c] < sent[c]
    /\ served' = [served EXCEPT ![c] = sent[c]]
    /\ UNCHANGED <<sent, got, open>>

Receive(c) ==
    /\ got[c] < served[c]
    /\ got' = [got EXCEPT ![c] = served[c]]
    /\ UNCHANGED <<sent, served, open>>

OpenOrClose == open' = ~open /\ UNCHANGED <<sent, served, got>>

Next == (\E c \in Clients : Ask(c) \/ Serve(c) \/ Receive(c)) \/ OpenOrClose

Spec == Init /\ [][Next]_vars
===============================================================================
