------------------------------- MODULE MsgServer -------------------------------
(***************************************************************************)
(* SysOpy/lab6/src/zad1: a server and its clients on System V queues.  The *)
(* server reads one queue; a client names its own queue by a key when it   *)
(* registers (INIT) and then sends requests, one at a time.  A CALC with   *)
(* an operator and two operands, TIME and MIRROR are answered with a text  *)
(* and are WORK here; a text is the number of the request it answers.  A   *)
(* CALC without an operator or an operand is BAD: the server reads through *)
(* the null pointer it gets and dies.  Its queue stays, and the server     *)
(* started next takes it up with what is queued, but knows no client.  END *)
(* makes the server answer what is queued and remove its queue, after      *)
(* which none is started here.                                             *)
(*                                                                         *)
(* The results of msgsnd and msgrcv are not checked.  A client draws its   *)
(* key from the second it starts in: KeyOf says who shares one.  A client  *)
(* that is given CALC or MIRROR alone dies by itself (client.c:100, 112),  *)
(* and is a client that stays idle.                                        *)
(***************************************************************************)
EXTENDS Naturals, Sequences, Functions

CONSTANTS Clients, NoQueue,
          Keys, KeyOf,
          MaxRequests       \* bound: requests a client makes, INIT included

ASSUME MsgServerAssumption ==
    NoQueue \notin Clients /\ KeyOf \in [Clients -> Keys] /\ MaxRequests \in Nat

VARIABLES
    server,     \* "down", "runs", "ending" (closeFlag), "crashed", "drained", "gone"
    requests,   \* the messages in the server's queue
    clients,    \* the queue the server has registered for a client
    named,      \* the queue a key names; a queue bears the name of the client that made it
    answers,    \* the messages in a client's queue
    queue,      \* info.queue of a client
    state,      \* where a client is
    sent, got   \* its last request, and the last answer it printed

serverVars == <<server, clients>>
vars == <<server, requests, clients, named, answers, queue, state, sent, got>>

Messages == [type : {"INIT", "WORK", "BAD", "END"}, pid : Clients, text : 0 .. MaxRequests]
States == {"out", "opened", "connects", "idle", "waits", "left"}

TypeOK ==
    /\ server \in {"down", "runs", "ending", "crashed", "drained", "gone"}
    /\ requests \in Seq(Messages)
    /\ named \in [Keys -> Clients \cup {NoQueue}]
    /\ clients \in [Clients -> Clients \cup {NoQueue}] /\ queue \in [Clients -> Clients \cup {NoQueue}]
    /\ answers \in [Clients -> Seq(Clients \X (0 .. MaxRequests))]
    /\ state \in [Clients -> States]
    /\ sent \in [Clients -> 0 .. MaxRequests] /\ got \in [Clients -> 0 .. MaxRequests]

Init ==
    /\ server = "down" /\ requests = <<>>
    /\ clients = [c \in Clients |-> NoQueue] /\ queue = clients
    /\ named = [k \in Keys |-> NoQueue]
    /\ answers = [c \in Clients |-> <<>>]
    /\ state = [c \in Clients |-> "out"]
    /\ sent = [c \in Clients |-> 0] /\ got = sent

Exists(q) == q \in Range(named) \ {NoQueue}
Goto(c, from, to) == state[c] = from /\ state' = [state EXCEPT ![c] = to]

-----------------------------------------------------------------------------
(* Clients                                                                 *)

Open(c) ==
    /\ Goto(c, "out", "opened")
    /\ named' = [named EXCEPT ![KeyOf[c]] = IF @ = NoQueue THEN c ELSE @]
    /\ queue' = [queue EXCEPT ![c] = named'[KeyOf[c]]]
    /\ UNCHANGED <<serverVars, requests, answers, sent, got>>

\* msgsnd fails, and the client does not notice, unless the server's queue exists.
Send(c, type) ==
    requests' = IF server \in {"down", "gone"} THEN requests
                ELSE Append(requests, [type |-> type, pid |-> c, text |-> sent'[c]])

Ask(c) ==
    /\ sent[c] < MaxRequests
    /\ sent' = [sent EXCEPT ![c] = @ + 1]
    /\ \/ Goto(c, "opened", "connects") /\ Send(c, "INIT")
       \/ Goto(c, "idle", "waits") /\ \E type \in {"WORK", "BAD"} : Send(c, type)
    /\ UNCHANGED <<serverVars, named, answers, queue, got>>

\* msgrcv takes a message, or returns -1 when the queue has been removed.
Receive(c) ==
    /\ Goto(c, "connects", "idle") \/ Goto(c, "waits", "idle")
    /\ IF Exists(queue[c])
       THEN /\ answers[queue[c]] # <<>>
            /\ answers' = [answers EXCEPT ![queue[c]] = Tail(@)]
            /\ got' = [got EXCEPT ![c] = Head(answers[queue[c]])[2]]
       ELSE UNCHANGED <<answers, got>>
    /\ UNCHANGED <<serverVars, requests, named, queue, sent>>

End(c) ==
    /\ Goto(c, "idle", "left")
    /\ sent' = sent /\ Send(c, "END")
    /\ named' = [k \in Keys |-> IF named[k] = queue[c] THEN NoQueue ELSE named[k]]
    /\ UNCHANGED <<serverVars, answers, queue, got>>

-----------------------------------------------------------------------------
(* Server                                                                  *)

\* The queue of a server that died is there, its list of clients is not.
Start == /\ server \in {"down", "crashed"} /\ server' = "runs"
         /\ clients' = [c \in Clients |-> NoQueue]
         /\ UNCHANGED <<requests, named, answers, queue, state, sent, got>>

Answer(msg, q) ==
    answers' = IF Exists(q) THEN [answers EXCEPT ![q] = Append(@, <<msg.pid, msg.text>>)] ELSE answers

Register(msg) ==
    /\ msg.type = "INIT"
    /\ clients' = [clients EXCEPT ![msg.pid] = named[KeyOf[msg.pid]]]
    /\ Answer(msg, clients'[msg.pid])
    /\ UNCHANGED server

\* Mutant: any registered client may be answered.
WorkForAnother(msg) == msg.type = "WORK" /\ UNCHANGED serverVars
                       /\ \E c \in Clients : clients[c] # NoQueue /\ Answer(msg, clients[c])

Work(msg) == msg.type = "WORK" /\ Answer(msg, clients[msg.pid]) /\ UNCHANGED serverVars

Fail(msg) == msg.type = "BAD" /\ server' = "crashed" /\ UNCHANGED <<clients, answers>>

\* Mutant: as zad2 does, END closes the server at once.
CloseAtOnce(msg) == msg.type = "END" /\ server' = "drained" /\ UNCHANGED <<clients, answers>>

Close(msg) == msg.type = "END" /\ server' = "ending" /\ UNCHANGED <<clients, answers>>

Handle ==
    /\ server \in {"runs", "ending"} /\ requests # <<>>
    /\ requests' = Tail(requests)
    /\ LET msg == Head(requests) IN Register(msg) \/ Work(msg) \/ Fail(msg) \/ Close(msg)
    /\ UNCHANGED <<named, queue, state, sent, got>>

\* The queue is found empty, and removed with what has arrived since.
Drain == server = "ending" /\ requests = <<>> /\ server' = "drained"
         /\ UNCHANGED <<requests, clients, named, answers, queue, state, sent, got>>
Remove == server = "drained" /\ server' = "gone" /\ requests' = <<>>
          /\ UNCHANGED <<clients, named, answers, queue, state, sent, got>>

ServerActs == Start \/ Handle \/ Drain \/ Remove
Next == ServerActs \/ \E c \in Clients : Open(c) \/ Ask(c) \/ Receive(c) \/ End(c)

Spec == Init /\ [][Next]_vars

\* The server polls its queue, and msgrcv returns when there is a message;
\* what a client asks, and when, is up to its user.
Fairness == WF_vars(Handle) /\ \A c \in Clients : WF_vars(Receive(c))

-----------------------------------------------------------------------------
(* Properties                                                              *)

\* Clients with keys of their own get the answer to each request, once, and not
\* another's (server.c:134, client.c:84), whatever the server's queue holds,
\* until its removal.
Service == INSTANCE RequestReply WITH
    open <- server \in {"runs", "ending"},
    served <- [c \in Clients |-> IF answers[c] = <<>> THEN got[c]
                                 ELSE IF Head(answers[c])[1] = c THEN Head(answers[c])[2] ELSE 0]
ImplementsRequestReply == Service!Spec

\* No request up to the i-th ends the server.
Reached(i) == \A j \in 1 .. i : requests[j].type # "BAD"

\* What is queued when the server runs, with no CALC that kills it in front, is
\* answered, be there an END of another client in front or not (server.c:71, 158);
\* work, if this server and not one that died has registered the client.
QueuedIsAnswered ==
    \A c \in Clients :
        (/\ server \in {"runs", "ending"}
         /\ \E i \in DOMAIN requests :
               /\ requests[i].pid = c /\ requests[i].type # "END" /\ Reached(i)
               /\ requests[i].type = "INIT" \/ clients[c] # NoQueue)
            ~> (got[c] = sent[c])
================================================================================
