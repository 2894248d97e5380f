---------------------------- MODULE MsgServerPosix ----------------------------
(***************************************************************************)
(* SysOpy/lab6/src/zad2: the server and its clients of zad1 on POSIX       *)
(* queues.  A message carries the name of its sender's queue, which the    *)
(* server opens for every request, and never closes; its descriptors run   *)
(* out, and it then answers nobody.  Queues are bounded, so a send waits   *)
(* for room.  A CALC without an operator or an operand, BAD here, kills    *)
(* the server; its queue stays, and the next server takes it up.  END      *)
(* makes the server unlink its queue and return at once: whoever holds a   *)
(* descriptor of it sends on, to nobody, and no server is started after    *)
(* it here.  Clients are taken to have drawn different names, and no       *)
(* result is checked.                                                      *)
(***************************************************************************)
EXTENDS Naturals, Sequences, Functions

CONSTANTS Clients,
          Room,             \* mq_maxmsg
          Descriptors,      \* how many queues the server can have open
          MaxRequests       \* bound: requests a client makes, INIT included

MsgServerPosixAssumption ==
    Room \in Nat \ {0} /\ Descriptors \in Nat /\ MaxRequests \in Nat

VARIABLES
    server,     \* "down", "runs", "crashed", "gone"
    requests,   \* the messages in the server's queue
    opened,     \* how many descriptors the server has open
    answers,    \* the messages in a client's queue
    linked,     \* the clients whose queue has its name
    heard,      \* the client holds a descriptor of the server's queue
    state,      \* where a client is
    sent, got   \* its last request, and the last answer it printed

serverVars == <<server, opened>>
clientVars == <<heard, state, sent, got>>
vars == <<serverVars, requests, answers, linked, clientVars>>

States == {"out", "opened", "connects", "idle", "waits", "ends", "left"}
Messages == [type : {"WORK", "BAD", "END"}, name : Clients, text : 0 .. MaxRequests]

TypeOK ==
    /\ server \in {"down", "runs", "crashed", "gone"} /\ opened \in Nat
    /\ requests \in Seq(Messages) /\ Len(requests) <= Room
    /\ answers \in [Clients -> Seq(0 .. MaxRequests)]
    /\ linked \subseteq Clients /\ heard \subseteq Clients
    /\ state \in [Clients -> States]
    /\ sent \in [Clients -> 0 .. MaxRequests] /\ got \in [Clients -> 0 .. MaxRequests]

Init ==
    /\ server = "down" /\ requests = <<>> /\ opened = 0
    /\ answers = [c \in Clients |-> <<>>]
    /\ linked = {} /\ heard = {}
    /\ state = [c \in Clients |-> "out"]
    /\ sent = [c \in Clients |-> 0] /\ got = sent

Goto(c, from, to) == state[c] = from /\ state' = [state EXCEPT ![c] = to]

-----------------------------------------------------------------------------
(* Clients                                                                 *)

Open(c) ==
    /\ Goto(c, "out", "opened") /\ linked' = linked \cup {c}
    /\ UNCHANGED <<serverVars, requests, answers, heard, sent, got>>

\* Without a descriptor of the server's queue the message is lost.
Send(c, type) ==
    IF c \in heard'
    THEN Len(requests) < Room
         /\ requests' = Append(requests, [type |-> type, name |-> c, text |-> sent'[c]])
    ELSE requests' = requests

Connect(c) ==
    /\ Goto(c, "opened", "connects")
    /\ heard' = IF server \in {"runs", "crashed"} THEN heard \cup {c} ELSE heard
    /\ sent' = [sent EXCEPT ![c] = 1] /\ Send(c, "WORK")
    /\ UNCHANGED <<serverVars, answers, linked, got>>

Ask(c) ==
    /\ sent[c] < MaxRequests
    /\ Goto(c, "idle", "waits") /\ heard' = heard
    /\ sent' = [sent EXCEPT ![c] = @ + 1]
    /\ \E type \in {"WORK", "BAD"} : Send(c, type)
    /\ UNCHANGED <<serverVars, answers, linked, got>>

Receive(c) ==
    /\ Goto(c, "connects", "idle") \/ Goto(c, "waits", "idle")
    /\ answers[c] # <<>>
    /\ got' = [got EXCEPT ![c] = Head(answers[c])]
    /\ answers' = [answers EXCEPT ![c] = Tail(@)]
    /\ UNCHANGED <<serverVars, requests, linked, heard, sent>>

SendEnd(c) ==
    /\ Goto(c, "idle", "ends") /\ UNCHANGED <<heard, sent>> /\ Send(c, "END")
    /\ UNCHANGED <<serverVars, answers, linked, got>>

Unlink(c) ==
    /\ Goto(c, "ends", "left") /\ linked' = linked \ {c}
    /\ UNCHANGED <<serverVars, requests, answers, heard, sent, got>>

-----------------------------------------------------------------------------
(* Server                                                                  *)

\* The queue of a server that died is there.
Start == server \in {"down", "crashed"} /\ server' = "runs"
         /\ UNCHANGED <<opened, requests, answers, linked, clientVars>>

\* Mutant: the queue is opened at INIT only.
OpensAtInit(msg) == msg.text = 1 /\ opened < Descriptors

\* mq_open of the name in the message: it may be gone, or be one too many.
Opens(msg) == msg.name \in linked /\ opened < Descriptors

\* Mutant: a request is answered twice.
WorkTwice(msg) ==
    /\ msg.type = "WORK"
    /\ answers' = [answers EXCEPT ![msg.name] = @ \o <<msg.text, msg.text>>]
    /\ UNCHANGED <<server, opened>>

\* INIT, a proper CALC, TIME and MIRROR are answered with a text.
Work(msg) ==
    /\ msg.type = "WORK"
    /\ answers' = IF Opens(msg) THEN [answers EXCEPT ![msg.name] = Append(@, msg.text)] ELSE answers
    /\ opened' = IF Opens(msg) THEN opened + 1 ELSE opened
    /\ UNCHANGED server

\* The descriptors of a process go with it.
Fail(msg) == msg.type = "BAD" /\ server' = "crashed" /\ opened' = 0 /\ UNCHANGED answers

\* Every registered client's descriptor is closed and the server returns.
Close(msg) == msg.type = "END" /\ server' = "gone" /\ UNCHANGED <<answers, opened>>

Handle ==
    /\ server = "runs" /\ requests # <<>>
    /\ requests' = Tail(requests)
    /\ LET msg == Head(requests) IN Work(msg) \/ Fail(msg) \/ Close(msg)
    /\ UNCHANGED <<linked, clientVars>>

Next == Start \/ Handle
        \/ \E c \in Clients : Open(c) \/ Connect(c) \/ Ask(c) \/ Receive(c) \/ SendEnd(c) \/ Unlink(c)

Spec == Init /\ [][Next]_vars

\* mq_receive returns when there is a message; what a client asks is up to its user.
Fairness == WF_vars(Handle) /\ \A c \in Clients : WF_vars(Receive(c))

-----------------------------------------------------------------------------
(* Properties                                                              *)

\* A request is carried out at most once, and its client gets the answer to it,
\* however many wait in the server's queue (server.c:80-178), until END.
Service == INSTANCE RequestReply WITH
    open <- server = "runs",
    served <- [c \in Clients |-> IF answers[c] = <<>> THEN got[c] ELSE Head(answers[c])]
ImplementsRequestReply == Service!Spec

\* A request that waits in the queue of a running server, with no END
\* (server.c:147-159) and no CALC that kills the server (server.c:114-116) before
\* it, is answered, unless the server has no descriptor left (server.c:80).
AnsweredUntilEnd ==
    \A c \in Clients :
        (/\ server = "runs"
         /\ \E i \in DOMAIN requests :
               requests[i].name = c /\ \A j \in 1 .. i : requests[j].type = "WORK")
            ~> (got[c] = sent[c] \/ opened = Descriptors)
===============================================================================
