---------------------------- MODULE ServersProofs ----------------------------
(***************************************************************************)
(* The servers of SysOpy/lab6 keep the promise of RequestReply, for any    *)
(* number of clients and requests.                                         *)
(***************************************************************************)
EXTENDS MCServers, SequenceTheorems, FiniteSetTheorems, WellFoundedInduction, TLAPS

Waiting(s) == s \in {"connects", "waits"}

-----------------------------------------------------------------------------
(* zad1: System V queues.  Clients are taken to have drawn keys of their   *)
(* own: with a key in common they read each other's answers.               *)

KeysDiffer == \A c, d \in Clients : KeyOf[c] = KeyOf[d] => c = d

\* Everybody's queue is his own, and exists while he is there.
QueuesInv ==
    \A c \in Clients :
       /\ queue[c] = (IF state[c] = "out" THEN NoQueue ELSE c)
       /\ named[KeyOf[c]] = (IF state[c] \in {"out", "left"} THEN NoQueue ELSE c)
       /\ \A k \in Keys : named[k] = c => k = KeyOf[c]
       /\ clients[c] \in {NoQueue, c}

\* A client has one request under way, and the answer to that one at most.
AnswersInv ==
    \A c \in Clients :
       IF Waiting(state[c])
       THEN sent[c] = got[c] + 1 /\ answers[c] \in {<<>>, << <<c, sent[c]>> >>}
       ELSE sent[c] = got[c] /\ answers[c] = <<>>

\* A request in the server's queue is the one under way, and is there once.
PendingInv ==
    \A i \in 1 .. Len(requests) : requests[i].type # "END" =>
       LET c == requests[i].pid IN
       /\ Waiting(state[c]) /\ requests[i].text = sent[c] /\ answers[c] = <<>>
       /\ \A j \in 1 .. Len(requests) :
             requests[j].type # "END" /\ requests[j].pid = c => j = i

ServerInv == TypeOK /\ QueuesInv /\ AnswersInv /\ PendingInv

LEMMA ServerInit == Init => ServerInv
<1> SUFFICES ASSUME Init PROVE ServerInv
  OBVIOUS
<1> USE MsgServerAssumption DEF Init
<1>1. TypeOK
  BY DEF TypeOK, States
<1>2. QueuesInv /\ AnswersInv /\ PendingInv
  BY DEF QueuesInv, AnswersInv, PendingInv, Waiting
<1> QED BY <1>1, <1>2 DEF ServerInv

\* A queue exists from its making until its client leaves.
LEMMA QueueExists ==
    ASSUME ServerInv, NEW c \in Clients
    PROVE  /\ Exists(c) <=> state[c] \notin {"out", "left"}
           /\ ~Exists(NoQueue)
<1> USE MsgServerAssumption DEF ServerInv, QueuesInv
<1>1. named \in [Keys -> Clients \cup {NoQueue}] /\ KeyOf[c] \in Keys /\ c # NoQueue
  BY DEF TypeOK
<1>2. Exists(c) <=> named[KeyOf[c]] = c
  BY <1>1 DEF Exists, Range
<1> QED BY <1>1, <1>2 DEF Exists

\* Whose request is in the queue.
LEMMA PendingClient ==
    ASSUME ServerInv, NEW i \in 1 .. Len(requests), requests[i].type # "END"
    PROVE  /\ requests[i].pid \in Clients /\ Waiting(state[requests[i].pid])
           /\ requests[i].text = sent[requests[i].pid] /\ answers[requests[i].pid] = <<>>
<1>1. requests[i] \in Messages
  BY DEF ServerInv, TypeOK
<1>2. PendingInv
  BY DEF ServerInv
<1> QED BY <1>1, <1>2 DEF PendingInv, Messages

\* What the other clients' steps leave alone of it.
LEMMA PendingStays ==
    ASSUME ServerInv, requests' = requests, NEW c \in Clients, ~Waiting(state[c]) \/ answers[c] # <<>>,
           \A d \in Clients \ {c} : /\ sent'[d] = sent[d] /\ state'[d] = state[d]
                                    /\ answers'[d] = answers[d]
    PROVE  PendingInv'
<1>1. \A i \in 1 .. Len(requests) : requests[i].type # "END" => requests[i].pid \in Clients \ {c}
  BY PendingClient
<1>2. PendingInv
  BY DEF ServerInv
<1> QED BY <1>1, <1>2 DEF PendingInv

\* A message joins the queue, or is lost: what is pending stays, and a request
\* is new only if the client had none.
LEMMA SendKeepsPending ==
    ASSUME ServerInv, NEW c \in Clients, NEW type \in {"INIT", "WORK", "BAD", "END"}, Send(c, type),
           UNCHANGED answers,
           sent' \in [Clients -> 0 .. MaxRequests],
           \A d \in Clients \ {c} : sent'[d] = sent[d] /\ state'[d] = state[d],
           ~Waiting(state[c]), answers[c] = <<>>,
           type # "END" => Waiting(state'[c])
    PROVE  requests' \in Seq(Messages) /\ PendingInv'
<1> DEFINE m == [type |-> type, pid |-> c, text |-> sent'[c]]
           n == Len(requests)
<1>1. requests \in Seq(Messages) /\ m \in Messages /\ n \in Nat /\ PendingInv
  BY DEF ServerInv, TypeOK, Messages
<1>2. \A i \in 1 .. n : requests[i].type # "END" =>
         /\ requests[i].pid \in Clients \ {c}
         /\ requests[i].text = sent'[requests[i].pid] /\ Waiting(state'[requests[i].pid])
  <2> SUFFICES ASSUME NEW i \in 1 .. n, requests[i].type # "END"
               PROVE  /\ requests[i].pid \in Clients \ {c}
                      /\ requests[i].text = sent'[requests[i].pid]
                      /\ Waiting(state'[requests[i].pid])
    OBVIOUS
  <2> QED BY PendingClient
<1>3. CASE requests' = requests
  BY <1>1, <1>2, <1>3 DEF PendingInv
<1>4. CASE requests' = Append(requests, m)
  <2>1. /\ Append(requests, m) \in Seq(Messages)
        /\ Len(Append(requests, m)) = n + 1
        /\ \A i \in 1 .. n : Append(requests, m)[i] = requests[i]
        /\ Append(requests, m)[n + 1] = m
    BY <1>1, AppendProperties
  <2>2. m.type = type /\ m.pid = c /\ m.text = sent'[c]
    OBVIOUS
  <2> HIDE DEF m
  <2>3. /\ requests' \in Seq(Messages) /\ Len(requests') = n + 1
        /\ \A i \in 1 .. n : requests'[i] = requests[i]
        /\ requests'[n + 1] = m
    BY <1>4, <2>1
  <2>4. ASSUME NEW i \in 1 .. n + 1, requests'[i].type # "END"
        PROVE  LET d == requests'[i].pid IN
               /\ Waiting(state'[d]) /\ requests'[i].text = sent'[d] /\ answers'[d] = <<>>
               /\ \A j \in 1 .. n + 1 :
                     requests'[j].type # "END" /\ requests'[j].pid = d => j = i
    <3>1. CASE i = n + 1
      <4>1. \A j \in 1 .. n : requests'[j].type # "END" => requests'[j].pid # c
        BY <1>2, <2>3
      <4> QED BY <1>1, <2>2, <2>3, <2>4, <3>1, <4>1
    <3>2. CASE i \in 1 .. n
      <4>1. requests'[i] = requests[i] /\ requests[i].pid # c
        BY <1>2, <2>3, <2>4, <3>2
      <4>2. \A j \in 1 .. n :
               requests'[j].type # "END" /\ requests'[j].pid = requests[i].pid => j = i
        BY <1>1, <2>3, <2>4, <3>2, <4>1 DEF PendingInv
      <4>3. answers[requests[i].pid] = <<>>
        BY <1>1, <2>4, <3>2, <4>1 DEF PendingInv
      <4> QED BY <1>1, <1>2, <2>2, <2>3, <2>4, <3>2, <4>1, <4>2, <4>3
    <3> QED BY <1>1, <2>4, <3>1, <3>2
  <2> QED BY <2>3, <2>4 DEF PendingInv
<1> QED BY <1>3, <1>4 DEF Send

LEMMA OpenStep ==
    ASSUME ServerInv, KeysDiffer, NEW c \in Clients, Open(c)
    PROVE  ServerInv'
<1> USE MsgServerAssumption DEF ServerInv, Open, Goto, serverVars
<1>1. state[c] = "out" /\ state'[c] = "opened" /\ \A d \in Clients \ {c} : state'[d] = state[d]
  BY DEF TypeOK
<1>2. named' = [named EXCEPT ![KeyOf[c]] = c] /\ queue' = [queue EXCEPT ![c] = c]
  BY <1>1 DEF QueuesInv, TypeOK
<1>3. TypeOK'
  <2>1. /\ named' \in [Keys -> Clients \cup {NoQueue}] /\ queue' \in [Clients -> Clients \cup {NoQueue}]
        /\ state' \in [Clients -> States]
    BY <1>2 DEF TypeOK, States
  <2> QED BY <2>1 DEF TypeOK
<1>4. QueuesInv'
  BY <1>1, <1>2 DEF QueuesInv, TypeOK, KeysDiffer
<1>5. AnswersInv'
  BY <1>1 DEF AnswersInv, Waiting
<1>6. PendingInv'
  BY <1>1, PendingStays DEF Waiting
<1> QED BY <1>3, <1>4, <1>5, <1>6

LEMMA AskStep ==
    ASSUME ServerInv, NEW c \in Clients, Ask(c)
    PROVE  ServerInv' /\ got[c] = sent[c] /\ answers[c] = <<>>
<1> USE MsgServerAssumption DEF ServerInv, Ask, Goto, serverVars
<1>1. /\ state[c] \in {"opened", "idle"} /\ state'[c] \in {"connects", "waits"}
      /\ state' \in [Clients -> States]
      /\ \A d \in Clients \ {c} : state'[d] = state[d]
  BY DEF TypeOK, States
<1>2. /\ sent' \in [Clients -> 0 .. MaxRequests] /\ sent'[c] = sent[c] + 1
      /\ \A d \in Clients \ {c} : sent'[d] = sent[d]
  BY DEF TypeOK
<1>3. got[c] = sent[c] /\ answers[c] = <<>>
  BY <1>1 DEF AnswersInv, Waiting
<1>4. requests' \in Seq(Messages) /\ PendingInv'
  BY <1>1, <1>2, <1>3, SendKeepsPending DEF Waiting
<1>5. TypeOK'
  BY <1>1, <1>2, <1>4 DEF TypeOK
<1>6. QueuesInv'
  BY <1>1 DEF QueuesInv
<1>7. AnswersInv'
  BY <1>1, <1>2, <1>3 DEF AnswersInv, Waiting
<1> QED BY <1>3, <1>4, <1>5, <1>6, <1>7

LEMMA EndStep ==
    ASSUME ServerInv, KeysDiffer, NEW c \in Clients, End(c)
    PROVE  ServerInv'
<1> USE MsgServerAssumption DEF ServerInv, End, Goto, serverVars
<1>1. /\ state[c] = "idle" /\ state'[c] = "left" /\ state' \in [Clients -> States]
      /\ \A d \in Clients \ {c} : state'[d] = state[d]
  BY DEF TypeOK, States
<1>2. queue[c] = c /\ answers[c] = <<>>
  BY <1>1 DEF QueuesInv, AnswersInv, Waiting
<1>3. requests' \in Seq(Messages) /\ PendingInv'
  BY <1>1, <1>2, SendKeepsPending DEF Waiting, TypeOK
<1>4. TypeOK'
  BY <1>1, <1>3 DEF TypeOK
<1>5. QueuesInv'
  BY <1>1, <1>2 DEF QueuesInv, TypeOK, KeysDiffer
<1>6. AnswersInv'
  BY <1>1 DEF AnswersInv, Waiting
<1> QED BY <1>3, <1>4, <1>5, <1>6

LEMMA ReceiveStep ==
    ASSUME ServerInv, NEW c \in Clients, Receive(c)
    PROVE  /\ ServerInv'
           /\ answers[c] = << <<c, sent[c]>> >> /\ answers' = [answers EXCEPT ![c] = <<>>]
           /\ got' = [got EXCEPT ![c] = sent[c]]
<1> USE MsgServerAssumption DEF ServerInv, Receive, Goto, serverVars
<1>1. /\ Waiting(state[c]) /\ state'[c] = "idle" /\ state' \in [Clients -> States]
      /\ \A d \in Clients \ {c} : state'[d] = state[d]
  BY DEF TypeOK, States, Waiting
<1>2. queue[c] = c /\ Exists(c)
  BY <1>1, QueueExists DEF QueuesInv, Waiting
<1>3. answers[c] = << <<c, sent[c]>> >>
  BY <1>1, <1>2 DEF AnswersInv
<1>4. Tail(answers[c]) = <<>> /\ Head(answers[c])[2] = sent[c]
  BY <1>3
<1>5. answers' = [answers EXCEPT ![c] = <<>>] /\ got' = [got EXCEPT ![c] = sent[c]]
  BY <1>2, <1>4
<1>6. TypeOK'
  <2>1. /\ answers' \in [Clients -> Seq(Clients \X (0 .. MaxRequests))]
        /\ got' \in [Clients -> 0 .. MaxRequests]
    BY <1>5 DEF TypeOK
  <2> QED BY <1>1, <2>1 DEF TypeOK
<1>7. QueuesInv'
  BY <1>1 DEF QueuesInv, Waiting
<1>8. AnswersInv'
  BY <1>1, <1>5, <1>6 DEF AnswersInv, Waiting, TypeOK
<1>9. PendingInv'
  <2>1. answers[c] # <<>> /\ \A d \in Clients \ {c} : answers'[d] = answers[d]
    BY <1>3, <1>5 DEF TypeOK
  <2> QED BY <1>1, <2>1, PendingStays
<1> QED BY <1>3, <1>5, <1>6, <1>7, <1>8, <1>9

\* The server answers the request at the head, the only one of its client, or
\* gives it up; an answer goes to the client that asked.
LEMMA HandleStep ==
    ASSUME ServerInv, Handle
    PROVE  /\ ServerInv'
           /\ UNCHANGED <<sent, got>>
           /\ \/ UNCHANGED answers /\ server' \in {"runs", "ending", "crashed"}
              \/ \E c \in Clients : /\ answers[c] = <<>> /\ got[c] < sent[c] /\ server' = server
                                    /\ answers' = [answers EXCEPT ![c] = << <<c, sent[c]>> >>]
<1> USE MsgServerAssumption DEF ServerInv, serverVars
<1> DEFINE msg == Head(requests)
           c == msg.pid
           n == Len(requests)
<1>1. /\ UNCHANGED <<named, queue, state, sent, got>>
      /\ requests # <<>> /\ requests' = Tail(requests)
      /\ server \in {"runs", "ending"}
      /\ Register(msg) \/ Work(msg) \/ Fail(msg) \/ Close(msg)
  BY DEF Handle
<1>2. /\ n \in Nat \ {0} /\ requests \in Seq(Messages) /\ msg = requests[1]
      /\ requests' \in Seq(Messages) /\ Len(requests') = n - 1
      /\ \A i \in 1 .. n - 1 : requests'[i] = requests[i + 1]
  BY <1>1, HeadTailProperties, EmptySeq, LenProperties DEF TypeOK
<1>3. msg \in Messages /\ c \in Clients /\ msg.text \in 0 .. MaxRequests
  <2>1. 1 \in 1 .. n
    BY <1>2
  <2>2. requests[1] \in Messages
    BY <1>2, <2>1, ElementOfSeq
  <2> QED BY <1>2, <2>2 DEF Messages
<1>4. CASE Fail(msg) \/ Close(msg)
  <2>1. UNCHANGED <<clients, answers>> /\ server' \in {"ending", "crashed"}
    BY <1>4 DEF Fail, Close
  <2>2. TypeOK' /\ QueuesInv' /\ AnswersInv'
    BY <1>1, <1>2, <2>1 DEF TypeOK, QueuesInv, AnswersInv
  <2>3. PendingInv'
    BY <1>1, <1>2, <2>1 DEF PendingInv
  <2> QED BY <1>1, <2>1, <2>2, <2>3
<1>5. CASE Register(msg) \/ Work(msg)
  <2>1. msg.type # "END" /\ server' = server
    BY <1>5 DEF Register, Work
  <2>2. /\ Waiting(state[c]) /\ msg.text = sent[c] /\ answers[c] = <<>>
        /\ \A j \in 1 .. n : requests[j].type # "END" /\ requests[j].pid = c => j = 1
    BY <1>2, <2>1 DEF PendingInv
  <2>3. sent[c] = got[c] + 1 /\ got[c] \in Nat
    BY <1>3, <2>2 DEF AnswersInv, TypeOK
  <2>4. /\ clients' \in [Clients -> Clients \cup {NoQueue}]
        /\ \A d \in Clients : clients'[d] \in {NoQueue, d}
        /\ \E q \in {NoQueue, c} : Answer(msg, q)
    <3>1. CASE Register(msg)
      <4>1. named[KeyOf[c]] \in {NoQueue, c}
        BY <1>3 DEF QueuesInv
      <4>2. clients' = [clients EXCEPT ![c] = named[KeyOf[c]]] /\ Answer(msg, clients'[c])
        BY <3>1 DEF Register
      <4> HIDE DEF msg, c
      <4> QED BY <1>3, <4>1, <4>2 DEF QueuesInv, TypeOK
    <3>2. CASE Work(msg)
      BY <1>3, <3>2 DEF Work, QueuesInv, TypeOK
    <3> QED BY <1>5, <3>1, <3>2
  <2>5. \/ UNCHANGED answers
        \/ answers' = [answers EXCEPT ![c] = << <<c, sent[c]>> >>]
    <3>1. PICK q \in {NoQueue, c} : Answer(msg, q)
      BY <2>4
    <3>2. CASE q = c /\ Exists(q)
      <4>1. answers' = [answers EXCEPT ![c] = Append(answers[c], <<c, sent[c]>>)]
        BY <2>2, <3>1, <3>2 DEF Answer
      <4>2. Append(answers[c], <<c, sent[c]>>) = << <<c, sent[c]>> >>
        BY <2>2
      <4> QED BY <4>1, <4>2
    <3>3. CASE ~(q = c /\ Exists(q))
      BY <1>3, <3>1, <3>3, QueueExists DEF Answer
    <3> QED BY <3>2, <3>3
  <2> HIDE DEF msg, c
  <2>6. /\ answers' \in [Clients -> Seq(Clients \X (0 .. MaxRequests))]
        /\ answers'[c] \in {<<>>, << <<c, sent[c]>> >>}
        /\ \A d \in Clients \ {c} : answers'[d] = answers[d]
    <3>1. <<c, sent[c]>> \in Clients \X (0 .. MaxRequests)
      BY <1>3 DEF TypeOK
    <3>2. << <<c, sent[c]>> >> \in Seq(Clients \X (0 .. MaxRequests))
      BY <3>1
    <3>3. answers \in [Clients -> Seq(Clients \X (0 .. MaxRequests))]
      BY DEF TypeOK
    <3>4. CASE UNCHANGED answers
      BY <2>2, <3>3, <3>4
    <3>5. CASE answers' = [answers EXCEPT ![c] = << <<c, sent[c]>> >>]
      BY <1>3, <3>2, <3>3, <3>5
    <3> QED BY <2>5, <3>4, <3>5
  <2>7. TypeOK'
    BY <1>1, <1>2, <2>1, <2>4, <2>6 DEF TypeOK
  <2>8. QueuesInv'
    BY <1>1, <2>4 DEF QueuesInv
  <2>9. AnswersInv'
    BY <1>1, <1>3, <2>2, <2>3, <2>6 DEF AnswersInv
  <2>10. PendingInv'
    <3> SUFFICES ASSUME NEW i \in 1 .. n - 1, requests'[i].type # "END"
                 PROVE  LET d == requests'[i].pid IN
                        /\ Waiting(state'[d]) /\ requests'[i].text = sent'[d] /\ answers'[d] = <<>>
                        /\ \A j \in 1 .. n - 1 :
                              requests'[j].type # "END" /\ requests'[j].pid = d => j = i
      BY <1>2 DEF PendingInv
    <3>1. i + 1 \in 1 .. n /\ requests'[i] = requests[i + 1] /\ requests[i + 1].type # "END"
      BY <1>2
    <3>2. requests[i + 1].pid \in Clients \ {c}
      <4>1. requests[i + 1].pid # c
        BY <1>2, <2>2, <3>1
      <4> QED BY <3>1, <4>1, PendingClient
    <3>3. /\ Waiting(state[requests[i + 1].pid]) /\ requests[i + 1].text = sent[requests[i + 1].pid]
          /\ answers[requests[i + 1].pid] = <<>>
      BY <3>1, PendingClient
    <3>4. \A j \in 1 .. n : requests[j].type # "END" /\ requests[j].pid = requests[i + 1].pid
                               => j = i + 1
      BY <3>1 DEF PendingInv
    <3>5. \A j \in 1 .. n - 1 : requests'[j].type # "END" /\ requests'[j].pid = requests[i + 1].pid
                               => j = i
      BY <1>2, <3>4, SMTT(30)
    <3> QED BY <1>1, <2>6, <3>1, <3>2, <3>3, <3>5
  <2> QED BY <1>1, <1>3, <2>1, <2>2, <2>3, <2>5, <2>7, <2>8, <2>9, <2>10
<1> QED BY <1>1, <1>4, <1>5

LEMMA ServerStandsStep ==
    ASSUME ServerInv, Start \/ Drain \/ Remove
    PROVE  ServerInv' /\ UNCHANGED <<answers, sent, got>>
<1> USE DEF ServerInv
<1>1. /\ UNCHANGED <<named, answers, queue, state, sent, got>>
      /\ clients' \in {clients, [c \in Clients |-> NoQueue]}
      /\ requests' \in {requests, <<>>} /\ server' \in {"runs", "drained", "gone"}
  BY DEF Start, Drain, Remove
<1>2. TypeOK'
  <2>1. requests' \in Seq(Messages)
    <3>1. <<>> \in Seq(Messages)
      OBVIOUS
    <3> QED BY <1>1, <3>1 DEF TypeOK
  <2> QED BY <1>1, <2>1 DEF TypeOK
<1>3. QueuesInv' /\ AnswersInv'
  BY <1>1 DEF QueuesInv, AnswersInv
<1>4. PendingInv'
  BY <1>1 DEF PendingInv
<1> QED BY <1>1, <1>2, <1>3, <1>4

LEMMA ServerStep == ServerInv /\ KeysDiffer /\ [Next]_vars => ServerInv'
<1> SUFFICES ASSUME ServerInv, KeysDiffer, [Next]_vars PROVE ServerInv'
  OBVIOUS
<1>1. CASE UNCHANGED vars
  BY <1>1 DEF vars, ServerInv, TypeOK, QueuesInv, AnswersInv, PendingInv
<1>2. CASE ServerActs
  BY <1>2, HandleStep, ServerStandsStep DEF ServerActs
<1>3. ASSUME NEW c \in Clients, Open(c) \/ Ask(c) \/ Receive(c) \/ End(c) PROVE ServerInv'
  BY <1>3, OpenStep, AskStep, ReceiveStep, EndStep
<1> QED BY <1>1, <1>2, <1>3 DEF Next

\* Clients that have drawn different keys have one request under way, in the server's
\* queue or answered, once, and find nobody else's answer in their queue
\* (server.c:71-158, client.c:84).
THEOREM QueuesStayInOrder == KeysDiffer => (Spec => []ServerInv)
<1> SUFFICES ASSUME KeysDiffer PROVE Spec => []ServerInv
  OBVIOUS
<1> QED BY ServerInit, ServerStep, PTL DEF Spec

-----------------------------------------------------------------------------
(* The refinement: what has been served is what has been answered, or read. *)

Served == [c \in Clients |-> IF answers[c] = <<>> THEN got[c]
                             ELSE IF Head(answers[c])[1] = c THEN Head(answers[c])[2] ELSE 0]
AnsweredOrRead == [c \in Clients |-> IF answers[c] = <<>> THEN got[c] ELSE sent[c]]

LEMMA ServedIs == ServerInv => Served = AnsweredOrRead
<1> SUFFICES ASSUME ServerInv, NEW c \in Clients, answers[c] # <<>>
             PROVE  Head(answers[c])[1] = c /\ Head(answers[c])[2] = sent[c]
  BY DEF Served, AnsweredOrRead
<1>1. answers[c] = << <<c, sent[c]>> >>
  BY DEF ServerInv, AnswersInv
<1> QED BY <1>1

LEMMA ServedIsThen == (ServerInv => Served = AnsweredOrRead)'
BY ServedIs, PTL

LEMMA ServiceStep ==
    ASSUME ServerInv, KeysDiffer, [Next]_vars
    PROVE  [Service!Next]_(Service!vars)
<1> DEFINE open == server \in {"runs", "ending"}
<1>1. Served = AnsweredOrRead /\ Served' = AnsweredOrRead'
  <2>1. ServerInv'
    BY ServerStep
  <2> QED BY <2>1, ServedIs, ServedIsThen
<1>2. sent \in [Clients -> Nat] /\ got \in [Clients -> Nat] /\ answers \in [Clients -> Seq(Clients \X (0 .. MaxRequests))]
  BY MsgServerAssumption DEF ServerInv, TypeOK
<1>3. ASSUME UNCHANGED <<answers, sent, got>>, open' = open PROVE UNCHANGED Service!vars
  BY <1>3 DEF Service!vars
<1>4. ASSUME UNCHANGED <<answers, sent, got>>, open' = ~open PROVE Service!OpenOrClose
  BY <1>4 DEF Service!OpenOrClose
<1>5. CASE UNCHANGED vars
  BY <1>3, <1>5 DEF vars
<1>6. CASE Start \/ Drain
  <2>1. open' = ~open
    BY <1>6 DEF Start, Drain
  <2> QED BY <1>4, <1>6, <2>1, ServerStandsStep DEF Service!Next
<1>7. CASE Remove
  <2>1. open' = open
    BY <1>7 DEF Remove
  <2> QED BY <1>3, <1>7, <2>1, ServerStandsStep
<1>8. CASE Handle
  <2>1. open /\ UNCHANGED <<sent, got>>
    BY <1>8, HandleStep DEF Handle
  <2>2. ASSUME UNCHANGED answers, server' \in {"runs", "ending", "crashed"}
        PROVE  [Service!Next]_(Service!vars)
    <3>1. CASE server' = "crashed"
      BY <1>4, <2>1, <2>2, <3>1 DEF Service!Next
    <3>2. CASE server' # "crashed"
      BY <1>3, <2>1, <2>2, <3>2
    <3> QED BY <3>1, <3>2
  <2>3. ASSUME NEW c \in Clients, answers[c] = <<>>, got[c] < sent[c], server' = server,
               answers' = [answers EXCEPT ![c] = << <<c, sent[c]>> >>]
        PROVE  Service!Serve(c)
    <3>1. AnsweredOrRead' = [AnsweredOrRead EXCEPT ![c] = sent[c]]
      BY <1>2, <2>1, <2>3 DEF AnsweredOrRead
    <3>2. Served[c] < sent[c] /\ Served' = [Served EXCEPT ![c] = sent[c]]
      BY <1>1, <2>3, <3>1 DEF AnsweredOrRead
    <3>3. open /\ open' = open
      BY <2>1, <2>3
    <3> QED BY <2>1, <3>2, <3>3 DEF Service!Serve, Served
  <2> QED BY <1>8, <2>2, <2>3, HandleStep DEF Service!Next
<1>9. ASSUME NEW c \in Clients, Open(c) \/ End(c) PROVE UNCHANGED Service!vars
  BY <1>3, <1>9 DEF Open, End, serverVars
<1>10. ASSUME NEW c \in Clients, Ask(c) PROVE Service!Ask(c)
  <2>1. /\ got[c] = sent[c] /\ answers[c] = <<>> /\ UNCHANGED <<server, answers, got>>
        /\ sent' = [sent EXCEPT ![c] = @ + 1]
    BY <1>10, AskStep DEF Ask, serverVars
  <2>2. AnsweredOrRead' = AnsweredOrRead
    BY <1>2, <2>1 DEF AnsweredOrRead
  <2> QED BY <1>1, <2>1, <2>2 DEF Service!Ask, Served
<1>11. ASSUME NEW c \in Clients, Receive(c) PROVE Service!Receive(c)
  <2>1. /\ answers[c] = << <<c, sent[c]>> >> /\ answers' = [answers EXCEPT ![c] = <<>>]
        /\ got' = [got EXCEPT ![c] = sent[c]] /\ UNCHANGED <<server, sent>>
    BY <1>11, ReceiveStep DEF Receive, serverVars
  <2>2. /\ answers[c] # <<>> /\ answers'[c] = <<>> /\ got'[c] = sent[c]
        /\ \A d \in Clients \ {c} : answers'[d] = answers[d] /\ got'[d] = got[d]
    BY <1>2, <2>1
  <2>3. AnsweredOrRead' = AnsweredOrRead /\ AnsweredOrRead[c] = sent[c]
    BY <2>1, <2>2 DEF AnsweredOrRead
  <2>4. got[c] < sent[c]
    <3>1. sent[c] = got[c] + 1
      BY <2>1 DEF ServerInv, AnswersInv
    <3> QED BY <1>2, <3>1
  <2> QED BY <1>1, <2>1, <2>4, <2>3 DEF Service!Receive, Served
<1> QED BY <1>5, <1>6, <1>7, <1>8, <1>9, <1>10, <1>11 DEF Next, ServerActs, Service!Next

LEMMA ServiceInit == Init => Service!Init
  BY DEF Init, Service!Init

\* Clients that have drawn different keys get the answers to their requests, each
\* once and nobody else's, whatever else waits in the server's queue, until the
\* server has found its queue empty after an END (server.c:71-158, client.c:84).
THEOREM AnswersGoToTheirAskers ==
    ASSUME KeysDiffer
    PROVE  Spec => ImplementsRequestReply
<1>1. Spec => []ServerInv
  BY QueuesStayInOrder
<1> QED BY <1>1, ServiceInit, ServiceStep, PTL DEF Spec, ImplementsRequestReply, Service!Spec

-----------------------------------------------------------------------------
(* zad2: POSIX queues                                                      *)

PosixMessages == [type : {"WORK", "BAD", "END"}, name : Clients, text : Nat]

PosixTypeOK ==
    /\ server2 \in {"down", "runs", "crashed", "gone"}
    /\ requests2 \in Seq(PosixMessages)
    /\ answers2 \in [Clients -> Seq(Nat)]
    /\ state2 \in [Clients -> Posix!States]
    /\ sent2 \in [Clients -> Nat] /\ got2 \in [Clients -> Nat]

PosixAnswersInv ==
    \A c \in Clients :
       /\ state2[c] \in {"out", "opened"} => sent2[c] = 0
       /\ IF Waiting(state2[c])
          THEN sent2[c] = got2[c] + 1 /\ answers2[c] \in {<<>>, <<sent2[c]>>}
          ELSE sent2[c] = got2[c] /\ answers2[c] = <<>>

PosixPendingInv ==
    \A i \in 1 .. Len(requests2) : requests2[i].type = "WORK" =>
       LET c == requests2[i].name IN
       /\ Waiting(state2[c]) /\ requests2[i].text = sent2[c] /\ answers2[c] = <<>>
       /\ \A j \in 1 .. Len(requests2) :
             requests2[j].type = "WORK" /\ requests2[j].name = c => j = i

PosixInv == PosixTypeOK /\ PosixAnswersInv /\ PosixPendingInv

LEMMA PosixInit == Posix!Init => PosixInv
<1> SUFFICES ASSUME Posix!Init PROVE PosixInv
  OBVIOUS
<1> USE DEF Posix!Init
<1>1. PosixTypeOK
  BY DEF PosixTypeOK, Posix!States
<1>2. PosixAnswersInv /\ PosixPendingInv
  BY DEF PosixAnswersInv, PosixPendingInv, Waiting
<1> QED BY <1>1, <1>2 DEF PosixInv

LEMMA PosixPendingClient ==
    ASSUME PosixInv, NEW i \in 1 .. Len(requests2), requests2[i].type = "WORK"
    PROVE  /\ requests2[i].name \in Clients /\ Waiting(state2[requests2[i].name])
           /\ requests2[i].text = sent2[requests2[i].name] /\ answers2[requests2[i].name] = <<>>
<1>1. requests2[i] \in PosixMessages
  BY DEF PosixInv, PosixTypeOK
<1> QED BY <1>1 DEF PosixInv, PosixPendingInv, PosixMessages

LEMMA PosixPendingStays ==
    ASSUME PosixInv, requests2' = requests2,
           NEW c \in Clients, ~Waiting(state2[c]) \/ answers2[c] # <<>>,
           \A d \in Clients \ {c} : /\ sent2'[d] = sent2[d] /\ state2'[d] = state2[d]
                                    /\ answers2'[d] = answers2[d]
    PROVE  PosixPendingInv'
<1>1. \A i \in 1 .. Len(requests2) :
         requests2[i].type = "WORK" => requests2[i].name \in Clients \ {c}
  BY PosixPendingClient
<1> QED BY <1>1 DEF PosixInv, PosixPendingInv

LEMMA PosixSendKeepsPending ==
    ASSUME PosixInv, NEW c \in Clients, NEW type \in {"WORK", "BAD", "END"}, Posix!Send(c, type),
           UNCHANGED answers2, sent2' \in [Clients -> Nat],
           \A d \in Clients \ {c} : sent2'[d] = sent2[d] /\ state2'[d] = state2[d],
           ~Waiting(state2[c]), answers2[c] = <<>>,
           type = "WORK" => Waiting(state2'[c])
    PROVE  /\ requests2' \in Seq(PosixMessages)
           /\ PosixPendingInv'
<1> DEFINE m == [type |-> type, name |-> c, text |-> sent2'[c]]
           n == Len(requests2)
<1>1. requests2 \in Seq(PosixMessages) /\ m \in PosixMessages /\ n \in Nat /\ PosixPendingInv
  BY DEF PosixInv, PosixTypeOK, PosixMessages
<1>2. m.type = type /\ m.name = c /\ m.text = sent2'[c]
  OBVIOUS
<1>3. ASSUME NEW i \in 1 .. n, requests2[i].type = "WORK"
      PROVE  /\ requests2[i].name \in Clients \ {c}
             /\ requests2[i].text = sent2'[requests2[i].name]
             /\ Waiting(state2'[requests2[i].name])
  BY <1>3, PosixPendingClient
<1>4. CASE requests2' = requests2
  BY <1>1, <1>3, <1>4 DEF PosixPendingInv
<1>5. CASE requests2' = Append(requests2, m)
  <2> HIDE DEF m
  <2>1. /\ requests2' \in Seq(PosixMessages) /\ Len(requests2') = n + 1
        /\ \A i \in 1 .. n : requests2'[i] = requests2[i]
        /\ requests2'[n + 1] = m
    BY <1>1, <1>5, AppendProperties
  <2>2. ASSUME NEW i \in 1 .. n + 1, requests2'[i].type = "WORK"
        PROVE  LET d == requests2'[i].name IN
               /\ Waiting(state2'[d]) /\ requests2'[i].text = sent2'[d] /\ answers2'[d] = <<>>
               /\ \A j \in 1 .. n + 1 :
                     requests2'[j].type = "WORK" /\ requests2'[j].name = d => j = i
    <3>1. CASE i = n + 1
      <4>1. \A j \in 1 .. n : requests2'[j].type = "WORK" => requests2'[j].name # c
        BY <1>3, <2>1
      <4> QED BY <1>1, <1>2, <2>1, <2>2, <3>1, <4>1
    <3>2. CASE i \in 1 .. n
      <4>1. requests2'[i] = requests2[i] /\ requests2[i].name # c
        BY <1>3, <2>1, <2>2, <3>2
      <4>2. \A j \in 1 .. n :
               requests2'[j].type = "WORK" /\ requests2'[j].name = requests2[i].name => j = i
        BY <1>1, <2>1, <2>2, <3>2, <4>1 DEF PosixPendingInv
      <4>3. answers2[requests2[i].name] = <<>>
        BY <1>1, <2>2, <3>2, <4>1 DEF PosixPendingInv
      <4>4. /\ Waiting(state2'[requests2[i].name])
            /\ requests2[i].text = sent2'[requests2[i].name]
        BY <1>3, <2>2, <3>2, <4>1
      <4>5. \A j \in 1 .. n + 1 :
               requests2'[j].type = "WORK" /\ requests2'[j].name = requests2[i].name => j = i
        <5>1. requests2'[n + 1].name = c
          BY <1>2, <2>1
        <5> QED BY <1>1, <4>1, <4>2, <5>1
      <4> QED BY <4>1, <4>3, <4>4, <4>5
    <3> QED BY <1>1, <2>2, <3>1, <3>2
  <2>3. PosixPendingInv'
    BY <2>1, <2>2 DEF PosixPendingInv
  <2> QED BY <2>1, <2>3
<1> QED BY <1>1, <1>4, <1>5 DEF Posix!Send

\* A client opens or unlinks its queue.
LEMMA PosixQueueStep ==
    ASSUME PosixInv, NEW c \in Clients, Posix!Open(c) \/ Posix!Unlink(c)
    PROVE  PosixInv' /\ UNCHANGED <<server2, answers2, sent2, got2>>
<1> USE DEF Posix!Open, Posix!Unlink, Posix!Goto, Posix!serverVars, PosixInv
<1>1. /\ UNCHANGED <<server2, requests2, answers2, sent2, got2>>
      /\ state2[c] \in {"out", "ends"}
      /\ state2' = [state2 EXCEPT ![c] = IF state2[c] = "out" THEN "opened" ELSE "left"]
  OBVIOUS
<1>2. PosixTypeOK'
  <2>1. state2' \in [Clients -> Posix!States]
    BY <1>1 DEF PosixTypeOK, Posix!States
  <2> QED BY <1>1, <2>1 DEF PosixTypeOK
<1>3. PosixAnswersInv'
  BY <1>1 DEF PosixAnswersInv, PosixTypeOK, Waiting
<1>4. PosixPendingInv'
  BY <1>1, PosixPendingStays DEF PosixTypeOK, Waiting
<1> QED BY <1>1, <1>2, <1>3, <1>4

LEMMA PosixAskStep ==
    ASSUME PosixInv, NEW c \in Clients, Posix!Connect(c) \/ Posix!Ask(c)
    PROVE  /\ PosixInv' /\ UNCHANGED <<server2, answers2, got2>>
           /\ got2[c] = sent2[c] /\ answers2[c] = <<>>
           /\ sent2' = [sent2 EXCEPT ![c] = @ + 1]
<1> USE DEF PosixInv
<1>1. /\ UNCHANGED <<server2, answers2, got2>> /\ \E type \in {"WORK", "BAD"} : Posix!Send(c, type)
      /\ state2[c] \in {"opened", "idle"}
      /\ state2' = [state2 EXCEPT ![c] = IF state2[c] = "opened" THEN "connects" ELSE "waits"]
      /\ sent2' = [sent2 EXCEPT ![c] = IF state2[c] = "opened" THEN 1 ELSE sent2[c] + 1]
  BY DEF Posix!Connect, Posix!Ask, Posix!Goto, Posix!serverVars
<1>2. got2[c] = sent2[c] /\ answers2[c] = <<>> /\ (state2[c] = "opened" => sent2[c] = 0)
  BY <1>1 DEF PosixAnswersInv, Waiting
<1>3. sent2' = [sent2 EXCEPT ![c] = sent2[c] + 1]
  <2>1. CASE state2[c] = "opened"
    <3>1. sent2[c] + 1 = 1
      BY <1>2, <2>1
    <3> QED BY <1>1, <2>1, <3>1
  <2>2. CASE state2[c] # "opened"
    BY <1>1, <2>2
  <2> QED BY <2>1, <2>2
<1>4. /\ sent2' \in [Clients -> Nat] /\ sent2'[c] = sent2[c] + 1
      /\ state2' \in [Clients -> Posix!States] /\ state2'[c] \in {"connects", "waits"}
      /\ \A d \in Clients \ {c} : sent2'[d] = sent2[d] /\ state2'[d] = state2[d]
  BY <1>1, <1>3 DEF PosixTypeOK, Posix!States
<1>5. /\ requests2' \in Seq(PosixMessages)
      /\ PosixPendingInv'
  BY <1>1, <1>2, <1>4, PosixSendKeepsPending DEF Waiting
<1>6. PosixTypeOK'
  BY <1>1, <1>4, <1>5 DEF PosixTypeOK
<1>7. PosixAnswersInv'
  BY <1>1, <1>2, <1>4 DEF PosixAnswersInv, Waiting
<1> QED BY <1>1, <1>2, <1>3, <1>5, <1>6, <1>7

LEMMA PosixEndStep ==
    ASSUME PosixInv, NEW c \in Clients, Posix!SendEnd(c)
    PROVE  PosixInv' /\ UNCHANGED <<server2, answers2, sent2, got2>>
<1> USE DEF PosixInv
<1>1. /\ UNCHANGED <<server2, answers2, sent2, got2>> /\ Posix!Send(c, "END")
      /\ state2[c] = "idle" /\ state2' = [state2 EXCEPT ![c] = "ends"]
  BY DEF Posix!SendEnd, Posix!Goto, Posix!serverVars
<1>2. /\ state2' \in [Clients -> Posix!States] /\ state2'[c] = "ends"
      /\ \A d \in Clients \ {c} : state2'[d] = state2[d]
  BY <1>1 DEF PosixTypeOK, Posix!States
<1>3. answers2[c] = <<>>
  BY <1>1 DEF PosixAnswersInv, Waiting
<1>4. /\ requests2' \in Seq(PosixMessages)
      /\ PosixPendingInv'
  BY <1>1, <1>2, <1>3, PosixSendKeepsPending DEF Waiting, PosixTypeOK
<1>5. PosixTypeOK'
  BY <1>1, <1>2, <1>4 DEF PosixTypeOK
<1>6. PosixAnswersInv'
  BY <1>1, <1>2 DEF PosixAnswersInv, Waiting
<1> QED BY <1>1, <1>4, <1>5, <1>6

LEMMA PosixReceiveStep ==
    ASSUME PosixInv, NEW c \in Clients, Posix!Receive(c)
    PROVE  /\ PosixInv' /\ UNCHANGED <<server2, sent2>>
           /\ answers2[c] = <<sent2[c]>> /\ answers2' = [answers2 EXCEPT ![c] = <<>>]
           /\ got2' = [got2 EXCEPT ![c] = sent2[c]]
<1> USE DEF PosixInv
<1>1. /\ UNCHANGED <<server2, requests2, sent2>> /\ answers2[c] # <<>>
      /\ Waiting(state2[c]) /\ state2' = [state2 EXCEPT ![c] = "idle"]
      /\ got2' = [got2 EXCEPT ![c] = Head(answers2[c])]
      /\ answers2' = [answers2 EXCEPT ![c] = Tail(answers2[c])]
  BY DEF Posix!Receive, Posix!Goto, Posix!serverVars, Waiting
<1>2. answers2[c] = <<sent2[c]>> /\ sent2[c] \in Nat
  BY <1>1 DEF PosixAnswersInv, PosixTypeOK
<1>3. Head(answers2[c]) = sent2[c] /\ Tail(answers2[c]) = <<>>
  BY <1>2
<1>4. got2' = [got2 EXCEPT ![c] = sent2[c]] /\ answers2' = [answers2 EXCEPT ![c] = <<>>]
  BY <1>1, <1>3
<1>5. PosixTypeOK'
  <2>1. /\ state2' \in [Clients -> Posix!States] /\ got2' \in [Clients -> Nat]
        /\ answers2' \in [Clients -> Seq(Nat)]
    BY <1>1, <1>2, <1>4 DEF PosixTypeOK, Posix!States
  <2> QED BY <1>1, <2>1 DEF PosixTypeOK
<1>6. PosixAnswersInv'
  BY <1>1, <1>4 DEF PosixAnswersInv, PosixTypeOK, Waiting
<1>7. PosixPendingInv'
  <2>1. \A d \in Clients \ {c} : answers2'[d] = answers2[d] /\ state2'[d] = state2[d]
    BY <1>1, <1>4 DEF PosixTypeOK
  <2> QED BY <1>1, <2>1, PosixPendingStays
<1> QED BY <1>1, <1>2, <1>4, <1>5, <1>6, <1>7

LEMMA PosixHandleStep ==
    ASSUME PosixInv, Posix!Handle
    PROVE  /\ PosixInv' /\ UNCHANGED <<sent2, got2>> /\ server2 = "runs"
           /\ \/ server2' \in {"crashed", "gone"} /\ UNCHANGED answers2
              \/ server2' = "runs" /\ UNCHANGED answers2
              \/ /\ server2' = "runs"
                 /\ \E c \in Clients : /\ answers2[c] = <<>> /\ got2[c] < sent2[c]
                                       /\ answers2' = [answers2 EXCEPT ![c] = <<sent2[c]>>]
<1> USE DEF PosixInv
<1> DEFINE msg == Head(requests2)
           c == msg.name
           n == Len(requests2)
<1>1. /\ UNCHANGED <<state2, sent2, got2>> /\ server2 = "runs"
      /\ requests2 # <<>> /\ requests2' = Tail(requests2)
      /\ Posix!Work(msg) \/ Posix!Fail(msg) \/ Posix!Close(msg)
  BY DEF Posix!Handle, Posix!clientVars
<1>2. /\ n \in Nat \ {0} /\ requests2 \in Seq(PosixMessages) /\ msg = requests2[1]
      /\ requests2' \in Seq(PosixMessages) /\ Len(requests2') = n - 1
      /\ \A i \in 1 .. n - 1 : requests2'[i] = requests2[i + 1]
  BY <1>1, HeadTailProperties, EmptySeq, LenProperties DEF PosixTypeOK
<1>3. CASE Posix!Fail(msg) \/ Posix!Close(msg)
  <2>1. UNCHANGED answers2 /\ server2' \in {"crashed", "gone"}
    BY <1>3 DEF Posix!Fail, Posix!Close
  <2>2. PosixTypeOK' /\ PosixAnswersInv'
    BY <1>1, <1>2, <2>1 DEF PosixTypeOK, PosixAnswersInv
  <2>3. PosixPendingInv'
    BY <1>1, <1>2, <2>1 DEF PosixPendingInv
  <2> QED BY <1>1, <2>1, <2>2, <2>3
<1>4. CASE Posix!Work(msg)
  <2>1. msg.type = "WORK" /\ server2' = server2 /\ 1 \in 1 .. n
    BY <1>2, <1>4 DEF Posix!Work
  <2>2. /\ c \in Clients /\ Waiting(state2[c]) /\ msg.text = sent2[c] /\ answers2[c] = <<>>
        /\ \A j \in 1 .. n : requests2[j].type = "WORK" /\ requests2[j].name = c => j = 1
    BY <1>2, <2>1, PosixPendingClient DEF PosixPendingInv
  <2>3. sent2[c] = got2[c] + 1 /\ got2[c] \in Nat /\ sent2[c] \in Nat
    BY <2>2 DEF PosixAnswersInv, PosixTypeOK
  <2>4. UNCHANGED answers2 \/ answers2' = [answers2 EXCEPT ![c] = <<sent2[c]>>]
    <3>1. Append(answers2[c], sent2[c]) = <<sent2[c]>>
      BY <2>2
    <3>2. UNCHANGED answers2 \/ answers2' = [answers2 EXCEPT ![c] = Append(answers2[c], sent2[c])]
      BY <1>4, <2>2 DEF Posix!Work
    <3> QED BY <3>1, <3>2
  <2> HIDE DEF msg, c
  <2>5. /\ answers2' \in [Clients -> Seq(Nat)] /\ answers2'[c] \in {<<>>, <<sent2[c]>>}
        /\ \A d \in Clients \ {c} : answers2'[d] = answers2[d]
    <3>1. answers2 \in [Clients -> Seq(Nat)] /\ <<sent2[c]>> \in Seq(Nat)
      BY <2>3 DEF PosixTypeOK
    <3>2. CASE UNCHANGED answers2
      BY <2>2, <3>1, <3>2
    <3>3. CASE answers2' = [answers2 EXCEPT ![c] = <<sent2[c]>>]
      BY <2>2, <3>1, <3>3
    <3> QED BY <2>4, <3>2, <3>3
  <2>6. PosixTypeOK'
    BY <1>1, <1>2, <2>1, <2>5 DEF PosixTypeOK
  <2>7. PosixAnswersInv'
    BY <1>1, <2>2, <2>3, <2>5 DEF PosixAnswersInv, Waiting
  <2>8. PosixPendingInv'
    <3> SUFFICES ASSUME NEW i \in 1 .. n - 1, requests2'[i].type = "WORK"
                 PROVE  LET d == requests2'[i].name IN
                        /\ Waiting(state2'[d]) /\ requests2'[i].text = sent2'[d]
                        /\ answers2'[d] = <<>>
                        /\ \A j \in 1 .. n - 1 :
                              requests2'[j].type = "WORK" /\ requests2'[j].name = d => j = i
      BY <1>2 DEF PosixPendingInv
    <3>1. i + 1 \in 1 .. n /\ requests2'[i] = requests2[i + 1] /\ requests2[i + 1].type = "WORK"
      BY <1>2
    <3>2. requests2[i + 1].name # c
      BY <1>2, <2>2, <3>1
    <3>3. /\ requests2[i + 1].name \in Clients \ {c} /\ Waiting(state2[requests2[i + 1].name])
          /\ requests2[i + 1].text = sent2[requests2[i + 1].name]
          /\ answers2[requests2[i + 1].name] = <<>>
      BY <3>1, <3>2, PosixPendingClient
    <3>4. \A j \in 1 .. n : requests2[j].type = "WORK" /\ requests2[j].name = requests2[i + 1].name
                               => j = i + 1
      BY <3>1 DEF PosixPendingInv
    <3>5. \A j \in 1 .. n - 1 :
             requests2'[j].type = "WORK" /\ requests2'[j].name = requests2[i + 1].name => j = i
      <4> SUFFICES ASSUME NEW j \in 1 .. n - 1, requests2'[j].type = "WORK",
                          requests2'[j].name = requests2[i + 1].name
                   PROVE  j = i
        OBVIOUS
      <4>1. j + 1 \in 1 .. n /\ requests2'[j] = requests2[j + 1]
        BY <1>2
      <4> QED BY <3>4, <4>1
    <3> QED BY <1>1, <2>5, <3>1, <3>3, <3>5
  <2> QED BY <1>1, <2>1, <2>2, <2>3, <2>4, <2>6, <2>7, <2>8
<1> QED BY <1>1, <1>3, <1>4

LEMMA PosixStep == PosixInv /\ [Posix!Next]_(Posix!vars) => PosixInv'
<1> SUFFICES ASSUME PosixInv, [Posix!Next]_(Posix!vars) PROVE PosixInv'
  OBVIOUS
<1>1. CASE UNCHANGED Posix!vars
  BY <1>1 DEF Posix!vars, Posix!serverVars, Posix!clientVars,
              PosixInv, PosixTypeOK, PosixAnswersInv, PosixPendingInv
<1>2. CASE Posix!Start
  BY <1>2 DEF Posix!Start, Posix!clientVars, PosixInv, PosixTypeOK, PosixAnswersInv, PosixPendingInv
<1>3. CASE Posix!Handle
  BY <1>3, PosixHandleStep
<1>4. ASSUME NEW c \in Clients,
             \/ Posix!Open(c) \/ Posix!Connect(c) \/ Posix!Ask(c)
             \/ Posix!Receive(c) \/ Posix!SendEnd(c) \/ Posix!Unlink(c)
      PROVE  PosixInv'
  BY <1>4, PosixQueueStep, PosixAskStep, PosixReceiveStep, PosixEndStep
<1> QED BY <1>1, <1>2, <1>3, <1>4 DEF Posix!Next

PosixServed == [c \in Clients |-> IF answers2[c] = <<>> THEN got2[c] ELSE Head(answers2[c])]

LEMMA PosixServiceStep ==
    ASSUME PosixInv, [Posix!Next]_(Posix!vars)
    PROVE  [Posix!Service!Next]_(Posix!Service!vars)
<1>1. /\ sent2 \in [Clients -> Nat] /\ got2 \in [Clients -> Nat]
      /\ answers2 \in [Clients -> Seq(Nat)]
  BY DEF PosixInv, PosixTypeOK
<1>2. ASSUME UNCHANGED <<server2, answers2, sent2, got2>> PROVE UNCHANGED Posix!Service!vars
  BY <1>2 DEF Posix!Service!vars
<1>3. CASE UNCHANGED Posix!vars
  BY <1>2, <1>3 DEF Posix!vars, Posix!serverVars, Posix!clientVars
<1>4. CASE Posix!Start
  BY <1>4 DEF Posix!Start, Posix!clientVars, Posix!Service!Next, Posix!Service!OpenOrClose
<1>5. CASE Posix!Handle
  <2>1. CASE server2' \in {"crashed", "gone"} /\ UNCHANGED answers2
    BY <1>5, <2>1, PosixHandleStep DEF Posix!Service!Next, Posix!Service!OpenOrClose
  <2>2. CASE server2' = "runs" /\ UNCHANGED answers2
    BY <1>2, <1>5, <2>2, PosixHandleStep
  <2>3. ASSUME NEW c \in Clients, answers2[c] = <<>>, got2[c] < sent2[c], server2' = "runs",
               answers2' = [answers2 EXCEPT ![c] = <<sent2[c]>>]
        PROVE  Posix!Service!Serve(c)
    <3>1. UNCHANGED <<sent2, got2>> /\ server2 = "runs"
      BY <1>5, PosixHandleStep
    <3>2. answers2'[c] # <<>> /\ Head(answers2'[c]) = sent2[c]
          /\ \A d \in Clients \ {c} : answers2'[d] = answers2[d]
      BY <1>1, <2>3
    <3>3. PosixServed[c] < sent2[c] /\ PosixServed' = [PosixServed EXCEPT ![c] = sent2[c]]
      BY <1>1, <2>3, <3>1, <3>2 DEF PosixServed
    <3> QED BY <2>3, <3>1, <3>3 DEF Posix!Service!Serve, PosixServed
  <2> QED BY <1>5, <2>1, <2>2, <2>3, PosixHandleStep DEF Posix!Service!Next
<1>6. ASSUME NEW c \in Clients, Posix!Open(c) \/ Posix!Unlink(c) \/ Posix!SendEnd(c)
      PROVE  UNCHANGED Posix!Service!vars
  BY <1>2, <1>6, PosixQueueStep, PosixEndStep
<1>7. ASSUME NEW c \in Clients, Posix!Connect(c) \/ Posix!Ask(c) PROVE Posix!Service!Ask(c)
  BY <1>7, PosixAskStep DEF Posix!Service!Ask
<1>8. ASSUME NEW c \in Clients, Posix!Receive(c) PROVE Posix!Service!Receive(c)
  <2>1. /\ answers2[c] = <<sent2[c]>> /\ answers2' = [answers2 EXCEPT ![c] = <<>>]
        /\ got2' = [got2 EXCEPT ![c] = sent2[c]] /\ UNCHANGED <<server2, sent2>>
    BY <1>8, PosixReceiveStep
  <2>2. /\ answers2[c] # <<>> /\ Head(answers2[c]) = sent2[c]
        /\ answers2'[c] = <<>> /\ got2'[c] = sent2[c]
        /\ \A d \in Clients \ {c} : answers2'[d] = answers2[d] /\ got2'[d] = got2[d]
    BY <1>1, <2>1
  <2>3. PosixServed' = PosixServed /\ PosixServed[c] = sent2[c]
    BY <2>2 DEF PosixServed
  <2>4. got2[c] < sent2[c]
    <3>1. sent2[c] = got2[c] + 1
      BY <2>2 DEF PosixInv, PosixAnswersInv
    <3> QED BY <1>1, <3>1
  <2> QED BY <2>1, <2>3, <2>4 DEF Posix!Service!Receive, PosixServed
<1> QED BY <1>3, <1>4, <1>5, <1>6, <1>7, <1>8 DEF Posix!Next, Posix!Service!Next

LEMMA PosixServiceInit == Posix!Init => Posix!Service!Init
  BY DEF Posix!Init, Posix!Service!Init

\* The POSIX server keeps the same promise until it returns at an END, whatever
\* the room of the queues and however few descriptors it has (zad2/server.c:80-178).
THEOREM PosixAnswersGoToTheirAskers == Posix!Spec => PosixImplementsRequestReply
<1>1. Posix!Spec => []PosixInv
  BY PosixInit, PosixStep, PTL DEF Posix!Spec
<1> QED BY <1>1, PosixServiceInit, PosixServiceStep, PTL
        DEF Posix!Spec, PosixImplementsRequestReply, Posix!ImplementsRequestReply, Posix!Service!Spec

-----------------------------------------------------------------------------
(* pollution.erl                                                           *)

\* Induction over 0 .. n, with the numbers it holds for as a set.
LEMMA InductionUpTo ==
    ASSUME NEW n \in Nat, NEW P, 0 \in P, \A k \in 1 .. n : k - 1 \in P => k \in P
    PROVE  0 .. n \subseteq P
<1> SUFFICES ASSUME (0 .. n) \ P # {} PROVE FALSE
  OBVIOUS
<1> DEFINE R == {p \in Nat \X Nat : p[1] < p[2]}
           Q == (0 .. n) \ P
<1>1. IsWellFoundedOn(R, Nat)
  BY NatLessThanWellFounded DEF OpToRel
<1>2. PICK m \in Q : \A k \in Q : <<k, m>> \notin R
  <2>1. Q \subseteq Nat
    OBVIOUS
  <2> QED BY <1>1, <2>1, WFMin
<1>3. m \in 1 .. n /\ m - 1 \in 0 .. n /\ m - 1 \notin P
  BY <1>2
<1>4. m - 1 \in Q /\ <<m - 1, m>> \in R
  BY <1>3
<1> QED BY <1>2, <1>4

\* Removing a measurement from a list leaves a list, and one without duplicates.
LEMMA WithoutKeeps ==
    ASSUME NEW S, NEW s \in Seq(S), NEW m
    PROVE  /\ Erlang!Without(s, m) \in Seq(S)
           /\ Erlang!IsInjective(s) => Erlang!IsInjective(Erlang!Without(s, m))
<1> DEFINE n == Len(s)
           Follow(g, i) == IF i = 0 THEN <<>>
                         ELSE IF s[i] = m THEN g[i - 1] ELSE Append(g[i - 1], s[i])
           Solves(g, k) == \A i \in 0 .. k : g[i] = Follow(g, i)
           Found == {k \in 0 .. n : \E g \in [0 .. k -> Seq(S)] : Solves(g, k)}
           kept == CHOOSE g : g = [i \in 0 .. n |-> Follow(g, i)]
           From(w, k) == \A a \in 1 .. Len(w) : \E b \in 1 .. k : w[a] = s[b]
           Right == {k \in 0 .. n : /\ kept[k] \in Seq(S) /\ From(kept[k], k)
                                    /\ Erlang!IsInjective(s) => Erlang!IsInjective(kept[k])}
<1>1. n \in Nat /\ \A i \in 1 .. n : s[i] \in S
  BY LenProperties, ElementOfSeq
<1>2. Erlang!Without(s, m) = kept[n]
  BY DEF Erlang!Without
<1> HIDE DEF n
<1>3. 0 .. n \subseteq Found
  <2>1. 0 \in Found
    <3> DEFINE g == [i \in 0 .. 0 |-> <<>>]
    <3>1. g \in [0 .. 0 -> Seq(S)] /\ Solves(g, 0)
      OBVIOUS
    <3> HIDE DEF g, Solves
    <3> QED BY <1>1, <3>1
  <2>2. ASSUME NEW k \in 1 .. n, k - 1 \in Found PROVE k \in Found
    <3>1. PICK g \in [0 .. k - 1 -> Seq(S)] : Solves(g, k - 1)
      BY <2>2
    <3> DEFINE h == [i \in 0 .. k |-> IF i = k THEN Follow(g, k) ELSE g[i]]
    <3>2. Follow(g, k) \in Seq(S)
      <4>1. k - 1 \in 0 .. k - 1 /\ g[k - 1] \in Seq(S) /\ s[k] \in S
        BY <1>1, <3>1
      <4> QED BY <4>1
    <3>3. h \in [0 .. k -> Seq(S)]
      <4> HIDE DEF Follow
      <4>1. \A i \in 0 .. k : i # k => i \in 0 .. k - 1
        BY <1>1
      <4> QED BY <3>2, <4>1
    <3>4. ASSUME NEW i \in 0 .. k PROVE h[i] = Follow(h, i)
      <4>1. \A e \in 0 .. k - 1 : h[e] = g[e]
        BY <1>1
      <4>2. h[i] = Follow(g, i)
        <5>1. CASE i = k
          BY <5>1
        <5>2. CASE i # k
          <6>1. i \in 0 .. k - 1
            BY <1>1, <5>2
          <6> HIDE DEF h, Follow
          <6> QED BY <3>1, <4>1, <6>1
        <5> QED BY <5>1, <5>2
      <4>3. Follow(g, i) = Follow(h, i)
        <5>1. i # 0 => i - 1 \in 0 .. k - 1
          BY <1>1
        <5> HIDE DEF h
        <5> QED BY <4>1, <5>1
      <4> QED BY <4>2, <4>3
    <3>5. Solves(h, k) /\ k \in 0 .. n
      <4> HIDE DEF h, Follow
      <4> QED BY <1>1, <3>4
    <3> HIDE DEF h, Solves
    <3> QED BY <3>3, <3>5
  <2> HIDE DEF Found
  <2> QED BY <1>1, <2>1, <2>2, InductionUpTo
<1>4. kept = [i \in 0 .. n |-> Follow(kept, i)]
  <2>1. n \in Found
    <3> HIDE DEF Found
    <3> QED BY <1>1, <1>3
  <2>2. PICK g \in [0 .. n -> Seq(S)] : Solves(g, n)
    <3> HIDE DEF Solves
    <3> QED BY <2>1
  <2>3. g = [i \in 0 .. n |-> Follow(g, i)]
    <3> HIDE DEF Follow
    <3> QED BY <2>2
  <2> HIDE DEF Follow
  <2> QED BY <2>3
<1>5. kept[0] = <<>> /\ \A k \in 1 .. n : kept[k] = Follow(kept, k)
  <2> HIDE DEF kept
  <2>1. \A k \in 0 .. n : kept[k] = Follow(kept, k)
    <3> HIDE DEF Follow
    <3> QED BY <1>4
  <2> QED BY <1>1, <2>1
<1> HIDE DEF kept
<1>6. 0 .. n \subseteq Right
  <2>1. 0 \in Right
    <3>1. <<>> \in Seq(S) /\ From(<<>>, 0) /\ Erlang!IsInjective(<<>>)
      BY DEF Erlang!IsInjective
    <3>2. kept[0] = <<>> /\ 0 \in 0 .. n
      BY <1>1, <1>5
    <3>3. kept[0] \in Seq(S) /\ From(kept[0], 0) /\ Erlang!IsInjective(kept[0])
      <4> HIDE DEF From
      <4> QED BY <3>1, <3>2
    <3> HIDE DEF From
    <3> QED BY <3>2, <3>3
  <2>2. ASSUME NEW k \in 1 .. n, k - 1 \in Right PROVE k \in Right
    <3> DEFINE w == kept[k - 1]
    <3>1. /\ w \in Seq(S) /\ From(w, k - 1)
          /\ Erlang!IsInjective(s) => Erlang!IsInjective(w)
      BY <2>2
    <3>2. kept[k] \in Seq(S) /\ From(kept[k], k)
          /\ (Erlang!IsInjective(s) => Erlang!IsInjective(kept[k]))
      <4>1. kept[k] = IF s[k] = m THEN w ELSE Append(w, s[k])
        BY <1>1, <1>5
      <4>2. CASE s[k] = m
        <5>1. From(w, k)
          <6> HIDE DEF w
          <6> QED BY <1>1, <3>1
        <5> HIDE DEF w, From
        <5> QED BY <3>1, <4>1, <4>2, <5>1
      <4>3. CASE s[k] # m
        <5> HIDE DEF w
        <5> DEFINE v == Append(w, s[k])
        <5>1. /\ v \in Seq(S) /\ Len(w) \in Nat /\ Len(v) = Len(w) + 1 /\ v[Len(w) + 1] = s[k]
              /\ \A a \in 1 .. Len(w) : v[a] = w[a]
          <6>1. s[k] \in S
            BY <1>1
          <6> QED BY <3>1, <6>1, AppendProperties, LenProperties
        <5> HIDE DEF v
        <5>2. From(v, k)
          <6> SUFFICES ASSUME NEW a \in 1 .. Len(w) + 1
                       PROVE  \E b \in 1 .. k : v[a] = s[b]
            BY <5>1
          <6>1. CASE a = Len(w) + 1
            BY <5>1, <6>1
          <6>2. CASE a \in 1 .. Len(w)
            <7>1. PICK b \in 1 .. k - 1 : w[a] = s[b]
              BY <3>1, <6>2
            <7> QED BY <1>1, <5>1, <6>2, <7>1
          <6> QED BY <5>1, <6>1, <6>2
        <5>3. ASSUME Erlang!IsInjective(s) PROVE Erlang!IsInjective(v)
          <6>1. DOMAIN w = 1 .. Len(w) /\ DOMAIN v = 1 .. Len(w) + 1 /\ DOMAIN s = 1 .. n
            BY <3>1, <5>1, LenProperties DEF n
          <6>2. ASSUME NEW a \in 1 .. Len(w) PROVE w[a] # s[k]
            <7>1. PICK b \in 1 .. k - 1 : w[a] = s[b]
              BY <3>1
            <7>2. b \in DOMAIN s /\ k \in DOMAIN s /\ b # k
              BY <1>1, <6>1
            <7> QED BY <5>3, <7>1, <7>2 DEF Erlang!IsInjective
          <6>3. \A a, b \in 1 .. Len(w) : w[a] = w[b] => a = b
            BY <3>1, <5>3, <6>1 DEF Erlang!IsInjective
          <6>4. ASSUME NEW a \in 1 .. Len(w) + 1, NEW b \in 1 .. Len(w) + 1, v[a] = v[b]
                PROVE  a = b
            BY <5>1, <6>2, <6>3, <6>4
          <6> QED BY <6>1, <6>4 DEF Erlang!IsInjective
        <5>4. kept[k] = v
          BY <4>1, <4>3 DEF v
        <5> HIDE DEF From
        <5> QED BY <5>1, <5>2, <5>3, <5>4
      <4> QED BY <4>2, <4>3
    <3> HIDE DEF From
    <3> QED BY <1>1, <3>2
  <2> HIDE DEF Right
  <2> QED BY <1>1, <2>1, <2>2, InductionUpTo
<1>7. n \in Right
  <2> HIDE DEF Right
  <2> QED BY <1>1, <1>6
<1> QED BY <1>2, <1>7

\* What the operations need of a map of stations, and leave behind.
StationsInv(m) ==
    /\ DOMAIN m \subseteq Names
    /\ \A n \in DOMAIN m : m[n] \in Erlang!Stations /\ Erlang!IsInjective(m[n].list)
    /\ \A n, o \in DOMAIN m : n # o => m[n].loc # m[o].loc

ResultInv(result) == result.tag \in {"map", "text"} /\ StationsInv(result.stations)

LEMMA NoStations == StationsInv(<<>>)
  BY DEF StationsInv

LEMMA MeantIsThere ==
    ASSUME NEW m, NEW ref, Erlang!Found(ref, m)
    PROVE  (CHOOSE n \in Erlang!Meant(ref, m) : TRUE) \in DOMAIN m
<1>1. Erlang!Cardinality({}) = 0
  <2>1. Erlang!Cardinality({}) = Cardinality({})
    BY DEF Erlang!Cardinality, Cardinality
  <2> QED BY <2>1, FS_EmptySet
<1>2. Erlang!Meant(ref, m) # {}
  BY <1>1 DEF Erlang!Found
<1>3. Erlang!Meant(ref, m) \subseteq DOMAIN m
  BY DEF Erlang!Meant
<1> QED BY <1>2, <1>3

LEMMA WithListKeeps ==
    ASSUME NEW m, StationsInv(m), NEW n \in DOMAIN m,
           NEW list \in Seq(Erlang!Measurements), Erlang!IsInjective(list)
    PROVE  ResultInv(Erlang!WithList(m, n, list))
<1> DEFINE w == [m EXCEPT ![n].list = list]
<1>1. /\ DOMAIN w = DOMAIN m /\ w[n] = [m[n] EXCEPT !.list = list]
      /\ \A o \in DOMAIN m : o # n => w[o] = m[o]
  OBVIOUS
<1>2. w[n] \in Erlang!Stations /\ w[n].list = list /\ w[n].loc = m[n].loc
  BY <1>1 DEF StationsInv, Erlang!Stations
<1> HIDE DEF w
<1>3. StationsInv(w)
  BY <1>1, <1>2 DEF StationsInv
<1> QED BY <1>3 DEF ResultInv, Erlang!WithList, Erlang!Monitor, w

\* No two stations at a location, and no two measurements of a time and type.
LEMMA AddStationKeeps ==
    ASSUME NEW m, StationsInv(m), NEW name \in Names, NEW loc \in Locations
    PROVE  ResultInv(Erlang!AddStation(name, loc, m))
<1> DEFINE w == [n \in DOMAIN m \cup {name} |->
                    IF n = name THEN [loc |-> loc, list |-> <<>>] ELSE m[n]]
<1>1. CASE \E n \in DOMAIN m : n = name \/ m[n].loc = loc
  BY <1>1, NoStations DEF Erlang!AddStation, Erlang!Text, ResultInv
<1>2. CASE ~\E n \in DOMAIN m : n = name \/ m[n].loc = loc
  <2>1. <<>> \in Seq(Erlang!Measurements) /\ Erlang!IsInjective(<<>>)
    BY DEF Erlang!IsInjective
  <2>2. /\ DOMAIN w = DOMAIN m \cup {name} /\ w[name] = [loc |-> loc, list |-> <<>>]
        /\ \A n \in DOMAIN m : w[n] = m[n]
    BY <1>2
  <2>3. w[name] \in Erlang!Stations /\ w[name].loc = loc /\ w[name].list = <<>>
    BY <2>1, <2>2 DEF Erlang!Stations
  <2> HIDE DEF w
  <2>4. StationsInv(w)
    BY <1>2, <2>1, <2>2, <2>3 DEF StationsInv
  <2> QED BY <1>2, <2>4 DEF Erlang!AddStation, Erlang!Monitor, ResultInv, w
<1> QED BY <1>1, <1>2

LEMMA ValuesKeep ==
    ASSUME NEW m, StationsInv(m), NEW ref, NEW meas \in Erlang!Measurements, NEW isNumber
    PROVE  /\ LET r == Erlang!AddValue(ref, meas, isNumber, m) IN r.tag = "raised" \/ ResultInv(r)
           /\ LET r == Erlang!RemoveValue(ref, meas, m) IN r.tag = "raised" \/ ResultInv(r)
<1>1. ResultInv(Erlang!Text) /\ Erlang!Raised.tag = "raised"
  BY NoStations DEF ResultInv, Erlang!Text, Erlang!Raised
<1> DEFINE n == CHOOSE n \in Erlang!Meant(ref, m) : TRUE
<1>2. CASE ~Erlang!Found(ref, m)
  BY <1>1, <1>2 DEF Erlang!AddValue, Erlang!RemoveValue, Erlang!Missing
<1>3. CASE Erlang!Found(ref, m)
  <2>1. n \in DOMAIN m
    BY <1>3, MeantIsThere
  <2> HIDE DEF n
  <2>2. m[n].list \in Seq(Erlang!Measurements) /\ Erlang!IsInjective(m[n].list)
    BY <2>1 DEF StationsInv, Erlang!Stations
  <2>3. ResultInv(Erlang!WithList(m, n, Erlang!Without(m[n].list, meas)))
    BY <2>1, <2>2, WithoutKeeps, WithListKeeps
  <2>4. ASSUME ~Erlang!Contains(m[n].list, meas)
        PROVE  ResultInv(Erlang!WithList(m, n, <<meas>> \o m[n].list))
    <3> DEFINE s == m[n].list
               w == <<meas>> \o s
    <3>1. /\ w \in Seq(Erlang!Measurements) /\ Len(s) \in Nat /\ Len(w) = Len(s) + 1
          /\ w[1] = meas /\ \A i \in 2 .. Len(s) + 1 : w[i] = s[i - 1]
      <4>1. <<meas>> \in Seq(Erlang!Measurements) /\ Len(<<meas>>) = 1 /\ <<meas>>[1] = meas
        OBVIOUS
      <4> QED BY <2>2, <4>1, ConcatProperties, LenProperties
    <3> HIDE DEF w
    <3>2. \A i \in 1 .. Len(s) : s[i] # meas
      BY <2>4 DEF Erlang!Contains
    <3>3. \A i, j \in 1 .. Len(s) : s[i] = s[j] => i = j
      BY <2>2, LenProperties DEF Erlang!IsInjective
    <3>4. ASSUME NEW i \in 1 .. Len(s) + 1, NEW j \in 1 .. Len(s) + 1, w[i] = w[j]
          PROVE  i = j
      <4> HIDE DEF s
      <4>1. ASSUME NEW k \in 1 .. Len(s) + 1, k # 1
            PROVE  k - 1 \in 1 .. Len(s) /\ w[k] = s[k - 1] /\ w[k] # w[1]
        BY <3>1, <3>2, <4>1
      <4>2. i = 1 <=> j = 1
        BY <3>4, <4>1
      <4>3. CASE i # 1
        <5>1. i - 1 = j - 1
          BY <3>3, <3>4, <4>1, <4>2, <4>3
        <5> QED BY <3>1, <5>1
      <4> QED BY <4>2, <4>3
    <3>5. Erlang!IsInjective(w)
      BY <3>1, <3>4, LenProperties DEF Erlang!IsInjective
    <3> QED BY <2>1, <3>1, <3>5, WithListKeeps DEF w
  <2> QED BY <1>1, <1>3, <2>3, <2>4 DEF Erlang!AddValue, Erlang!RemoveValue, n
<1> QED BY <1>2, <1>3

\* The k-th message is a request that c waits for the answer to: the one whose
\* change is being applied has been answered.
Asked(c, k) ==
    /\ k \in 1 .. Len(mailbox) /\ ~(process = "applies" /\ k = 1)
    /\ "pid" \in DOMAIN mailbox[k] /\ mailbox[k].pid = c

AskedInv ==
    \A c \in Callers :
       /\ \A k, l \in 1 .. Len(mailbox) : Asked(c, k) /\ Asked(c, l) => k = l
       /\ \A k \in 1 .. Len(mailbox) : Asked(c, k) => caller[c] = "waits"

AppliesInv ==
    process = "applies" =>
       /\ mailbox # <<>> /\ "pid" \in DOMAIN mailbox[1] /\ mailbox[1].request \in Erlang!Changes

ErlangTypeOK ==
    /\ process \in {"none", "starts", "receives", "applies"}
    /\ mailbox \in Seq(Erlang!Messages)
    /\ caller \in [Callers -> {"idle", "waits"}]

MonitorInv == ErlangTypeOK /\ ResultInv(monitor) /\ AskedInv /\ AppliesInv

LEMMA MonitorInit == Erlang!Init => MonitorInv
<1> SUFFICES ASSUME Erlang!Init PROVE MonitorInv
  OBVIOUS
<1>1. ResultInv(monitor)
  BY NoStations DEF Erlang!Init, Erlang!createMonitor, Erlang!Monitor, ResultInv
<1> QED BY <1>1 DEF Erlang!Init, MonitorInv, ErlangTypeOK, AskedInv, Asked, AppliesInv

\* A process that ends takes its mailbox with it.
LEMMA EndsStep ==
    ASSUME MonitorInv, Erlang!Ends, caller' \in [Callers -> {"idle", "waits"}]
    PROVE  MonitorInv'
<1>1. process' = "none" /\ mailbox' = <<>> /\ ResultInv(monitor')
  BY NoStations DEF Erlang!Ends, Erlang!createMonitor, Erlang!Monitor, ResultInv
<1> QED BY <1>1 DEF MonitorInv, ErlangTypeOK, AskedInv, Asked, AppliesInv, ResultInv, StationsInv

\* Whoever the message in front is from.
LEMMA FirstIsAsked ==
    ASSUME MonitorInv, mailbox # <<>>, ~Erlang!IsStop
    PROVE  /\ mailbox[1] \in [pid : Callers, request : Erlang!Changes \cup Erlang!Reads]
           /\ Erlang!Message = mailbox[1] /\ "pid" \in DOMAIN mailbox[1]
           /\ Erlang!Message.pid \in Callers
<1>1. Len(mailbox) \in Nat \ {0} /\ mailbox[1] \in Erlang!Messages /\ Erlang!Message = mailbox[1]
  <2>1. Len(mailbox) \in Nat \ {0} /\ Head(mailbox) = mailbox[1]
    BY EmptySeq, LenProperties, HeadTailProperties DEF MonitorInv, ErlangTypeOK
  <2>2. 1 \in 1 .. Len(mailbox)
    BY <2>1
  <2> QED BY <2>1, <2>2, ElementOfSeq DEF MonitorInv, ErlangTypeOK, Erlang!Message
<1>2. mailbox[1] \notin [op : {"stop"}]
  BY <1>1 DEF Erlang!IsStop
<1>3. mailbox[1] \in [pid : Callers, request : Erlang!Changes \cup Erlang!Reads]
  BY <1>1, <1>2 DEF Erlang!Messages
<1> QED BY <1>1, <1>3

\* The answered message leaves the mailbox, and the others move up.
LEMMA TailStep ==
    ASSUME MonitorInv, mailbox # <<>>, mailbox' = Tail(mailbox), process' = "receives",
           caller' \in [Callers -> {"idle", "waits"}],
           \A c \in Callers : caller'[c] = caller[c] \/ Asked(c, 1)
    PROVE  mailbox' \in Seq(Erlang!Messages) /\ AskedInv' /\ AppliesInv'
<1> DEFINE n == Len(mailbox)
<1>1. /\ n \in Nat \ {0} /\ mailbox' \in Seq(Erlang!Messages) /\ Len(mailbox') = n - 1
      /\ \A k \in 1 .. n - 1 : mailbox'[k] = mailbox[k + 1]
  BY HeadTailProperties, EmptySeq, LenProperties DEF MonitorInv, ErlangTypeOK
<1>2. ASSUME NEW c \in Callers, NEW k \in 1 .. n - 1, Asked(c, k)'
      PROVE  k + 1 \in 1 .. n /\ Asked(c, k + 1)
  BY <1>1, <1>2 DEF Asked
<1>3. ASSUME NEW c \in Callers, NEW k \in 1 .. n - 1, Asked(c, k)'
      PROVE  /\ caller'[c] = "waits"
             /\ \A l \in 1 .. n - 1 : Asked(c, l)' => k = l
  <2>1. k + 1 \in 1 .. n /\ Asked(c, k + 1)
    BY <1>2, <1>3
  <2>2. ~Asked(c, 1) /\ caller[c] = "waits"
    BY <1>1, <2>1 DEF MonitorInv, AskedInv
  <2>3. ASSUME NEW l \in 1 .. n - 1, Asked(c, l)' PROVE k = l
    <3>1. l + 1 \in 1 .. n /\ Asked(c, l + 1)
      BY <1>2, <2>3
    <3>2. k + 1 = l + 1
      BY <2>1, <3>1 DEF MonitorInv, AskedInv
    <3> QED BY <1>1, <3>2
  <2> QED BY <2>2, <2>3
<1>4. AskedInv'
  BY <1>1, <1>3 DEF AskedInv
<1> QED BY <1>1, <1>4 DEF AppliesInv

\* A message joins the mailbox: a stop, or the request of a caller that had none.
LEMMA SendStep ==
    ASSUME MonitorInv, NEW msg \in Erlang!Messages, mailbox' = Append(mailbox, msg),
           UNCHANGED <<process, monitor>>, caller' \in [Callers -> {"idle", "waits"}],
           \A c \in Callers : \/ caller'[c] = caller[c] /\ ~("pid" \in DOMAIN msg /\ msg.pid = c)
                              \/ caller[c] = "idle" /\ caller'[c] = "waits"
    PROVE  MonitorInv'
<1> DEFINE n == Len(mailbox)
<1>1. /\ n \in Nat /\ mailbox' \in Seq(Erlang!Messages) /\ Len(mailbox') = n + 1
      /\ \A k \in 1 .. n : mailbox'[k] = mailbox[k]
      /\ mailbox'[n + 1] = msg /\ (mailbox # <<>> => 1 \in 1 .. n)
  BY AppendProperties, LenProperties, EmptySeq DEF MonitorInv, ErlangTypeOK
<1>2. ASSUME NEW c \in Callers, NEW k \in 1 .. n + 1, Asked(c, k)'
      PROVE  /\ caller'[c] = "waits"
             /\ \A l \in 1 .. n + 1 : Asked(c, l)' => k = l
  <2>1. \A l \in 1 .. n : Asked(c, l)' => Asked(c, l)
    BY <1>1 DEF Asked
  <2>2. CASE caller[c] = "idle" /\ caller'[c] = "waits"
    <3>1. \A l \in 1 .. n : ~Asked(c, l)
      BY <1>1, <2>2 DEF MonitorInv, AskedInv
    <3> QED BY <1>1, <1>2, <2>1, <2>2, <3>1
  <2>3. CASE caller'[c] = caller[c] /\ ~("pid" \in DOMAIN msg /\ msg.pid = c)
    <3>1. ASSUME NEW l \in 1 .. n + 1, Asked(c, l)' PROVE l \in 1 .. n /\ Asked(c, l)
      <4>1. l # n + 1
        BY <1>1, <2>3, <3>1 DEF Asked
      <4>2. l \in 1 .. n
        BY <1>1, <4>1
      <4> QED BY <2>1, <3>1, <4>2
    <3> QED BY <1>1, <1>2, <2>3, <3>1 DEF MonitorInv, AskedInv
  <2> QED BY <2>2, <2>3
<1>3. AskedInv'
  BY <1>1, <1>2 DEF AskedInv
<1>4. AppliesInv'
  BY <1>1 DEF MonitorInv, AppliesInv
<1>5. ErlangTypeOK' /\ ResultInv(monitor)'
  BY <1>1 DEF MonitorInv, ErlangTypeOK, ResultInv, StationsInv
<1> QED BY <1>3, <1>4, <1>5 DEF MonitorInv

LEMMA MonitorStep == MonitorInv /\ [Erlang!Next]_(Erlang!vars) => MonitorInv'
<1> SUFFICES ASSUME MonitorInv, [Erlang!Next]_(Erlang!vars) PROVE MonitorInv'
  OBVIOUS
<1>1. CASE UNCHANGED Erlang!vars
  BY <1>1 DEF Erlang!vars, MonitorInv, ErlangTypeOK, ResultInv, StationsInv, AskedInv, Asked, AppliesInv
<1>2. caller \in [Callers -> {"idle", "waits"}]
  BY DEF MonitorInv, ErlangTypeOK
<1>3. CASE Erlang!Start
  <2>1. UNCHANGED <<monitor, mailbox, caller>> /\ process # "applies" /\ process' = "starts"
    BY <1>3 DEF Erlang!Start
  <2> QED BY <2>1 DEF MonitorInv, ErlangTypeOK, ResultInv, StationsInv, AskedInv, Asked, AppliesInv
<1>4. CASE Erlang!Begin
  <2>1. CASE ExportAll
    <3>1. UNCHANGED <<monitor, mailbox, caller>> /\ process = "starts" /\ process' = "receives"
      BY <1>4, <2>1 DEF Erlang!Begin
    <3> QED BY <3>1 DEF MonitorInv, ErlangTypeOK, ResultInv, StationsInv, AskedInv, Asked, AppliesInv
  <2>2. CASE ~ExportAll
    BY <1>2, <1>4, <2>2, EndsStep DEF Erlang!Begin
  <2> QED BY <2>1, <2>2
<1>5. CASE Erlang!ReceiveStop
  BY <1>2, <1>5, EndsStep DEF Erlang!ReceiveStop
<1>6. CASE Erlang!AnswerChange
  <2>1. /\ process = "receives" /\ mailbox # <<>> /\ ~Erlang!IsStop
        /\ UNCHANGED <<monitor, mailbox>> /\ process' = "applies"
        /\ mailbox[1].request \in Erlang!Changes /\ "pid" \in DOMAIN mailbox[1]
        /\ mailbox[1].pid \in Callers
        /\ caller' = [caller EXCEPT ![mailbox[1].pid] = "idle"]
    BY <1>6, FirstIsAsked DEF Erlang!AnswerChange, Erlang!Receives, Erlang!Answers
  <2>2. 1 \in 1 .. Len(mailbox)
    BY <2>1, EmptySeq, LenProperties DEF MonitorInv, ErlangTypeOK
  <2>3. Asked(mailbox[1].pid, 1)
    BY <2>1, <2>2 DEF Asked
  <2>4. \A c \in Callers, k \in 1 .. Len(mailbox) :
           Asked(c, k)' => Asked(c, k) /\ c # mailbox[1].pid
    <3> SUFFICES ASSUME NEW c \in Callers, NEW k \in 1 .. Len(mailbox), Asked(c, k)'
                 PROVE  Asked(c, k) /\ c # mailbox[1].pid
      OBVIOUS
    <3>1. Asked(c, k) /\ k # 1
      BY <2>1 DEF Asked
    <3> QED BY <2>2, <2>3, <3>1 DEF MonitorInv, AskedInv
  <2>5. AskedInv'
    BY <1>2, <2>1, <2>4 DEF MonitorInv, AskedInv
  <2> QED BY <2>1, <2>5 DEF MonitorInv, ErlangTypeOK, ResultInv, StationsInv, AppliesInv
<1>7. CASE Erlang!ApplyChange
  <2> DEFINE result == Erlang!Result(Erlang!Message.request)
  <2>1. CASE result.tag = "raised"
    BY <1>2, <1>7, <2>1, EndsStep DEF Erlang!ApplyChange
  <2>2. CASE result.tag # "raised"
    <3>1. /\ process = "applies" /\ process' = "receives" /\ monitor' = result
          /\ mailbox' = Tail(mailbox) /\ caller' = caller
      BY <1>7, <2>2 DEF Erlang!ApplyChange
    <3>2. mailbox # <<>> /\ mailbox[1].request \in Erlang!Changes
      BY <3>1 DEF MonitorInv, AppliesInv
    <3>3. mailbox' \in Seq(Erlang!Messages) /\ AskedInv' /\ AppliesInv'
      BY <1>2, <3>1, <3>2, TailStep
    <3>4. ResultInv(result)
      <4>1. Erlang!Message.request \in Erlang!Changes
        BY <3>2, HeadTailProperties DEF Erlang!Message, MonitorInv, ErlangTypeOK
      <4>2. monitor.tag = "map"
        BY <2>2 DEF Erlang!Result, Erlang!Raised
      <4>3. StationsInv(monitor.stations)
        BY DEF MonitorInv, ResultInv
      <4> DEFINE r == Erlang!Message.request
                 m == monitor.stations
      <4>4. CASE r \in [op : {"addS"}, name : Names, loc : Locations]
        <5>1. r.op = "addS" /\ r.name \in Names /\ r.loc \in Locations
          BY <4>4
        <5>2. result = Erlang!AddStation(r.name, r.loc, m)
          BY <4>2, <5>1 DEF Erlang!Result
        <5> QED BY <4>3, <5>1, <5>2, AddStationKeeps
      <4>5. CASE r \in [op : {"addV"}, ref : Erlang!Refs, meas : Erlang!Measurements, isNumber : BOOLEAN]
        <5>1. r.op = "addV" /\ r.meas \in Erlang!Measurements
          BY <4>5
        <5>2. result = Erlang!AddValue(r.ref, r.meas, r.isNumber, m)
          BY <4>2, <5>1 DEF Erlang!Result
        <5> QED BY <2>2, <4>3, <5>1, <5>2, ValuesKeep
      <4>6. CASE r \in [op : {"rmV"}, ref : Erlang!Refs, meas : Erlang!Measurements]
        <5>1. r.op = "rmV" /\ r.meas \in Erlang!Measurements
          BY <4>6
        <5>2. result = Erlang!RemoveValue(r.ref, r.meas, m)
          BY <4>2, <5>1 DEF Erlang!Result
        <5> QED BY <2>2, <4>3, <5>1, <5>2, ValuesKeep
      <4> QED BY <4>1, <4>4, <4>5, <4>6 DEF Erlang!Changes
    <3>5. ResultInv(monitor)'
      BY <3>1, <3>4 DEF ResultInv, StationsInv
    <3> QED BY <1>2, <3>1, <3>3, <3>5 DEF MonitorInv, ErlangTypeOK
  <2> QED BY <2>1, <2>2
<1>8. CASE Erlang!AnswerRead
  <2>1. CASE Erlang!Result(Erlang!Message.request).tag = "raised"
    BY <1>2, <1>8, <2>1, EndsStep DEF Erlang!AnswerRead
  <2>2. CASE Erlang!Result(Erlang!Message.request).tag # "raised"
    <3>1. /\ process = "receives" /\ mailbox # <<>> /\ ~Erlang!IsStop
          /\ UNCHANGED <<process, monitor>> /\ mailbox' = Tail(mailbox)
          /\ mailbox[1].pid \in Callers /\ "pid" \in DOMAIN mailbox[1]
          /\ caller' = [caller EXCEPT ![mailbox[1].pid] = "idle"]
      BY <1>8, <2>2, FirstIsAsked DEF Erlang!AnswerRead, Erlang!Receives, Erlang!Answers
    <3>2. 1 \in 1 .. Len(mailbox)
      BY <3>1, EmptySeq, LenProperties DEF MonitorInv, ErlangTypeOK
    <3>3. Asked(mailbox[1].pid, 1)
      BY <3>1, <3>2 DEF Asked
    <3>4. /\ caller' \in [Callers -> {"idle", "waits"}]
          /\ \A c \in Callers : caller'[c] = caller[c] \/ Asked(c, 1)
      BY <1>2, <3>1, <3>3
    <3>5. mailbox' \in Seq(Erlang!Messages) /\ AskedInv' /\ AppliesInv'
      BY <3>1, <3>4, TailStep
    <3> QED BY <3>1, <3>4, <3>5 DEF MonitorInv, ErlangTypeOK, ResultInv, StationsInv
  <2> QED BY <2>1, <2>2
<1>9. CASE Erlang!Stop
  <2> DEFINE msg == [op |-> "stop"]
  <2>1. msg \in Erlang!Messages /\ "pid" \notin DOMAIN msg
    BY DEF Erlang!Messages
  <2>2. mailbox' = Append(mailbox, msg) /\ UNCHANGED <<process, monitor, caller>>
    BY <1>9 DEF Erlang!Stop, Erlang!Send
  <2> HIDE DEF msg
  <2> QED BY <1>2, <2>1, <2>2, SendStep
<1>10. ASSUME NEW c \in Callers, NEW r \in Erlang!Changes \cup Erlang!Reads, Erlang!Call(c, r)
       PROVE  MonitorInv'
  <2> DEFINE msg == [pid |-> c, request |-> r]
  <2>1. msg \in Erlang!Messages /\ msg.pid = c
    BY DEF Erlang!Messages
  <2>2. /\ mailbox' = Append(mailbox, msg) /\ UNCHANGED <<process, monitor>>
        /\ caller[c] = "idle" /\ caller' = [caller EXCEPT ![c] = "waits"]
    BY <1>10 DEF Erlang!Call, Erlang!Send
  <2> HIDE DEF msg
  <2>3. /\ caller' \in [Callers -> {"idle", "waits"}]
        /\ \A d \in Callers : \/ caller'[d] = caller[d] /\ ~("pid" \in DOMAIN msg /\ msg.pid = d)
                              \/ caller[d] = "idle" /\ caller'[d] = "waits"
    BY <1>2, <2>1, <2>2
  <2> QED BY <2>1, <2>2, <2>3, SendStep
<1> QED BY <1>1, <1>3, <1>4, <1>5, <1>6, <1>7, <1>8, <1>9, <1>10
        DEF Erlang!Next, Erlang!ServerStep

LEMMA MonitorInvGives == MonitorInv => MonitorConsistent
<1> SUFFICES ASSUME MonitorInv PROVE Erlang!MonitorConsistent
  BY DEF MonitorConsistent
<1>1. Erlang!TypeOK
  BY DEF Erlang!TypeOK, MonitorInv, ErlangTypeOK, ResultInv, StationsInv
<1>2. ASSUME NEW c \in Callers
      PROVE  LET asked == {k \in DOMAIN mailbox : "pid" \in DOMAIN mailbox[k] /\ mailbox[k].pid = c}
                 first == IF process = "applies" THEN {1} ELSE {} IN
             /\ Erlang!Cardinality(asked \ first) <= 1
             /\ caller[c] = "idle" => asked \subseteq first
  <2> DEFINE asked == {k \in DOMAIN mailbox : "pid" \in DOMAIN mailbox[k] /\ mailbox[k].pid = c}
             first == IF process = "applies" THEN {1} ELSE {}
             Q == asked \ first
  <2>1. \A k \in Q : k \in 1 .. Len(mailbox) /\ Asked(c, k)
    BY LenProperties DEF Asked, MonitorInv, ErlangTypeOK
  <2>2. \A k, l \in Q : k = l
    <3> HIDE DEF Q
    <3> QED BY <2>1 DEF MonitorInv, AskedInv
  <2>3. Cardinality(Q) <= 1
    <3> HIDE DEF Q
    <3>1. CASE Q = {}
      BY <3>1, FS_EmptySet
    <3>2. CASE Q # {}
      <4>1. PICK k : Q = {k}
        BY <2>2, <3>2
      <4>2. Cardinality({k}) = 1
        BY FS_Singleton
      <4> QED BY <4>1, <4>2
    <3> QED BY <3>1, <3>2
  <2>4. Erlang!Cardinality(Q) = Cardinality(Q)
    BY DEF Erlang!Cardinality, Cardinality
  <2>5. caller[c] = "idle" => Q = {}
    <3> HIDE DEF Q
    <3> QED BY <2>1 DEF MonitorInv, AskedInv
  <2> QED BY <2>3, <2>4, <2>5
<1> QED BY <1>1, <1>2 DEF Erlang!MonitorConsistent, MonitorInv, ResultInv, StationsInv

\* The Erlang server keeps one station to a location and one measurement to a time
\* and type, and has one request of a caller at most, whatever calls come, however
\* many, and however often it ends and starts again (pollution.erl:14-18, :36-50).
THEOREM MonitorStaysConsistent == Erlang!Spec => []MonitorConsistent
<1>1. Erlang!Spec => []MonitorInv
  BY MonitorInit, MonitorStep, PTL DEF Erlang!Spec
<1> QED BY <1>1, MonitorInvGives, PTL
=============================================================================
