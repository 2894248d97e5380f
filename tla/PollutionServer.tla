----------------------------- MODULE PollutionServer -----------------------------
(***************************************************************************)
(* Erlang/lab3/src/pollution.erl: a registered process keeps a monitor and *)
(* serves messages.  It answers ok to a change before it tries it, and     *)
(* keeps whatever the operation gives, an error text included, as its new  *)
(* state; any operation on a text raises an exception and ends it.         *)
(*                                                                         *)
(* start spawns init/0 by its name, which -export does not list: unless    *)
(* the module is compiled with export_all, the new process ends at once.   *)
(***************************************************************************)
EXTENDS Pollution

CONSTANTS Clients,
          ExportAll,    \* whether the module was compiled with export_all
          MaxMailbox    \* bound: messages in the mailbox of the server

PollutionServerAssumption == ExportAll \in BOOLEAN /\ MaxMailbox \in Nat

VARIABLES
    server,     \* "none" (nothing is registered), "starts", "receives" or "applies"
    monitor,    \* the state of loop
    mailbox,
    client      \* "idle", or "waits" in the receive of a call

vars == <<server, monitor, mailbox, client>>

Changes ==
    [op : {"addS"}, name : Names, loc : Locations]
      \cup [op : {"addV"}, ref : Refs, meas : Measurements, isNumber : BOOLEAN]
      \cup [op : {"rmV"}, ref : Refs, meas : Measurements]
Reads ==
    [op : {"get1V"}, ref : Refs, meas : Measurements] \cup [op : {"getSMean"}, ref : Refs]
      \cup [op : {"getDMean"}, time : Times, type : Types] \cup [op : {"getMinS"}, type : Types]
Messages == [op : {"stop"}] \cup [pid : Clients, request : Changes \cup Reads]

Init ==
    /\ server = "none" /\ monitor = createMonitor /\ mailbox = <<>>
    /\ client = [c \in Clients |-> "idle"]

-----------------------------------------------------------------------------
(* Callers.  A message to a name that is not registered raises badarg.     *)

Start ==
    /\ server = "none" /\ server' = "starts"
    /\ UNCHANGED <<monitor, mailbox, client>>

Send(msg) == server # "none" /\ Len(mailbox) < MaxMailbox /\ mailbox' = Append(mailbox, msg)

Stop == Send([op |-> "stop"]) /\ UNCHANGED <<server, monitor, client>>

Call(c, request) ==
    /\ client[c] = "idle" /\ client' = [client EXCEPT ![c] = "waits"]
    /\ Send([pid |-> c, request |-> request]) /\ UNCHANGED <<server, monitor>>

-----------------------------------------------------------------------------
(* The server                                                              *)

\* The process ends, its name and its messages with it.
Ends == server' = "none" /\ monitor' = createMonitor /\ mailbox' = <<>>

Begin ==
    /\ server = "starts"
    /\ IF ExportAll THEN server' = "receives" /\ UNCHANGED <<monitor, mailbox>> ELSE Ends
    /\ UNCHANGED client

Message == Head(mailbox)
Receives == server = "receives" /\ mailbox # <<>>
IsStop == "op" \in DOMAIN Message
Answers == client' = [client EXCEPT ![Message.pid] = "idle"]

Result(r) ==
    LET m == monitor.stations IN
    CASE monitor.tag # "map" -> Raised
      [] OTHER ->
         CASE r.op = "addS" -> AddStation(r.name, r.loc, m)
           [] r.op = "addV" -> AddValue(r.ref, r.meas, r.isNumber, m)
           [] r.op = "rmV" -> RemoveValue(r.ref, r.meas, m)
           [] r.op = "get1V" -> GetOneValue(r.ref, r.meas, m)
           [] r.op = "getSMean" -> GetStationMean(r.ref, m)
           [] r.op \in {"getDMean", "getMinS"} -> Text

ReceiveStop == Receives /\ IsStop /\ Ends /\ UNCHANGED client

AnswerChange ==
    /\ Receives /\ ~IsStop /\ Message.request \in Changes /\ Answers
    /\ server' = "applies" /\ UNCHANGED <<monitor, mailbox>>

ApplyChange ==
    /\ server = "applies"
    /\ LET result == Result(Message.request) IN
       IF result.tag = "raised" THEN Ends
       ELSE server' = "receives" /\ monitor' = result /\ mailbox' = Tail(mailbox)
    /\ UNCHANGED client

\* An exception comes before the answer: the caller waits for ever.
AnswerRead ==
    /\ Receives /\ ~IsStop /\ Message.request \in Reads
    /\ IF Result(Message.request).tag = "raised" THEN Ends /\ UNCHANGED client
       ELSE Answers /\ mailbox' = Tail(mailbox) /\ UNCHANGED <<server, monitor>>

ServerStep == Begin \/ ReceiveStop \/ AnswerChange \/ ApplyChange \/ AnswerRead
Next == ServerStep \/ Start \/ Stop \/ \E c \in Clients, r \in Changes \cup Reads : Call(c, r)

Spec == Init /\ [][Next]_vars

-----------------------------------------------------------------------------
(* Properties                                                              *)

TypeOK ==
    /\ server \in {"none", "starts", "receives", "applies"}
    /\ monitor.tag \in {"map", "text"}
    /\ DOMAIN monitor.stations \subseteq Names
    /\ \A n \in DOMAIN monitor.stations : monitor.stations[n] \in Stations
    /\ mailbox \in Seq(Messages)
    /\ client \in [Clients -> {"idle", "waits"}]

\* pollution.erl:14-18 and :36-38, :48-50, which the clauses at :23, :79 and :88 rely
\* on: whatever calls come in whatever order, no two stations share a location
\* and no station has two measurements of a time and type; a caller has at most
\* one request with the server, and none while it does not wait for the answer.
MonitorConsistent ==
    /\ TypeOK
    /\ \A n, o \in DOMAIN monitor.stations : n # o => monitor.stations[n].loc # monitor.stations[o].loc
    /\ \A n \in DOMAIN monitor.stations : IsInjective(monitor.stations[n].list)
    /\ \A c \in Clients :
          LET asked == {k \in DOMAIN mailbox : "pid" \in DOMAIN mailbox[k] /\ mailbox[k].pid = c} IN
          /\ Cardinality(asked \ (IF server = "applies" THEN {1} ELSE {})) <= 1
          /\ client[c] = "idle" => asked \subseteq (IF server = "applies" THEN {1} ELSE {})
=================================================================================
