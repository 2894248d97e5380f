----------------------------- MODULE SignalCount -----------------------------
(***************************************************************************)
(* SysOpy/lab4/src/zad3/zad3.c: a parent sends signals to its child, the   *)
(* child answers each, and both count.  Of the kernel: a standard signal   *)
(* is pending or not, and no real-time signal is sent twice, so what is    *)
(* pending is a set; the lowest number is delivered first; a process       *)
(* handles what is pending before a system call returns to it.  A handler  *)
(* runs with all signals blocked, so it is one step.                       *)
(*                                                                         *)
(* sleep(1) at line 151 is taken to be long enough for the child, as the   *)
(* comment there says; so is the one at line 167 unless a signal ends it.  *)
(***************************************************************************)
EXTENDS Integers, FiniteSetsExt

CONSTANT Numbers    \* the values of the first argument
NumbersAssumption == Numbers \subseteq Int

\* signal numbers on Linux
USR1 == 10
USR2 == 12
RT1 == 35
RT2 == 36

VARIABLES
    type, numberOfSignals,  \* the arguments
    parent,                 \* where the parent is
    child,                  \* "starts", "ready" or "killed"
    toChild, toParent,      \* pending signals
    SENT, RECEIVED_CHILD, RECEIVED_PARENT

counts == <<SENT, RECEIVED_CHILD, RECEIVED_PARENT>>
vars == <<type, numberOfSignals, parent, child, toChild, toParent, counts>>

Init ==
    /\ type \in 1 .. 3 /\ numberOfSignals \in Numbers
    /\ parent = "prepare" /\ child = "starts"
    /\ toChild = {} /\ toParent = {}
    /\ SENT = 0 /\ RECEIVED_CHILD = 0 /\ RECEIVED_PARENT = 0

TypeOK ==
    /\ type \in 1 .. 3 /\ numberOfSignals \in Numbers
    /\ parent \in {"prepare", "send", "sent", "pause", "second", "process",
                   "sleep", "end", "wait", "return", "printed", "killed"}
    /\ child \in {"starts", "ready", "killed"}
    /\ toChild \subseteq {USR1, USR2, RT1, RT2}
    /\ toParent \subseteq {USR1, RT1, RT2}
    /\ \A n \in {SENT, RECEIVED_CHILD, RECEIVED_PARENT} : n \in Nat

-----------------------------------------------------------------------------
(* The child                                                               *)

Prepared ==
    /\ child = "starts" /\ child' = "ready"
    /\ UNCHANGED <<type, numberOfSignals, parent, toChild, toParent, counts>>

\* kill(getppid(), s): an orphan's parent is init.
Answer(s) == toParent' = IF parent \in {"printed", "killed"} THEN toParent ELSE toParent \cup {s}

\* The handler, for the pending signal of the lowest number.
Delivered(s) ==
    /\ child = "ready" /\ s \in toChild /\ s = Min(toChild)
    /\ toChild' = toChild \ {s}
    /\ UNCHANGED <<type, numberOfSignals, parent, SENT, RECEIVED_PARENT>>

\* Mutant: the child does not answer the first signal it gets.
ChildCountsSilently(s) ==
    /\ s # USR2 /\ Delivered(s)
    /\ RECEIVED_CHILD' = RECEIVED_CHILD + 1
    /\ IF RECEIVED_CHILD = 0 THEN UNCHANGED toParent ELSE Answer(s)
    /\ UNCHANGED child

ChildCounts(s) ==
    /\ s # USR2 /\ Delivered(s)
    /\ RECEIVED_CHILD' = RECEIVED_CHILD + 1
    /\ Answer(s)
    /\ UNCHANGED child

ChildDies ==
    /\ Delivered(USR2)
    /\ child' = "killed"
    /\ UNCHANGED <<toParent, RECEIVED_CHILD>>

ChildHandles == ChildDies \/ \E s \in toChild : ChildCounts(s)

-----------------------------------------------------------------------------
(* The parent.  Nothing is pending when it takes a step of its own.        *)

Goto(from, to) ==
    /\ parent = from /\ toParent = {}
    /\ parent' = to
    /\ UNCHANGED <<type, numberOfSignals, child, toParent, RECEIVED_CHILD, RECEIVED_PARENT>>

Kill(s) == toChild' = toChild \cup {s}

Start == Goto("prepare", "send") /\ child = "ready" /\ UNCHANGED <<toChild, SENT>>

\* Mutant: the parent never waits for the answer.
SendAll ==
    /\ type < 3 /\ SENT < numberOfSignals
    /\ Goto("send", "send")
    /\ SENT' = SENT + 1
    /\ Kill(USR1)

SendOne ==
    /\ type < 3 /\ SENT < numberOfSignals
    /\ Goto("send", IF type = 2 THEN "sent" ELSE "send")
    /\ SENT' = SENT + 1
    /\ Kill(USR1)

EnterPause == Goto("sent", "pause") /\ UNCHANGED <<toChild, SENT>>

SendFirstRT == type = 3 /\ Goto("send", "second") /\ Kill(RT1) /\ UNCHANGED SENT

SendSecondRT == Goto("second", "process") /\ Kill(RT2) /\ SENT' = 2

EnterSleep == Goto("process", "sleep") /\ UNCHANGED <<toChild, SENT>>

SleepEnds == toChild = {} /\ Goto("sleep", "end") /\ UNCHANGED <<toChild, SENT>>

EndChild ==
    /\ \/ type < 3 /\ SENT >= numberOfSignals /\ Goto("send", "wait")
       \/ Goto("end", "wait")
    /\ Kill(USR2)
    /\ UNCHANGED SENT

WaitReturns == child = "killed" /\ Goto("wait", "return") /\ UNCHANGED <<toChild, SENT>>

PrintCounts == Goto("return", "printed") /\ UNCHANGED <<toChild, SENT>>

\* A handler that returns ends pause, sleep and waitpid: sa_flags is 0.
ParentHandles ==
    /\ parent \notin {"printed", "killed"} /\ toParent # {}
    /\ toParent' = toParent \ {Min(toParent)}
    /\ RECEIVED_PARENT' = RECEIVED_PARENT + 1
    /\ parent' = CASE parent = "pause" -> "send"
                   [] parent = "sleep" -> "end"
                   [] parent = "wait" -> "return"
                   [] OTHER -> parent
    /\ UNCHANGED <<type, numberOfSignals, child, toChild, SENT, RECEIVED_CHILD>>

\* SIGINT, once the signals are being sent: its handler ends both.
Interrupt ==
    /\ parent \notin {"prepare", "printed", "killed"}
    /\ Kill(USR2)
    /\ parent' = "killed"
    /\ UNCHANGED <<type, numberOfSignals, child, toParent, counts>>

ParentActs == Start \/ SendOne \/ EnterPause \/ SendFirstRT \/ SendSecondRT \/ EnterSleep
              \/ SleepEnds \/ EndChild \/ WaitReturns \/ PrintCounts \/ ParentHandles

Next == ParentActs \/ Prepared \/ ChildHandles \/ Interrupt

Spec == Init /\ [][Next]_vars

\* Both processes are scheduled, and pending signals are delivered.
Fairness == WF_vars(ParentActs) /\ WF_vars(Prepared \/ ChildHandles)

-----------------------------------------------------------------------------
(* Properties                                                              *)

\* Neither side counts a signal that was not sent, whatever is merged or
\* interrupted; when the parent prints (zad3.c:187) it has had an answer if
\* it sent anything at all, and with type 2 no signal was merged with another.
CountsAgree ==
    /\ TypeOK
    /\ RECEIVED_PARENT + Cardinality(toParent) <= RECEIVED_CHILD
    /\ RECEIVED_CHILD <= SENT + (IF parent = "second" \/ parent = "killed" THEN 1 ELSE 0)
    /\ parent = "printed" => /\ SENT > 0 => RECEIVED_PARENT > 0
                             /\ type = 2 => RECEIVED_PARENT = SENT /\ RECEIVED_CHILD = SENT

\* The program ends, or the parent is in pause (zad3.c:159) for an answer that
\* came before it: every signal has been answered and none is on its way.
EndsOrMissedAnswer ==
    <>[](\/ parent \in {"printed", "killed"}
         \/ parent = "pause" /\ RECEIVED_PARENT = SENT /\ RECEIVED_CHILD = SENT)
==============================================================================
