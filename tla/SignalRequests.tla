---------------------------- MODULE SignalRequests ----------------------------
(***************************************************************************)
(* SysOpy/lab4/src/zad2/zad2.c: every child asks its parent for permission *)
(* with SIGUSR1 and suspends itself for SIGUSR2.  The parent collects the  *)
(* first REQUESTS requests, then permits them all and every later one.     *)
(*                                                                         *)
(* SIGUSR1 is a standard signal: while one is pending, the kernel drops    *)
(* another, and the pid of its sender with it.  The real-time signals with *)
(* which children answer are printed only.  Handlers run with the signals  *)
(* that matter blocked, so each is one step.  A child sleeps first, which  *)
(* is taken to be long enough for the parent to set its handlers.          *)
(***************************************************************************)
EXTENDS Integers, FiniteSets, Functions

CONSTANTS Children, NoPid,
          Requests          \* the values of the second argument

ASSUME ChildrenAssumption ==
    /\ IsFiniteSet(Children) /\ Children # {} /\ NoPid \notin Children
    /\ Requests \subseteq Int

VARIABLES
    REQUESTS, LEFTREQUESTS, PENDING,
    usr1,   \* the sender of the request that is pending at the parent
    usr2,   \* the children at which a permission is pending
    child   \* where each child is

vars == <<REQUESTS, LEFTREQUESTS, PENDING, usr1, usr2, child>>

TypeOK ==
    /\ REQUESTS \in Requests /\ LEFTREQUESTS \in Int
    /\ PENDING \in [0 .. REQUESTS - 1 -> Children \cup {NoPid}]
    /\ usr1 \in Children \cup {NoPid}
    /\ usr2 \subseteq Children
    /\ child \in [Children -> {"works", "asked", "suspended", "missed", "exited", "reaped", "killed"}]

Init ==
    /\ REQUESTS \in Requests /\ LEFTREQUESTS = REQUESTS
    /\ PENDING = [i \in 0 .. REQUESTS - 1 |-> NoPid]
    /\ usr1 = NoPid /\ usr2 = {}
    /\ child = [c \in Children |-> "works"]

Goto(c, from, to) == child[c] = from /\ child' = [child EXCEPT ![c] = to]

parentVars == <<REQUESTS, LEFTREQUESTS, PENDING>>

-----------------------------------------------------------------------------

\* kill(getppid(), SIGUSR1)
Ask(c) ==
    /\ Goto(c, "works", "asked")
    /\ usr1' = IF usr1 = NoPid THEN c ELSE usr1
    /\ UNCHANGED <<parentVars, usr2>>

Suspend(c) == Goto(c, "asked", "suspended") /\ UNCHANGED <<parentVars, usr1, usr2>>

\* SIGUSR2 is not blocked before sigsuspend: its handler may run too early,
\* and the child suspends itself for a signal it has had.
Permitted(c) ==
    /\ c \in usr2
    /\ usr2' = usr2 \ {c}
    /\ Goto(c, "asked", "missed") \/ Goto(c, "suspended", "exited")
    /\ UNCHANGED <<parentVars, usr1>>

\* The handler of SIGUSR1 from a request to the kills it makes.
Handle ==
    /\ usr1 # NoPid
    /\ usr1' = NoPid
    /\ LEFTREQUESTS' = LEFTREQUESTS - 1
    /\ UNCHANGED <<REQUESTS, child>>

\* Mutant: the loop over PENDING starts at 1.
CollectLosesLast ==
    /\ Handle
    /\ LEFTREQUESTS' >= 0
    /\ PENDING' = [PENDING EXCEPT ![LEFTREQUESTS'] = usr1]
    /\ usr2' = IF LEFTREQUESTS' = 0 THEN {PENDING[i] : i \in 1 .. REQUESTS - 1} ELSE usr2

Collect ==
    /\ Handle
    /\ LEFTREQUESTS' >= 0
    /\ PENDING' = [PENDING EXCEPT ![LEFTREQUESTS'] = usr1]
    /\ usr2' = IF LEFTREQUESTS' = 0 THEN Range(PENDING') ELSE usr2

\* Mutant: a request after the first REQUESTS ones is counted only.
GrantLateNot == Handle /\ LEFTREQUESTS' < 0 /\ UNCHANGED <<PENDING, usr2>>

GrantLate == Handle /\ LEFTREQUESTS' < 0 /\ usr2' = usr2 \cup {usr1} /\ UNCHANGED PENDING

\* wait returns in the parent's loop.
Reap(c) == Goto(c, "exited", "reaped") /\ UNCHANGED <<parentVars, usr1, usr2>>

\* SIGINT: kill(-getpid(), SIGKILL)
Interrupt ==
    /\ \E c \in Children : child[c] \notin {"reaped", "killed"}
    /\ child' = [c \in Children |-> IF child[c] = "reaped" THEN "reaped" ELSE "killed"]
    /\ usr1' = NoPid
    /\ UNCHANGED <<parentVars, usr2>>

ChildActs(c) == Ask(c) \/ Suspend(c) \/ Permitted(c)
ParentActs == Collect \/ GrantLate \/ \E c \in Children : Reap(c)

Next == ParentActs \/ (\E c \in Children : ChildActs(c)) \/ Interrupt

Spec == Init /\ [][Next]_vars

\* Every process is scheduled, and pending signals are delivered.
Fairness == WF_vars(ParentActs) /\ \A c \in Children : WF_vars(ChildActs(c))

-----------------------------------------------------------------------------
(* Properties                                                              *)

Granted == usr2 \cup {c \in Children : child[c] \in {"missed", "exited", "reaped"}}
Interrupted == \E c \in Children : child[c] = "killed"

\* Nobody is permitted before REQUESTS requests have been handled; from then on
\* (zad2.c:62-80) everybody who was handled is, once each, and nobody else.
PermittedWhenDue ==
    /\ TypeOK
    /\ Interrupted \/ IF LEFTREQUESTS > 0
                      THEN Granted = {}
                      ELSE Cardinality(Granted) = REQUESTS - LEFTREQUESTS
    /\ LEFTREQUESTS >= 0 => Cardinality(Range(PENDING) \ {NoPid}) = REQUESTS - LEFTREQUESTS

\* A request was merged with another one, or a permission came too early.
RequestLost == \E c \in Children : child[c] = "suspended" /\ c \notin Range(PENDING) /\ c # usr1
PermissionMissed == \E c \in Children : child[c] = "missed"

\* The parent leaves its loop (zad2.c:173), unless a child waits for ever
\* (zad2.c:115) because its own request was merged with another or its
\* permission came before it waited, or there are too few children to ask.
AllReapedOrLost ==
    <>[](\/ \A c \in Children : child[c] = "reaped"
         \/ Interrupted \/ RequestLost \/ PermissionMissed
         \/ REQUESTS > Cardinality(Children))
==============================================================================
