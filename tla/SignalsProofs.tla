---------------------------- MODULE SignalsProofs ----------------------------
(***************************************************************************)
(* Safety of the two exchanges of SysOpy/lab4: zad2 for any number of      *)
(* children and any argument, zad3 for any number of signals of each type. *)
(***************************************************************************)
EXTENDS MCSignals, FiniteSetTheorems, TLAPS

-----------------------------------------------------------------------------
(* zad2: requests and permissions                                          *)

\* PENDING is filled from the top: slots from LEFTREQUESTS up hold a sender.
CollectedInv ==
    /\ LEFTREQUESTS <= REQUESTS
    /\ \A i \in 0 .. REQUESTS - 1 : PENDING[i] = NoPid <=> i < LEFTREQUESTS

\* A child whose request the parent has not handled yet is neither noted nor
\* permitted: this is why no request is counted twice.
UnhandledInv ==
    \A c \in Children :
       /\ c = usr1 => child[c] # "works"
       /\ c = usr1 \/ child[c] = "works" => c \notin Granted /\ c \notin Range(PENDING)

InterruptInv ==
    Interrupted => usr1 = NoPid /\ \A c \in Children : child[c] \in {"reaped", "killed"}

RequestsInv == PermittedWhenDue /\ CollectedInv /\ UnhandledInv /\ InterruptInv

LEMMA RequestsInit == Init => RequestsInv
<1> SUFFICES ASSUME Init PROVE RequestsInv
  OBVIOUS
<1> USE ChildrenAssumption DEF Init
<1>1. TypeOK
  BY DEF TypeOK
<1>2. Granted = {} /\ Range(PENDING) \ {NoPid} = {} /\ ~Interrupted
  BY DEF Granted, Range, Interrupted
<1>3. PermittedWhenDue
  BY <1>1, <1>2, FS_EmptySet DEF PermittedWhenDue, TypeOK
<1>4. CollectedInv /\ UnhandledInv /\ InterruptInv
  BY <1>2 DEF CollectedInv, UnhandledInv, Range, InterruptInv
<1> QED BY <1>3, <1>4 DEF RequestsInv

LEMMA FinitelyMany ==
    TypeOK => IsFiniteSet(Granted) /\ IsFiniteSet(Range(PENDING) \ {NoPid})
<1> SUFFICES ASSUME TypeOK
             PROVE  IsFiniteSet(Granted) /\ IsFiniteSet(Range(PENDING) \ {NoPid})
  OBVIOUS
<1>1. Granted \subseteq Children /\ Range(PENDING) \ {NoPid} \subseteq Children
  BY DEF TypeOK, Granted, Range
<1> QED BY <1>1, FS_Subset, ChildrenAssumption

\* A step of a child, and wait: nobody is permitted or loses a permission.
LEMMA ChildrenStep ==
    ASSUME RequestsInv, NEW c \in Children, ChildActs(c) \/ Reap(c)
    PROVE  RequestsInv'
<1> USE ChildrenAssumption DEF RequestsInv, Goto, parentVars
<1>1. TypeOK'
  BY DEF PermittedWhenDue, TypeOK, ChildActs, Ask, Suspend, Permitted, Reap
<1>2. UNCHANGED <<REQUESTS, LEFTREQUESTS, PENDING>> /\ Range(PENDING)' = Range(PENDING)
  BY DEF ChildActs, Ask, Suspend, Permitted, Reap, Range
<1>3. Granted' = Granted
  BY DEF PermittedWhenDue, TypeOK, ChildActs, Ask, Suspend, Permitted, Reap, Granted
<1>4. Interrupted' = Interrupted
  BY DEF PermittedWhenDue, TypeOK, ChildActs, Ask, Suspend, Permitted, Reap, Interrupted
<1>5. PermittedWhenDue'
  BY <1>1, <1>2, <1>3, <1>4 DEF PermittedWhenDue
<1>6. CollectedInv'
  BY <1>2 DEF CollectedInv
<1>7. UnhandledInv'
  BY <1>2, <1>3 DEF UnhandledInv, PermittedWhenDue, TypeOK, ChildActs, Ask, Suspend,
                    Permitted, Reap
<1>8. InterruptInv'
  BY <1>4 DEF InterruptInv, PermittedWhenDue, TypeOK, ChildActs, Ask, Suspend,
              Permitted, Reap
<1> QED BY <1>5, <1>6, <1>7, <1>8

LEMMA CollectStep == RequestsInv /\ Collect => RequestsInv'
<1> SUFFICES ASSUME RequestsInv, Collect PROVE RequestsInv'
  OBVIOUS
<1> USE ChildrenAssumption DEF RequestsInv, Collect, Handle
<1>1. /\ TypeOK /\ usr1 \in Children /\ ~Interrupted /\ Granted = {}
      /\ LEFTREQUESTS \in Int /\ LEFTREQUESTS > 0 /\ LEFTREQUESTS - 1 \in 0 .. REQUESTS - 1
      /\ REQUESTS \in Int
  BY DEF PermittedWhenDue, TypeOK, InterruptInv, CollectedInv
<1> DEFINE N == Range(PENDING) \ {NoPid}
           i == LEFTREQUESTS - 1
<1>2. /\ PENDING' \in [0 .. REQUESTS - 1 -> Children \cup {NoPid}]
      /\ PENDING[i] = NoPid /\ PENDING'[i] = usr1
      /\ \A j \in 0 .. REQUESTS - 1 : j # i => PENDING'[j] = PENDING[j]
  BY <1>1 DEF TypeOK, CollectedInv
<1>3. N' = N \cup {usr1}
  BY <1>1, <1>2 DEF TypeOK, Range
<1>4. usr1 \notin N /\ IsFiniteSet(N)
  BY <1>1, FinitelyMany DEF UnhandledInv
<1>5. Cardinality(N') = Cardinality(N) + 1
  BY <1>3, <1>4, FS_AddElement
<1>6. Cardinality(N') = REQUESTS' - LEFTREQUESTS'
  <2>1. Cardinality(N) = REQUESTS - LEFTREQUESTS
    BY <1>1 DEF PermittedWhenDue
  <2> QED BY <1>1, <1>5, <2>1
<1>7. CollectedInv'
  BY <1>1, <1>2 DEF CollectedInv
<1>8. LEFTREQUESTS' = 0 => usr2' = N'
  <2>1. LEFTREQUESTS' = 0 => NoPid \notin Range(PENDING')
    BY <1>1, <1>2, <1>7 DEF CollectedInv, Range
  <2> QED BY <2>1
<1>9. TypeOK'
  BY <1>1, <1>2, <1>8 DEF TypeOK, Range
<1>10. Granted' = IF LEFTREQUESTS' = 0 THEN N' ELSE {}
  BY <1>1, <1>8 DEF Granted
<1>11. PermittedWhenDue'
  BY <1>1, <1>6, <1>9, <1>10 DEF PermittedWhenDue
<1>12. UnhandledInv'
  <2>1. \A c \in Children : child[c] = "works" => c \notin N'
    BY <1>1, <1>3, <1>4 DEF UnhandledInv, Granted, PermittedWhenDue
  <2> QED BY <1>1, <1>10, <2>1 DEF UnhandledInv
<1>13. InterruptInv'
  BY <1>1 DEF InterruptInv, Interrupted
<1> QED BY <1>7, <1>11, <1>12, <1>13

LEMMA GrantLateStep == RequestsInv /\ GrantLate => RequestsInv'
<1> SUFFICES ASSUME RequestsInv, GrantLate PROVE RequestsInv'
  OBVIOUS
<1> USE ChildrenAssumption DEF RequestsInv, GrantLate, Handle
<1>1. /\ TypeOK /\ usr1 \in Children /\ ~Interrupted
      /\ LEFTREQUESTS \in Int /\ LEFTREQUESTS <= 0 /\ REQUESTS \in Int
      /\ Cardinality(Granted) = REQUESTS - LEFTREQUESTS
  BY DEF PermittedWhenDue, TypeOK, InterruptInv
<1>2. Granted' = Granted \cup {usr1}
  BY <1>1 DEF Granted
<1>3. usr1 \notin Granted /\ IsFiniteSet(Granted)
  BY <1>1, FinitelyMany DEF UnhandledInv
<1>4. Cardinality(Granted') = Cardinality(Granted) + 1
  BY <1>2, <1>3, FS_AddElement
<1>5. TypeOK'
  BY <1>1 DEF TypeOK
<1>6. PermittedWhenDue'
  BY <1>1, <1>4, <1>5 DEF PermittedWhenDue
<1>7. CollectedInv'
  BY <1>1 DEF CollectedInv
<1>8. UnhandledInv'
  BY <1>1, <1>2 DEF UnhandledInv
<1>9. InterruptInv'
  BY <1>1 DEF InterruptInv, Interrupted
<1> QED BY <1>6, <1>7, <1>8, <1>9

LEMMA InterruptStep == RequestsInv /\ Interrupt => RequestsInv'
<1> SUFFICES ASSUME RequestsInv, Interrupt PROVE RequestsInv'
  OBVIOUS
<1> USE ChildrenAssumption DEF RequestsInv, Interrupt, parentVars
<1>1. TypeOK' /\ Interrupted'
  BY DEF PermittedWhenDue, TypeOK, Interrupted
<1>2. PermittedWhenDue' /\ CollectedInv'
  BY <1>1 DEF PermittedWhenDue, CollectedInv, Range
<1>3. UnhandledInv' /\ InterruptInv'
  BY <1>1 DEF UnhandledInv, InterruptInv, Range
<1> QED BY <1>2, <1>3

LEMMA RequestsStep == RequestsInv /\ [Next]_vars => RequestsInv'
<1> SUFFICES ASSUME RequestsInv, [Next]_vars PROVE RequestsInv'
  OBVIOUS
<1>1. CASE UNCHANGED vars
  BY <1>1 DEF vars, RequestsInv, PermittedWhenDue, TypeOK, Granted, Interrupted, Range,
              CollectedInv, UnhandledInv, InterruptInv
<1>2. CASE Next
  BY <1>2, ChildrenStep, CollectStep, GrantLateStep, InterruptStep DEF Next, ParentActs
<1> QED BY <1>1, <1>2

\* For any number of children and whatever argument: nobody is permitted before
\* REQUESTS requests have been handled, and from then on exactly those that
\* have been handled are, once each (zad2.c:62-80).
THEOREM PermissionsAreDue == Spec => []PermittedWhenDue
<1>1. RequestsInv => PermittedWhenDue
  BY DEF RequestsInv
<1> QED BY <1>1, RequestsInit, RequestsStep, PTL DEF Spec

-----------------------------------------------------------------------------
(* zad3: counted signals                                                   *)

\* The signals on their way to the child that it will count.
Countable == toChild \ {Count!USR2}

\* Signals merge or are dropped, never the other way; while the parent is
\* between its two real-time signals the first is sent and not counted.
NoMoreThanSent ==
    /\ RECEIVED_PARENT + Cardinality(toParent) <= RECEIVED_CHILD
    /\ RECEIVED_CHILD + Cardinality(Countable)
          <= SENT + (IF parent = "second" \/ parent = "killed" THEN 1 ELSE 0)

\* Which places belong to which type, and what has been sent there.
PlaceInv ==
    /\ parent \in {"second", "process", "sleep", "end"} => type = 3
    /\ parent \in {"sent", "pause"} => type = 2
    /\ type < 3 => toChild \subseteq {Count!USR1, Count!USR2}
    /\ type = 3 /\ parent \in {"prepare", "send", "second"} => SENT = 0
    /\ parent \in {"process", "sleep", "end"} => SENT > 0
    /\ Count!USR2 \in toChild \/ child3 = "killed" =>
          parent \in {"wait", "return", "printed", "killed"}

\* Nothing vanishes altogether: of several signals at least one is counted,
\* and of several answers at least one is.
NotAllLost ==
    parent # "killed" =>
       /\ SENT > 0 \/ parent = "second" => RECEIVED_CHILD > 0 \/ Countable # {}
       /\ RECEIVED_CHILD > 0 => RECEIVED_PARENT > 0 \/ toParent # {}
       /\ child3 = "killed" => Count!USR1 \notin toChild

\* By then the parent has had an answer.
AnsweredInv ==
    /\ type = 3 /\ parent \in {"end", "wait", "return", "printed"} => RECEIVED_PARENT > 0
    /\ parent \in {"return", "printed"} /\ SENT > 0 => RECEIVED_PARENT > 0

\* With type 2 at most one signal or its answer is on its way.
OneAtATime ==
    type = 2 /\ parent # "killed" =>
       /\ RECEIVED_CHILD = RECEIVED_PARENT + Cardinality(toParent)
       /\ SENT = RECEIVED_CHILD + Cardinality(Countable)
       /\ SENT <= RECEIVED_PARENT + 1
       /\ parent \notin {"sent", "pause"} => SENT = RECEIVED_PARENT

CountsInv ==
    /\ Count!TypeOK /\ NoMoreThanSent /\ PlaceInv
    /\ NotAllLost /\ AnsweredInv /\ OneAtATime

LEMMA CountsInit == Count!Init => CountsInv
<1> SUFFICES ASSUME Count!Init PROVE CountsInv
  OBVIOUS
<1> USE DEF Count!Init, Countable
<1>1. Count!TypeOK
  BY DEF Count!TypeOK
<1>2. Cardinality(toParent) = 0 /\ Cardinality(Countable) = 0
  BY FS_EmptySet
<1>3. NoMoreThanSent /\ OneAtATime
  BY <1>2 DEF NoMoreThanSent, OneAtATime
<1>4. PlaceInv /\ NotAllLost /\ AnsweredInv
  BY DEF PlaceInv, NotAllLost, AnsweredInv
<1> QED BY <1>1, <1>3, <1>4 DEF CountsInv

\* The sets of pending signals, and what one signal more or less does to them.
LEMMA PendingSets ==
    Count!TypeOK =>
       /\ IsFiniteSet(toChild) /\ IsFiniteSet(Countable) /\ IsFiniteSet(toParent)
       /\ Cardinality(Countable) \in Nat /\ Cardinality(toParent) \in Nat
       /\ Cardinality(Countable) = 0 <=> Countable = {}
       /\ Cardinality(toParent) = 0 <=> toParent = {}
<1> SUFFICES ASSUME Count!TypeOK
             PROVE  IsFiniteSet(toChild) /\ IsFiniteSet(Countable) /\ IsFiniteSet(toParent)
  BY FS_CardinalityType, FS_EmptySet
<1> DEFINE Standard  == {Count!USR1} \cup {Count!USR2}
           Real      == {Count!RT1} \cup {Count!RT2}
<1>1. IsFiniteSet(Standard \cup Real)
  <2>1. IsFiniteSet(Standard) /\ IsFiniteSet(Real)
    BY FS_Singleton, FS_Union
  <2> QED BY <2>1, FS_Union
<1>2. /\ toChild \subseteq Standard \cup Real /\ Countable \subseteq Standard \cup Real
      /\ toParent \subseteq Standard \cup Real
  BY DEF Count!TypeOK, Countable
<1> QED BY <1>1, <1>2, FS_Subset

LEMMA AddOne ==
    ASSUME NEW S, IsFiniteSet(S), NEW s
    PROVE  /\ Cardinality(S \cup {s}) \in Nat /\ S \cup {s} # {}
           /\ Cardinality(S \cup {s}) <= Cardinality(S) + 1
           /\ S = {} => Cardinality(S \cup {s}) = 1
<1>1. /\ IsFiniteSet(S \cup {s})
      /\ Cardinality(S \cup {s}) = IF s \in S THEN Cardinality(S) ELSE Cardinality(S) + 1
  BY FS_AddElement
<1>2. Cardinality(S) \in Nat /\ (S = {} => Cardinality(S) = 0)
  BY FS_CardinalityType, FS_EmptySet
<1> QED BY <1>1, <1>2, FS_CardinalityType

LEMMA RemoveOne ==
    ASSUME NEW S, IsFiniteSet(S), NEW s \in S
    PROVE  Cardinality(S \ {s}) = Cardinality(S) - 1 /\ Cardinality(S) \in Nat
  BY FS_RemoveElement, FS_CardinalityType

\* Min returns a member, below all others.
LEMMA MinIsLeast ==
    ASSUME NEW S \in SUBSET {Count!USR1, Count!USR2, Count!RT1, Count!RT2}, S # {}
    PROVE  Count!Min(S) \in S /\ \A s \in S : Count!Min(S) <= s
<1>1. \E x \in S : \A y \in S : x <= y
  <2> USE DEF Count!USR1, Count!USR2, Count!RT1, Count!RT2
  <2>1. CASE Count!USR1 \in S
    BY <2>1
  <2>2. CASE Count!USR1 \notin S /\ Count!USR2 \in S
    BY <2>2
  <2>3. CASE Count!USR1 \notin S /\ Count!USR2 \notin S /\ Count!RT1 \in S
    BY <2>3
  <2>4. CASE S = {Count!RT2}
    BY <2>4
  <2> QED BY <2>1, <2>2, <2>3, <2>4
<1> QED BY <1>1 DEF Count!Min

LEMMA PreparedStep == CountsInv /\ Count!Prepared => CountsInv'
<1> SUFFICES ASSUME CountsInv, Count!Prepared PROVE CountsInv'
  OBVIOUS
<1> USE DEF CountsInv, Count!Prepared, Count!counts, Countable
<1>1. Count!TypeOK' /\ NoMoreThanSent'
  BY DEF Count!TypeOK, NoMoreThanSent
<1>2. PlaceInv' /\ NotAllLost' /\ AnsweredInv' /\ OneAtATime'
  BY DEF PlaceInv, NotAllLost, AnsweredInv, OneAtATime
<1> QED BY <1>1, <1>2

\* The child takes the signal of the lowest number: the one that ends it comes
\* after every other standard signal.
LEMMA ChildCountsStep ==
    ASSUME CountsInv, NEW s \in toChild, Count!ChildCounts(s)
    PROVE  CountsInv'
<1> USE DEF CountsInv, Count!ChildCounts, Count!Delivered
<1>1. /\ s \in Countable /\ Countable' = Countable \ {s}
      /\ toChild' \subseteq toChild
      /\ RECEIVED_CHILD' = RECEIVED_CHILD + 1
      /\ UNCHANGED <<type, parent, child3, SENT, RECEIVED_PARENT>>
      /\ Count!USR2 \in toChild' <=> Count!USR2 \in toChild
  BY DEF Countable
<1>2. s \in {Count!USR1, Count!RT1, Count!RT2}
  BY DEF Count!TypeOK
<1>3. Count!TypeOK'
  BY <1>1, <1>2 DEF Count!TypeOK, Count!Answer
<1>4. Cardinality(Countable') = Cardinality(Countable) - 1
  BY <1>1, PendingSets, RemoveOne
<1>5. \/ parent \in {"printed", "killed"} /\ toParent' = toParent
      \/ /\ parent \notin {"printed", "killed"} /\ toParent' = toParent \cup {s} /\ toParent' # {}
         /\ Cardinality(toParent') \in Nat
         /\ Cardinality(toParent') <= Cardinality(toParent) + 1
         /\ toParent = {} => Cardinality(toParent') = 1
  BY PendingSets, AddOne DEF Count!Answer
<1>6. /\ RECEIVED_CHILD \in Nat /\ RECEIVED_PARENT \in Nat /\ SENT \in Nat
      /\ Cardinality(Countable) \in Nat /\ Cardinality(Countable') \in Nat
      /\ Cardinality(toParent) \in Nat /\ Cardinality(toParent') \in Nat
      /\ toParent = {} <=> Cardinality(toParent) = 0
      /\ Cardinality(Countable) > 0
  <2>1. Cardinality(Countable) \in Nat /\ Cardinality(Countable) # 0
    BY <1>1, PendingSets
  <2>2. Cardinality(toParent) \in Nat /\ (toParent = {} <=> Cardinality(toParent) = 0)
    BY PendingSets
  <2>3. Cardinality(Countable') \in Nat /\ Cardinality(Countable) > 0
    BY <1>4, <2>1
  <2> QED BY <1>5, <2>1, <2>2, <2>3 DEF Count!TypeOK
<1>7. NoMoreThanSent'
  BY <1>1, <1>4, <1>5, <1>6 DEF NoMoreThanSent
<1>8. PlaceInv' /\ AnsweredInv'
  BY <1>1 DEF PlaceInv, AnsweredInv
<1>9. NotAllLost'
  <2>1. parent = "printed" => RECEIVED_PARENT > 0
    BY <1>6 DEF NoMoreThanSent, AnsweredInv
  <2> QED BY <1>1, <1>5, <1>6, <2>1 DEF NotAllLost
<1>10. OneAtATime'
  <2> SUFFICES ASSUME type = 2, parent # "killed" PROVE OneAtATime'
    BY <1>1 DEF OneAtATime
  <2>1. /\ RECEIVED_CHILD = RECEIVED_PARENT + Cardinality(toParent)
        /\ SENT = RECEIVED_CHILD + Cardinality(Countable)
        /\ SENT <= RECEIVED_PARENT + 1
        /\ parent \notin {"sent", "pause"} => SENT = RECEIVED_PARENT
    BY DEF OneAtATime
  <2>2. parent \in {"sent", "pause"} /\ Cardinality(toParent) = 0 /\ Cardinality(toParent') = 1
    BY <1>5, <1>6, <2>1
  <2> QED BY <1>1, <1>4, <1>6, <2>1, <2>2 DEF OneAtATime
<1> QED BY <1>3, <1>7, <1>8, <1>9, <1>10

LEMMA ChildDiesStep == CountsInv /\ Count!ChildDies => CountsInv'
<1> SUFFICES ASSUME CountsInv, Count!ChildDies PROVE CountsInv'
  OBVIOUS
<1> USE DEF CountsInv, Count!ChildDies, Count!Delivered
<1>1. /\ Countable' = Countable
      /\ toChild' \subseteq toChild
      /\ UNCHANGED <<type, parent, toParent, SENT, RECEIVED_CHILD, RECEIVED_PARENT>>
  BY DEF Countable
<1>2. Count!USR1 \notin toChild
  BY MinIsLeast DEF Count!TypeOK, Count!USR1, Count!USR2
<1>3. Count!TypeOK' /\ NoMoreThanSent' /\ OneAtATime'
  BY <1>1 DEF Count!TypeOK, NoMoreThanSent, OneAtATime
<1>4. PlaceInv' /\ NotAllLost' /\ AnsweredInv'
  BY <1>1, <1>2 DEF PlaceInv, NotAllLost, AnsweredInv
<1> QED BY <1>3, <1>4

LEMMA ParentHandlesStep == CountsInv /\ Count!ParentHandles => CountsInv'
<1> SUFFICES ASSUME CountsInv, Count!ParentHandles PROVE CountsInv'
  OBVIOUS
<1> USE DEF CountsInv, Count!ParentHandles
<1>1. Count!Min(toParent) \in toParent
  BY MinIsLeast DEF Count!TypeOK
<1>2. Count!TypeOK'
  BY DEF Count!TypeOK
<1>3. Cardinality(toParent') = Cardinality(toParent) - 1
  BY <1>1, PendingSets, RemoveOne
<1>4. /\ RECEIVED_CHILD \in Nat /\ RECEIVED_PARENT \in Nat /\ SENT \in Nat
      /\ Cardinality(Countable) \in Nat /\ Countable' = Countable
      /\ Cardinality(toParent) \in Nat /\ Cardinality(toParent') \in Nat
      /\ Cardinality(toParent) > 0
  BY <1>2, <1>3, PendingSets DEF Count!TypeOK, Countable
<1>5. NoMoreThanSent' /\ NotAllLost' /\ AnsweredInv'
  BY <1>3, <1>4 DEF NoMoreThanSent, NotAllLost, AnsweredInv
<1>6. PlaceInv'
  <2>1. CASE parent = "sleep"
    BY <2>1 DEF PlaceInv
  <2>2. CASE parent # "sleep"
    BY <2>2 DEF PlaceInv
  <2> QED BY <2>1, <2>2
<1>7. OneAtATime'
  BY <1>3, <1>4 DEF OneAtATime
<1> QED BY <1>2, <1>5, <1>6, <1>7

\* A signal that the child counts is one more at most.
LEMMA KillStep ==
    ASSUME CountsInv, Count!SendOne \/ Count!SendFirstRT \/ Count!SendSecondRT
    PROVE  CountsInv'
<1> USE DEF CountsInv, Count!Goto, Count!Kill
<1>1. /\ RECEIVED_CHILD \in Nat /\ RECEIVED_PARENT \in Nat /\ SENT \in Nat
      /\ Cardinality(Countable) \in Nat /\ Cardinality(toParent) = 0
  BY PendingSets DEF Count!TypeOK, Count!SendOne, Count!SendFirstRT, Count!SendSecondRT
<1>2. CASE Count!SendOne
  <2> USE DEF Count!SendOne
  <2>1. Countable' = Countable \cup {Count!USR1}
    BY <1>2 DEF Countable, Count!USR1, Count!USR2
  <2>2. /\ Cardinality(Countable') \in Nat /\ Countable' # {}
        /\ Cardinality(Countable') <= Cardinality(Countable) + 1
        /\ Countable = {} => Cardinality(Countable') = 1
    BY <2>1, PendingSets, AddOne
  <2>3. Count!TypeOK'
    BY <1>2 DEF Count!TypeOK
  <2>4. NoMoreThanSent'
    BY <1>1, <1>2, <2>2 DEF NoMoreThanSent
  <2>5. PlaceInv' /\ AnsweredInv' /\ NotAllLost'
    BY <1>1, <1>2, <2>2 DEF PlaceInv, AnsweredInv, NotAllLost, Count!USR1, Count!USR2, Count!TypeOK
  <2>6. OneAtATime'
    <3> SUFFICES ASSUME type = 2 PROVE OneAtATime'
      BY <1>2 DEF OneAtATime
    <3>1. RECEIVED_CHILD = RECEIVED_PARENT /\ SENT = RECEIVED_PARENT /\ Cardinality(Countable) = 0
      BY <1>1, <1>2 DEF OneAtATime
    <3>2. Cardinality(Countable') = 1
      BY <2>2, <3>1, PendingSets
    <3> QED BY <1>1, <1>2, <3>1, <3>2 DEF OneAtATime
  <2> QED BY <2>3, <2>4, <2>5, <2>6
<1>3. CASE Count!SendFirstRT
  <2> USE DEF Count!SendFirstRT
  <2>1. Countable' = Countable \cup {Count!RT1}
    BY <1>3 DEF Countable, Count!RT1, Count!USR2
  <2>2. /\ Cardinality(Countable') \in Nat /\ Countable' # {}
        /\ Cardinality(Countable') <= Cardinality(Countable) + 1
    BY <2>1, PendingSets, AddOne
  <2>3. Count!TypeOK' /\ OneAtATime'
    BY <1>3 DEF Count!TypeOK, OneAtATime
  <2>4. NoMoreThanSent'
    BY <1>1, <1>3, <2>2 DEF NoMoreThanSent
  <2>5. PlaceInv' /\ AnsweredInv' /\ NotAllLost'
    BY <1>1, <1>3, <2>2 DEF PlaceInv, AnsweredInv, NotAllLost, Count!RT1, Count!USR2, Count!USR1
  <2> QED BY <2>3, <2>4, <2>5
<1>4. CASE Count!SendSecondRT
  <2> USE DEF Count!SendSecondRT
  <2>1. Countable' = Countable \cup {Count!RT2}
    BY <1>4 DEF Countable, Count!RT2, Count!USR2
  <2>2. /\ Cardinality(Countable') \in Nat /\ Countable' # {}
        /\ Cardinality(Countable') <= Cardinality(Countable) + 1
    BY <2>1, PendingSets, AddOne
  <2>3. type = 3 /\ SENT = 0
    BY <1>4 DEF PlaceInv
  <2>4. Count!TypeOK' /\ OneAtATime'
    BY <1>4, <2>3 DEF Count!TypeOK, OneAtATime
  <2>5. NoMoreThanSent'
    BY <1>1, <1>4, <2>2, <2>3 DEF NoMoreThanSent
  <2>6. PlaceInv' /\ AnsweredInv' /\ NotAllLost'
    BY <1>1, <1>4, <2>2, <2>3 DEF PlaceInv, AnsweredInv, NotAllLost, Count!RT2, Count!USR2, Count!USR1
  <2> QED BY <2>4, <2>5, <2>6
<1> QED BY <1>2, <1>3, <1>4

\* A step of the parent that leaves what the child counts alone.  Where it has
\* nothing pending, and the child nothing left to count, it has had an answer.
LEMMA QuietStep ==
    ASSUME CountsInv,
           \/ Count!Start \/ Count!EnterPause \/ Count!EnterSleep \/ Count!SleepEnds
           \/ Count!EndChild \/ Count!WaitReturns \/ Count!PrintCounts \/ Count!Interrupt
    PROVE  CountsInv'
<1> USE DEF CountsInv, Count!Goto, Count!Kill, Count!counts, Count!Start, Count!EnterPause,
            Count!EnterSleep, Count!SleepEnds, Count!EndChild, Count!WaitReturns,
            Count!PrintCounts, Count!Interrupt
<1>1. /\ Countable' = Countable
      /\ UNCHANGED <<type, numberOfSignals, child3, toParent, SENT, RECEIVED_CHILD, RECEIVED_PARENT>>
  BY DEF Countable
<1>2. Count!USR1 \in toChild' <=> Count!USR1 \in toChild
  BY DEF Count!USR1, Count!USR2
<1>3. /\ RECEIVED_CHILD \in Nat /\ RECEIVED_PARENT \in Nat /\ SENT \in Nat
      /\ Cardinality(Countable) \in Nat /\ Cardinality(toParent) \in Nat
  BY PendingSets DEF Count!TypeOK
<1>4. Count!TypeOK'
  BY DEF Count!TypeOK
<1>5. NoMoreThanSent'
  BY <1>1, <1>3 DEF NoMoreThanSent
<1>6. PlaceInv'
  BY <1>1, <1>2 DEF PlaceInv, Count!TypeOK
<1>7. NotAllLost'
  BY <1>1, <1>2 DEF NotAllLost
<1>8. AnsweredInv'
  <2>1. ASSUME Count!SleepEnds
        PROVE  RECEIVED_PARENT > 0
    BY <2>1 DEF PlaceInv, NotAllLost, Countable
  <2>2. ASSUME Count!WaitReturns, SENT > 0, type # 3
        PROVE  RECEIVED_PARENT > 0
    BY <2>2 DEF PlaceInv, NotAllLost, Countable, Count!TypeOK
  <2>3. ASSUME Count!EndChild, type = 3
        PROVE  parent = "end"
    BY <2>3
  <2> QED BY <1>1, <1>3, <2>1, <2>2, <2>3 DEF AnsweredInv
<1>9. OneAtATime'
  <2>1. ASSUME type = 2, parent' # "killed"
        PROVE  parent \in {"sent", "pause"} <=> parent' \in {"sent", "pause"}
    BY <2>1 DEF PlaceInv
  <2> QED BY <1>1, <2>1 DEF OneAtATime
<1> QED BY <1>4, <1>5, <1>6, <1>7, <1>8, <1>9

LEMMA CountsStep == CountsInv /\ [Count!Next]_(Count!vars) => CountsInv'
<1> SUFFICES ASSUME CountsInv, [Count!Next]_(Count!vars) PROVE CountsInv'
  OBVIOUS
<1>1. CASE UNCHANGED Count!vars
  BY <1>1 DEF Count!vars, Count!counts, CountsInv, Count!TypeOK, NoMoreThanSent, Countable,
              PlaceInv, NotAllLost, AnsweredInv, OneAtATime
<1>2. CASE Count!Next
  BY <1>2, PreparedStep, ChildCountsStep, ChildDiesStep, ParentHandlesStep, KillStep, QuietStep
     DEF Count!Next, Count!ParentActs, Count!ChildHandles
<1> QED BY <1>1, <1>2

LEMMA CountsInvariant == Count!Spec => []CountsInv
  BY CountsInit, CountsStep, PTL DEF Count!Spec

\* Neither process counts a signal that was not sent, for any number of signals
\* of any type; and when the parent prints, with type 2 no signal has been
\* merged with another, and with any type it has had an answer (zad3.c:187).
THEOREM CountsAreRight == Count!Spec => []CountsAgree
<1>1. CountsInv => CountsAgree
  <2> SUFFICES ASSUME CountsInv PROVE CountsAgree
    OBVIOUS
  <2>1. /\ RECEIVED_CHILD \in Nat /\ RECEIVED_PARENT \in Nat /\ SENT \in Nat
        /\ Cardinality(Countable) \in Nat /\ Cardinality(toParent) \in Nat
    BY PendingSets DEF CountsInv, Count!TypeOK
  <2>2. parent = "printed" /\ type = 2 => RECEIVED_PARENT = SENT /\ RECEIVED_CHILD = SENT
    BY <2>1 DEF CountsInv, OneAtATime
  <2>3. /\ RECEIVED_PARENT + Cardinality(toParent) <= RECEIVED_CHILD
        /\ RECEIVED_CHILD <= SENT + (IF parent = "second" \/ parent = "killed" THEN 1 ELSE 0)
    BY <2>1 DEF CountsInv, NoMoreThanSent
  <2>4. parent = "printed" /\ SENT > 0 => RECEIVED_PARENT > 0
    BY DEF CountsInv, AnsweredInv
  <2>5. Count!Cardinality(toParent) = Cardinality(toParent)
    BY DEF Count!Cardinality, Cardinality
  <2> QED BY <2>2, <2>3, <2>4, <2>5 DEF CountsInv, CountsAgree, Count!CountsAgree
<1> QED BY <1>1, CountsInvariant, PTL
=============================================================================
