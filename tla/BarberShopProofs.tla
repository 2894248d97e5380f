-------------------------- MODULE BarberShopProofs --------------------------
(***************************************************************************)
(* Safety of SysOpy/lab7/src/zad1 for any number of clients, any waiting   *)
(* room and any number of visits, whether or not clients start while the   *)
(* barber sets up.                                                         *)
(***************************************************************************)
EXTENDS MCBarberShop, SequenceTheorems, TLAPS

\* The struct as far as setup has got; nobody is in before the first post.
SetupInv ==
    /\ bpc = "post" => Inside = {}
    /\ bpc \in {"post", "counts"} => queueLength = 0
    /\ bpc \notin {"post", "counts"} => queueLength = QueueLength
    /\ bpc \in {"post", "counts", "status"} => status \in {"SLEEP", "WAKES"}

\* A client between the steps of waking the barber: nobody else has moved the
\* status on, and the chair is free until it is named.
WakingInv ==
    \A c \in Clients :
       /\ cpc[c] \in {"seen", "waking"} => status \in {"SLEEP", "INVITES"}
       /\ cpc[c] = "seen" => clientPid = NoPid

\* The chair is nobody's while the barber sleeps or looks round, except
\* between the two stores.
FreeChairInv ==
    status \in {"SLEEP", "INVITES"} /\ clientPid # NoPid =>
       \E c \in Clients : cpc[c] = "waking"

StructTypeOK ==
    /\ sem \in {0, 1}
    /\ status \in Status
    /\ clientPid \in Clients \cup {NoPid}
    /\ waitingClients \in 0 .. QueueLength
    /\ queueLength \in {0, QueueLength}
    /\ queue \in Seq(Clients)
    /\ bpc \in {"post", "counts", "status", "out", "in"}
    /\ cpc \in [Clients -> {"out", "in", "seen", "waking", "exited"}]

\* Seats are counted right only because one process at a time touches the
\* struct, and that holds only because each of them releases what it took.
StructInv ==
    /\ StructTypeOK /\ MutualExclusion /\ SeatAccounting
    /\ SetupInv /\ WakingInv /\ FreeChairInv

\* The steps of a shop, whatever the number of visits its clients make and
\* whenever they start: StructInv depends on neither.
Quit(c) ==
    /\ sem' = sem + 1
    /\ \E s \in {"out", "exited"} : cpc' = [cpc EXCEPT ![c] = s]
    /\ UNCHANGED <<queueLength, bpc>>

AnyEnter(c) ==
    /\ cpc[c] = "out" /\ sem > 0
    /\ sem' = sem - 1
    /\ cpc' = [cpc EXCEPT ![c] = "in"]
    /\ UNCHANGED <<status, clientPid, waitingClients, queueLength, queue, bpc, client>>

AnyLeaves(c) ==
    /\ Invited(c, "LEAVES")
    /\ status' = "INVITES" /\ clientPid' = NoPid
    /\ client' = [client EXCEPT ![c] = NoPid]
    /\ Quit(c)
    /\ UNCHANGED <<waitingClients, queue>>

AnyLeavesFull(c) ==
    /\ Visits(c)
    /\ queueLength <= waitingClients
    /\ Quit(c)
    /\ UNCHANGED <<status, clientPid, waitingClients, queue, client>>

Keeps(c) ==
    \/ SeesBarberAsleep(c) \/ StartWaking(c) \/ FinishWaking(c)
    \/ SitsFirst(c) \/ Sits(c) \/ Waits(c) \/ LooksAgain(c)

AnyClientActs(c) == Keeps(c) \/ AnyLeaves(c) \/ AnyLeavesFull(c)

AnyNext ==
    \/ Setup \/ BarberEnter \/ BarberActs
    \/ \E c \in Clients : AnyEnter(c) \/ AnyClientActs(c)

LEMMA InitStructInv == Init => StructInv
<1> SUFFICES ASSUME Init PROVE StructInv
  OBVIOUS
<1> USE ShopAssumption DEF Init
<1>1. StructTypeOK
  BY DEF StructTypeOK, Status
<1>2. MutualExclusion
  BY DEF MutualExclusion, Inside
<1>3. SeatAccounting
  BY DEF SeatAccounting
<1>4. SetupInv /\ WakingInv /\ FreeChairInv
  BY DEF SetupInv, Inside, WakingInv, FreeChairInv
<1> QED BY <1>1, <1>2, <1>3, <1>4 DEF StructInv

LEMMA QueueLen == StructTypeOK => Len(queue) \in Nat
  BY DEF StructTypeOK

\* Setup takes nothing a client has done to the counts away: before
\* queueLength is stored nobody has been given a seat.
LEMMA SetupStep == StructInv /\ Setup => StructInv'
<1> SUFFICES ASSUME StructInv, Setup PROVE StructInv'
  OBVIOUS
<1> USE ShopAssumption, QueueLen DEF StructInv, clientVars
<1>1. CASE Post
  <2>1. SeatAccounting' /\ SetupInv' /\ WakingInv' /\ FreeChairInv'
    BY <1>1 DEF Post, SeatAccounting, SetupInv, Inside, WakingInv, FreeChairInv
  <2>2. sem = 0
    BY <1>1 DEF Post, MutualExclusion
  <2>3. StructTypeOK'
    BY <1>1, <2>2 DEF Post, StructTypeOK
  <2>4. Inside = {}
    BY <1>1 DEF Post, SetupInv
  <2>5. MutualExclusion'
    BY <1>1, <2>2, <2>4 DEF Post, MutualExclusion, Inside
  <2> QED BY <2>1, <2>3, <2>5
<1>2. CASE StoreCounts
  <2>1. StructTypeOK' /\ SetupInv' /\ WakingInv' /\ FreeChairInv'
    BY <1>2 DEF StoreCounts, StructTypeOK, SetupInv, WakingInv, FreeChairInv
  <2>2. MutualExclusion'
    BY <1>2 DEF StoreCounts, MutualExclusion, Inside
  <2>3. SeatAccounting'
    BY <1>2 DEF StoreCounts, SeatAccounting, SetupInv, StructTypeOK
  <2> QED BY <2>1, <2>2, <2>3
<1>3. CASE StoreStatus
  <2>1. StructTypeOK' /\ SetupInv' /\ WakingInv' /\ FreeChairInv'
    BY <1>3 DEF StoreStatus, StructTypeOK, SetupInv, WakingInv, FreeChairInv, Status
  <2>2. MutualExclusion'
    BY <1>3 DEF StoreStatus, MutualExclusion, Inside
  <2>3. SeatAccounting'
    BY <1>3 DEF StoreStatus, SeatAccounting, SetupInv
  <2> QED BY <2>1, <2>2, <2>3
<1> QED BY <1>1, <1>2, <1>3 DEF Setup

LEMMA BarberStep == StructInv /\ (BarberEnter \/ BarberActs) => StructInv'
<1> SUFFICES ASSUME StructInv, BarberEnter \/ BarberActs PROVE StructInv'
  OBVIOUS
<1> USE ShopAssumption, QueueLen DEF StructInv, clientVars
<1>1. CASE BarberEnter
  <2>1. Inside' = Inside /\ Inside = {}
    BY <1>1 DEF BarberEnter, MutualExclusion, Inside
  <2>2. MutualExclusion'
    BY <1>1, <2>1 DEF BarberEnter, MutualExclusion
  <2>3. StructTypeOK' /\ SeatAccounting' /\ SetupInv' /\ WakingInv' /\ FreeChairInv'
    BY <1>1 DEF BarberEnter, StructTypeOK, SeatAccounting, SetupInv, WakingInv,
                FreeChairInv
  <2> QED BY <2>2, <2>3
<1>2. CASE BarberActs
  <2>1. BarberLeave
    BY <1>2 DEF BarberActs, BarberWakes, BarberStarts, BarberEnds,
                BarberAdvance, BarberInvites, BarberSleeps, BarberWaits
  <2>2. /\ \A c \in Clients : cpc[c] \notin {"in", "seen", "waking"}
        /\ cpc' = cpc
        /\ bpc = "in" /\ bpc' = "out" /\ sem = 0 /\ sem' = 1
        /\ waitingClients' = waitingClients /\ queueLength' = queueLength
    BY <2>1 DEF BarberLeave, MutualExclusion, Inside
  <2>3. MutualExclusion' /\ WakingInv'
    BY <2>2 DEF MutualExclusion, Inside, WakingInv
  <2>4. SetupInv'
    BY <2>2 DEF SetupInv, Inside
  <2>5. CASE BarberWakes \/ BarberStarts \/ BarberEnds \/ BarberWaits
    BY <2>2, <2>3, <2>4, <2>5
       DEF BarberWakes, BarberStarts, BarberEnds, BarberAdvance, BarberWaits,
           StructTypeOK, SeatAccounting, FreeChairInv, Status
  <2>6. CASE BarberInvites
    <3>1. queue # <<>> /\ Len(queue) = waitingClients
      BY <2>6 DEF BarberInvites, SeatAccounting, StructTypeOK
    <3>2. /\ Head(queue) \in Clients /\ Tail(queue) \in Seq(Clients)
          /\ Len(Tail(queue)) = Len(queue) - 1
      BY <3>1, HeadTailProperties DEF StructTypeOK
    <3>3. clientPid' \in Clients /\ queue' = Tail(queue) /\ status' = "SITS"
      BY <2>6, <3>1, <3>2 DEF BarberInvites
    <3>4. StructTypeOK'
      BY <2>2, <3>2, <3>3 DEF StructTypeOK, Status
    <3>5. SeatAccounting'
      BY <2>2, <3>1, <3>2, <3>3 DEF SeatAccounting, StructTypeOK
    <3> QED BY <2>3, <2>4, <3>3, <3>4, <3>5 DEF FreeChairInv
  <2>7. CASE BarberSleeps
    BY <2>2, <2>3, <2>4, <2>7 DEF BarberSleeps, StructTypeOK, SeatAccounting, FreeChairInv, Status
  <2> QED BY <1>2, <2>5, <2>6, <2>7 DEF BarberActs
<1> QED BY <1>1, <1>2

\* What a client that leaves the lock owes to the others.
LEMMA ClientLeaves ==
    ASSUME StructInv, NEW c \in Clients, cpc[c] \in {"in", "seen", "waking"},
           Release(c) \/ Quit(c)
    PROVE  /\ bpc' = bpc /\ bpc \notin {"in", "post"} /\ sem' = 1
           /\ queueLength' = queueLength
           /\ cpc' \in [Clients -> {"out", "in", "seen", "waking", "exited"}]
           /\ \A d \in Clients : cpc'[d] \in {"out", "exited"}
           /\ MutualExclusion' /\ WakingInv'
<1> USE ShopAssumption DEF StructInv, StructTypeOK
<1>1. c \in Inside
  BY DEF Inside
<1>2. \A d \in Clients : d # c => cpc[d] \in {"out", "exited"}
  BY <1>1 DEF MutualExclusion, Inside
<1>3. bpc' = bpc /\ bpc \notin {"in", "post"} /\ sem = 0 /\ sem' = 1 /\ queueLength' = queueLength
  BY <1>1 DEF MutualExclusion, SetupInv, Release, Quit
<1>4. \A d \in Clients : cpc'[d] \in {"out", "exited"}
  BY <1>2 DEF Release, Quit
<1>5. cpc' \in [Clients -> {"out", "in", "seen", "waking", "exited"}]
  BY DEF Release, Quit
<1>6. MutualExclusion'
  BY <1>3, <1>4 DEF MutualExclusion, Inside
<1>7. WakingInv'
  BY <1>4 DEF WakingInv
<1> QED BY <1>3, <1>4, <1>5, <1>6, <1>7

LEMMA ClientStep ==
    ASSUME StructInv, NEW c \in Clients, AnyEnter(c) \/ AnyClientActs(c)
    PROVE  StructInv'
<1> USE ShopAssumption, QueueLen DEF StructInv
<1>1. CASE AnyEnter(c)
  <2>1. Inside = {} /\ Inside' = {c} /\ bpc \notin {"post", "in"}
    BY <1>1 DEF AnyEnter, MutualExclusion, Inside, StructTypeOK
  <2>2. MutualExclusion'
    BY <1>1, <2>1 DEF AnyEnter, MutualExclusion
  <2>3. StructTypeOK' /\ SeatAccounting' /\ SetupInv' /\ WakingInv'
    BY <1>1, <2>1 DEF AnyEnter, StructTypeOK, SeatAccounting, SetupInv, WakingInv
  <2>4. FreeChairInv'
    BY <1>1, <2>1 DEF AnyEnter, FreeChairInv, Inside
  <2> QED BY <2>2, <2>3, <2>4
<1>2. CASE SeesBarberAsleep(c) \/ StartWaking(c)
  <2>1. Inside' = Inside
    BY <1>2 DEF SeesBarberAsleep, StartWaking, Inside, StructTypeOK
  <2>2. MutualExclusion'
    BY <1>2, <2>1 DEF SeesBarberAsleep, StartWaking, MutualExclusion, shared
  <2>3. StructTypeOK' /\ SeatAccounting' /\ SetupInv'
    BY <1>2, <2>1 DEF SeesBarberAsleep, StartWaking, shared, StructTypeOK,
                SeatAccounting, SetupInv
  <2>4. \A d \in Clients : cpc[d] \in {"in", "seen", "waking"} => d = c
    BY <1>2 DEF SeesBarberAsleep, StartWaking, MutualExclusion, Inside
  <2>5. WakingInv' /\ FreeChairInv'
    BY <1>2, <2>4 DEF SeesBarberAsleep, StartWaking, shared, WakingInv, FreeChairInv, StructTypeOK
  <2> QED BY <2>2, <2>3, <2>5
<1>3. CASE FinishWaking(c)
  <2>1. status \in {"SLEEP", "INVITES"}
    BY <1>3 DEF FinishWaking, WakingInv
  <2> QED BY <1>3, <2>1, ClientLeaves
          DEF FinishWaking, StructTypeOK, SeatAccounting, SetupInv, FreeChairInv, Status
<1>4. CASE SitsFirst(c)
  BY <1>4, ClientLeaves DEF SitsFirst, Invited, StructTypeOK, SeatAccounting, SetupInv,
                            FreeChairInv, Status
<1>5. CASE Sits(c)
  BY <1>5, ClientLeaves DEF Sits, Invited, StructTypeOK, SeatAccounting, SetupInv,
                            FreeChairInv, Status
<1>6. CASE AnyLeaves(c)
  BY <1>6, ClientLeaves DEF AnyLeaves, Invited, StructTypeOK, SeatAccounting, SetupInv,
                            FreeChairInv, Status
<1>7. CASE AnyLeavesFull(c)
  <2>1. ~(status \in {"SLEEP", "INVITES"})
    BY <1>7 DEF AnyLeavesFull, Visits, FreeChairInv, MutualExclusion, Inside
  <2> QED BY <1>7, <2>1, ClientLeaves DEF AnyLeavesFull, Visits, StructTypeOK,
                            SeatAccounting, SetupInv, FreeChairInv
<1>8. CASE Waits(c)
  <2>1. ~(status \in {"SLEEP", "INVITES"})
    BY <1>8 DEF Waits, Visits, FreeChairInv, MutualExclusion, Inside
  <2>2. queue' \in Seq(Clients) /\ Len(queue') = Len(queue) + 1
    BY <1>8 DEF Waits, StructTypeOK
  <2> QED BY <1>8, <2>1, <2>2, ClientLeaves DEF Waits, Visits, StructTypeOK,
                            SeatAccounting, SetupInv, FreeChairInv
<1>9. CASE LooksAgain(c)
  <2>1. status \in {"SLEEP", "INVITES"} => clientPid = NoPid
    BY <1>9 DEF LooksAgain, FreeChairInv, MutualExclusion, Inside
  <2> QED BY <1>9, <2>1, ClientLeaves DEF LooksAgain, StructTypeOK, SeatAccounting,
                            SetupInv, FreeChairInv
<1> QED BY <1>1, <1>2, <1>3, <1>4, <1>5, <1>6, <1>7, <1>8, <1>9 DEF AnyClientActs, Keeps

LEMMA StructStep == StructInv /\ AnyNext => StructInv'
  BY SetupStep, BarberStep, ClientStep DEF AnyNext

-----------------------------------------------------------------------------
(* The shop of BarberShop                                                  *)

VisitsInv == \A c \in Clients : cpc[c] # "exited" => shaves[c] < NumberOfShaves

ShopInv == StructInv /\ TypeOK /\ VisitsInv

LEMMA InitShopInv == Init => ShopInv
<1> SUFFICES ASSUME Init PROVE TypeOK /\ VisitsInv
  BY InitStructInv DEF ShopInv
<1> QED BY ShopAssumption DEF Init, TypeOK, Status, VisitsInv

LEMMA EndsAreQuits ==
    ASSUME NEW c \in Clients, EndVisit(c)
    PROVE  Quit(c)
  BY DEF EndVisit, Quit

LEMMA NextIsAny == Next => AnyNext
<1> SUFFICES ASSUME NEW c \in Clients, Enter(c) \/ ClientActs(c)
             PROVE  AnyEnter(c) \/ AnyClientActs(c)
  BY DEF Next, AnyNext
<1> QED BY EndsAreQuits DEF Enter, AnyEnter, ClientActs, AnyClientActs, Keeps, Leaves, AnyLeaves,
                            LeavesFull, AnyLeavesFull

LEMMA ShopInvStep == ShopInv /\ [Next]_vars => ShopInv'
<1> SUFFICES ASSUME ShopInv, [Next]_vars PROVE ShopInv'
  OBVIOUS
<1> USE ShopAssumption
<1>1. CASE UNCHANGED vars
  BY <1>1 DEF ShopInv, StructInv, vars, TypeOK, StructTypeOK, MutualExclusion, Inside,
              SeatAccounting, SetupInv, WakingInv, FreeChairInv, VisitsInv
<1>2. CASE Next
  <2>1. StructInv'
    BY <1>2, NextIsAny, StructStep DEF ShopInv
  <2> DEFINE VisitsKept == /\ client' \in [Clients -> Clients \cup {NoPid}]
                           /\ shaves' \in [Clients -> 0 .. NumberOfShaves] /\ VisitsInv'
  <2>2. VisitsKept
    <3>1. CASE Setup \/ BarberEnter \/ BarberActs
      <4>1. UNCHANGED clientVars
        BY <3>1 DEF Setup, Post, StoreCounts, StoreStatus, BarberEnter, BarberActs, BarberWakes,
                    BarberStarts, BarberEnds, BarberAdvance, BarberInvites, BarberSleeps,
                    BarberWaits, BarberLeave
      <4> QED BY <4>1 DEF ShopInv, TypeOK, VisitsInv, clientVars
    <3>2. ASSUME NEW c \in Clients, Leaves(c) \/ LeavesFull(c)
          PROVE  VisitsKept
      <4>1. /\ EndVisit(c) /\ shaves[c] < NumberOfShaves
            /\ client' = client \/ client' = [client EXCEPT ![c] = NoPid]
        BY <3>2 DEF Leaves, LeavesFull, Invited, Visits, ShopInv, VisitsInv
      <4> QED BY <4>1 DEF EndVisit, ShopInv, TypeOK, VisitsInv
    <3>3. ASSUME NEW c \in Clients, \/ Enter(c) \/ SeesBarberAsleep(c) \/ StartWaking(c)
                                    \/ FinishWaking(c) \/ SitsFirst(c) \/ Sits(c)
                                    \/ Waits(c) \/ LooksAgain(c)
          PROVE  VisitsKept
      <4>1. /\ cpc[c] # "exited" /\ shaves' = shaves
            /\ \E s \in {"out", "in", "seen", "waking"} : cpc' = [cpc EXCEPT ![c] = s]
            /\ client' = client \/ client' = [client EXCEPT ![c] = c]
        BY <3>3 DEF Enter, SeesBarberAsleep, StartWaking, FinishWaking, SitsFirst, Sits, Waits,
                    LooksAgain, Release, Invited, Visits
      <4> QED BY <4>1 DEF ShopInv, TypeOK, VisitsInv
    <3> QED BY <1>2, <3>1, <3>2, <3>3 DEF Next, ClientActs
  <2>3. TypeOK'
    BY <2>1, <2>2 DEF StructInv, StructTypeOK, TypeOK
  <2> QED BY <2>1, <2>2, <2>3 DEF ShopInv
<1> QED BY <1>1, <1>2

LEMMA ShopInvariant == Spec => []ShopInv
  BY InitShopInv, ShopInvStep, PTL DEF Spec

\* Every variable keeps its type; waitingClients never leaves 0 .. queueLength
\* (client.c:101, 137).
THEOREM TypeCorrect == Spec => []TypeOK
<1>1. ShopInv => TypeOK
  BY DEF ShopInv, StructInv
<1> QED BY <1>1, ShopInvariant, PTL

\* At most one process is in a critical section, for any number of clients and
\* also while the barber sets up (barber.c:70-139, 176-182, client.c:70-155).
THEOREM Exclusion == Spec => []MutualExclusion
<1>1. ShopInv => MutualExclusion
  BY DEF ShopInv, StructInv
<1> QED BY <1>1, ShopInvariant, PTL

\* waitingClients is the number of messages plus the client on its way to the
\* chair, so the barber never invites from an empty queue (barber.c:112-116,
\* client.c:98-101, 125-138).
THEOREM SeatsCounted == Spec => []SeatsSafe
<1>1. ShopInv => SeatsSafe
  BY DEF ShopInv, StructInv, SeatsSafe
<1> QED BY <1>1, ShopInvariant, PTL

-----------------------------------------------------------------------------
(* The chair                                                               *)

\* Once the chair is reserved it stays so until that client leaves it, for
\* any number of clients polling (barber.c:114-122, client.c:76, 110-114).
THEOREM ChairIsKept == Spec => ChairKept
<1>1. ShopInv /\ [Next]_vars =>
         [clientPid # NoPid /\ clientPid' # clientPid /\ ~Setup
             => status = "LEAVES" /\ clientPid' = NoPid]_vars
  <2> SUFFICES ASSUME ShopInv, Next, clientPid # NoPid, clientPid' # clientPid, ~Setup
               PROVE  status = "LEAVES" /\ clientPid' = NoPid
    OBVIOUS
  <2> USE DEF ShopInv, StructInv
  <2>1. ~(BarberInvites \/ BarberSleeps)
    BY DEF BarberInvites, BarberSleeps, BarberLeave, FreeChairInv, MutualExclusion, Inside
  <2>2. \A c \in Clients : ~StartWaking(c)
    BY DEF StartWaking, WakingInv
  <2>3. ~(BarberEnter \/ BarberActs)
    BY <2>1 DEF BarberEnter, BarberActs, BarberWakes, BarberStarts, BarberEnds,
                BarberAdvance, BarberWaits
  <2>4. PICK c \in Clients : Enter(c) \/ ClientActs(c)
    BY <2>3 DEF Next
  <2>5. Leaves(c)
    BY <2>2, <2>4 DEF Enter, ClientActs, SeesBarberAsleep, FinishWaking,
       SitsFirst, Sits, LeavesFull, Waits, LooksAgain, shared
  <2> QED BY <2>5 DEF Leaves, Invited
<1> QED BY <1>1, ShopInvariant, PTL DEF Spec, ChairKept

-----------------------------------------------------------------------------
(* The waiting room                                                        *)

Seated == IF status = "SITS" THEN <<clientPid>> \o queue ELSE queue

LEMMA SeatedLen == ShopInv => Seated \in Seq(Clients \cup {NoPid}) /\ Len(Seated) = waitingClients
<1> SUFFICES ASSUME ShopInv
             PROVE  Seated \in Seq(Clients \cup {NoPid}) /\ Len(Seated) = waitingClients
  OBVIOUS
<1> DEFINE S == Clients \cup {NoPid}
<1>1. queue \in Seq(S) /\ <<clientPid>> \in Seq(S) /\ Len(<<clientPid>>) = 1
  BY SeqMonotonic DEF ShopInv, TypeOK
<1>2. <<clientPid>> \o queue \in Seq(S) /\ Len(<<clientPid>> \o queue) = 1 + Len(queue)
  BY <1>1, ConcatProperties
<1>3. Len(queue) \in Nat
  BY QueueLen DEF ShopInv, StructInv
<1>4. waitingClients = Len(queue) + (IF status = "SITS" THEN 1 ELSE 0)
  BY DEF ShopInv, StructInv, SeatAccounting
<1>5. CASE status = "SITS"
  BY <1>2, <1>3, <1>4, <1>5 DEF Seated
<1>6. CASE status # "SITS"
  BY <1>1, <1>3, <1>4, <1>6 DEF Seated
<1> QED BY <1>5, <1>6

LEMMA RoomStep == ShopInv /\ [Next]_vars => [Room!Next]_Seated
<1> SUFFICES ASSUME ShopInv, [Next]_vars
             PROVE  Room!Next \/ Seated' = Seated
  OBVIOUS
<1> USE DEF ShopInv, StructInv
<1>1. ASSUME NEW c \in Clients, Waits(c)
      PROVE  Room!Take(c)
  <2>1. Len(Seated) = waitingClients /\ waitingClients < QueueLength
    BY <1>1, SeatedLen, ShopAssumption DEF Waits, TypeOK
  <2>2. Append(queue, c) = queue \o <<c>>
    BY DEF TypeOK
  <2> DEFINE S == Clients \cup {NoPid}
  <2>3. queue \in Seq(S) /\ <<clientPid>> \in Seq(S) /\ <<c>> \in Seq(S)
    BY SeqMonotonic DEF TypeOK
  <2>4. <<clientPid>> \o (queue \o <<c>>) = (<<clientPid>> \o queue) \o <<c>>
    BY <2>3, ConcatAssociative
  <2>5. Append(<<clientPid>> \o queue, c) = (<<clientPid>> \o queue) \o <<c>>
    BY <2>3, ConcatProperties
  <2>6. Seated' = Append(Seated, c)
    BY <1>1, <2>2, <2>4, <2>5 DEF Waits, Seated
  <2> QED BY <2>1, <2>6 DEF Room!Take, Seated
<1>2. ASSUME NEW c \in Clients, Sits(c)
      PROVE  Room!GiveUp
  <2>1. Seated = <<c>> \o queue /\ Seated' = queue
    BY <1>2 DEF Sits, Invited, Seated
  <2>2. Seated # <<>> /\ Tail(Seated) = queue
    <3>1. /\ Seated \in Seq(Clients) /\ Len(Seated) = 1 + Len(queue)
          /\ \A i \in 1 .. Len(queue) : Seated[i + 1] = queue[i]
      BY <2>1, ConcatProperties DEF TypeOK
    <3>2. Seated # <<>>
      BY <3>1, QueueLen
    <3>3. /\ Tail(Seated) \in Seq(Clients) /\ Len(Tail(Seated)) = Len(queue)
          /\ \A i \in 1 .. Len(queue) : Tail(Seated)[i] = queue[i]
      BY <3>1, <3>2, HeadTailProperties, QueueLen
    <3> QED BY <3>2, <3>3, SeqEqual DEF TypeOK
  <2> QED BY <2>1, <2>2 DEF Room!GiveUp, Seated
<1>3. CASE BarberInvites
  <2>1. bpc = "in" /\ status = "INVITES" /\ waitingClients > 0
    BY <1>3 DEF BarberInvites, BarberLeave
  <2>2. queue # <<>>
    BY <2>1 DEF SeatAccounting, TypeOK
  <2>3. Seated = queue /\ Seated' = <<Head(queue)>> \o Tail(queue)
    BY <1>3, <2>1, <2>2 DEF BarberInvites, Seated
  <2>4. <<Head(queue)>> \o Tail(queue) = queue
    <3>1. /\ Head(queue) \in Clients /\ Head(queue) = queue[1]
          /\ Tail(queue) \in Seq(Clients)
          /\ Len(Tail(queue)) = Len(queue) - 1
          /\ \A i \in 1 .. Len(queue) - 1 : Tail(queue)[i] = queue[i + 1]
      BY <2>2, HeadTailProperties DEF TypeOK
    <3>2. <<Head(queue)>> \in Seq(Clients) /\ Len(<<Head(queue)>>) = 1
      BY <3>1
    <3> DEFINE s == <<Head(queue)>> \o Tail(queue)
    <3>3. /\ s \in Seq(Clients) /\ Len(s) = Len(queue)
          /\ \A i \in 1 .. Len(queue) : s[i] = queue[i]
      <4>1. s \in Seq(Clients) /\ Len(s) = 1 + (Len(queue) - 1)
        BY <3>1, <3>2, ConcatProperties
      <4>2. \A i \in 1 .. Len(queue) : s[i] = IF i <= 1 THEN Head(queue) ELSE Tail(queue)[i - 1]
        <5>1. \A i \in 1 .. 1 + (Len(queue) - 1) :
                 s[i] = IF i <= 1 THEN <<Head(queue)>>[i] ELSE Tail(queue)[i - 1]
          BY <3>1, <3>2, ConcatProperties
        <5>2. 1 + (Len(queue) - 1) = Len(queue)
          BY QueueLen
        <5>3. <<Head(queue)>>[1] = Head(queue)
          OBVIOUS
        <5> HIDE DEF s
        <5> QED BY <5>1, <5>2, <5>3, QueueLen
      <4>3. \A i \in 1 .. Len(queue) : s[i] = queue[i]
        BY <3>1, <4>2, QueueLen
      <4> QED BY <4>1, <4>3, QueueLen
    <3> QED BY <3>3, SeqEqual DEF TypeOK
  <2> QED BY <2>3, <2>4
<1>4. ASSUME \A c \in Clients : ~Waits(c) /\ ~Sits(c), ~BarberInvites
      PROVE  Seated' = Seated
  <2>1. Setup => UNCHANGED queue /\ status # "SITS" /\ status' # "SITS"
    BY DEF Setup, Post, StoreCounts, StoreStatus, SetupInv
  <2>2. BarberActs \/ BarberEnter =>
           \/ UNCHANGED <<queue, status, clientPid>>
           \/ UNCHANGED queue /\ status # "SITS" /\ status' # "SITS"
    BY <1>4 DEF BarberEnter, BarberActs, BarberWakes, BarberStarts, BarberEnds,
                BarberAdvance, BarberSleeps, BarberWaits
  <2>3. ASSUME NEW c \in Clients, Enter(c) \/ ClientActs(c)
        PROVE  \/ UNCHANGED <<queue, status, clientPid>>
               \/ UNCHANGED queue /\ status # "SITS" /\ status' # "SITS"
    BY <1>4, <2>3 DEF Enter, ClientActs, SeesBarberAsleep, StartWaking,
       FinishWaking, SitsFirst, Leaves, LeavesFull, LooksAgain, Invited,
       shared, WakingInv
  <2> QED BY <2>1, <2>2, <2>3 DEF Next, Seated, vars
<1> QED BY <1>1, <1>2, <1>3, <1>4 DEF Room!Next

\* The seats are a bounded first-in first-out queue, whoever polls when
\* (barber.c:112-116, client.c:98-101, 125-138).
THEOREM RoomIsFIFO == Spec => ImplementsWaitingRoom
<1>1. Init => Room!Init
  BY DEF Init, Room!Init
<1>2. ShopInv /\ [Next]_vars => [Room!Next]_(IF status = "SITS" THEN <<clientPid>> \o queue ELSE queue)
  BY RoomStep DEF Seated
<1> QED BY <1>1, <1>2, ShopInvariant, PTL DEF Spec, ImplementsWaitingRoom, Room!Spec

-----------------------------------------------------------------------------
(* The shops of MCBarberShop, of which two need more.                      *)

\* With late clients nobody is in before the barber has set up, and so his
\* stores do not come between the two that wake him.
LateInv ==
    /\ StructInv
    /\ bpc \in {"post", "counts", "status"} => \A c \in Clients : cpc[c] = "out"
    /\ \A c \in Clients : cpc[c] = "waking" => clientPid = c
    /\ clientPid = NoPid => status \in {"SLEEP", "INVITES"}

LEMMA LateIsAny ==
    ASSUME Late!Next
    PROVE  \/ Setup \/ BarberEnter \/ BarberActs
           \/ \E c \in Clients : \/ AnyEnter(c) /\ bpc \in {"out", "in"} /\ shaves' = shaves
                                 \/ Keeps(c)
                                 \/ (AnyLeaves(c) \/ AnyLeavesFull(c)) /\ Late!EndVisit(c)
<1>1. Late!Setup => Setup
  BY DEF Setup, Late!Setup, Post, Late!Post, StoreCounts, Late!StoreCounts,
         StoreStatus, Late!StoreStatus, clientVars, Late!clientVars
<1>2. Late!BarberEnter \/ Late!BarberActs => BarberEnter \/ BarberActs
  BY DEF BarberEnter, Late!BarberEnter, BarberActs, Late!BarberActs,
         BarberWakes, Late!BarberWakes, BarberStarts, Late!BarberStarts,
         BarberEnds, Late!BarberEnds, BarberAdvance, Late!BarberAdvance,
         BarberInvites, Late!BarberInvites, BarberSleeps, Late!BarberSleeps,
         BarberWaits, Late!BarberWaits, BarberLeave, Late!BarberLeave,
         clientVars, Late!clientVars
<1>3. ASSUME NEW c \in Clients, Late!Enter(c)
      PROVE  AnyEnter(c) /\ bpc \in {"out", "in"} /\ shaves' = shaves
  BY <1>3 DEF AnyEnter, Late!Enter
<1>4. ASSUME NEW c \in Clients, Late!ClientActs(c)
      PROVE  Keeps(c) \/ ((AnyLeaves(c) \/ AnyLeavesFull(c)) /\ Late!EndVisit(c))
  <2>1. CASE Late!Leaves(c) \/ Late!LeavesFull(c)
    BY <2>1 DEF AnyLeaves, Late!Leaves, AnyLeavesFull, Late!LeavesFull,
       Quit, Late!EndVisit, Invited, Late!Invited, Visits, Late!Visits
  <2>2. CASE ~(Late!Leaves(c) \/ Late!LeavesFull(c))
    BY <1>4, <2>2 DEF Keeps, Late!ClientActs,
       SeesBarberAsleep, Late!SeesBarberAsleep, StartWaking,
       Late!StartWaking, FinishWaking, Late!FinishWaking, SitsFirst,
       Late!SitsFirst, Sits, Late!Sits, Waits, Late!Waits, LooksAgain,
       Late!LooksAgain, Invited, Late!Invited, Visits, Late!Visits, Release,
       Late!Release, shared, Late!shared
  <2> QED BY <2>1, <2>2
<1> QED BY <1>1, <1>2, <1>3, <1>4 DEF Late!Next

LEMMA OneVisitIsAny ==
    ASSUME OneVisit!Next
    PROVE  \/ Setup \/ BarberEnter \/ BarberActs
           \/ \E c \in Clients : \/ AnyEnter(c) /\ bpc \in {"out", "in"} /\ shaves' = shaves
                                 \/ Keeps(c)
                                 \/ (AnyLeaves(c) \/ AnyLeavesFull(c)) /\ OneVisit!EndVisit(c)
<1>1. OneVisit!Setup => Setup
  BY DEF Setup, OneVisit!Setup, Post, OneVisit!Post, StoreCounts,
         OneVisit!StoreCounts, StoreStatus, OneVisit!StoreStatus, clientVars,
         OneVisit!clientVars
<1>2. OneVisit!BarberEnter \/ OneVisit!BarberActs => BarberEnter \/ BarberActs
  BY DEF BarberEnter, OneVisit!BarberEnter, BarberActs, OneVisit!BarberActs,
         BarberWakes, OneVisit!BarberWakes, BarberStarts,
         OneVisit!BarberStarts, BarberEnds, OneVisit!BarberEnds,
         BarberAdvance, OneVisit!BarberAdvance, BarberInvites,
         OneVisit!BarberInvites, BarberSleeps, OneVisit!BarberSleeps,
         BarberWaits, OneVisit!BarberWaits, BarberLeave,
         OneVisit!BarberLeave, clientVars, OneVisit!clientVars
<1>3. ASSUME NEW c \in Clients, OneVisit!Enter(c)
      PROVE  AnyEnter(c) /\ bpc \in {"out", "in"} /\ shaves' = shaves
  BY <1>3 DEF AnyEnter, OneVisit!Enter
<1>4. ASSUME NEW c \in Clients, OneVisit!ClientActs(c)
      PROVE  Keeps(c) \/ ((AnyLeaves(c) \/ AnyLeavesFull(c)) /\ OneVisit!EndVisit(c))
  <2>1. CASE OneVisit!Leaves(c) \/ OneVisit!LeavesFull(c)
    BY <2>1 DEF AnyLeaves, OneVisit!Leaves, AnyLeavesFull, OneVisit!LeavesFull,
       Quit, OneVisit!EndVisit, Invited, OneVisit!Invited, Visits, OneVisit!Visits
  <2>2. CASE ~(OneVisit!Leaves(c) \/ OneVisit!LeavesFull(c))
    BY <1>4, <2>2 DEF Keeps, OneVisit!ClientActs,
       SeesBarberAsleep, OneVisit!SeesBarberAsleep, StartWaking,
       OneVisit!StartWaking, FinishWaking, OneVisit!FinishWaking, SitsFirst,
       OneVisit!SitsFirst, Sits, OneVisit!Sits, Waits, OneVisit!Waits,
       LooksAgain, OneVisit!LooksAgain, Invited, OneVisit!Invited, Visits,
       OneVisit!Visits, Release, OneVisit!Release, shared, OneVisit!shared
  <2> QED BY <2>1, <2>2
<1> QED BY <1>1, <1>2, <1>3, <1>4 DEF OneVisit!Next

LEMMA LateStep == LateInv /\ Late!Next => LateInv'
<1> SUFFICES ASSUME LateInv, Late!Next PROVE LateInv'
  OBVIOUS
<1> USE ShopAssumption
<1> USE DEF LateInv, StructInv, StructTypeOK
<1>1. StructInv'
  BY LateIsAny, StructStep DEF AnyNext, AnyClientActs
<1>2. CASE Setup
  BY <1>1, <1>2 DEF Setup, Post, StoreCounts, StoreStatus, clientVars
<1>3. CASE BarberEnter \/ BarberActs
  <2>1. cpc' = cpc /\ (BarberActs => Inside = {})
    BY <1>3 DEF BarberEnter, BarberActs, BarberWakes, BarberStarts, BarberEnds, BarberAdvance,
                BarberInvites, BarberSleeps, BarberWaits, BarberLeave, clientVars, MutualExclusion
  <2>2. BarberInvites => queue # <<>> /\ Head(queue) \in Clients
    <3>1. BarberInvites => queue # <<>>
      BY DEF BarberInvites, SeatAccounting
    <3> QED BY <3>1, HeadTailProperties
  <2>3. clientPid' = NoPid => status' \in {"SLEEP", "INVITES"}
    BY <1>3, <2>2 DEF BarberEnter, BarberActs, BarberWakes, BarberStarts, BarberEnds, BarberAdvance,
                BarberInvites, BarberSleeps, BarberWaits, BarberLeave
  <2> QED BY <1>1, <1>3, <2>1, <2>3 DEF BarberEnter, BarberActs, BarberWakes, BarberStarts,
                BarberEnds, BarberAdvance, BarberInvites, BarberSleeps, BarberWaits, BarberLeave, Inside
<1>4. ASSUME NEW c \in Clients, AnyEnter(c), bpc \in {"out", "in"} PROVE LateInv'
  BY <1>1, <1>4 DEF AnyEnter
<1>5. ASSUME NEW c \in Clients, AnyClientActs(c) PROVE LateInv'
  <2>1. /\ bpc' = bpc /\ bpc \notin {"post", "counts", "status"} /\ c # NoPid
        /\ \A d \in Clients : d # c => cpc[d] \notin {"in", "seen", "waking"} /\ cpc'[d] = cpc[d]
    BY <1>5 DEF AnyClientActs, Keeps, SeesBarberAsleep, StartWaking, FinishWaking, SitsFirst, Sits,
                AnyLeaves, AnyLeavesFull, Waits, LooksAgain, Invited, Visits, Release, Quit,
                shared, MutualExclusion, Inside
  <2>2. cpc'[c] = "waking" => clientPid' = c
    BY <1>5 DEF AnyClientActs, Keeps, SeesBarberAsleep, StartWaking, FinishWaking, SitsFirst, Sits,
                AnyLeaves, AnyLeavesFull, Waits, LooksAgain, Release, Quit
  <2>3. clientPid' = NoPid => status' \in {"SLEEP", "INVITES"}
    BY <1>5, <2>1 DEF AnyClientActs, Keeps, SeesBarberAsleep, StartWaking, FinishWaking, SitsFirst, Sits,
                AnyLeaves, AnyLeavesFull, Waits, LooksAgain, Invited, Visits, shared
  <2> QED BY <1>1, <2>1, <2>2, <2>3
<1> QED BY <1>2, <1>3, <1>4, <1>5, LateIsAny DEF AnyClientActs

LEMMA StutterInv == StructInv /\ UNCHANGED vars => StructInv'
  BY DEF StructInv, vars, StructTypeOK, MutualExclusion, Inside, SeatAccounting,
         SetupInv, WakingInv, FreeChairInv

\* In a shop with late clients the struct names a client exactly while the chair
\* is somebody's, the two stores of a waking client apart (client.c:76-77,
\* :110-114, barber.c:114-122).
THEOREM LateChairIsNamed == ShopSpec => []LateChairNamed
<1>1. ShopInit => (shop = "late" => LateInv)
  BY InitStructInv DEF ShopInit, Init, LateInv
<1>2. (shop = "late" => LateInv) /\ [ShopNext]_<<vars, shop>> => (shop = "late" => LateInv)'
  <2>1. LateInv /\ UNCHANGED vars => LateInv'
    BY StutterInv DEF LateInv, vars
  <2> QED BY <2>1, LateStep DEF ShopNext
<1>3. (shop = "late" => LateInv) => LateChairNamed
  BY DEF LateInv, LateChairNamed, Late!ChairNamed, StructInv, FreeChairInv
<1> QED BY <1>1, <1>2, <1>3, PTL DEF ShopSpec

\* With one visit each, a client with a message in the queue, and the one that
\* has been invited by it, knows that it is in the shop or has gone for good.
InQueue(c) == \E i \in 1 .. Len(queue) : queue[i] = c

OneVisitInv ==
    /\ StructInv
    /\ shaves \in [Clients -> Nat] /\ client \in [Clients -> Clients \cup {NoPid}]
    /\ \A c \in Clients :
          cpc[c] # "exited" =>
             /\ shaves[c] = 0
             /\ InQueue(c) \/ (status = "SITS" /\ clientPid = c) => client[c] = c
    /\ status \in {"START", "END", "LEAVES"} =>
          /\ clientPid \in Clients
          /\ cpc[clientPid] # "exited" /\ client[clientPid] = clientPid

LEMMA OneVisitStep == OneVisitInv /\ OneVisit!Next => OneVisitInv'
<1> SUFFICES ASSUME OneVisitInv, OneVisit!Next PROVE OneVisitInv'
  OBVIOUS
<1> USE ShopAssumption
<1> USE DEF OneVisitInv, StructInv, StructTypeOK
<1>1. StructInv'
  BY OneVisitIsAny, StructStep DEF AnyNext, AnyClientActs
<1>2. CASE Setup
  <2>1. UNCHANGED <<queue, cpc, client, shaves>>
    BY <1>2 DEF Setup, Post, StoreCounts, StoreStatus, clientVars
  <2> QED BY <1>1, <1>2, <2>1 DEF Setup, Post, StoreCounts, StoreStatus, SetupInv, InQueue
<1>3. CASE BarberInvites
  <2>1. /\ queue # <<>> /\ clientPid' = Head(queue) /\ queue' = Tail(queue) /\ status' = "SITS"
        /\ UNCHANGED <<cpc, client, shaves>>
    BY <1>3 DEF BarberInvites, BarberLeave, SeatAccounting, clientVars
  <2>2. /\ Len(queue) \in Nat \ {0} /\ Len(queue') = Len(queue) - 1
        /\ clientPid' = queue[1] /\ \A i \in 1 .. Len(queue) - 1 : queue'[i] = queue[i + 1]
    BY <2>1, HeadTailProperties, EmptySeq, LenProperties
  <2>3. ASSUME NEW c \in Clients, InQueue(c)' \/ clientPid' = c PROVE InQueue(c)
    BY <2>2, <2>3 DEF InQueue
  <2> QED BY <1>1, <2>1, <2>3
<1>4. CASE BarberEnter \/ (BarberActs /\ ~BarberInvites)
  <2>1. /\ UNCHANGED <<queue, cpc, client, shaves>>
        /\ \/ UNCHANGED <<status, clientPid>>
           \/ /\ clientPid' = clientPid
              /\ <<status, status'>> \in {<<"WAKES", "SITS_FIRST">>, <<"START", "END">>, <<"END", "LEAVES">>}
           \/ status' = "SLEEP"
    BY <1>4 DEF BarberEnter, BarberActs, BarberWakes, BarberStarts, BarberEnds, BarberAdvance,
                BarberSleeps, BarberWaits, BarberLeave, clientVars
  <2> QED BY <1>1, <2>1 DEF InQueue
<1>5. ASSUME NEW c \in Clients, AnyEnter(c), shaves' = shaves PROVE OneVisitInv'
  BY <1>1, <1>5 DEF AnyEnter, InQueue
<1>6. ASSUME NEW c \in Clients, SeesBarberAsleep(c) \/ StartWaking(c) \/ FinishWaking(c)
      PROVE  OneVisitInv'
  <2>1. /\ UNCHANGED <<queue, client, shaves>> /\ status \in {"SLEEP", "INVITES"}
        /\ status' \in {"SLEEP", "INVITES", "WAKES"}
        /\ cpc[c] # "exited"
        /\ \A d \in Clients \ {c} : cpc'[d] = cpc[d]
    BY <1>6 DEF SeesBarberAsleep, StartWaking, FinishWaking, Release, shared, WakingInv
  <2> QED BY <1>1, <2>1 DEF InQueue
<1>7. ASSUME NEW c \in Clients, SitsFirst(c) PROVE OneVisitInv'
  <2>1. /\ UNCHANGED <<queue, clientPid, shaves>> /\ clientPid = c
        /\ status' = "START" /\ client' = [client EXCEPT ![c] = c]
        /\ cpc[c] # "exited" /\ cpc' = [cpc EXCEPT ![c] = "out"]
    BY <1>7 DEF SitsFirst, Invited, Release
  <2> QED BY <1>1, <2>1 DEF InQueue
<1>8. ASSUME NEW c \in Clients, Sits(c) PROVE OneVisitInv'
  <2>1. /\ UNCHANGED <<queue, clientPid, client, shaves>> /\ clientPid = c
        /\ status = "SITS" /\ status' = "START"
        /\ cpc[c] # "exited" /\ cpc' = [cpc EXCEPT ![c] = "out"]
    BY <1>8 DEF Sits, Invited, Release
  <2> QED BY <1>1, <2>1 DEF InQueue
<1>9. ASSUME NEW c \in Clients, Waits(c) PROVE OneVisitInv'
  <2>1. /\ UNCHANGED <<status, clientPid, shaves>>
        /\ client' = [client EXCEPT ![c] = c] /\ queue' = Append(queue, c)
        /\ cpc[c] # "exited" /\ cpc' = [cpc EXCEPT ![c] = "out"]
    BY <1>9 DEF Waits, Visits, Release
  <2>2. /\ Len(queue) \in Nat /\ Len(queue') = Len(queue) + 1 /\ queue'[Len(queue) + 1] = c
        /\ \A i \in 1 .. Len(queue) : queue'[i] = queue[i]
    BY <2>1, AppendProperties
  <2>3. ASSUME NEW d \in Clients \ {c}, InQueue(d)' PROVE InQueue(d)
    <3>1. PICK i \in 1 .. Len(queue') : queue'[i] = d
      BY <2>3 DEF InQueue
    <3>2. i \in 1 .. Len(queue) /\ queue[i] = d
      BY <2>2, <2>3, <3>1
    <3> QED BY <3>2 DEF InQueue
  <2> QED BY <1>1, <2>1, <2>3
<1>10. ASSUME NEW c \in Clients, LooksAgain(c) PROVE OneVisitInv'
  <2>1. /\ UNCHANGED <<status, clientPid, shaves, client, queue>>
        /\ cpc[c] # "exited" /\ cpc' = [cpc EXCEPT ![c] = "out"]
    BY <1>10 DEF LooksAgain, Release
  <2> QED BY <1>1, <2>1 DEF InQueue
<1>11. ASSUME NEW c \in Clients, AnyLeaves(c) \/ AnyLeavesFull(c), OneVisit!EndVisit(c)
       PROVE  OneVisitInv'
  <2>1. /\ UNCHANGED queue /\ cpc[c] # "exited" /\ shaves[c] = 0
        /\ \A d \in Clients \ {c} : client'[d] = client[d]
        /\ client' \in [Clients -> Clients \cup {NoPid}]
        /\ \/ status' = "INVITES"
           \/ UNCHANGED <<status, clientPid>> /\ client[c] = NoPid
    BY <1>11 DEF AnyLeaves, AnyLeavesFull, Invited, Visits
  <2>2. /\ cpc' = [cpc EXCEPT ![c] = "exited"] /\ shaves' \in [Clients -> Nat]
        /\ \A d \in Clients \ {c} : shaves'[d] = shaves[d]
    BY <1>11, <2>1 DEF OneVisit!EndVisit
  <2> QED BY <1>1, <2>1, <2>2 DEF InQueue
<1> QED BY <1>2, <1>3, <1>4, <1>5, <1>6, <1>7, <1>8, <1>9, <1>10, <1>11, OneVisitIsAny DEF Keeps

\* With one visit each, the client in the chair is alive, knows that it is in the
\* shop and so will get up, for any number of clients and seats (client.c:86-122).
THEOREM OneVisitServed == ShopSpec => []OneVisitServedIsPresent
<1>1. ShopInit => (shop = "one visit" => OneVisitInv)
  <2> SUFFICES ASSUME Init PROVE OneVisitInv
    BY DEF ShopInit
  <2>1. \A c \in Clients : ~InQueue(c)
    BY DEF Init, InQueue
  <2>2. /\ status = "SLEEP" /\ shaves = [c \in Clients |-> 0]
        /\ client = [c \in Clients |-> NoPid]
    BY DEF Init
  <2> QED BY <2>1, <2>2, InitStructInv DEF OneVisitInv
<1>2. (shop = "one visit" => OneVisitInv) /\ [ShopNext]_<<vars, shop>>
         => (shop = "one visit" => OneVisitInv)'
  <2>1. OneVisitInv /\ UNCHANGED vars => OneVisitInv'
    BY StutterInv DEF OneVisitInv, InQueue, vars
  <2> QED BY <2>1, OneVisitStep DEF ShopNext
<1>3. (shop = "one visit" => OneVisitInv) => OneVisitServedIsPresent
  BY DEF OneVisitInv, OneVisitServedIsPresent, OneVisit!ServedIsPresent
<1> QED BY <1>1, <1>2, <1>3, PTL DEF ShopSpec
=============================================================================
