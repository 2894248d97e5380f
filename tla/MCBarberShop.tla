----------------------------- MODULE MCBarberShop -----------------------------
(* Four shops for TLC, side by side: which one a behaviour is of is chosen at *)
(* its start.  Clients may start early; or they start late; or make one visit *)
(* only; or find no waiting room.  The fairness of BarberShop is needed where *)
(* something must happen.                                                     *)
EXTENDS BarberShop

VARIABLE shop

Late     == INSTANCE BarberShop WITH EarlyClients <- FALSE
OneVisit == INSTANCE BarberShop WITH EarlyClients <- FALSE, NumberOfShaves <- 1
NoRoom   == INSTANCE BarberShop WITH EarlyClients <- FALSE, QueueLength <- 0

ShopInit == Init /\ shop \in {"early", "late", "one visit", "no room"}

ShopNext ==
    /\ \/ shop = "early" /\ Next
       \/ shop = "late" /\ Late!Next
       \/ shop = "one visit" /\ OneVisit!Next
       \/ shop = "no room" /\ NoRoom!Next
    /\ shop' = shop

ShopSpec ==
    /\ ShopInit /\ [][ShopNext]_<<vars, shop>>
    /\ shop = "late" => Late!Fairness
    /\ shop = "no room" => NoRoom!Fairness

\* With late clients the struct names a client exactly while the chair is
\* somebody's (client.c:76-77, :110-114).
LateChairNamed == shop = "late" => Late!ChairNamed

\* With late clients nothing but a chair reserved for a client that has gone
\* keeps the shop from serving everybody (client.c:123).
LateServedOrChairLost == shop = "late" => Late!AllServedOrChairLost

\* With one visit each, whoever is in the chair has not left (client.c:86-122).
OneVisitServedIsPresent == shop = "one visit" => OneVisit!ServedIsPresent

\* Without a waiting room every client finishes (client.c:125-133).
NoRoomAllFinish == shop = "no room" => NoRoom!NoRoomNoWait
===============================================================================
