SPECIFICATION ShopSpec
CONSTANTS
    Clients = {c1, c2, c3}
    NoPid = NoPid
    QueueLength = 2
    NumberOfShaves = 2
    EarlyClients = TRUE
INVARIANTS MutualExclusion SeatsSafe LateChairNamed OneVisitServedIsPresent
PROPERTIES ChairKept ImplementsWaitingRoom LateServedOrChairLost NoRoomAllFinish
