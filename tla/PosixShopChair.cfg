SPECIFICATION Spec
CONSTANTS
    Clients = {p, q}
    NoPid = NoPid
    Barber = Barber
    QueueLength = 1
    NumberOfShaves = 1
    Permits = 2
INVARIANTS OneInChair
CHECK_DEADLOCK FALSE
