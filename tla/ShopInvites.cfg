SPECIFICATION Spec
CONSTANTS
    Clients = {c1, c2}
    NoPid = NoPid
    QueueLength = 1
    NumberOfShaves = 1
    EarlyClients = FALSE
INVARIANTS InvitesSomebody
