SPECIFICATION ServersSpec
CONSTANTS
    Clients = {p, q, r}
    NoQueue = NoQueue
    Keys <- OwnKeys
    KeyOf <- OwnKey
    MaxRequests = 3
    Room = 2
    Descriptors = 5
    Callers = {p, q}
    Names = {n1, n2}
    Locations = {l1, l2}
    Times = {t1}
    Types = {PM10}
    ExportAll = TRUE
    MaxMailbox = 2
INVARIANTS MonitorConsistent
PROPERTIES ImplementsRequestReply QueuedIsAnswered PosixImplementsRequestReply PosixAnsweredUntilEnd
CHECK_DEADLOCK FALSE
