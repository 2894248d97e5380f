SPECIFICATION PatientSpec
CONSTANTS
    Producers = {p1, p2}
    Consumers = {c1, c2}
    NoThread = NoThread
    BufferLength = 1
    StringLength = 2
    SearchMode = 1
    TextLength <- ThreeLines
    Timed = TRUE
    Verbal = TRUE
INVARIANTS Safety
PROPERTIES TornStaysLocked ImplementsQueue PollingDelivers
