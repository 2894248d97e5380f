SPECIFICATION PatientSpec
CONSTANTS
    Producers = {p1, p2}
    Consumers = {c1, c2}
    SemValueMax = 2
    BufferLength = 2
    StringLength = 2
    SearchMode = 1
    TextLength <- ThreeLines
    Timed = TRUE
    Verbal = TRUE
INVARIANTS Safety
PROPERTIES TornStaysLocked ImplementsQueue PollingDelivers
