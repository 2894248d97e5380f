SPECIFICATION FairSpec
CONSTANTS
    Producers = {p1, p2}
    Consumers = {c1, c2}
    SemValueMax = 3
    BufferLength = 2
    StringLength = 2
    SearchMode = 0
    TextLength <- FourLines
    Timed = FALSE
    Verbal = FALSE
INVARIANTS Safety JoinedMeansAllSearched
PROPERTIES Terminates ImplementsFairQueue
