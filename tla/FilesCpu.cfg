SPECIFICATION FilesSpec
CONSTANTS
    Widths = {2, 5}
    Heights = {1, 2}
    ThreadCounts = {0, 2, 3}
    Image <- MCImage
    FILTER_SIZE = 3
    FILTER <- MCFILTER
    Unit = 10
    Bytes = {1, 200}
    RecordSizes = {1, 2}
    BufferSizes = {1, 3}
    MaxBytes = 6
    MaxCommands = 3
    Memories <- MCMemories
    PowerUp = {0, 255}
INVARIANTS SeesFilteredImage RecordsKept
PROPERTIES FilterEndsOrSpins ImplementsIsa
CHECK_DEADLOCK FALSE
