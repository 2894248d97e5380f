SPECIFICATION ClustersSpec
CONSTANTS
    x = x
    y = y
    z = z
    anna = anna
    ben = ben
    Nodes = {x, y, z}
    Local = {y}
    Names = {anna, ben}
    NameOf <- TwoNamesake
    None = None
    NoName = NoName
    ClusterSize = 2
    MaxResults = 1
    MaxDatagrams = 3
    Fds <- Descriptors
INVARIANTS SlotsOwnDescriptors UdpSlotsComplete
PROPERTIES GoneIsRemoved
CHECK_DEADLOCK FALSE
