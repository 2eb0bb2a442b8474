CONSTANTS
    n1 = n1  n2 = n2  n3 = n3
    Node = {n1, n2, n3}
    Key = {k1}
    Value = {v1}
    Empty = Empty
    leftKey = leftKey
    compactKey = compactKey
    JoinAddrs <- Chain
    CompactThreshold = 1
    MinEntries = 1
    Unstable = {}
    MaxVersion <- Writes1
    MaxPackets = 1
    MaxExpiries = 0
SPECIFICATION FairSpec
PROPERTIES EventuallyConsistent
