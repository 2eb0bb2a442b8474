CONSTANTS
    n1 = n1  n2 = n2  n3 = n3
    Node = {n1, n2}
    Key = {k1, k2}
    Value = {v1}
    Empty = Empty
    leftKey = leftKey
    compactKey = compactKey
    JoinAddrs <- Chain
    CompactThreshold = 1
    MinEntries = 1
    Unstable = {n1}
    MaxVersion <- Writes2
    MaxPackets = 1
    MaxExpiries = 1
SPECIFICATION FairSpec
PROPERTIES EventuallyConsistent
