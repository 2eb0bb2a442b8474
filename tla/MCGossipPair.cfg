CONSTANTS
    n1 = n1  n2 = n2  n3 = n3
    Node = {n1, n2}
    Key = {k1}
    Value = {v1}
    Empty = Empty
    leftKey = leftKey
    compactKey = compactKey
    JoinAddrs <- Chain
    CompactThreshold = 1
    MinEntries = 0
    Unstable = {}
    MaxVersion <- Writes5
    MaxPackets = 2
    MaxExpiries = 0
SPECIFICATION Spec
INVARIANTS TypeOK NothingSkipped StaleIsBehind Agreement VersionNamesWrite CatchesUp
PROPERTIES ViewsAdvance
