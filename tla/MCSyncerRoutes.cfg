CONSTANTS
    n1 = n1  n2 = n2  e1 = e1
    proxy_addr = proxy_addr  admin_addr = admin_addr
    Endpoint = {e1}
    Addr = Addr
    MaxListeners = 2
    Node = {n1, n2}
    Key <- Keys
    Value <- Values
    Empty = Empty
    leftKey = leftKey
    compactKey = compactKey
    JoinAddrs <- Pair
    CompactThreshold = 1
    MinEntries = 0
    Unstable = {}
    MaxVersion <- Writes7
    MaxPackets = 1
    MaxExpiries = 0
SPECIFICATION FairSyncSpec
PROPERTIES RoutesConverge
