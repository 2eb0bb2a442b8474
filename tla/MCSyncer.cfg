CONSTANTS
    n1 = n1  n2 = n2  e1 = e1
    proxy_addr = proxy_addr  admin_addr = admin_addr
    Endpoint = {e1}
    Addr = Addr
    MaxListeners = 1
    Node = {n1, n2}
    Key <- Keys
    Value <- Values
    Empty = Empty
    leftKey = leftKey
    compactKey = compactKey
    JoinAddrs <- Pair
    CompactThreshold = 1
    MinEntries = 0
    Unstable = {n1}
    MaxVersion <- Writes8
    MaxPackets = 1
    MaxExpiries = 1
SPECIFICATION SyncSpec
INVARIANTS ClusterMatchesGossip PendingLacksAddress RoutesAgree DeadNodesExpire
PROPERTIES ImplementsReplicas
