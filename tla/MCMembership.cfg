CONSTANTS
    n1 = n1  n2 = n2  n3 = n3
    Node = {n1, n2, n3}
    Watch <- TwoObservers
    sampleSize = 2
    bootstrapInterval = 1
    suspicionThreshold = 1
    nodeExpiry = 2
    Gaps <- SlowSecond
    MayCrash = {n3}
SPECIFICATION FairSpec
CHECK_DEADLOCK FALSE
INVARIANTS MeanOfLast 
 
