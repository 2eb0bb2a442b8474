SPECIFICATION FairSpec
CONSTANTS
    u1 = u1
    u2 = u2
    r1 = r1
    r2 = r2
    e1 = e1
    Conn = {u1, u2}
    Request = {r1, r2}
    Endpoint = {e1}
    endpointID <- SameEndpoint
    GoingAway = {u1}
    Expiring = {u2}
INVARIANTS TypeOK IndexInRange OnlyServingSelected PublishedIsCurrent NeverOvercounts
PROPERTIES EachInTurn ClosedIsWithdrawn ShutdownDrains UpdatesReturn
CHECK_DEADLOCK FALSE
