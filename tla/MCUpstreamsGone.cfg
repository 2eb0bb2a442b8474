SPECIFICATION Spec
CONSTANTS
    u1 = u1
    u2 = u2
    r1 = r1
    r2 = r2
    e1 = e1
    Conn = {u1, u2}
    Request = {r1}
    Endpoint = {e1}
    endpointID <- SameEndpoint
    GoingAway = {u1}
    Expiring = {}
CHECK_DEADLOCK FALSE
INVARIANTS EndpointsCountListeners
