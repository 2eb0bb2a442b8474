CONSTANTS
    Conn = {c1}
    MaxSessions = 2
SPECIFICATION FairSpec
CHECK_DEADLOCK FALSE
PROPERTIES CloseStops
