CONSTANTS
    Conn = {c1, c2}
    MaxSessions = 3
SPECIFICATION FairSpec
CHECK_DEADLOCK FALSE
INVARIANTS ReplacedIsClosed ForwarderReleases
PROPERTIES Reconnects 
