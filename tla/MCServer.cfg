CONSTANTS
    Threshold = TRUE
    retries = 5
SPECIFICATION FairSpec
CHECK_DEADLOCK FALSE
INVARIANTS ReadyServes FatalIsFailure
PROPERTIES FailureStops SignalStops
