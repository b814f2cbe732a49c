SPECIFICATION Spec
CONSTANTS
    N = 2
    Retransmissions = 3
    MaxFaults = 0
    MissedAlarms = FALSE
PROPERTIES
    DiscAgainHandled
CHECK_DEADLOCK FALSE
