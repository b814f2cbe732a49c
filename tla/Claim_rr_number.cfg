SPECIFICATION Spec
CONSTANTS
    N = 2
    Retransmissions = 3
    MaxFaults = 1
    MissedAlarms = FALSE
PROPERTIES
    RRNumber
CHECK_DEADLOCK FALSE
