SPECIFICATION Spec
CONSTANTS
    N = 2
    Retransmissions = 3
    MaxFaults = 0
    MissedAlarms = FALSE
PROPERTIES
    SetAnswered
CHECK_DEADLOCK FALSE
