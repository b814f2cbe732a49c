SPECIFICATION TxFairSpec
CONSTANTS
    N = 2
    Retransmissions = 3
    MaxFaults = 0
    MissedAlarms = TRUE
PROPERTIES
    UnansweredCallEnds
CHECK_DEADLOCK FALSE
