SPECIFICATION TimedSpec
CONSTANTS
    N = 1
    Retransmissions = 3
    MaxFaults = 1
    MissedAlarms = FALSE
    Timeout = 1
    Skew = 1
    Faulty = {"payload"}
INVARIANTS
    TimeoutsDoNotOccur
CHECK_DEADLOCK FALSE
