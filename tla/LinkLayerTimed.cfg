SPECIFICATION TimedSpec
CONSTANTS
    N = 2
    Retransmissions = 6
    MaxFaults = 3
    MissedAlarms = FALSE
    Timeout = 2
    Skew = 3
    Faulty = {"lost", "header", "payload"}
INVARIANTS
    TimedTypeOK
    TimeIsTimeouts
    FramesAddUp
    CountsAreFaults
    TimedInv
PROPERTIES
    SurvivesFaults
CHECK_DEADLOCK FALSE
