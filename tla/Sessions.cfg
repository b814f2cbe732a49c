SPECIFICATION SessionsSpec
CONSTANTS
    N = 2
    Retransmissions = 2
    MaxFaults = 1
    MissedAlarms = FALSE
    Lines = 2
    MaxKills = 2
INVARIANTS
    SessionsTypeOK
    OneSource
    SuccessIsReceived
    InStep
    SessionsInv
PROPERTIES
    TxReturns
    RxReturns
CHECK_DEADLOCK FALSE
