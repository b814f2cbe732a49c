SPECIFICATION Spec
CONSTANTS
    N = 4
    Retransmissions = 3
    MaxFaults = 2
    MissedAlarms = TRUE
INVARIANTS
    TypeOK
    DeliveredInOrder
    AckedIsDelivered
    NoFalseAck
    PhasesAgree
    LinkInv
PROPERTIES
    OnlyRejected
    ImplementsTransfer
CHECK_DEADLOCK FALSE
