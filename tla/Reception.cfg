\* Three frames one after the other, one of them damaged or cut short.
CONSTANTS
    N = 2
    Payloads <- MCPayloads
    MaxFrames = 3
    MaxFaults = 1
    StaleBytes = {{}, {1, 2, 3, 4, 6}}
SPECIFICATION Spec
INVARIANTS TypeOK NoiseIsOneFault NoiseOnlyCuts WholeIsSeen ReceptionInv NoiseInv
CHECK_DEADLOCK FALSE
