SPECIFICATION FairSpec
CONSTANTS
    QoS = 2
    Lines = 3
    MaxRuns = 3
    MaxId = 2
    Codes <- AnyCode
    Crashes = TRUE
    Faults = TRUE
INVARIANTS TypeOK ConfirmedIsAccepted HandshakeFinishes
PROPERTIES RunEnds
