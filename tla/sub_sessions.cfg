SPECIFICATION FairSpec
CONSTANTS
    QoS = 2
    Counts <- SomeCounts
    Ceilings <- SomeCeilings
    Absent <- NotGiven
    Messages = 2
    MaxRuns = 2
    Persistent = TRUE
    V5 = FALSE
    Retained = TRUE
    Refusals = TRUE
    Faults = TRUE
    StdoutFaults = TRUE
    Crashes = TRUE
INVARIANTS CompletedIsPrinted LimitIsExact
PROPERTIES DeliveredIsPrinted ReplyIsPrinted
