SPECIFICATION Spec
CONSTANTS
    QoS = 0
    Deliveries = 1
    EarlyPublish = FALSE
    PayloadSize = 8
    Foreign = {}
    Huge <- TooFar
    OtherSamples <- NoOthers
    Warmup = 0
    MaxTime = 2
    Faults = FALSE
INVARIANTS TooSmallIsNotReported
