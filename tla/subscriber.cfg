SPECIFICATION FairSpec
CONSTANTS
    QoS = 2
    Deliveries = 2
    EarlyPublish = TRUE
    PayloadSize = 64
    Foreign <- Strangers
    Huge <- TooFar
    OtherSamples <- Others
    Warmup = 1
    MaxTime = 2
    Faults = TRUE
INVARIANTS CompletedIsCounted SamplesAreMeasured SummaryIsExact
PROPERTIES StopEndsSubscriber DeliveriesComplete
