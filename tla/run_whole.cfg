SPECIFICATION FairSpec
CONSTANTS
    NumPublishers = 2
    NumSubscribers = 1
    Count = 3
    Window = 1
    Interrupts = TRUE
    Faults = TRUE
    Refusals = TRUE
INVARIANTS TypeOK NeverOverCount EveryDeliveryCounted SuccessIsHonest
PROPERTIES ReportIsFinal RunEnds
