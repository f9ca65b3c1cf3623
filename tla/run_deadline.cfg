SPECIFICATION Spec
CONSTANTS
    NumPublishers = 1
    NumSubscribers = 1
    Count = 2
    Window = 1
    Interrupts = TRUE
    Faults = FALSE
    Refusals = FALSE
INVARIANTS DrainBeforeStop
