SPECIFICATION FairSpec
CONSTANTS
    QoS = 2
    Quota = 2
    Inflight = 1
    ReceiveMaximum <- None
    MaxId = 3
    Paced = FALSE
    Codes <- Success
    Faults <- NoFaults
    Timeouts = FALSE
    SocketRoom = 2
    MaxStray = 0
PROPERTIES PubrecIsAnswered
