SPECIFICATION ClientSpec
CONSTANTS
    QoS = 1
    Quota = 3
    Inflight = 2
    ReceiveMaximum <- None
    MaxId = 2
    Paced = TRUE
    Codes <- AnyCode
    Faults <- AnyFault
    Timeouts = TRUE
    SocketRoom = 2
    MaxStray = 1
INVARIANTS WindowBounded
PROPERTIES StopEndsPublisher LossEndsPublisher CountRunCompletes
