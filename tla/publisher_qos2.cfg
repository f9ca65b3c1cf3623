SPECIFICATION Spec
CONSTANTS
    QoS = 2
    Quota = 6
    Inflight = 3
    ReceiveMaximum <- Some2
    MaxId = 4
    Paced = FALSE
    Codes <- AnyCode
    Faults <- AnyFault
    Timeouts = TRUE
    SocketRoom = 4
    MaxStray = 0
INVARIANTS TypeOK WindowConserved NoIdCollision ReceiveMaximumRespected AckMeansAccepted Accounting PubrelAnswersPubrec PublishedCoversAccepted
PROPERTIES ImplementsAckWindow
