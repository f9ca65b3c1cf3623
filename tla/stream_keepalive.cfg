SPECIFICATION Spec
CONSTANTS
    PacketLen = 1
    Inbound = 4
    Outbound = 4
    MaxFrame = 1
    Controls = 0
    KeepAlive = 4
    MaxTime = 8
INVARIANTS NeverSilentTooLong
