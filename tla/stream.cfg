SPECIFICATION Spec
CONSTANTS
    PacketLen = 2
    Inbound = 2
    Outbound = 2
    MaxFrame = 3
    Controls = 2
    KeepAlive = 4
    MaxTime = 7
INVARIANTS PacketPerFrame IntactUnlessTorn IdleIsPinged
PROPERTIES ImplementsBytePipe
