SPECIFICATION Spec
CONSTANTS
    CommandLines <- Tried
    BenchTasks = {c1, c2}
    MaxEdits = 1
INVARIANTS ConnectIsSound PeerIsVerified PlaintextIsWarned NoDoomedDial
