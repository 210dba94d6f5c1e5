SPECIFICATION Spec
CONSTANTS
    N = 2
    Publishers = {p1, p2}
    Faults = {"broker", "channel", "message"}
    StartDown = TRUE
    p1 = p1
    p2 = p2
SYMMETRY PublisherSymmetry
CHECK_DEADLOCK FALSE
INVARIANTS
    TypeOK
    FailsOnlyWithoutNode
    ClosedForGood
PROPERTIES
    OneSendPerNode
