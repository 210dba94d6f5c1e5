SPECIFICATION Spec
CONSTANTS
    N = 2
    Callers = {c1}
    MaxRetries = 1
    Threshold = 2
    Faults = {"server", "command", "cancel"}
    Markable = {2}
    c1 = c1
SYMMETRY CallerSymmetry
CHECK_DEADLOCK FALSE
INVARIANTS
    TypeOK
    UnavailableOnlyWithoutNode
    RotationHasClient
PROPERTIES
    OneAttemptPerNode
