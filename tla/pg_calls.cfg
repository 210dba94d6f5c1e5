SPECIFICATION Spec
CONSTANTS
    N = 2
    Callers = {c1}
    Admins = {a1}
    Ops = {"reader"}
    ServerStates = {"up", "refusing"}
    StartStates = {"up", "refusing"}
    MaxChecks = 1
    c1 = c1
    a1 = a1
CHECK_DEADLOCK FALSE
INVARIANTS
    TypeOK
    HealthyHasPool
    ClosedMeansReleased
    OneWriterPerCall
