SPECIFICATION FairSpec
CONSTANTS
    N = 1
    Callers = {c1}
    Admins = {a1}
    Ops = {"reader"}
    ServerStates = {"up", "flaky"}
    StartStates = {"up"}
    MaxChecks = 1
    c1 = c1
    a1 = a1
PROPERTIES
    AdminReturns
