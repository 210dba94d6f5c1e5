SPECIFICATION FairSpec
CONSTANTS
    N = 1
    Callers = {c1}
    Admins = {a1}
    Ops = {"writer", "stats", "health"}
    ServerStates = {"up", "slow", "flaky"}
    StartStates = {"up", "slow"}
    MaxChecks = 1
    c1 = c1
    a1 = a1
PROPERTIES
    EveryCallReturns
    NodesRecover
