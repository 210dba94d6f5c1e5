SPECIFICATION FairSpec
CONSTANTS
    N = 1
    Callers = {}
    Admins = {}
    Ops = {}
    ServerStates = {"up", "refusing"}
    StartStates = {"up"}
    MaxChecks = 1
PROPERTIES
    NodesRecover
