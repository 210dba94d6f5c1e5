SPECIFICATION FairSpec
CONSTANTS
    N = 3
    Strategies = {"query", "probe", "dns"}
    IpNodes = {1, 2}
    HostNodes = {3}
    Walkers = {task, forced}
    Setters = {s1}
    MaxInFlight = 1
    MaxFailovers = 1
    MaxOutages = 1
    MaxLosses = 1
    MaxSets = 1
    task = task
    forced = forced
    s1 = s1
CHECK_DEADLOCK FALSE
INVARIANTS
    TypeOK
    PriorityTracksRole
    WriterWasTrusted
PROPERTIES
    RolesSettle
