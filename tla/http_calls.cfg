SPECIFICATION FairSpec
CONSTANTS
    Clients = {c1, c2}
    MaxFailures = 2
    MaxRetries = 1
    Outcomes = {"ok", "client", "other", "down", "local", "cancel"}
    Callers = {"nobody", "svckit", "w3c", "legacy"}
    Absent = Absent
    c1 = c1
    c2 = c2
INVARIANTS
    TypeOK
    TripsOnlyAfterMax
    TraceFollowsCalls
PROPERTIES
    RecoversWithPeer
