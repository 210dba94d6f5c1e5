SPECIFICATION FairSpec
CONSTANTS
    Callers = {c1, c2}
    Ops = {"get", "set", "exists"}
    TTL = 1
    MaxLag = 1
    MaxVersion = 2
    Backends = {"env", "vault", "kubernetes"}
    Statuses = {"ok", "401", "lost"}
    Cancels = TRUE
    c1 = c1
    c2 = c2
INVARIANTS
    TypeOK
PROPERTIES
    StaleOnlyWithinLag
    GetsArrive
