SPECIFICATION FairSpec
CONSTANTS
    Requests = {r1, r2}
    Servers = {s1, s2}
    Limit = 1
    BlockTicks = 2
    RedisFails = TRUE
    Tasks = {t1}
    Wanted = {"db", "pub"}
INVARIANTS
    TypeOK
    WithinLimit
    NoUseAfterClose
    ReleasedInReverse
PROPERTIES
    ShutdownEnds
    BlockEnds
CHECK_DEADLOCK FALSE
