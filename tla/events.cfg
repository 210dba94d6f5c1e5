SPECIFICATION FairSpec
CONSTANTS
    Messages = {1, 2}
    Instances = {i1, i2}
    NoMessage = NoMessage
    Styles = {"subscriber", "cluster", "broadcast"}
    Signers = {"shared", "other", "short", "off"}
    Prefetch = 1
    i1 = i1
    i2 = i2
CHECK_DEADLOCK FALSE
INVARIANTS
    TypeOK
    HandledOnce
PROPERTIES
    OnlyVerifiedStarts
    DeliversAtLeastOnce
    QueueDrains
