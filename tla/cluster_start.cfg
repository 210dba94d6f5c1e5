SPECIFICATION StartFairSpec
CONSTANTS
    Packages = {"pg", "redis", "amqp"}
    Slots = 3
    Width = 10
    Second = 4
    Counts = {0, 2, 9, 50}
    Durations = {0, 3, 16, 200, 420}
    Unset = Unset
CHECK_DEADLOCK FALSE
INVARIANTS
    StartTypeOK
    RunsAsConfigured
    WaitsBounded
PROPERTIES
    ShutdownEnds
