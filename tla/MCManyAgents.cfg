SPECIFICATION ManySpec
CONSTANTS
    Node = {1, 2}
    Unit = {1, 2, 3}
    HealthEvent <- MCHealthEvent
    Interface <- OwnNames
    Sent <- MCSent
INVARIANTS AnsweredCounted CountedAtMost HealthStored
CHECK_DEADLOCK FALSE
