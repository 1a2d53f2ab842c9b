SPECIFICATION ManySpec
CONSTANTS
    Node = {1, 2}
    Unit = {1, 2, 3}
    HealthEvent <- MCHealthEvent
    Interface <- SameName
    Sent <- MCSent
INVARIANT AnsweredCounted
CHECK_DEADLOCK FALSE
