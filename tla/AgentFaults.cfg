SPECIFICATION Spec
CONSTANTS
    Node = {n1}
    self = n1
    Interface <- MCInterface
    Unit = {1, 2}
    HealthEvent <- MCHealthEvent
    MinuteLen = 4
    MaxAge = 1
    MaxBytes = 2
    MaxLag = 0
    MaxTime = 5
    Attempts = 2
    MaxRecords = 1
    MaxFaults = 1
INVARIANTS TypeOK NothingLost SamplesExact NoPhantomGap
