SPECIFICATION Spec
CONSTANTS
    Unit = {u1, u2}
    HealthEvent = {h1}
    MinuteLen = 3
    MaxAge = 1
    MaxBytes = 2
    MaxLag = 1
    MaxTime = 5
SYMMETRY Symmetry
INVARIANTS TypeOK Durable SummaryExact LimitsEnforced
CHECK_DEADLOCK FALSE
