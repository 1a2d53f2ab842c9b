SPECIFICATION FairSpec
CONSTANTS
    Unit <- MCUnit
    Node <- MCNode
    DayLen = 2
    Retention <- MCRetention
    MaxDays = 5
    MaxLate = 2
    MaxChanges = 1
INVARIANTS TypeOK Counted
PROPERTIES HoursKept Cleaned
