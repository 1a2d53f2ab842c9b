SPECIFICATION FairSpec
CONSTANTS
    Inode = {i1, i2, i3}
    None = None
    Malformed = {1}
    MaxLines = 2
    MaxResets = 2
    MaxFaults = 1
INVARIANTS TypeOK AtMostOnce HealthTold
PROPERTIES  Found
