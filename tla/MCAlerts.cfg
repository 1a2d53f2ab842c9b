SPECIFICATION FairSpec
CONSTANTS
    Server <- MCServer
    Rules = 1
    Nodes = 2
    Object <- MCObject
    Severity = {1, 2}
    MaxEdits = 1
    MaxChanges = 2
    MaxFails = 1
INVARIANTS Told EditsStay
PROPERTY Converges
