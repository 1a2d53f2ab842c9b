SPECIFICATION FairSpec
CONSTANTS
    Server <- MCServer
    Nobody <- MCNobody
    JobCount = 1
    leaseDuration = 6
    Interval = 2
    MaxDelay = 1
    MaxMissed = 2
    MaxCrashes = 1
INVARIANTS TypeOK OneRunner
PROPERTIES LeaseRespected JobsRun
