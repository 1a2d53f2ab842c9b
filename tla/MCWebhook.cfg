SPECIFICATION FairSpec
CONSTANTS
    Worker <- MCWorker
    Nobody <- MCNobody
    Alert <- MCAlert
    Test <- MCTest
    LeaseTime = 0
    MaxAttempts = 2
    Delays <- MCDelays
    RetryAfter = 2
    MaxDelay = 0
    MaxHold = 1
    MaxSaves = 1
    MaxCrashes = 1
INVARIANTS TypeOK OneSender GaveUpRightly
PROPERTIES OutboxSpec Settled
