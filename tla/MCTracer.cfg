SPECIFICATION FairSpec
CONSTANTS
    Thread = {t1, t2}
    Process <- MCProcess
    Sock <- MCSock
    Protocol <- MCProtocol
    Family <- MCFamily
    Peer = {p1}
    NoPeer = NoPeer
    Copied <- MCCopied
    MaxEntries = 1
    RingSize = 1
    ChannelSize = 1
    MaxConnections = 1
    MaxInt64 = 2
    MaxCalls = 2
    MaxMisses = 1
INVARIANTS TypeOK SnapshotOfItsCall SavedUntilReturn SubmittedOnce TotalsExact
PROPERTY Settles
