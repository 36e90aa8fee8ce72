CONSTANTS
    None = None
    Author = me
    Peers = {p1, p2}
    Faulty = {p2}
    Quorum = 2
    MaxRound = 2
    Reconfig = None
    OtherIds = {}
    ConsensusAlpha = TRUE
    MaxBacklog = 1
    MaxPendingRounds = 3
    MaxPendingProofs = 1
    MaxCachedIds = 1
    MaxRequests = 3
    Faults = {"timeout", "signing"}
SPECIFICATION FairSpec
INVARIANTS
    NoPanic
    BufferSound
PROPERTIES
    OrderedIsCommitted
