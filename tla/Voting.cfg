SPECIFICATION VotingSpec
CONSTANTS
    Validators = {v1, v2, v3}
    Byzantine = {z1}
    MaxEpoch = 2
    MaxRound = 2
    Payloads = 1
    Epochs <- MCEpochs
    Rounds <- MCRounds
    Quorums <- MCQuorums
    Blocks <- MCBlocks
    Epoch <- MCEpoch
    Round <- MCRound
    Parent <- MCParent
    Ancestors <- MCAncestors
    None = None
    TimeoutRounds = {1}
    FaultyStores = {v1}
    Faults <- MCFaults
SYMMETRY Symmetry
INVARIANTS
    Agreement
    OneVotePerRound
    TimeoutsKeepOrderVotes
    MemoryMatchesDisk
    BuiltVerifies
PROPERTY
    NeverForgets
CHECK_DEADLOCK FALSE
