SPECIFICATION FairSpec
CONSTANTS
    MaxEpoch = 2
    MaxNumber = 2
    Epochs <- MCEpochs
    Numbers <- MCNumbers
    Ids <- MCIds
    None = None
    max_block_size = 1
INVARIANTS
    CommitInfoMatchesExecution
    ChangeReleasedThenConsumed
PROPERTIES
    ImplementsLedger
    
    ExecutedIsCommitted
    
