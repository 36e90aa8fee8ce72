SPECIFICATION Spec
CONSTANTS
    None = None
    Epochs = {0, 1}
    Numbers = {0, 1, 2}
    Ids = {"i"}
    max_block_size = 2
    MaxHeld = 2
CONSTRAINT Few
INVARIANTS
    SuffixNeverHandedToReth
    CommitPathSound
PROPERTIES
    LifeCycle
    OldEpochsStayClosed
CHECK_DEADLOCK FALSE
