SPECIFICATION ConsensusSpec
CONSTANTS
  ValidatorIn = {1, 2}
  Peer = {"p"}
  MaxEpoch = 3
  MaxInFlight = 2
  MaxFaults = 1
  QueueCap = 10
  Nothing = Nothing
  Comps = {"store", "store_chain", "sync", "rounds", "rounds_long", "election", "changes", "resets", "epochs"}
  Batching = FALSE
INVARIANTS
  
  EpochsKeptApart
  ChangeNotStuck
  SyncSound
  RoundsSound
  NoRoundStuck
  ElectionSound
  PipelineSound
PROPERTIES
  ImplementsLedger
CHECK_DEADLOCK FALSE
