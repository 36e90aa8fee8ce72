SPECIFICATION ConsensusSpec
CONSTANTS
  ValidatorIn = {1, 2}
  Peer = {"p"}
  MaxEpoch = 3
  MaxInFlight = 2
  MaxFaults = 1
  QueueCap = 10
  Nothing = Nothing
  Comps = {"store"}
  Batching = FALSE
INVARIANTS
  EpochRootRecoverable
CHECK_DEADLOCK FALSE
