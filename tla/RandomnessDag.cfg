SPECIFICATION RandomnessDagSpec
CONSTANTS
  Validator = {"a", "h", "i", "b"}
  Faulty = {"b"}
  Broadcaster = {"a", "b"}
  MaxKeys = 2
  QuorumPower = 3
  MaxEpoch = 1
  MaxCrashes = 1
  Comps = {"aug", "rand", "order", "driver", "fetch"}
INVARIANTS
  
  SharesVerify
  
  DagOrderSound
CHECK_DEADLOCK FALSE
