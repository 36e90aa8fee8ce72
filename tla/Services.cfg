SPECIFICATION ServicesSpec
CONSTANTS
  Callers = {1}
  MaxNonce = 4
  MaxFaults = 2
  d1 = d1 d2 = d2 t1 = t1 t2 = t2
  Comps = {"generator", "proofs", "batches", "mempool", "payload", "payload_tasks", "shuffle", "observer", "monitors", "sentinel", "relayer"}
  Deployments = {{"withdrawal"}, {"timeout"}, {"owner"}, {"timelock"}, {"vault"}}
INVARIANTS
  
  NothingSkipped
  
  ShuffleSound
  
  
  NoEventDropped
CHECK_DEADLOCK FALSE
SYMMETRY Symmetry
