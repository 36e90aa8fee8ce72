SPECIFICATION ServicesSpec
CONSTANTS
  Callers = {1}
  MaxNonce = 4
  MaxFaults = 2
  d1 = d1 d2 = d2 t1 = t1 t2 = t2
  Comps = {"monitors"}
  Deployments = {{"withdrawal", "timelock"}}
INVARIANTS
  OwnershipReported
CHECK_DEADLOCK FALSE
