SPECIFICATION FairSpec
CONSTANTS
  Observers = {"a", "b"}
  Publishers = {"v"}
  None = "none"
  Topologies <- MCTopologies
  MaxFaults = 1
PROPERTIES SubscriptionsSettle
CHECK_DEADLOCK FALSE
