CONSTANTS
  NumRequests = 2
  Alt = {2}
  MaxServers = 2
  NumBatches = 1
  TriesPerServer <- MoreTriesAlone
  ServersToTry = 2
  CapacityMin = 1
  CapacityMax = 1
  CapacityUpStep = 1
  MaxWriteErrors = 1
  MaxReadErrors = 1
SPECIFICATION Spec
INVARIANTS NoRequestLost
PROPERTIES FirstBatchEnds
