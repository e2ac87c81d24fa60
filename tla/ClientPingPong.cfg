SPECIFICATION Spec
CONSTANTS
  Client <- OpClients
  Host <- Hosts
  At <- OpPlaces
  To <- OpPeers
  Operators <- OpClients
  Passive = {}
  Programs <- PingPong
  Flows <- OpFlows
  Sizes <- MessageSizes
  Builds <- BothBuilds
INVARIANT AllOperationsRun
CHECK_DEADLOCK FALSE
