SPECIFICATION Spec
CONSTANTS
  Client <- PassivePair
  Host <- Hosts
  At <- PassivePlaces
  To <- PassivePeers
  Operators = {}
  Passive = {"passive"}
  Programs <- NoLists
  Flows <- PassiveFlows
  Sizes <- MessageSizes
  Builds <- MtpBuild
INVARIANT NoNestedLock
CHECK_DEADLOCK FALSE
