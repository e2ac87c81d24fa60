SPECIFICATION Spec
CONSTANTS
  Client <- Clients
  Host <- Hosts
  At <- Places
  To <- Peers
  Operators <- OpClients
  Passive <- PassiveClients
  Programs <- Lists
  Flows <- FlowCounts
  Sizes <- MessageSizes
  Builds <- BothBuilds
INVARIANTS TypeOK NoFailure SendDoneMeansReceived EachRecvOneMessage EndsAgree NoLostWakeup
INVARIANTS RunsToTheEnd
CHECK_DEADLOCK FALSE
