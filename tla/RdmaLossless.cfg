CONSTANTS
    Program <- FourMessages
    Mtu = 2
    AckInterval = 1
    Chunk = 4
    BackTo0 = FALSE
    NackTimer = FALSE
    Win = 6
    NoSize = 1000
    MaxLoss = 0
SPECIFICATION FairSpec
PROPERTIES ChannelSpec AllDelivered
CHECK_DEADLOCK FALSE
