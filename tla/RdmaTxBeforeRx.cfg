CONSTANTS
    Program <- TwoMessages
    Mtu = 2
    AckInterval = 1
    Chunk = 4
    BackTo0 = FALSE
    NackTimer = FALSE
    Win = 0
    NoSize = 1000
    MaxLoss = 1
SPECIFICATION Spec
INVARIANT TxAfterRx
CHECK_DEADLOCK FALSE
