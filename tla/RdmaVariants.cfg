CONSTANTS
    Program <- AlignedMessages
    Mtu = 2
    AckInterval = 3
    Chunk = 4
    BackTo0 = TRUE
    NackTimer = TRUE
    Win = 8
    NoSize = 1000
    MaxLoss = 2
SPECIFICATION Spec
INVARIANTS AckedWasTaken NoEmptyCompletion
CHECK_DEADLOCK FALSE
