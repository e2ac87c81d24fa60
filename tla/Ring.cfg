CONSTANTS
    r0 = r0
    r1 = r1
    r2 = r2
    NoTB = NoTB
    GPU <- RingGPU
    TB <- RingTB
    Node <- RingNode
    Blocks <- RingBlocks
    Steps <- RingSteps
    Peer <- RingPeer
    MinGap = 4
SPECIFICATION TimedSpec
INVARIANTS OneCompletion SendsFollowProgram
PROPERTY ConsumedWhileWaiting
CHECK_DEADLOCK FALSE
