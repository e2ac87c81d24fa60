CONSTANTS
    a0 = a0
    a1 = a1
    a2 = a2
    b0 = b0
    b1 = b1
    b2 = b2
    A = A
    B = B
    NoTB = NoTB
    GPU <- MCGPU
    TB <- MCTB
    Node <- MCNode
    Blocks <- MCBlocks
    Steps <- MCSteps
    Peer <- MCPeer
SPECIFICATION FairSpec
INVARIANTS TypeOK DependencyOrder NoCrash QpIdleWhenFinished
PROPERTIES Completes ConsumedWhileWaiting
CHECK_DEADLOCK FALSE
