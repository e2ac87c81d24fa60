CONSTANTS
    a0 = a0
    a1 = a1
    a2 = a2
    b0 = b0
    b1 = b1
    b2 = b2
    A = A
    B = B
    NoTB = NoTB
    GPU <- MCGPU
    TB <- WaitTB
    Node <- WaitNode
    Blocks <- WaitBlocks
    Steps <- WaitSteps
    Peer <- WaitPeer
SPECIFICATION Spec
INVARIANT DependencyOrder
CHECK_DEADLOCK FALSE
