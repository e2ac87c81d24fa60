CONSTANTS
    Port = {1, 2}
    Class = {1, 2}
    Size = {1}
    Buffer = 4
    Reserve = 0
    Headroom <- SmallHeadroom
    Scale <- SmallScale
    ResumeOffset = 1
    PfcEnabled = TRUE
    QCnt = 3
    Flow <- SmallFlow
    Flight = 1
    MaxFrames = 2
    MaxDisturbances = 1
SPECIFICATION SpSpec
INVARIANTS QueuesCharged NoIdlePort StartsWhenReady FramesAlternate
