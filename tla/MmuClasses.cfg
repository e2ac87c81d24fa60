CONSTANTS
    p1 = p1
    p2 = p2
    c1 = c1
    c2 = c2
    Port = {p1, p2}
    Class = {c1, c2}
    Size = {1, 2}
    Buffer = 13
    Reserve = 1
    Headroom <- SmallHeadroom
    Scale <- SmallScale
    ResumeOffset = 1
    PfcEnabled = TRUE
SPECIFICATION MmuSpec
INVARIANTS MmuTypeOK BufferBound Accounting PoolBound HeadroomBound PausedHolds DropOnlyAfterPause
