CONSTANTS
    c1 = c1
    c2 = c2
    N = 2
    Class = {c1, c2}
    Pg <- SmallPg
    AckClass = c1
    TxTime = 2
    AckTime = 1
    Gaps = {2, 5}
    Win = 2
    MaxMessage = 3
    MaxAcks = 1
SPECIFICATION Spec
INVARIANT SentWhenAvailable
