CONSTANTS
    w1 = w1
    w2 = w2
    Waiters = {w1, w2}
    p1 = p1
    Pollers = {p1}
    s1 = s1
    Subscribers = {s1}
    c1 = c1
    c2 = c2
    Callers = {c1, c2}
    Casts <- SmallCasts
    i1 = i1
    Ids = {i1}
    NoId = NoId
    NewId = NewId
    OutCap = 1
    MaxMessages = 2
SPECIFICATION CastSpec
INVARIANT NoWakeupLost
INVARIANT WaitingIsReal
INVARIANT InputsExactlyOnceInOrder
INVARIANT OutputsOnceInOrder
INVARIANT ArtifactCurrent
PROPERTY CloseReleases
PROPERTY InputReachesWaiter
PROPERTY WaitForInputBlocks
PROPERTY OutputReachesReader
