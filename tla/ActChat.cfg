CONSTANTS
    w = w
    worker = w
    Waiters = {w}
    p = p
    publisher = p
    u1 = u1
    Callers = {p, u1}
    Pollers = {}
    Subscribers = {}
    Ids = {}
    NoId = NoId
    NewId = NewId
    NoNode = NoNode
    Fresh <- AnyNode
    OutCap = 1
    MaxTurns = 1
    MaxInputs = 1
    MaxMessages = 3
SPECIFICATION ChatFairSpec
INVARIANT TimelineSound
INVARIANT TimelineLossExplained
PROPERTY StatusLapseExplained
PROPERTY ChatEnds
