CONSTANTS
    Cap = 2
    MaxPushes = 4
SPECIFICATION FairSpec
CHECK_DEADLOCK FALSE
INVARIANT SubscribedFirst
INVARIANT WireInOrder
PROPERTY ImplementsLossyChannel
PROPERTY HandlerEnds
