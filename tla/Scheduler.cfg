CONSTANTS
    N = 4
    Weights = {1, 3, 4}
    CapPerChunk = 3
    NParallel = 2
SPECIFICATION MCSpec
CHECK_DEADLOCK FALSE
INVARIANT RunAtMostOnce
INVARIANT DependenciesRespected
INVARIANT InflightExact
INVARIANT NoSpuriousDeadlock
INVARIANT SuccessIsComplete
INVARIANT HeavyErrorJustified
PROPERTY Terminates
