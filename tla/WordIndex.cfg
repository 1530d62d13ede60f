CONSTANTS
    r = r
    a = a
    b = b
    c = c
    e = e
    f = f
    g = g
    None = None
    Root = r
    Dirs = {r, a, b}
    Files = {f, g}
    Trees <- SmallTrees
    Options <- ScanModes
    Limit = 2
    MaxScans = 2
    Workers = {w1, w2}
    Wanted = {f}
    TaskCap = 1
    Roots = 2
SPECIFICATION FairSpec
CHECK_DEADLOCK FALSE
INVARIANT EveryEntryOnce
INVARIANT NothingAfterReturn
INVARIANT IndexComplete
PROPERTY IndexingEnds
