CONSTANTS
    r = r
    a = a
    b = b
    c = c
    e = e
    f = f
    g = g
    w1 = w1
    w2 = w2
    None = None
    Root = r
    Dirs = {r, a, b, c, e}
    Files = {f}
    Trees <- TwinTree
    Options <- FullScan
    Limit = 2
    MaxScans = 1
    Workers = {w1}
    Wanted = {f}
    TaskCap = 1
    Roots = 1
SPECIFICATION FairSpec
CHECK_DEADLOCK FALSE
PROPERTY IndexAlwaysEnds
