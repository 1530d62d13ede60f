CONSTANTS
    r1 = r1
    r2 = r2
    Slots = {r1, r2}
    up = up
    down = down
    Workers = {up, down}
    Requires <- MCRequires
    Versioned = {up}
    x = x
    y = y
    z = z
    n = n
    p = p
    Params <- MCParams
    Texts <- MCTexts
    NoWorker = NoWorker
    Missing = Missing
    Empty = Empty
    Torn = Torn
SPECIFICATION Spec
INVARIANT InputsAreOutputs
INVARIANT CacheSound
INVARIANT StoredIsResult
SYMMETRY MCSymmetry
