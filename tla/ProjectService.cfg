CONSTANTS
    c1 = c1
    c2 = c2
    Clients = {c1, c2}
    a = a
    b = b
    n = n
    Projects = {a, b, n}
    MaxCalls = 3
    None = None
SPECIFICATION Spec
SYMMETRY Symmetry
INVARIANT OneActiveExplained
PROPERTY SelectionWins
