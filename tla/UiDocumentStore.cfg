CONSTANTS
    c1 = c1
    c2 = c2
    Clients = {c1, c2}
    n1 = n1
    NodeIds = {n1}
    a = a
    Contents = {a}
    Absent = Absent
    NoDoc = NoDoc
    NoClient = NoClient
    Batches <- MCBatches
    MaxVersion = 3
SPECIFICATION StoreFairSpec
INVARIANT ServedWasCommitted
PROPERTY CacheConverges
PROPERTY CallsEnd
PROPERTY NoLostUpdate
