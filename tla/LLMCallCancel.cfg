CONSTANTS
    c1 = c1
    c2 = c2
    rps = rps
    tpm = tpm
    broker = broker
    Callers = {c1, c2}
    k1 = k1
    k2 = k2
    Chunks = {k1}
    NoChunk = NoChunk
    ChunkOf <- ChunkOne
    Limiters = {rps, tpm, broker}
    BrokerLimiter = broker
    Want = 1
    MaxAttempts = 2
    Burst <- MCBurst
    Profiles <- MCProfiles
SPECIFICATION Spec
PROPERTY StopsWhenCancelled
