SPECIFICATION Spec
CONSTANTS
    Writer = {w1, w2}
    Relay = {r1, r2}
    Nobody = Nobody
    BatchSize = 2
    MaxDeliver = 2
    MaxEvents = 3
    MaxUpsets = 1
\* Every event may have arrived.
CHECK_DEADLOCK FALSE
INVARIANTS
    NothingIsSilentlyDropped
