SPECIFICATION MCSpec
CONSTANTS
    n1 = n1
    n2 = n2
    d1 = d1
    d2 = d2
    Notes = {n1, n2}
    DedupeKeys = {k1}
    MaxSends = 2
    Deliveries = {d1, d2}
    Events = {e1, e2}
    MaxCalls = 2
    PauseAfter = 2
    Workers = {w1, w2}
    MaxCrashes = 1
    MaxRetries = 1
CHECK_DEADLOCK FALSE
INVARIANTS
    ToldByOne
PROPERTIES
    DeliverySettles
