CONSTANTS
    c1 = c1
    c2 = c2
    c3 = c3
    k1 = k1
    p1 = p1
    p2 = p2
    Clients = {c1, c2, c3}
    Keys = {k1}
    Payloads = {p1, p2}
    KeyOf <- OneKey
    Payload <- TwoBodies
    NoOne = NoOne
    StaleAfter = 2
    RequestTimeout = 1
    ReleaseTimeout = 1
    TTL = 4
    MaxFaults = 2
SPECIFICATION FairSpec
INVARIANTS
    AtMostOnce
    OneAnswer
PROPERTIES
    EventuallyAnswered
