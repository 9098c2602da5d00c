CONSTANTS
    j1 = j1
    j2 = j2
    j3 = j3
    w1 = w1
    w2 = w2
    k1 = k1
    NoKey = NoKey
    Jobs = {j1, j2, j3}
    Workers = {w1, w2}
    Keys = {k1}
    DedupeKey <- MCDedupeKey
    MaxAttempts = 2
    Concurrency = 1
    BatchSize = 2
    StuckAfter = 0
    JobTimeout = 1
    AttemptsMax = 1
    Backoffs = {1}
    Delays = {0, 1}
    AttemptsBound = 4
    MaxFaults = 1
SPECIFICATION MCSpec
INVARIANTS
    HandedOnce
    WithinBudget
    OneLivePerKey
PROPERTIES
    OneRunDecides
    EventuallySettled
