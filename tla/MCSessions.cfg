SPECIFICATION MCSpec
CONSTANTS
    None = None
    Users = {u1}
    MaxFailures = 1
    Links = {l1}
    Threads = {t1, t2}
    MaxSessions = 3
CHECK_DEADLOCK FALSE
INVARIANTS
    OneLivePerChain
PROPERTY RevokedGoesAway
