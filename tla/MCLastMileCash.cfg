SPECIFICATION MCSpec
CONSTANTS
    Shipments = {s1}
    Units = {o, d}
    Users = {a1, a2}
    Bags = {}
    Manifests = {}
    Trips = {}
    Nil = Nil
    Origin = o
    Dest = d
    BookingUnits = {}
    Overrides = {FALSE}
    Route <- ToDest
    ReturnBranch <- NoReturnBranch
    Lanes <- NoLanes
    Reasons <- Seeded
    MaxAttempts = 2
    Runs = {r1, r2}
    RunBranches = {d}
    Managers = {a2}
    CodParcels = {s1}
    OtpMax = 1
    MaxGuesses = 1
    Submitters = {c1}
SYMMETRY Symmetric
CHECK_DEADLOCK FALSE
INVARIANT CashHasOwner
