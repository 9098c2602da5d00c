SPECIFICATION MCSpec
CONSTANTS
    Nil = Nil
    s1 = s1
    s2 = s2
    c1 = c1
    c2 = c2
    Branch = B
    Desk = D
    Shipments = {s1, s2}
    Units = {B, D}
    Users = {u1}
    Bags = {}
    Manifests = {}
    Trips = {}
    Route <- FromBranch
    BookingUnits = {B}
    Lanes <- NoLanes
    Overrides = {FALSE}
    Requests = {r1, r2}
    Assignments = {a1, a2}
    Runs = {k1}
    Events = {ev}
    PickupTypes = {"ON_DEMAND"}
    MaxTries = 2
    MaxVisits = 2
    Customers = {c1, c2}
    Limits = {3}
    Orders <- TwoOrders
    Editors = {e1, e2}
    MaxAWB = 2
    MaxMinor = 5
    MaxTariffs = 2
    MaxEdits = 2
    MaxAdmin = 1
    CreditChanges = {"BLOCKED"}
    StatusChanges = {"SUSPENDED"}
SYMMETRY Symmetric
CHECK_DEADLOCK FALSE
INVARIANTS
    CreditBacked
    CollectedOnce
PROPERTIES
    NoLostCorrection
