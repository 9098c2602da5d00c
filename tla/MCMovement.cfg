SPECIFICATION MCSpec
CONSTANTS
    Shipments = {s1}
    Units = {o, h, d}
    Users = {}
    Bags = {b1}
    Manifests = {m1}
    Trips = {t1}
    Nil = Nil
    Origin = o
    Hub = h
    Dest = d
    BookingUnits = {o, Nil}
    MaxShipments = 1
    Overrides = {TRUE, FALSE}
    Route <- HubRoute
    ReturnBranch <- NoReturnBranch
    Lanes <- ViaHub
CHECK_DEADLOCK FALSE
INVARIANTS
    BagsTravelWithManifest
    BagsTruthful
    OneHolder
PROPERTIES
    HeldNotDispatched
    ReturnsGoBack
    CustodySpec
