SPECIFICATION MCSpec
CONSTANTS
    Subjects = {"bag", "manifest"}
    BagSubjects = {"bag"}
    Declared <- MCDeclared
    Barcodes = {"c1", "c2", "c3"}
    Known = {"c1", "c2"}
    Counts = {"r1"}
    MaxExceptions = 2
    Pins = {"p1", "p2"}
    Zones = {"z1"}
    Imports = {"pins", "zones"}
    ImportType <- MCImportType
    FileRows <- MCFileRows
    StagingBatch = 2
    BatchSize = 2
    MaxAttempts = 2
    Handlers = {"w1", "w2"}
    Readers = {"r1"}
    Units = {"h1", "h2", "b1", "b2"}
    UnitType <- MCUnitType
    Regions = {"g1"}
    Franchises = {"f1"}
    Agreements = {"a1"}
    Admins = {"m1", "m2"}
    NoUnit = NoUnit
    Products = {"express"}
    Places = {"p1", "p2"}
    Unlisted = "nowhere"
    AreaForms <- MCAreaForms
    RuleForms <- MCRuleForms
    RouteForms <- MCRouteForms
    OverrideForms <- MCOverrideForms
    ClosureForms <- MCClosureForms
    MaxRows = 2
    Lanes <- MCLanes
    Asks = {"q1"}
    Cards = {"retail", "acme"}
    CardForm <- MCCardForm
    Dates = {1, 2, 3}
    MaxVersions = 3
    RateForms <- MCRateForms
    SlabForms <- MCSlabForms
    SurchargeForms <- MCSurchargeForms
    DiscountForms <- MCDiscountForms
    TaxForms <- MCTaxForms
    StateRates <- MCStateRates
    MaxRowsOf = 4
    Parcels <- MCParcels
    Rounding = 500
    Divisor = 5000
    MinWeight = 500
    InsuranceAllowed = TRUE
    InsurableUpTo = 50000
    MaxEdits = 2
CHECK_DEADLOCK FALSE
INVARIANTS
    DifferencesOwned
    ImportResumable
    PlanHonoursClosures
    PricedInFull
PROPERTY StaleFormRefused
