SPECIFICATION MCSpec
CONSTANTS
    Nil = Nil
    e1 = e1
    x1 = x1
    o1 = o1
    a1 = a1
    Franchise = f
    Earnings = {e1}
    Amount <- Pays2
    EarnedOn <- Day1
    MaxRaises = 1
    MaxStatements = 2
    Periods <- DailyOrBoth
    Collections = {x1}
    Collected <- Took1
    CollectedOn <- Day2
    Holdings = {o1}
    CashHeld <- Holds1
    HeldOn <- OnDay1
    Adjustments = {a1}
    AdjAmounts <- Credits
    Incentives = {}
    WithholdingBp = 0
    s1 = s1
    s2 = s2
    c1 = c1
    c2 = c2
    k1 = k1
    k2 = k2
    Customer = customer
    Shipments = {s1, s2}
    Charge <- Two
    BillingPeriods <- FirstOrBoth
    TaxBp = 5000
    MaxInvoices = 2
    Years = {2026, 2027}
    Clerks = {c1, c2}
    References = {r1}
    Notes = {k1, k2}
    NoteTax = 1
    MaxAmount = 3
    Slack = 1
SYMMETRY Symmetric
CHECK_DEADLOCK FALSE
INVARIANTS
    OnOneStatement
    LedgerAgrees
    BilledOnce
    BooksMatchDocuments
PROPERTIES
    AgreedStaysAgreed
