SPECIFICATION CodSpec
CONSTANTS
    o1 = o1
    o2 = o2
    a1 = a1
    a2 = a2
    b1 = b1
    f1 = f1
    t1 = t1
    t2 = t2
    r1 = r1
    r2 = r2
    m1 = m1
    m2 = m2
    Nil = Nil
    HeadOffice = HeadOffice
    Obligations = {o1, o2}
    Agents = {a1, a2}
    Branches = {b1}
    Franchises = {}
    Transfers = {t1, t2}
    Reconciliations = {r1}
    Remittances = {m1, m2}
    Amounts = {1}
    Counts = {1}
    MaxCounting = 1
SYMMETRY MCSymmetry
CHECK_DEADLOCK FALSE
INVARIANTS
    CustodyMatchesStatus
    RemittedInFull
    ConfirmedMeansRemitted
PROPERTIES
    TransferFromHolder
    CashSpec
