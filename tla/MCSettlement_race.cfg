CONSTANTS
    Orders = {o1}
    Items = {x1, x2}
    Sigs = {s1, s2}
    Requests = {r1, r2}
    Totals = {1, 2}
    WidthsHold = FALSE
    MaxCrashes = 1
    Assets = {a1, a2}
    Derivatives = {a1}
    Payments = {p1}
    Amounts = {1, 2}
    TransferWired = TRUE
    MaxCerts = 1
    MaxLost = 0
    None = None
SYMMETRY Symmetry
SPECIFICATION SettlementSpec
INVARIANTS LicensesArePaid SettledIsComplete LicenseIsPaid CertificatesArePaid SettledLegsWereSent
PROPERTIES ConcludedStays
CHECK_DEADLOCK FALSE
