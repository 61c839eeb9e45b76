CONSTANTS
    Prices = {1, 2}
    Deals = {d1}
    Sigs = {s1, s2}
    MaxEdits = 1
    Limit = 1
    MaxTurns = 1
    None = None
SPECIFICATION Spec
INVARIANTS LicenseIsWhatWasPaid NegotiationsArePaidAsAccepted ApprovalsAreUsedOnce PurchasesAreLicensed
SYMMETRY Symmetry
