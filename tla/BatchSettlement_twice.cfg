CONSTANTS
    Orders = {o1}
    Items = {x1}
    Sigs = {s1, s2}
    Requests = {r1, r2}
    Totals = {1}
    WidthsHold = FALSE
    MaxCrashes = 0
    None = None
SPECIFICATION Spec
INVARIANTS LicensedOnce
