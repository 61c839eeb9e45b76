CONSTANTS
    Works = {w1}
    Terms = {t1, t2}
    Saleable = {t1}
    Drafts = {d1}
    Tokens = {k1, k2}
    Assets = {a1, a2}
    Requests = {r1}
    Orders = {o1}
    Items = {x1, x2}
    Sigs = {s1, s2}
    Totals = {1, 2}
    WidthsHold = FALSE
    MaxCrashes = 0
    None = None
SPECIFICATION RetriesSpec
INVARIANTS LicensedOnce
PROPERTIES ConfirmedIsRegistered PaidOrderConcludes
