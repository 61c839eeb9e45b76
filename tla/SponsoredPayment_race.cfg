CONSTANTS
    Intents = {i1, i2}
    Requests = {r1, r2}
    Sigs = {s1, s2}
    Assets = {a1}
    Prices = {1}
    MaxCrashes = 1
    None = None
SYMMETRY Symmetry
SPECIFICATION Spec
INVARIANTS BoundIffLicensed
PROPERTIES LicensePermanent ImplementsLedger
