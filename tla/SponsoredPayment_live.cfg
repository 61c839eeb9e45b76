CONSTANTS
    Intents = {i1}
    Requests = {r1, r2}
    Sigs = {s1}
    Assets = {a1}
    Prices = {1, 2}
    MaxCrashes = 1
    None = None
SPECIFICATION FairSpec
INVARIANTS LicenseBacked
PROPERTIES PolledPaymentSettles
