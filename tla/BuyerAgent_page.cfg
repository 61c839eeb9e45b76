CONSTANTS
    Prices = {1}
    Deals = {}
    Sigs = {s1}
    MaxEdits = 0
    Limit = 1
    MaxTurns = 0
    None = None
SPECIFICATION FairSpec
PROPERTIES PagePaymentIsLicensed
