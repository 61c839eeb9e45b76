CONSTANTS
    Requests = {r1}
    Prices = {1, 2}
    Deals = {}
    Sigs = {s1}
    MaxEdits = 1
    Limit = 1
    MaxTurns = 0
    Flows = {f1, f2}
    Mine = f1
    MaxBreaks = 1
    MaxForeign = 0
    Joins = {0}
    LastEvent = 3
    WindowSize = 1
    QueueSize = 1
    Assets = {g1}
    Derivatives = {g1}
    Amounts = {1, 2}
    TransferWired = TRUE
    MaxCerts = 1
    MaxLost = 1
    MaxCrashes = 1
    None = None
SPECIFICATION PartsSpec
INVARIANTS RoyaltyPaidOnce
PROPERTIES EveryPurchaseEnds OverlayEnds MirroredIsShown RoyaltiesAreRecorded
CHECK_DEADLOCK FALSE
