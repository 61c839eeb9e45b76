CONSTANTS
    Flows = {f1, f2}
    Mine = f1
    MaxBreaks = 1
    MaxForeign = 1
    Joins = {0}
    LastEvent = 3
    WindowSize = 2
    QueueSize = 1
    Ids = {1, 2}
    Addresses = {a1, a2}
    Clerks = {k1, k2}
    Certificates = {c1, c2}
    Passkeys = {p1}
    LastCall = 2
    LastNow = 1
    Lifetime = 0
    LastNonce = 2
    Calls = {q1, q2}
    Dialogs = {d1}
    Files = {h1}
    Terms = {t1, t2}
    MaxCrashes = 1
    Runs = {u1, u2}
    Payments = {y1, y2}
    Prices = {1, 2}
    LastSale = 1
    Sales = {v1, v2}
    Users = {z1}
    Gallery = {g1}
    LastDay = 2
    Right = 1
    None = None
SPECIFICATION SiteSpec
INVARIANTS NothingPassedOver ShownIsDone NoneBelowCursor SignerIsShown DownloadsAreProven ChallengesAreUsedOnce ChangesAreRecorded SuccessIsTheDeal LinksServeTheWork
PROPERTIES FilesStayWithMessage
CHECK_DEADLOCK FALSE
