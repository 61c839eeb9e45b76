CONSTANTS
    Buyers = {b1, b2}
    Rows = {n1, n2}
    Requests = {r1}
    Currencies = {"USDC", "SOL"}
    Amounts = {4, 7}
    Tick = 3
    MaxRounds = 1
    MaxLog = 1
    None = None
SPECIFICATION FairSpec
INVARIANTS OffersStayApart
PROPERTIES ListPriceSells
