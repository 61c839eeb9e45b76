CONSTANTS
    Buyers = {b1}
    Rows = {n1, n2}
    Requests = {r1, r2}
    Currencies = {"USDC"}
    Amounts = {4, 7}
    Tick = 3
    MaxRounds = 1
    MaxLog = 2
    None = None
SYMMETRY Symmetry
SPECIFICATION Spec
INVARIANTS PriceIsLogged
PROPERTIES FairDeal
