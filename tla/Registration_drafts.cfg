CONSTANTS
    Works = {w1, w2}
    Terms = {t1}
    Saleable = {t1}
    Drafts = {d1}
    Tokens = {k1, k2}
    Assets = {a1, a2}
    Requests = {r1, r2}
    None = None
SPECIFICATION Spec
INVARIANTS AssetsAreProven TokenRegistersOnce OneWorkerRegistersAsConfirmed
SYMMETRY SYMM
