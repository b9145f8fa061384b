SPECIFICATION Spec
CONSTANTS
    Nobody = Nobody
    None = None
    Serials = {c1, c2}
    Accounts = {a, b}
    Coded = {c1, c2}
    Anchored = TRUE
    FreshKey = FALSE
    Faults = {"store", "sidecar", "anchor"}
    MaxStarts = 3
    MaxRaises = 1
INVARIANTS AckedIsSpent
PROPERTIES KeepsCoins
SYMMETRY Symmetry
CHECK_DEADLOCK FALSE
