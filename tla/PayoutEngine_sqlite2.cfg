SPECIFICATION Spec
CONSTANTS
    p1 = p1
    p2 = p2
    j1 = j1
    j2 = j2
    node = node
    fee = fee
    NoRec = NoRec
    Procs = {p1, p2}
    Jobs = {j1}
    Legs = {node, fee}
    Receipt <- TwinLegs
    Amount <- Cents
    MaxLegs = 2
    Backend = "sqlite"
INVARIANTS ReconcileSound
