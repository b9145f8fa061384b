SPECIFICATION Spec
CONSTANTS
    p1 = p1
    p2 = p2
    j1 = j1
    j2 = j2
    node = node
    fee = fee
    NoRec = NoRec
    Procs = {p1}
    Jobs = {j1, j2}
    Legs = {node, fee}
    Receipt <- TwoJobs
    Amount <- Cents
    MaxLegs = 3
    Backend = "jsonl"
INVARIANTS IntentBeforeMoney PaidMeansMoved NoOverpay
PROPERTIES KeepsPromise
