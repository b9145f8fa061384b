SPECIFICATION Spec
CONSTANTS
    o1 = o1
    o2 = o2
    a = a
    b = b
    c = c
    Orders = {o1, o2}
    Jobs = {a, b, c}
    Plan <- TwoOrders
    OrderOf <- OrderIn
    Qty <- Units
    Cents <- Price
    Total <- Paid
    Batch = {c}
    MaxRuns = 2
INVARIANTS EscrowBalanced PaidForWork LedgerLeads
PROPERTIES KeepsEscrow
CHECK_DEADLOCK FALSE
