SPECIFICATION Spec
CONSTANTS
    o1 = o1
    o2 = o2
    a = a
    b = b
    c = c
    Orders = {o1}
    Jobs = {a, b}
    Plan <- OneOrder
    OrderOf <- OrderIn
    Qty <- Units
    Cents <- Price
    Total <- Paid
    Batch = {a, b}
    MaxRuns = 2
INVARIANTS SettledOnce
CHECK_DEADLOCK FALSE
