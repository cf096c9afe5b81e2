\* A card declined after the customer has cancelled.
SPECIFICATION Spec
CONSTANTS
    o1 = o1
    o2 = o2
    Orders = {o1}
    Guests = {}
    Pickups = {}
    Qty <- MCQty
    Rows <- MCRows
    InitialStock <- MCInitialStock
    PaymentIds = {p1}
    NoPayment = NoPayment
    NoRow = NoRow
    Attempts = {a1}
    CancelIds = {c1}
    RefundRequestIds = {k1}
PROPERTY DeclineLeavesCancelledOrderAlone
CHECK_DEADLOCK FALSE
