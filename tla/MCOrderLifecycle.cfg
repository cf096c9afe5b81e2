\* Two orders compete for stock; results may name the wrong order or payment.
SPECIFICATION Spec
CONSTANTS
    o1 = o1
    o2 = o2
    Orders = {o1, o2}
    Guests = {o2}
    Pickups = {o2}
    Qty <- MCQty
    Rows <- MCRows
    InitialStock <- MCInitialStock
    PaymentIds = {p1, p2}
    NoPayment = NoPayment
    NoRow = NoRow
    Attempts = {a1}
    CancelIds = {c1}
    RefundRequestIds = {k1, k2}
SYMMETRY MCSymmetry
INVARIANTS TypeOK ReceiptAgrees CancelledChargeIsRefunded RefundIsBacked
    StockConserved OpenRequestIsLive NoticesAreTrue
PROPERTY OutcomesAreFinal
CHECK_DEADLOCK FALSE
