\* One order paid with the simulated provider, up to two payment identities.
SPECIFICATION LiveSpec
CONSTANTS
    o1 = o1
    Orders = {o1}
    Guests = {}
    Pickups = {o1}
    Qty <- MCQty
    Rows <- MCRows
    InitialStock <- MCInitialStock
    PaymentIds = {p1, p2}
    None = None
    NoRow = NoRow
    Attempts = {}
    CancelIds = {c1}
    RefundRequestIds = {k1}
    StripeOrders = {}
    Declining = {}
    Consumers = {g1}
    RefundConsumers = {h1}
    Settlers = {}
INVARIANTS BooksAgree NoRefundIsDeadLettered
PROPERTIES ImplementsOrderMoney PlacedIsDecided CancelledIsRefunded
CHECK_DEADLOCK FALSE
