\* The Payment Service: two orders with the simulated provider, one of them declined,
\* or a card order at Stripe, with consumers and settlers that overlap or act on old
\* knowledge and two refund requests for one payment.
SPECIFICATION Spec
CONSTANTS
    good = good
    bad = bad
    card = card
    Orders = {good, bad, card}
    StripeOrders = {card}
    Declining = {bad}
    PaymentIds = {p1, p2}
    RefundIds = {r1, r2}
    Attempts = {a1, a2}
    None = None
    Consumers = {c1, c2}
    RefundConsumers = {d1, d2}
    Settlers = {s1, s2}
SYMMETRY MCSymmetry
CONSTRAINT OneProvider
INVARIANTS TypeOK ChargedOnce RowsAgreeWithProvider OutboxAgrees
PROPERTY SettledIsSilent
CHECK_DEADLOCK FALSE
