\* What must happen in the end, for a simulated and for a card payment.
SPECIFICATION LiveSpec
CONSTANTS
    good = good
    bad = bad
    card = card
    Orders = {good, card}
    StripeOrders = {card}
    Declining = {}
    PaymentIds = {p1, p2}
    RefundIds = {}
    Attempts = {a1}
    None = None
    Consumers = {c1}
    RefundConsumers = {}
    Settlers = {s1}
PROPERTIES ChargeIsReported SimulatedSettles
CHECK_DEADLOCK FALSE
