--------------------------- MODULE OrderLifecycle ---------------------------
(***************************************************************************)
(* The order side of the shop: OrderService with its inventory rows, its   *)
(* payment outbox and the Kafka listeners that settle a payment or a       *)
(* refund.  Every action is one database transaction of the backend.       *)
(*                                                                         *)
(* Nothing is assumed here about who produces payment and refund results:  *)
(* Next lets any result arrive at any time, any number of times and in any *)
(* order, also results that name another order or another payment.  What   *)
(* holds in this module therefore holds whatever Kafka and the Payment     *)
(* Service do; PaymentSaga connects the listeners to the real producer.    *)
(***************************************************************************)
EXTENDS Integers, FiniteSets, Sums

CONSTANTS
    Orders,            \* orders; one that is not placed yet stands for its cart
    Guests,            \* the orders placed without an account
    Pickups,           \* the orders that need no tracking number to ship
    Qty,               \* the quantity an order takes of the (single) variant
    Rows,              \* inventory row ids of that variant, one per warehouse
    InitialStock,      \* the quantity of every row before any order
    PaymentIds,        \* payment identities a result may carry
    NoPayment,         \* "payment_id IS NULL"
    NoRow,             \* "not allocated"
    Attempts,          \* provider attempt ids of declined cards
    CancelIds,         \* client-generated cancellation request UUIDs
    RefundRequestIds   \* refund request UUIDs of one order

ASSUME ConstantsAssumption ==
    /\ Guests \subseteq Orders
    /\ Pickups \subseteq Orders
    /\ Qty \in [Orders -> Nat \ {0}]
    /\ Rows \subseteq Nat
    /\ InitialStock \in [Rows -> Nat]
    /\ NoPayment \notin PaymentIds
    /\ NoRow \notin Rows

VARIABLES
    status,            \* orders.status, "NONE" before placement
    paymentStatus,     \* orders.payment_status
    paymentId,         \* orders.payment_id
    receipt,           \* payment_result_receipts: result and payment per request
    declines,          \* order_payment_declines: (payment, attempt) pairs
    refund,            \* order_refunds: status and payment, at most one per order
    refundRequest,     \* refund_requests: the decision state of each request
    cancelReceipts,    \* order_cancellation_requests: id, order and actor
    tracked,           \* orders with carrier and tracking number
    released,          \* orders with inventory_released_at set
    allocated,         \* the inventory row an order's item was taken from
    stock,             \* inventory.quantity
    outbox,            \* payment_outbox rows
    notices            \* order_notifications: (order, kind, ref)

moneyVars == <<paymentStatus, paymentId, receipt, declines>>
refundVars == <<refund, refundRequest, outbox>>
stockVars == <<released, allocated, stock>>
vars == <<status, moneyVars, refundVars, cancelReceipts, tracked, stockVars, notices>>

Actors == {"owner", "staff"}
Statuses == {"NONE", "PENDING", "PAID", "PROCESSING", "SHIPPING", "COMPLETED", "CANCELLED"}
PaymentStatuses == {"PENDING", "UNRESOLVED", "DECLINED", "SUCCEEDED", "FAILED"}
TerminalPayment == {"SUCCEEDED", "FAILED"}
RefundStatuses == {"NONE", "PENDING", "UNRESOLVED", "SUCCEEDED", "FAILED"}
TerminalRefund == {"SUCCEEDED", "FAILED"}
RequestStatuses == {"NONE", "REQUESTED", "APPROVED", "REJECTED"}

NoReceipt == [result |-> "NONE", payment |-> NoPayment]
NoRefund == [status |-> "NONE", payment |-> NoPayment]

PaymentRequested(o) == [topic |-> "payment.requested", order |-> o, payment |-> NoPayment]
RefundRequested(o, p) == [topic |-> "refund.requested", order |-> o, payment |-> p]

\* The results the listeners understand.  "request" names the order whose
\* payment.requested event the result claims to answer, "refund" the order
\* whose refund it claims to settle.
PaymentResult == [order : Orders, request : Orders, payment : PaymentIds]
RefundResult == [order : Orders, refund : Orders, payment : PaymentIds]
UnresolvedReasons == {"provider_outcome_unknown", "payment_retry_required"}

Init ==
    /\ status = [o \in Orders |-> "NONE"]
    /\ paymentStatus = [o \in Orders |-> "PENDING"]
    /\ paymentId = [o \in Orders |-> NoPayment]
    /\ receipt = [o \in Orders |-> NoReceipt]
    /\ declines = {}
    /\ refund = [o \in Orders |-> NoRefund]
    /\ refundRequest = [o \in Orders |-> [k \in RefundRequestIds |-> "NONE"]]
    /\ cancelReceipts = {}
    /\ tracked = {}
    /\ released = {}
    /\ allocated = [o \in Orders |-> NoRow]
    /\ stock = InitialStock
    /\ outbox = {}
    /\ notices = {}

-----------------------------------------------------------------------------
(* Helpers shared by the operations. *)

\* Mutant: an order may still be cancelled while it is being packed.
CanTransition_Late(from, to) ==
    \/ from = "PENDING" /\ to \in {"PAID", "CANCELLED"}
    \/ from = "PAID" /\ to \in {"PROCESSING", "CANCELLED"}
    \/ from = "PROCESSING" /\ to \in {"SHIPPING", "CANCELLED"}
    \/ from = "SHIPPING" /\ to = "COMPLETED"

\* OrderStatusTransitions: the only moves updateStatus accepts.
CanTransition(from, to) ==
    \/ from = "PENDING" /\ to \in {"PAID", "CANCELLED"}
    \/ from = "PAID" /\ to \in {"PROCESSING", "CANCELLED"}
    \/ from = "PROCESSING" /\ to = "SHIPPING"
    \/ from = "SHIPPING" /\ to = "COMPLETED"

\* One notification row per (order, kind, ref): a second insert does nothing.
\* "none" is the empty reference of the kinds that are told once per order.
Notice(o, kind, ref) == [order |-> o, kind |-> kind, ref |-> ref]
Notify(o, kind, ref) == notices' = notices \cup {Notice(o, kind, ref)}

NoticeOf(s) == CASE s = "SHIPPING" -> "SHIPPED" [] OTHER -> s

HasOpenRequest(o) == \E k \in RefundRequestIds : refundRequest[o][k] = "REQUESTED"

\* Mutant: off by one in the search for a row.
Allocatable_OffByOne(q) == {r \in Rows : stock[r] + 1 >= q}

\* The first row, by ascending id, that holds the whole quantity.
Allocatable(q) == {r \in Rows : stock[r] >= q}
FirstRow(q) == CHOOSE r \in Allocatable(q) : \A s \in Allocatable(q) : r <= s

\* Mutant: the quantity goes back to the first row, not to the order's own.
ReleaseStock_FirstRow(o) ==
    /\ released' = released \cup {o}
    /\ stock' = [stock EXCEPT ![CHOOSE r \in Rows : \A s \in Rows : r <= s] = @ + Qty[o]]

\* restore runs at most once per order: the release marker guards it.
ReleaseStock(o) ==
    IF o \in released
    THEN UNCHANGED <<released, stock>>
    ELSE /\ released' = released \cup {o}
         /\ stock' = [stock EXCEPT ![allocated[o]] = @ + Qty[o]]

\* issueRefund refuses unless the receipt proves the charge of this payment.
ChargeProven(o, receiptNow, p) ==
    /\ PaymentRequested(o) \in outbox
    /\ receiptNow = [result |-> "PAID", payment |-> p]

\* Mutant: the refund row is written, its event is not.
IssueRefund_NoEvent(o, p) ==
    /\ refund' = [refund EXCEPT ![o] = [status |-> "PENDING", payment |-> p]]
    /\ UNCHANGED outbox

IssueRefund(o, p) ==
    /\ refund' = [refund EXCEPT ![o] = [status |-> "PENDING", payment |-> p]]
    /\ outbox' = outbox \cup {RefundRequested(o, p)}

\* Mutant: the open request is left as it is.
CloseRequests_Not(o) == UNCHANGED refundRequest

CloseRequests(o) ==
    refundRequest' = [refundRequest EXCEPT ![o] =
        [k \in RefundRequestIds |->
            IF refundRequest[o][k] = "REQUESTED" THEN "APPROVED" ELSE refundRequest[o][k]]]

\* Mutant: looks at the payment status from before this transaction.
RefundOwed_Stale(o, payStatus) == paymentStatus[o] = "SUCCEEDED" /\ refund[o] = NoRefund

RefundOwed(o, payStatus) == payStatus = "SUCCEEDED" /\ refund[o] = NoRefund

\* ensureRefund on a cancelled order: issue the refund if the charge succeeded
\* and none exists, and decide the customer's open request with it.
EnsureRefund(o, payStatus, receiptNow, p) ==
    IF RefundOwed(o, payStatus)
    THEN /\ ChargeProven(o, receiptNow, p)
         /\ IssueRefund(o, p)
         /\ CloseRequests(o)
    ELSE UNCHANGED refundVars

\* updateStatus(o, CANCELLED): stock, status, refund and notice together.
CancelAndRecover(o) ==
    /\ CanTransition(status[o], "CANCELLED")
    /\ ReleaseStock(o)
    /\ status' = [status EXCEPT ![o] = "CANCELLED"]
    /\ Notify(o, "CANCELLED", "none")

-----------------------------------------------------------------------------
(* Customer and staff operations. *)

\* persistOrder: allocate or fail, then order, outbox row and notice together.
\* The cart is consumed by leaving "NONE", so it is checked out only once.
PlaceOrder(o) ==
    /\ status[o] = "NONE"
    /\ Allocatable(Qty[o]) # {}
    /\ LET r == FirstRow(Qty[o]) IN
        /\ allocated' = [allocated EXCEPT ![o] = r]
        /\ stock' = [stock EXCEPT ![r] = @ - Qty[o]]
    /\ status' = [status EXCEPT ![o] = "PENDING"]
    /\ paymentStatus' = [paymentStatus EXCEPT ![o] = "PENDING"]
    /\ outbox' = outbox \cup {PaymentRequested(o)}
    /\ Notify(o, "PLACED", "none")
    /\ UNCHANGED <<paymentId, receipt, declines, refund, refundRequest,
                   cancelReceipts, tracked, released>>

\* cancelOrder: the receipt binds the request UUID to one order and one actor;
\* a replay on a cancelled order only makes sure that its refund exists.
CancelOrder(id, o, actor) ==
    /\ status[o] # "NONE"
    /\ \A c \in cancelReceipts : c.id = id => c.order = o /\ c.actor = actor
    /\ cancelReceipts' = cancelReceipts \cup {[id |-> id, order |-> o, actor |-> actor]}
    /\ \/ CancelAndRecover(o)
       \/ status[o] = "CANCELLED" /\ UNCHANGED <<status, released, stock, notices>>
    /\ EnsureRefund(o, paymentStatus[o], receipt[o], paymentId[o])
    /\ UNCHANGED <<moneyVars, tracked, allocated>>

\* updateFulfillmentStatus: staff move a paid order one step forward.
Fulfil(o, target) ==
    /\ target \in {"PROCESSING", "SHIPPING", "COMPLETED"}
    /\ paymentStatus[o] = "SUCCEEDED"
    /\ target = "SHIPPING" => o \in Pickups \cup tracked
    /\ CanTransition(status[o], target)
    /\ status' = [status EXCEPT ![o] = target]
    /\ Notify(o, NoticeOf(target), "none")
    /\ UNCHANGED <<moneyVars, refundVars, cancelReceipts, tracked, stockVars>>

SetTracking(o) ==
    /\ status[o] \in {"PAID", "PROCESSING", "SHIPPING", "COMPLETED"}
    /\ tracked' = tracked \cup {o}
    /\ UNCHANGED <<status, moneyVars, refundVars, cancelReceipts, stockVars, notices>>

\* refundEligibility with openRequest = false, as both callers pass it.
RefundEligible(o) ==
    /\ status[o] \notin {"NONE", "PENDING", "CANCELLED"}
    /\ paymentStatus[o] = "SUCCEEDED"
    /\ refund[o] = NoRefund

\* requestRefund returns the open request, if any, and changes nothing then.
RequestRefund(o, k) ==
    /\ o \notin Guests
    /\ refundRequest[o][k] = "NONE"
    /\ ~HasOpenRequest(o)
    /\ RefundEligible(o)
    /\ refundRequest' = [refundRequest EXCEPT ![o][k] = "REQUESTED"]
    /\ Notify(o, "REFUND_REQUESTED", k)
    /\ UNCHANGED <<status, moneyVars, refund, outbox, cancelReceipts, tracked, stockVars>>

\* approveRefund refunds the whole payment; it neither restocks nor cancels.
ApproveRefund(o, k) ==
    /\ refundRequest[o][k] = "REQUESTED"
    /\ RefundEligible(o)
    /\ ChargeProven(o, receipt[o], paymentId[o])
    /\ IssueRefund(o, paymentId[o])
    /\ refundRequest' = [refundRequest EXCEPT ![o][k] = "APPROVED"]
    /\ UNCHANGED <<status, moneyVars, cancelReceipts, tracked, stockVars, notices>>

RejectRefund(o, k) ==
    /\ refundRequest[o][k] = "REQUESTED"
    /\ refundRequest' = [refundRequest EXCEPT ![o][k] = "REJECTED"]
    /\ Notify(o, "REFUND_REJECTED", k)
    /\ UNCHANGED <<status, moneyVars, refund, outbox, cancelReceipts, tracked, stockVars>>

-----------------------------------------------------------------------------
(* Kafka listeners.  A result that fails a guard is rejected: its           *)
(* transaction rolls back and the offset is acknowledged, which changes     *)
(* nothing and is not a step.                                               *)

\* The result names an order and that order's own payment.requested event.
Correlated(m) == status[m.order] # "NONE" /\ m.request = m.order

\* orders.payment_id is set once and shared with no other order.
PaymentFits(m) ==
    /\ paymentId[m.order] \in {NoPayment, m.payment}
    /\ \A o \in Orders \ {m.order} : paymentId[o] # m.payment

\* recordResult: neither the request nor the payment has a receipt yet.
Recordable(m) ==
    /\ receipt[m.order] = NoReceipt
    /\ \A o \in Orders : receipt[o].payment # m.payment

\* Mutant: late uncertainty is believed although the outcome is known.
Unsettled_Unchecked(o) == TRUE

\* No outcome is recorded yet, neither as a receipt nor on the order.
Unsettled(o) == receipt[o] = NoReceipt /\ paymentStatus[o] \notin TerminalPayment

\* Mutant: a later result may correct an earlier one.
RefundPending_Any(o) == refund[o].status # "NONE"

RefundPending(o) == refund[o].status \in {"PENDING", "UNRESOLVED"}

\* applyResult and applyPaymentOutcome up to the point where they differ by
\* outcome: the receipt and the order's payment fields.
RecordOutcome(m, result, outcome) ==
    /\ Correlated(m)
    /\ Recordable(m)
    /\ PaymentFits(m)
    /\ paymentStatus[m.order] \notin TerminalPayment
    /\ receipt' = [receipt EXCEPT ![m.order] = [result |-> result, payment |-> m.payment]]
    /\ paymentId' = [paymentId EXCEPT ![m.order] = m.payment]
    /\ paymentStatus' = [paymentStatus EXCEPT ![m.order] = outcome]

\* A late success of a cancelled order is recorded and refunded.
OnPaymentSucceeded(m) ==
    LET o == m.order IN
    /\ RecordOutcome(m, "PAID", "SUCCEEDED")
    /\ \/ /\ CanTransition(status[o], "PAID")
          /\ status' = [status EXCEPT ![o] = "PAID"]
          /\ Notify(o, "PAID", "none")
          /\ UNCHANGED refundVars
       \/ /\ status[o] = "CANCELLED"
          /\ EnsureRefund(o, "SUCCEEDED", receipt'[o], m.payment)
          /\ UNCHANGED <<status, notices>>
    /\ UNCHANGED <<declines, cancelReceipts, tracked, stockVars>>

OnPaymentFailed(m) ==
    LET o == m.order IN
    /\ RecordOutcome(m, "CANCELLED", "FAILED")
    /\ \/ CancelAndRecover(o)
       \/ status[o] = "CANCELLED" /\ UNCHANGED <<status, released, stock, notices>>
    /\ UNCHANGED <<declines, refundVars, cancelReceipts, tracked, allocated>>

\* No receipt: an unresolved charge may still be settled by a later result.
OnPaymentUnresolved(m, reason) ==
    LET o == m.order IN
    /\ Correlated(m)
    /\ Unsettled(o)
    /\ PaymentFits(m)
    /\ paymentId' = [paymentId EXCEPT ![o] = m.payment]
    /\ paymentStatus' = [paymentStatus EXCEPT ![o] = "UNRESOLVED"]
    /\ IF reason = "payment_retry_required"
       THEN Notify(o, "PAYMENT_RETRY_REQUIRED", "none")
       ELSE UNCHANGED notices
    /\ UNCHANGED <<status, receipt, declines, refundVars, cancelReceipts, tracked, stockVars>>

\* One declined attempt, once; the order keeps its reservation.
OnPaymentDeclined(m, attempt) ==
    LET o == m.order IN
    /\ Correlated(m)
    /\ Unsettled(o)
    /\ PaymentFits(m)
    /\ <<m.payment, attempt>> \notin declines
    /\ declines' = declines \cup {<<m.payment, attempt>>}
    /\ paymentId' = [paymentId EXCEPT ![o] = m.payment]
    /\ paymentStatus' = [paymentStatus EXCEPT ![o] = "DECLINED"]
    /\ IF status[o] = "PENDING" THEN Notify(o, "PAYMENT_FAILED", attempt) ELSE UNCHANGED notices
    /\ UNCHANGED <<status, receipt, refundVars, cancelReceipts, tracked, stockVars>>

\* A refund result settles the refund it names unless that one is terminal.
OnRefundResult(m, target) ==
    LET o == m.order IN
    /\ m.refund = o
    /\ refund[o].payment = m.payment
    /\ RefundPending(o)
    /\ refund' = [refund EXCEPT ![o].status = target]
    /\ CASE target = "SUCCEEDED" -> Notify(o, "REFUNDED", "none")
         [] target = "FAILED" -> Notify(o, "REFUND_FAILED", "none")
         [] OTHER -> UNCHANGED notices
    /\ UNCHANGED <<status, moneyVars, refundRequest, outbox, cancelReceipts, tracked, stockVars>>

-----------------------------------------------------------------------------
Operation ==
    \E o \in Orders :
        \/ PlaceOrder(o)
        \/ SetTracking(o)
        \/ \E target \in Statuses : Fulfil(o, target)
        \/ \E id \in CancelIds, actor \in Actors : CancelOrder(id, o, actor)
        \/ \E k \in RefundRequestIds :
              RequestRefund(o, k) \/ ApproveRefund(o, k) \/ RejectRefund(o, k)

Delivery ==
    \/ \E m \in PaymentResult :
          \/ OnPaymentSucceeded(m)
          \/ OnPaymentFailed(m)
          \/ \E reason \in UnresolvedReasons : OnPaymentUnresolved(m, reason)
          \/ \E attempt \in Attempts : OnPaymentDeclined(m, attempt)
    \/ \E m \in RefundResult, target \in {"UNRESOLVED", "SUCCEEDED", "FAILED"} :
          OnRefundResult(m, target)

Next == Operation \/ Delivery

Spec == Init /\ [][Next]_vars
-----------------------------------------------------------------------------
(* Properties. *)

\* Every variable holds values of the columns it stands for.
TypeOK ==
    /\ status \in [Orders -> Statuses]
    /\ paymentStatus \in [Orders -> PaymentStatuses]
    /\ paymentId \in [Orders -> PaymentIds \cup {NoPayment}]
    /\ receipt \in [Orders -> [result : {"NONE", "PAID", "CANCELLED"},
                               payment : PaymentIds \cup {NoPayment}]]
    /\ declines \subseteq PaymentIds \X Attempts
    /\ refund \in [Orders -> [status : RefundStatuses, payment : PaymentIds \cup {NoPayment}]]
    /\ refundRequest \in [Orders -> [RefundRequestIds -> RequestStatuses]]
    /\ cancelReceipts \subseteq [id : CancelIds, order : Orders, actor : Actors]
    /\ tracked \subseteq Orders
    /\ released \subseteq Orders
    /\ allocated \in [Orders -> Rows \cup {NoRow}]
    /\ stock \in [Rows -> Nat]
    /\ outbox \subseteq [topic : {"payment.requested", "refund.requested"},
                         order : Orders, payment : PaymentIds \cup {NoPayment}]

\* The durable receipt, the order's payment state and its lifecycle state tell
\* one story, whatever mix of results was delivered: a receipt exists exactly
\* for a settled payment, goods move only against a received payment, and a
\* failed payment leaves no live order behind.
ReceiptAgrees ==
    \A o \in Orders :
        /\ receipt[o].result = "PAID" <=> paymentStatus[o] = "SUCCEEDED"
        /\ receipt[o].result = "CANCELLED" <=> paymentStatus[o] = "FAILED"
        /\ receipt[o] # NoReceipt => receipt[o].payment = paymentId[o]
        /\ status[o] \in {"PAID", "PROCESSING", "SHIPPING", "COMPLETED"}
              => paymentStatus[o] = "SUCCEEDED"
        /\ paymentStatus[o] = "FAILED" => status[o] = "CANCELLED"
        /\ paymentStatus[o] = "SUCCEEDED" => status[o] # "PENDING"

\* No customer's money is kept for a cancelled order: however cancellation and
\* the charge race, the refund row exists as soon as both are recorded.
CancelledChargeIsRefunded ==
    \A o \in Orders :
        status[o] = "CANCELLED" /\ paymentStatus[o] = "SUCCEEDED" => refund[o] # NoRefund

\* Money goes back only once and only against the recorded charge: every
\* refund and every refund.requested event names the payment that succeeded.
RefundIsBacked ==
    /\ \A o \in Orders :
          refund[o] # NoRefund =>
              /\ paymentStatus[o] = "SUCCEEDED"
              /\ refund[o].payment = paymentId[o]
              /\ RefundRequested(o, paymentId[o]) \in outbox
    /\ \A e \in outbox :
          e.topic = "refund.requested" =>
              refund[e.order] # NoRefund /\ refund[e.order].payment = e.payment

\* What has gone from an inventory row is exactly what the orders that are not
\* cancelled hold of it: nothing is oversold, restored twice or leaked by the
\* race of cancellation, decline and late results.
HeldOf(r) == {o \in Orders : allocated[o] = r /\ status[o] # "CANCELLED"}
StockConserved ==
    \A r \in Rows :
        stock[r] + Total(Qty, HeldOf(r)) = InitialStock[r]

\* A refund request is never left dangling: while one waits for a decision the
\* order is neither refunded nor cancelled, only one waits, and an approved one
\* always has its refund.
OpenRequestIsLive ==
    \A o \in Orders :
        /\ HasOpenRequest(o) => refund[o] = NoRefund /\ status[o] # "CANCELLED"
        /\ \A k, l \in RefundRequestIds :
              refundRequest[o][k] \in {"REQUESTED", "APPROVED"} /\
              refundRequest[o][l] \in {"REQUESTED", "APPROVED"} => k = l
        /\ \A k \in RefundRequestIds : refundRequest[o][k] = "APPROVED" => refund[o] # NoRefund

\* The customer is never told something the books deny: "it can no longer be
\* cancelled" excludes a cancellation notice, a refund is announced only when
\* it succeeded, and a confirmed payment is never followed by a failed one.
NoticesAreTrue ==
    \A o \in Orders :
        LET Told(kind) == Notice(o, kind, "none") \in notices IN
        /\ ~(Told("PROCESSING") /\ Told("CANCELLED"))
        /\ Told("REFUNDED") => refund[o].status = "SUCCEEDED"
        /\ Told("REFUND_FAILED") => refund[o].status = "FAILED"
        /\ Told("PAID") => paymentStatus[o] = "SUCCEEDED"
        /\ Told("CANCELLED") <=> status[o] = "CANCELLED"

\* One order's share of OutcomesAreFinal.
SettledStays(o) ==
    /\ paymentStatus[o] \in TerminalPayment => paymentStatus'[o] = paymentStatus[o]
    /\ refund[o].status \in TerminalRefund => refund'[o] = refund[o]
    /\ paymentId[o] # NoPayment => paymentId'[o] = paymentId[o]
    /\ status[o] = "CANCELLED" => status'[o] = "CANCELLED"

\* What is settled stays settled: duplicates, contradictions and late
\* uncertainty change neither a payment outcome, nor a refund outcome, nor the
\* payment an order is bound to, and a cancelled order is never resurrected.
OutcomesAreFinal == [][\A o \in Orders : SettledStays(o)]_vars

\* docs/api/order-cancellation.md, "Card declined after customer cancellation":
\* the payment state is "unchanged".  OnPaymentDeclined does not look at the
\* order's status before it writes DECLINED.
DeclineLeavesCancelledOrderAlone ==
    [][\A o \in Orders :
        status[o] = "CANCELLED" /\ paymentStatus[o] # "DECLINED"
            => paymentStatus'[o] # "DECLINED"]_vars
=============================================================================
