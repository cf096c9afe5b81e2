---------------------------- MODULE PaymentSaga ----------------------------
(***************************************************************************)
(* The backend and the Payment Service connected by Kafka.  Each side      *)
(* publishes the rows of its own outbox; a published message stays on its  *)
(* topic and may be delivered at any time, again and again, and in any     *)
(* order relative to the messages of the other topics.                     *)
(***************************************************************************)
EXTENDS Integers, FiniteSets

CONSTANTS Orders, Guests, Pickups, Qty, Rows, InitialStock, PaymentIds, None,
          NoRow, Attempts, CancelIds, RefundRequestIds,
          StripeOrders, Declining, Consumers, RefundConsumers, Settlers

ASSUME ConstantsAssumption ==
    /\ Guests \subseteq Orders
    /\ Pickups \subseteq Orders
    /\ Qty \in [Orders -> Nat \ {0}]
    /\ Rows \subseteq Nat
    /\ InitialStock \in [Rows -> Nat]
    /\ NoRow \notin Rows
    /\ StripeOrders \subseteq Orders
    /\ Declining \subseteq Orders \ StripeOrders
    /\ None \notin Orders \cup PaymentIds \cup Attempts

VARIABLES
    \* the backend, see OrderLifecycle
    status, paymentStatus, paymentId, receipt, declines, refund, refundRequest,
    cancelReceipts, tracked, released, allocated, stock, outbox, notices,
    \* the Payment Service, see PaymentService
    payPayment, ledger, payDeclined, bound, intent, payRefund, stripeRefund,
    payOutbox, dlq, consumer, refundConsumer, settler,
    \* every message published so far
    kafka

shopVars == <<status, paymentStatus, paymentId, receipt, declines, refund, refundRequest,
              cancelReceipts, tracked, released, allocated, stock, outbox, notices>>
payVars == <<payPayment, ledger, payDeclined, bound, intent, payRefund, stripeRefund,
             payOutbox, dlq, consumer, refundConsumer, settler>>
vars == <<shopVars, payVars, kafka>>

Shop == INSTANCE OrderLifecycle WITH NoPayment <- None

\* The backend has at most one refund per order; its id stands for the order.
Pay == INSTANCE PaymentService WITH
    RefundIds <- Orders, payment <- payPayment, declined <- payDeclined,
    refund <- payRefund, outbox <- payOutbox

Init == Shop!Init /\ Pay!Init /\ kafka = {}

\* Either outbox publisher sends a row.  A crash before the row is marked only
\* sends it again, which is one more delivery of the same message.
Publish ==
    /\ \E e \in (outbox \cup payOutbox) \ kafka : kafka' = kafka \cup {e}
    /\ UNCHANGED <<shopVars, payVars>>

\* The backend's own operations.
ShopStep == Shop!Operation /\ UNCHANGED <<payVars, kafka>>

\* The Payment Service's own steps, and Stripe's.
PayStep == Pay!Internal /\ UNCHANGED <<shopVars, kafka>>

ReceivePaymentRequest(c, o) ==
    /\ Shop!PaymentRequested(o) \in kafka
    /\ Pay!HandleRequest(c, o)
    /\ UNCHANGED <<shopVars, kafka>>

ReceiveRefundRequest(c, o, p) ==
    LET m == [refund |-> o, order |-> o, payment |-> p] IN
    /\ Shop!RefundRequested(o, p) \in kafka
    /\ Pay!HandleRefund(c, m) \/ Pay!RefuseRefund(c, m)
    /\ UNCHANGED <<shopVars, kafka>>

\* The listeners read the result topics.
OfTopic(topic) == {e \in kafka : e.topic = topic}
Result(e) == [order |-> e.order, request |-> e.order, payment |-> e.payment]
RefundAnswer(e) == [order |-> e.order, refund |-> e.detail, payment |-> e.payment]

DeliverSucceeded == \E e \in OfTopic("payment.succeeded") : Shop!OnPaymentSucceeded(Result(e))
DeliverFailed == \E e \in OfTopic("payment.failed") : Shop!OnPaymentFailed(Result(e))
DeliverUnresolved ==
    \E e \in OfTopic("payment.unresolved") : Shop!OnPaymentUnresolved(Result(e), e.detail)
DeliverDeclined ==
    \E e \in OfTopic("payment.declined") : Shop!OnPaymentDeclined(Result(e), e.detail)
DeliverRefund ==
    \/ \E e \in OfTopic("refund.unresolved") : Shop!OnRefundResult(RefundAnswer(e), "UNRESOLVED")
    \/ \E e \in OfTopic("refund.succeeded") : Shop!OnRefundResult(RefundAnswer(e), "SUCCEEDED")
    \/ \E e \in OfTopic("refund.failed") : Shop!OnRefundResult(RefundAnswer(e), "FAILED")

Deliver ==
    /\ \/ DeliverSucceeded \/ DeliverFailed \/ DeliverUnresolved
       \/ DeliverDeclined \/ DeliverRefund
    /\ UNCHANGED <<payVars, kafka>>

Next ==
    \/ ShopStep \/ PayStep \/ Publish \/ Deliver
    \/ \E c \in Consumers, o \in Orders : ReceivePaymentRequest(c, o)
    \/ \E c \in RefundConsumers, o \in Orders, p \in PaymentIds : ReceiveRefundRequest(c, o, p)

Spec == Init /\ [][Next]_vars

-----------------------------------------------------------------------------
\* Listeners, publishers and consumers keep running, and a listener that is
\* offered a terminal result again and again applies it in the end.
Fairness ==
    /\ WF_vars(Publish)
    /\ WF_vars(DeliverSucceeded /\ UNCHANGED <<payVars, kafka>>)
    /\ WF_vars(DeliverFailed /\ UNCHANGED <<payVars, kafka>>)
    /\ WF_vars(DeliverRefund /\ UNCHANGED <<payVars, kafka>>)
    /\ \A o \in Orders : SF_vars(\E c \in Consumers : ReceivePaymentRequest(c, o))
    /\ \A o \in Orders : SF_vars(\E c \in RefundConsumers, p \in PaymentIds : ReceiveRefundRequest(c, o, p))
    /\ \A c \in Consumers :
          /\ WF_vars(Pay!ChargeStep(c) /\ UNCHANGED <<shopVars, kafka>>)
          /\ SF_vars(Pay!ChargeSimulated(c) /\ UNCHANGED <<shopVars, kafka>>)
          /\ SF_vars(Pay!RecordResult(c) /\ UNCHANGED <<shopVars, kafka>>)
    /\ \A c \in RefundConsumers :
          /\ WF_vars(Pay!RefundStep(c) /\ UNCHANGED <<shopVars, kafka>>)
          /\ SF_vars(Pay!RefundSimulated(c) /\ UNCHANGED <<shopVars, kafka>>)
          /\ SF_vars(Pay!RecordRefundResult(c) /\ UNCHANGED <<shopVars, kafka>>)

LiveSpec == Spec /\ Fairness

-----------------------------------------------------------------------------
(* Properties. *)

\* The two services' books agree: what the backend has recorded of a payment
\* or a refund is what the Payment Service decided, whose payment that is
\* included, and what the Payment Service decided is what the provider did.
BooksAgree ==
    \A o \in Orders :
        /\ paymentStatus[o] \in {"SUCCEEDED", "FAILED"} =>
              /\ payPayment[paymentId[o]].request = o
              /\ payPayment[paymentId[o]].status = paymentStatus[o]
        /\ refund[o].status \in {"SUCCEEDED", "FAILED"} => payRefund[o].status = refund[o].status
        /\ refund[o].status = "SUCCEEDED" => Pay!GivenBack(o, paymentId[o])
        /\ paymentStatus[o] = "FAILED" =>
              \A p \in PaymentIds : payPayment[p].request = o => ~Pay!Charged(p)

\* A refund request the backend issues is never refused: by the time it can be
\* read, the Payment Service knows the payment as successful and unclaimed.
NoRefundIsDeadLettered == dlq = {}

\* The provider's books, seen from an order.
MoneyOf(o) ==
    IF \E p \in PaymentIds : Pay!GivenBack(o, p) THEN "returned"
    ELSE IF \E p \in PaymentIds : payPayment[p].request = o /\ Pay!Charged(p) THEN "taken"
    ELSE "none"

GoodsOf(o) ==
    CASE status[o] = "NONE" -> "cart"
      [] status[o] = "PENDING" -> "reserved"
      [] status[o] = "PAID" -> "sold"
      [] status[o] = "CANCELLED" -> "released"
      [] OTHER -> "moving"

\* The shop and the service together implement the promise of OrderMoney: the
\* messages, retries and crashes between them are stuttering steps of it.
Money == INSTANCE OrderMoney WITH
    goods <- [o \in Orders |-> GoodsOf(o)],
    money <- [o \in Orders |-> MoneyOf(o)],
    known <- {o \in Orders : paymentStatus[o] = "SUCCEEDED"},
    due <- {o \in Orders : refund[o] # Shop!NoRefund}

ImplementsOrderMoney == Money!Spec

\* An order placed with the simulated provider never waits for ever: it is paid
\* or cancelled, whatever crashes, lost answers and redeliveries there are.
PlacedIsDecided ==
    \A o \in Orders \ StripeOrders :
        status[o] = "PENDING" ~> status[o] # "PENDING" /\ paymentStatus[o] \in {"SUCCEEDED", "FAILED"}

\* Money taken for an order that is or will be cancelled goes back in the end,
\* and the customer is told so.
CancelledIsRefunded ==
    \A o \in Orders \ StripeOrders :
        status[o] = "CANCELLED" /\ MoneyOf(o) = "taken"
            ~> MoneyOf(o) = "returned" /\ refund[o].status = "SUCCEEDED"
=============================================================================
