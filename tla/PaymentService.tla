--------------------------- MODULE PaymentService ---------------------------
(***************************************************************************)
(* The Go Payment Service: the consumers of payment.requested and          *)
(* refund.requested, the webhook and reconciliation handlers that settle a *)
(* Stripe payment, their Postgres store and the provider ledger.           *)
(*                                                                         *)
(* A database transaction or a provider call is one step.  A consumer may  *)
(* stop between any two of its steps and forget what it knew; a provider   *)
(* call may fail after it took effect; and any request may be delivered    *)
(* again at any time, also to a second consumer while the first one still  *)
(* handles it, as after a partition rebalance.                             *)
(***************************************************************************)
EXTENDS Integers, FiniteSets

CONSTANTS
    Orders,          \* orders; each has one payment.requested event
    StripeOrders,    \* those to be paid with a card at Stripe
    Declining,       \* simulated orders whose amount ends in .13
    PaymentIds,      \* payments.id
    RefundIds,       \* refunds.id, chosen by the backend
    Attempts,        \* ids of card attempts at Stripe
    None,            \* SQL NULL
    Consumers,       \* consumers of payment.requested
    RefundConsumers, \* consumers of refund.requested
    Settlers         \* webhook handlers and the reconciliation loop

ASSUME ConstantsAssumption ==
    /\ StripeOrders \subseteq Orders
    /\ Declining \subseteq Orders \ StripeOrders
    /\ None \notin Orders \cup PaymentIds \cup RefundIds \cup Attempts

VARIABLES
    payment,         \* payments: request, status, unresolved_notified
    ledger,          \* provider_ledger rows of the simulated provider
    declined,        \* payment_declines: (payment, attempt)
    bound,           \* payments whose stripe_operations row has a provider_id
    intent,          \* external: the PaymentIntent of a payment
    refund,          \* refunds: payment, status, unresolved_notified
    stripeRefund,    \* external: the state of a refund at Stripe
    outbox,          \* payment_outbox rows
    dlq,             \* refund requests on the dead letter topic
    consumer,        \* what each payment consumer holds in memory
    refundConsumer,  \* what each refund consumer holds in memory
    settler          \* the payment and the intent each settler has read

chargeVars == <<payment, declined, bound, intent, consumer>>
refundVars == <<refund, stripeRefund, dlq, refundConsumer>>
vars == <<chargeVars, refundVars, ledger, outbox, settler>>

Statuses == {"NONE", "REQUESTED", "SUCCEEDED", "FAILED"}
Terminal == {"SUCCEEDED", "FAILED"}

NoPayment == [request |-> None, status |-> "NONE", notified |-> FALSE]
NoRefund == [payment |-> None, status |-> "NONE", notified |-> FALSE]
NoIntent == [state |-> "none", attempt |-> None]
Idle == [pc |-> "idle", payment |-> None, approved |-> FALSE]
RefundIdle == [pc |-> "idle", refund |-> None, approved |-> FALSE]
SettlerIdle == [payment |-> None, intent |-> NoIntent]

\* The refund.requested events that may be delivered.
RefundRequest == [refund : RefundIds, order : Orders, payment : PaymentIds]

Init ==
    /\ payment = [p \in PaymentIds |-> NoPayment]
    /\ ledger = {}
    /\ declined = {}
    /\ bound = {}
    /\ intent = [p \in PaymentIds |-> NoIntent]
    /\ refund = [r \in RefundIds |-> NoRefund]
    /\ stripeRefund = [r \in RefundIds |-> "none"]
    /\ outbox = {}
    /\ dlq = {}
    /\ consumer = [c \in Consumers |-> Idle]
    /\ refundConsumer = [c \in RefundConsumers |-> RefundIdle]
    /\ settler = [s \in Settlers |-> SettlerIdle]

-----------------------------------------------------------------------------
(* The store. *)

IsStripe(p) == payment[p].request \in StripeOrders

Event(topic, p, detail) ==
    [topic |-> topic, order |-> payment[p].request, payment |-> p, detail |-> detail]

\* Mutants: the event is lost, or leaves before the row is written.
RecordPaymentResult_NoEvent(p, status, topic) ==
    /\ payment' = [payment EXCEPT ![p].status = IF @ = "REQUESTED" THEN status ELSE @]
    /\ UNCHANGED outbox
RecordPaymentResult_EventFirst(p, status, topic) ==
    /\ outbox' = outbox \cup {Event(topic, p, None)}
    /\ UNCHANGED payment

\* One transaction: the terminal status and its event, or nothing at all when
\* the row is already terminal.
RecordPaymentResult(p, status, topic) ==
    IF payment[p].status = "REQUESTED"
    THEN /\ payment' = [payment EXCEPT ![p].status = status]
         /\ outbox' = outbox \cup {Event(topic, p, None)}
    ELSE UNCHANGED <<payment, outbox>>

\* Mutant: the unresolved_notified flag is not looked at.
RecordPaymentUnresolved_Repeats(p, reason) ==
    IF payment[p].status = "REQUESTED"
    THEN /\ payment' = [payment EXCEPT ![p].notified = TRUE]
         /\ outbox' = outbox \cup {Event("payment.unresolved", p, reason)}
    ELSE UNCHANGED <<payment, outbox>>

RecordPaymentUnresolved(p, reason) ==
    IF payment[p].status = "REQUESTED" /\ ~payment[p].notified
    THEN /\ payment' = [payment EXCEPT ![p].notified = TRUE]
         /\ outbox' = outbox \cup {Event("payment.unresolved", p, reason)}
    ELSE UNCHANGED <<payment, outbox>>

\* Mutants: the row is not checked, or a decline without charge id has no key.
RecordPaymentDeclined_Late(p, attempt) ==
    /\ declined' = declined \cup {<<p, attempt>>}
    /\ outbox' = outbox \cup {Event("payment.declined", p, attempt)}
RecordPaymentDeclined_NoKey(p, attempt) ==
    IF payment[p].status = "REQUESTED"
    THEN /\ declined' = declined \cup {<<p, None>>}
         /\ outbox' = outbox \cup {Event("payment.declined", p, None)}
    ELSE UNCHANGED <<declined, outbox>>

RecordPaymentDeclined(p, attempt) ==
    IF payment[p].status = "REQUESTED" /\ <<p, attempt>> \notin declined
    THEN /\ declined' = declined \cup {<<p, attempt>>}
         /\ outbox' = outbox \cup {Event("payment.declined", p, attempt)}
    ELSE UNCHANGED <<declined, outbox>>

\* The simulated provider: insert unless the key, or the payment, already has
\* an operation of this kind; then return the row that is there.
LedgerRows(operation, p) == {e \in ledger : e.operation = operation /\ e.payment = p}
LedgerInsert(operation, key, p, approved) ==
    IF LedgerRows(operation, p) = {}
    THEN ledger' = ledger \cup
            {[operation |-> operation, key |-> key, payment |-> p, approved |-> approved]}
    ELSE UNCHANGED ledger

-----------------------------------------------------------------------------
(* Consumers of payment.requested. *)

Held(c) == consumer[c].payment
Goto(c, pc) == consumer' = [consumer EXCEPT ![c].pc = pc]
Release(c) == consumer' = [consumer EXCEPT ![c] = Idle]

\* Mutant: only an unfinished row counts as the request's payment.
Unclaimed_ByLive(o) == \A q \in PaymentIds : payment[q].request = o => payment[q].status \in Terminal
Unclaimed(o) == \A q \in PaymentIds : payment[q].request # o

\* Mutant: any row means that the request was handled.
Resumable_Never(p, o) == FALSE
Resumable(p, o) == payment[p].request = o /\ payment[p].status = "REQUESTED"

\* SaveRequested: one row per request event.  A request whose payment is
\* terminal is acknowledged without a call; an unfinished one is resumed.
HandleRequest(c, o) ==
    /\ consumer[c].pc = "idle"
    /\ \E p \in PaymentIds :
        /\ \/ Resumable(p, o) /\ UNCHANGED payment
           \/ /\ Unclaimed(o)
              /\ payment[p] = NoPayment
              /\ payment' = [payment EXCEPT ![p] =
                    [request |-> o, status |-> "REQUESTED", notified |-> FALSE]]
        /\ consumer' = [consumer EXCEPT ![c] = [pc |-> "charge", payment |-> p, approved |-> FALSE]]
    /\ UNCHANGED <<declined, bound, intent, refundVars, ledger, outbox, settler>>

\* LedgerCharge commits on its own; the answer is only in memory after it.
ChargeSimulated(c) ==
    LET p == Held(c) IN
    /\ consumer[c].pc = "charge"
    /\ ~IsStripe(p)
    /\ LedgerInsert("CHARGE", p, p, payment[p].request \notin Declining)
    /\ \E e \in ledger' :
        /\ e.operation = "CHARGE" /\ e.payment = p
        /\ consumer' = [consumer EXCEPT ![c].pc = "record", ![c].approved = e.approved]
    /\ UNCHANGED <<payment, declined, bound, intent, refundVars, outbox, settler>>

RecordResult(c) ==
    /\ consumer[c].pc = "record"
    /\ IF consumer[c].approved
       THEN RecordPaymentResult(Held(c), "SUCCEEDED", "payment.succeeded")
       ELSE RecordPaymentResult(Held(c), "FAILED", "payment.failed")
    /\ Release(c)
    /\ UNCHANGED <<declined, bound, intent, refundVars, ledger, settler>>

\* Stripe: create the intent or read it again, bind it, and leave the outcome
\* to the settlers.
CreateIntent(p) ==
    IF intent[p] = NoIntent
    THEN intent' = [intent EXCEPT ![p].state = "open"]
    ELSE UNCHANGED intent

AwaitStripe(c) ==
    LET p == Held(c) IN
    /\ consumer[c].pc = "charge"
    /\ IsStripe(p)
    /\ CreateIntent(p)
    /\ bound' = bound \cup {p}
    /\ Release(c)
    /\ UNCHANGED <<payment, declined, refundVars, ledger, outbox, settler>>

\* The call fails or its answer is lost: it may have taken effect all the same.
ChargeError(c) ==
    LET p == Held(c) IN
    /\ consumer[c].pc = "charge"
    /\ \/ UNCHANGED <<ledger, intent>>
       \/ /\ ~IsStripe(p)
          /\ LedgerInsert("CHARGE", p, p, payment[p].request \notin Declining)
          /\ UNCHANGED intent
       \/ /\ IsStripe(p)
          /\ CreateIntent(p)
          /\ UNCHANGED ledger
    /\ Goto(c, "unknown")
    /\ UNCHANGED <<payment, declined, bound, refundVars, outbox, settler>>

\* Mutant: an unknown outcome is taken for a decline.
ReportUnresolved_AsFailure(c) ==
    /\ consumer[c].pc = "unknown"
    /\ RecordPaymentResult(Held(c), "FAILED", "payment.failed")
    /\ Release(c)
    /\ UNCHANGED <<declined, bound, intent, refundVars, ledger, settler>>

ReportUnresolved(c) ==
    /\ consumer[c].pc = "unknown"
    /\ RecordPaymentUnresolved(Held(c), "provider_outcome_unknown")
    /\ Release(c)
    /\ UNCHANGED <<declined, bound, intent, refundVars, ledger, settler>>

\* A crash, a shutdown, or a store error: the offset is not committed.
Crash(c) ==
    /\ consumer[c].pc # "idle"
    /\ Release(c)
    /\ UNCHANGED <<payment, declined, bound, intent, refundVars, ledger, outbox, settler>>

-----------------------------------------------------------------------------
(* Stripe and the customer's browser (external), and the settlers. *)

SetIntent(p, state, attempt) ==
    /\ intent' = [intent EXCEPT ![p] = [state |-> state, attempt |-> attempt]]
    /\ UNCHANGED <<payment, declined, bound, consumer, refundVars, ledger, outbox, settler>>

\* The customer gets the client secret of a bound, unfinished intent and tries
\* a card.
CardAttempt(p, attempt) ==
    /\ p \in bound
    /\ intent[p].state \in {"open", "declined", "transient"}
    /\ \E state \in {"processing", "declined", "transient", "succeeded"} : SetIntent(p, state, attempt)

CardAnswer(p) ==
    /\ intent[p].state = "processing"
    /\ \E state \in {"declined", "transient", "succeeded"} : SetIntent(p, state, intent[p].attempt)

CancelIntent(p) ==
    /\ intent[p].state \in {"open", "declined", "transient"}
    /\ SetIntent(p, "canceled", None)

\* A webhook delivery or a reconciliation round reads the intent ...
FetchIntent(s, p) ==
    /\ settler[s] = SettlerIdle
    /\ intent[p] # NoIntent
    /\ settler' = [settler EXCEPT ![s] = [payment |-> p, intent |-> intent[p]]]
    /\ UNCHANGED <<chargeVars, refundVars, ledger, outbox>>

\* ... and records what it read, which may be out of date by then.
Settle(s) ==
    LET p == settler[s].payment
        i == settler[s].intent
    IN
    /\ settler[s] # SettlerIdle
    /\ bound' = bound \cup {p}
    /\ \/ /\ i.state = "succeeded"
          /\ RecordPaymentResult(p, "SUCCEEDED", "payment.succeeded")
          /\ UNCHANGED declined
       \/ /\ i.state = "canceled"
          /\ RecordPaymentResult(p, "FAILED", "payment.failed")
          /\ UNCHANGED declined
       \/ /\ i.state = "declined"
          /\ RecordPaymentDeclined(p, i.attempt)
          /\ UNCHANGED payment
       \/ /\ i.state = "transient"
          /\ RecordPaymentUnresolved(p, "payment_retry_required")
          /\ UNCHANGED declined
       \/ /\ i.state \in {"open", "processing"}
          /\ UNCHANGED <<payment, declined, outbox>>
    /\ settler' = [settler EXCEPT ![s] = SettlerIdle]
    /\ UNCHANGED <<intent, consumer, refundVars, ledger>>

SettlerCrash(s) ==
    /\ settler[s] # SettlerIdle
    /\ settler' = [settler EXCEPT ![s] = SettlerIdle]
    /\ UNCHANGED <<chargeVars, refundVars, ledger, outbox>>

-----------------------------------------------------------------------------
(* Consumers of refund.requested. *)

InHand(c) == refundConsumer[c].refund
RefundGoto(c, pc) == refundConsumer' = [refundConsumer EXCEPT ![c].pc = pc]
RefundAnswer(c, approved) ==
    refundConsumer' = [refundConsumer EXCEPT ![c].pc = "record", ![c].approved = approved]
RefundRelease(c) == refundConsumer' = [refundConsumer EXCEPT ![c] = RefundIdle]
DeadLetter(r) == dlq' = dlq \cup {r}

\* Mutant: refunds are not unique per payment.
Unrefunded_Unchecked(p) == TRUE
Unrefunded(p) == \A r \in RefundIds : refund[r].payment # p

\* SaveRefundRequested accepts a request only for the full amount of a
\* successful payment of that order that no other refund has claimed.
Refundable(m) ==
    /\ payment[m.payment].status = "SUCCEEDED"
    /\ payment[m.payment].request = m.order
    /\ \/ refund[m.refund].payment = m.payment
       \/ refund[m.refund] = NoRefund /\ Unrefunded(m.payment)

HandleRefund(c, m) ==
    /\ refundConsumer[c].pc = "idle"
    /\ Refundable(m)
    /\ refund[m.refund].status \notin Terminal
    /\ refund' = [refund EXCEPT ![m.refund].payment = m.payment, ![m.refund].status = "REQUESTED"]
    /\ refundConsumer' = [refundConsumer EXCEPT ![c] =
            [pc |-> "refund", refund |-> m.refund, approved |-> FALSE]]
    /\ UNCHANGED <<chargeVars, stripeRefund, dlq, ledger, outbox, settler>>

RefuseRefund(c, m) ==
    /\ refundConsumer[c].pc = "idle"
    /\ ~Refundable(m)
    /\ DeadLetter(m.refund)
    /\ UNCHANGED <<chargeVars, refund, stripeRefund, refundConsumer, ledger, outbox, settler>>

\* LedgerRefund: only against the approved charge of the payment, and only one.
LedgerRefund(r) ==
    LET p == refund[r].payment IN
    /\ \E e \in LedgerRows("CHARGE", p) : e.approved
    /\ LedgerInsert("REFUND", r, p, TRUE)

RefundSimulated(c) ==
    LET r == InHand(c) IN
    /\ refundConsumer[c].pc = "refund"
    /\ ~IsStripe(refund[r].payment)
    /\ LedgerRefund(r)
    /\ IF \E e \in ledger' : e.operation = "REFUND" /\ e.payment = refund[r].payment /\ e.key = r
       THEN RefundAnswer(c, TRUE) /\ UNCHANGED dlq
       ELSE RefundRelease(c) /\ DeadLetter(r)
    /\ UNCHANGED <<chargeVars, refund, stripeRefund, outbox, settler>>

\* Create the refund at Stripe or read it again: only a settled one is an
\* answer, a pending one is an error that is retried.
RefundStripe(c) ==
    LET r == InHand(c) IN
    /\ refundConsumer[c].pc = "refund"
    /\ IsStripe(refund[r].payment)
    /\ \/ stripeRefund[r] # "none" /\ UNCHANGED stripeRefund
       \/ /\ stripeRefund[r] = "none"
          /\ \E state \in {"pending", "succeeded", "failed"} :
                stripeRefund' = [stripeRefund EXCEPT ![r] = state]
    /\ IF stripeRefund'[r] = "pending"
       THEN RefundGoto(c, "unknown")
       ELSE RefundAnswer(c, stripeRefund'[r] = "succeeded")
    /\ UNCHANGED <<chargeVars, refund, dlq, ledger, outbox, settler>>

RefundError(c) ==
    LET r == InHand(c) IN
    /\ refundConsumer[c].pc = "refund"
    /\ \/ UNCHANGED <<ledger, stripeRefund>>
       \/ /\ ~IsStripe(refund[r].payment)
          /\ LedgerRefund(r)
          /\ UNCHANGED stripeRefund
       \/ /\ IsStripe(refund[r].payment)
          /\ stripeRefund[r] = "none"
          /\ stripeRefund' = [stripeRefund EXCEPT ![r] = "pending"]
          /\ UNCHANGED ledger
    /\ RefundGoto(c, "unknown")
    /\ UNCHANGED <<chargeVars, refund, dlq, outbox, settler>>

StripeRefundSettles(r) ==
    /\ stripeRefund[r] = "pending"
    /\ \E state \in {"succeeded", "failed"} : stripeRefund' = [stripeRefund EXCEPT ![r] = state]
    /\ UNCHANGED <<chargeVars, refund, dlq, refundConsumer, ledger, outbox, settler>>

ReportRefundUnresolved(c) ==
    LET r == InHand(c) IN
    /\ refundConsumer[c].pc = "unknown"
    /\ IF refund[r].status = "REQUESTED" /\ ~refund[r].notified
       THEN /\ refund' = [refund EXCEPT ![r].notified = TRUE]
            /\ outbox' = outbox \cup {Event("refund.unresolved", refund[r].payment, r)}
       ELSE UNCHANGED <<refund, outbox>>
    /\ RefundRelease(c)
    /\ UNCHANGED <<chargeVars, stripeRefund, dlq, ledger, settler>>

\* RecordRefundResultAndEnqueue: a second, different outcome is a conflict.
RecordRefundResult(c) ==
    LET r == InHand(c)
        status == IF refundConsumer[c].approved THEN "SUCCEEDED" ELSE "FAILED"
        topic == IF refundConsumer[c].approved THEN "refund.succeeded" ELSE "refund.failed"
    IN
    /\ refundConsumer[c].pc = "record"
    /\ IF refund[r].status = "REQUESTED"
       THEN /\ refund' = [refund EXCEPT ![r].status = status]
            /\ outbox' = outbox \cup {Event(topic, refund[r].payment, r)}
       ELSE UNCHANGED <<refund, outbox>>
    /\ IF refund[r].status \in Terminal \ {status} THEN DeadLetter(r) ELSE UNCHANGED dlq
    /\ RefundRelease(c)
    /\ UNCHANGED <<chargeVars, stripeRefund, ledger, settler>>

RefundCrash(c) ==
    /\ refundConsumer[c].pc # "idle"
    /\ RefundRelease(c)
    /\ UNCHANGED <<chargeVars, refund, stripeRefund, dlq, ledger, outbox, settler>>

-----------------------------------------------------------------------------
\* What the service does once a request is in hand, and what Stripe does.
ChargeStep(c) ==
    \/ ChargeSimulated(c) \/ RecordResult(c) \/ AwaitStripe(c)
    \/ ChargeError(c) \/ ReportUnresolved(c) \/ Crash(c)

RefundStep(c) ==
    \/ RefundSimulated(c) \/ RefundStripe(c) \/ RefundError(c)
    \/ ReportRefundUnresolved(c) \/ RecordRefundResult(c) \/ RefundCrash(c)

SettlerStep(s) == Settle(s) \/ SettlerCrash(s) \/ \E p \in PaymentIds : FetchIntent(s, p)

Stripe ==
    \/ \E p \in PaymentIds :
          CardAnswer(p) \/ CancelIntent(p) \/ \E a \in Attempts : CardAttempt(p, a)
    \/ \E r \in RefundIds : StripeRefundSettles(r)

Internal ==
    \/ \E c \in Consumers : ChargeStep(c)
    \/ \E c \in RefundConsumers : RefundStep(c)
    \/ \E s \in Settlers : SettlerStep(s)
    \/ Stripe

Next ==
    \/ Internal
    \/ \E c \in Consumers, o \in Orders : HandleRequest(c, o)
    \/ \E c \in RefundConsumers, m \in RefundRequest : HandleRefund(c, m) \/ RefuseRefund(c, m)

Spec == Init /\ [][Next]_vars
-----------------------------------------------------------------------------
(* Fairness.  An uncommitted request is fetched again until it is handled,  *)
(* and the reconciliation loop rotates over the unfinished payments, so none *)
(* is passed over for ever.  Each attempt may fail, but one that can succeed *)
(* again and again succeeds in the end (strong fairness).  Nothing is        *)
(* assumed of customers and cards, and crashes may go on for ever.           *)
Fairness ==
    /\ \A o \in Orders : SF_vars(\E c \in Consumers : HandleRequest(c, o))
    /\ \A c \in Consumers :
          /\ WF_vars(ChargeStep(c))
          /\ SF_vars(ChargeSimulated(c))
          /\ SF_vars(RecordResult(c))
          /\ SF_vars(AwaitStripe(c))
    /\ \A s \in Settlers, p \in PaymentIds :
          /\ SF_vars(FetchIntent(s, p))
          /\ SF_vars(Settle(s) /\ settler[s].payment = p)

LiveSpec == Spec /\ Fairness

-----------------------------------------------------------------------------
(* Properties. *)

\* Every variable holds values of the columns and records it stands for.
TypeOK ==
    /\ payment \in [PaymentIds -> [request : Orders \cup {None}, status : Statuses, notified : BOOLEAN]]
    /\ ledger \subseteq [operation : {"CHARGE", "REFUND"}, key : PaymentIds \cup RefundIds,
                         payment : PaymentIds, approved : BOOLEAN]
    /\ declined \subseteq PaymentIds \X Attempts
    /\ bound \subseteq PaymentIds
    /\ intent \in [PaymentIds -> [state : {"none", "open", "processing", "declined", "transient",
                                           "succeeded", "canceled"},
                                  attempt : Attempts \cup {None}]]
    /\ refund \in [RefundIds -> [payment : PaymentIds \cup {None}, status : Statuses, notified : BOOLEAN]]
    /\ stripeRefund \in [RefundIds -> {"none", "pending", "succeeded", "failed"}]
    /\ dlq \subseteq RefundIds
    /\ consumer \in [Consumers -> [pc : {"idle", "charge", "record", "unknown"},
                                   payment : PaymentIds \cup {None}, approved : BOOLEAN]]
    /\ refundConsumer \in [RefundConsumers -> [pc : {"idle", "refund", "record", "unknown"},
                                               refund : RefundIds \cup {None}, approved : BOOLEAN]]

\* Whether the provider took, or gave back, the customer's money.
Charged(p) ==
    \/ intent[p].state = "succeeded"
    \/ \E e \in ledger : e.operation = "CHARGE" /\ e.payment = p /\ e.approved
GivenBack(r, p) ==
    \/ [operation |-> "REFUND", key |-> r, payment |-> p, approved |-> TRUE] \in ledger
    \/ stripeRefund[r] = "succeeded" /\ refund[r].payment = p

\* However often a request is delivered, retried after an unknown outcome or
\* handled by two consumers at once, the customer is charged once for it.
ChargedOnce ==
    \A p, q \in PaymentIds :
        Charged(p) /\ Charged(q) /\ payment[p].request = payment[q].request => p = q

\* The row agrees with the provider: SUCCEEDED only if the money was taken,
\* FAILED only if it was not and never will be.
OutcomeIsTheProviders ==
    \A p \in PaymentIds :
        /\ payment[p].status = "SUCCEEDED" => Charged(p)
        /\ payment[p].status = "FAILED" =>
              /\ ~Charged(p)
              /\ IsStripe(p) => intent[p].state = "canceled"

\* The outbox tells the backend one outcome per payment, the recorded one, and
\* at most once that it is unknown.
EventsOf(p, topics) == {e \in outbox : e.payment = p /\ e.topic \in topics}
OutboxAgrees ==
    \A p \in PaymentIds :
        /\ payment[p].status = "SUCCEEDED" <=> EventsOf(p, {"payment.succeeded"}) # {}
        /\ payment[p].status = "FAILED" <=> EventsOf(p, {"payment.failed"}) # {}
        /\ Cardinality(EventsOf(p, {"payment.unresolved"})) <= 1
        /\ \A e \in EventsOf(p, {"payment.declined"}) : <<p, e.detail>> \in declined

\* Money goes back once per payment and only if it was taken, whatever refund
\* requests arrive, and the refund row never denies what the provider did.
RefundedOnce ==
    \A p \in PaymentIds :
        /\ \A r, s \in RefundIds : GivenBack(r, p) /\ GivenBack(s, p) => r = s
        /\ \A r \in RefundIds :
            /\ GivenBack(r, p) => Charged(p) /\ payment[p].status = "SUCCEEDED"
            /\ refund[r].payment = p /\ refund[r].status = "SUCCEEDED" => GivenBack(r, p)
            /\ refund[r].payment = p /\ refund[r].status = "FAILED" => ~GivenBack(r, p)

\* Both: what the service has recorded of money never contradicts the provider.
RowsAgreeWithProvider == OutcomeIsTheProviders /\ RefundedOnce

\* Once a payment or refund is settled, no consumer with an old answer and no
\* settler with an old intent changes it or reports about it again.
SettledIsSilent ==
    [][/\ \A p \in PaymentIds :
            payment[p].status \in Terminal =>
                /\ payment'[p] = payment[p]
                /\ \A e \in outbox' \ outbox : e.payment = p => e.topic \in
                      {"refund.unresolved", "refund.succeeded", "refund.failed"}
       /\ \A r \in RefundIds :
            refund[r].status \in Terminal =>
                /\ refund'[r] = refund[r]
                /\ \A e \in outbox' \ outbox : e.payment = refund[r].payment => e.detail # r]_vars

\* Money taken is always reported in the end, although the answer may be lost,
\* the consumer may crash between charge and record, and the request is retried.
ChargeIsReported == \A p \in PaymentIds : Charged(p) ~> EventsOf(p, {"payment.succeeded"}) # {}

\* Every order paid with the simulated provider is settled in the end.
SimulatedSettles ==
    \A o \in Orders \ StripeOrders :
        <>(\E p \in PaymentIds : payment[p].request = o /\ payment[p].status \in Terminal)
=============================================================================
