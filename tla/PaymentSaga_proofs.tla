-------------------------- MODULE PaymentSaga_proofs --------------------------
(* Theorems about PaymentSaga: the two services keep their books in agreement *)
(* over Kafka, and together they keep the promise of OrderMoney.              *)
(*                                                                            *)
(* Everything that one side does by itself is taken from its own theorems,    *)
(* with the variables of the saga in the place of the component's.            *)
EXTENDS PaymentSaga, TLAPS

ShopP == INSTANCE OrderLifecycle_proofs WITH NoPayment <- None
PayP == INSTANCE PaymentService_proofs WITH
    RefundIds <- Orders, payment <- payPayment, declined <- payDeclined,
    refund <- payRefund, outbox <- payOutbox

-----------------------------------------------------------------------------
(* The proof modules extend the components, so they speak of the same program. *)

\* The shop's starting state and its own operations.
LEMMA SameOperation == (Shop!Init <=> ShopP!Init) /\ (Shop!Operation <=> ShopP!Operation)
BY DEF Shop!Init, ShopP!Init, Shop!PaymentRequested, ShopP!PaymentRequested, Shop!RefundRequested,
   ShopP!RefundRequested, Shop!NoReceipt, ShopP!NoReceipt, Shop!NoRefund, ShopP!NoRefund,
   Shop!CanTransition, ShopP!CanTransition, Shop!Notice, ShopP!Notice, Shop!Notify, ShopP!Notify,
   Shop!NoticeOf, ShopP!NoticeOf, Shop!HasOpenRequest, ShopP!HasOpenRequest, Shop!Allocatable,
   ShopP!Allocatable, Shop!FirstRow, ShopP!FirstRow, Shop!ReleaseStock, ShopP!ReleaseStock,
   Shop!ChargeProven, ShopP!ChargeProven, Shop!IssueRefund, ShopP!IssueRefund, Shop!CloseRequests,
   ShopP!CloseRequests, Shop!RefundOwed, ShopP!RefundOwed, Shop!EnsureRefund, ShopP!EnsureRefund,
   Shop!CancelAndRecover, ShopP!CancelAndRecover, Shop!RefundEligible, ShopP!RefundEligible,
   Shop!Statuses, ShopP!Statuses, Shop!Actors, ShopP!Actors, Shop!moneyVars, ShopP!moneyVars,
   Shop!refundVars, ShopP!refundVars, Shop!stockVars, ShopP!stockVars, Shop!PlaceOrder,
   ShopP!PlaceOrder, Shop!SetTracking, ShopP!SetTracking, Shop!Fulfil, ShopP!Fulfil,
   Shop!CancelOrder, ShopP!CancelOrder, Shop!RequestRefund, ShopP!RequestRefund, Shop!ApproveRefund,
   ShopP!ApproveRefund, Shop!RejectRefund, ShopP!RejectRefund, Shop!Operation, ShopP!Operation

\* The listeners of the shop.
LEMMA SameListeners ==
    /\ \A m : Shop!OnPaymentSucceeded(m) <=> ShopP!OnPaymentSucceeded(m)
    /\ \A m : Shop!OnPaymentFailed(m) <=> ShopP!OnPaymentFailed(m)
    /\ \A m, reason : Shop!OnPaymentUnresolved(m, reason) <=> ShopP!OnPaymentUnresolved(m, reason)
    /\ \A m, attempt : Shop!OnPaymentDeclined(m, attempt) <=> ShopP!OnPaymentDeclined(m, attempt)
    /\ \A m, target : Shop!OnRefundResult(m, target) <=> ShopP!OnRefundResult(m, target)
BY DEF Shop!PaymentRequested, ShopP!PaymentRequested, Shop!RefundRequested, ShopP!RefundRequested,
   Shop!NoReceipt, ShopP!NoReceipt, Shop!NoRefund, ShopP!NoRefund, Shop!CanTransition,
   ShopP!CanTransition, Shop!Notice, ShopP!Notice, Shop!Notify, ShopP!Notify, Shop!NoticeOf,
   ShopP!NoticeOf, Shop!HasOpenRequest, ShopP!HasOpenRequest, Shop!Allocatable, ShopP!Allocatable,
   Shop!FirstRow, ShopP!FirstRow, Shop!ReleaseStock, ShopP!ReleaseStock, Shop!ChargeProven,
   ShopP!ChargeProven, Shop!IssueRefund, ShopP!IssueRefund, Shop!CloseRequests, ShopP!CloseRequests,
   Shop!RefundOwed, ShopP!RefundOwed, Shop!EnsureRefund, ShopP!EnsureRefund, Shop!CancelAndRecover,
   ShopP!CancelAndRecover, Shop!RefundEligible, ShopP!RefundEligible, Shop!Statuses, ShopP!Statuses,
   Shop!Actors, ShopP!Actors, Shop!moneyVars, ShopP!moneyVars, Shop!refundVars, ShopP!refundVars,
   Shop!stockVars, ShopP!stockVars, Shop!TerminalPayment, ShopP!TerminalPayment, Shop!Correlated,
   ShopP!Correlated, Shop!PaymentFits, ShopP!PaymentFits, Shop!Recordable, ShopP!Recordable,
   Shop!Unsettled, ShopP!Unsettled, Shop!RefundPending, ShopP!RefundPending, Shop!RecordOutcome,
   ShopP!RecordOutcome, Shop!OnPaymentSucceeded, ShopP!OnPaymentSucceeded, Shop!OnPaymentFailed,
   ShopP!OnPaymentFailed, Shop!OnPaymentUnresolved, ShopP!OnPaymentUnresolved,
   Shop!OnPaymentDeclined, ShopP!OnPaymentDeclined, Shop!OnRefundResult, ShopP!OnRefundResult

\* What the Payment Service does by itself and where it starts from.
LEMMA SameInternal == (Pay!Init <=> PayP!Init) /\ (Pay!Internal <=> PayP!Internal)
BY DEF Pay!Init, PayP!Init, Pay!Statuses, PayP!Statuses, Pay!Terminal, PayP!Terminal, Pay!NoPayment,
   PayP!NoPayment, Pay!NoRefund, PayP!NoRefund, Pay!NoIntent, PayP!NoIntent, Pay!Idle, PayP!Idle,
   Pay!RefundIdle, PayP!RefundIdle, Pay!SettlerIdle, PayP!SettlerIdle, Pay!RefundRequest,
   PayP!RefundRequest, Pay!IsStripe, PayP!IsStripe, Pay!Event, PayP!Event, Pay!RecordPaymentResult,
   PayP!RecordPaymentResult, Pay!RecordPaymentUnresolved, PayP!RecordPaymentUnresolved,
   Pay!RecordPaymentDeclined, PayP!RecordPaymentDeclined, Pay!LedgerRows, PayP!LedgerRows,
   Pay!LedgerInsert, PayP!LedgerInsert, Pay!Held, PayP!Held, Pay!Goto, PayP!Goto, Pay!Release,
   PayP!Release, Pay!Unclaimed, PayP!Unclaimed, Pay!Resumable, PayP!Resumable, Pay!HandleRequest,
   PayP!HandleRequest, Pay!ChargeSimulated, PayP!ChargeSimulated, Pay!RecordResult,
   PayP!RecordResult, Pay!CreateIntent, PayP!CreateIntent, Pay!AwaitStripe, PayP!AwaitStripe,
   Pay!ChargeError, PayP!ChargeError, Pay!ReportUnresolved, PayP!ReportUnresolved, Pay!Crash,
   PayP!Crash, Pay!SetIntent, PayP!SetIntent, Pay!CardAttempt, PayP!CardAttempt, Pay!CardAnswer,
   PayP!CardAnswer, Pay!CancelIntent, PayP!CancelIntent, Pay!FetchIntent, PayP!FetchIntent,
   Pay!Settle, PayP!Settle, Pay!SettlerCrash, PayP!SettlerCrash, Pay!InHand, PayP!InHand,
   Pay!RefundGoto, PayP!RefundGoto, Pay!RefundAnswer, PayP!RefundAnswer, Pay!RefundRelease,
   PayP!RefundRelease, Pay!DeadLetter, PayP!DeadLetter, Pay!Unrefunded, PayP!Unrefunded,
   Pay!Refundable, PayP!Refundable, Pay!HandleRefund, PayP!HandleRefund, Pay!RefuseRefund,
   PayP!RefuseRefund, Pay!LedgerRefund, PayP!LedgerRefund, Pay!RefundSimulated,
   PayP!RefundSimulated, Pay!RefundStripe, PayP!RefundStripe, Pay!RefundError, PayP!RefundError,
   Pay!StripeRefundSettles, PayP!StripeRefundSettles, Pay!ReportRefundUnresolved,
   PayP!ReportRefundUnresolved, Pay!RecordRefundResult, PayP!RecordRefundResult, Pay!RefundCrash,
   PayP!RefundCrash, Pay!ChargeStep, PayP!ChargeStep, Pay!RefundStep, PayP!RefundStep,
   Pay!SettlerStep, PayP!SettlerStep, Pay!Stripe, PayP!Stripe, Pay!Internal, PayP!Internal,
   Pay!chargeVars, PayP!chargeVars, Pay!refundVars, PayP!refundVars

\* What it does with a request.
LEMMA SameConsumers ==
    /\ \A c, o : Pay!HandleRequest(c, o) <=> PayP!HandleRequest(c, o)
    /\ \A c, m : Pay!HandleRefund(c, m) <=> PayP!HandleRefund(c, m)
    /\ \A c, m : Pay!RefuseRefund(c, m) <=> PayP!RefuseRefund(c, m)
BY DEF Pay!Statuses, PayP!Statuses, Pay!Terminal, PayP!Terminal, Pay!NoPayment, PayP!NoPayment,
   Pay!NoRefund, PayP!NoRefund, Pay!Idle, PayP!Idle, Pay!RefundIdle, PayP!RefundIdle, Pay!Unclaimed,
   PayP!Unclaimed, Pay!Resumable, PayP!Resumable, Pay!HandleRequest, PayP!HandleRequest,
   Pay!RefundGoto, PayP!RefundGoto, Pay!DeadLetter, PayP!DeadLetter, Pay!Unrefunded,
   PayP!Unrefunded, Pay!Refundable, PayP!Refundable, Pay!HandleRefund, PayP!HandleRefund,
   Pay!RefuseRefund, PayP!RefuseRefund, Pay!chargeVars, PayP!chargeVars, Pay!refundVars,
   PayP!refundVars

\* What the provider has done.
LEMMA SameMoney ==
    /\ \A p : Pay!Charged(p) <=> PayP!Charged(p)
    /\ \A r, p : Pay!GivenBack(r, p) <=> PayP!GivenBack(r, p)
BY DEF Pay!Charged, PayP!Charged, Pay!GivenBack, PayP!GivenBack

-----------------------------------------------------------------------------
(* The Payment Service's view: every step of the saga is one of its own. *)

\* A refund.requested event of the backend is a request the service knows.
LEMMA RefundMessage ==
    ASSUME NEW o \in Orders, NEW p \in PaymentIds
    PROVE  [refund |-> o, order |-> o, payment |-> p] \in PayP!RefundRequest
BY DEF PayP!RefundRequest

\* Kafka delivers to the service what its own specification lets arrive.
LEMMA PayStepIsOwn == [Next]_vars => [PayP!Next]_(PayP!vars)
<1> SUFFICES ASSUME [Next]_vars PROVE PayP!Next \/ UNCHANGED PayP!vars
  OBVIOUS
<1>1. CASE UNCHANGED payVars
  BY <1>1 DEF payVars, PayP!vars, PayP!chargeVars, PayP!refundVars
<1>2. CASE PayStep
  BY <1>2, SameInternal DEF PayStep, PayP!Next
<1>3. ASSUME NEW c \in Consumers, NEW o \in Orders, ReceivePaymentRequest(c, o) PROVE PayP!Next
  BY <1>3, SameConsumers DEF ReceivePaymentRequest, PayP!Next
<1>4. ASSUME NEW c \in RefundConsumers, NEW o \in Orders, NEW p \in PaymentIds, ReceiveRefundRequest(c, o, p)
      PROVE  PayP!Next
  <2>1. PICK m \in PayP!RefundRequest : Pay!HandleRefund(c, m) \/ Pay!RefuseRefund(c, m)
    BY <1>4, RefundMessage DEF ReceiveRefundRequest
  <2> QED
    BY <2>1, SameConsumers DEF PayP!Next
<1>5. ShopStep \/ Publish \/ Deliver \/ UNCHANGED vars => UNCHANGED payVars
  BY DEF ShopStep, Publish, Deliver, vars
<1> QED
  BY <1>1, <1>2, <1>3, <1>4, <1>5 DEF Next

\* What the service guarantees by itself: see PaymentService_proofs.
PayInv == PayP!ServiceInv /\ PayP!EventsInv /\ PayP!FreshRefunds

\* It guarantees that here, too.
LEMMA PayAlways == Spec => []PayInv
<1>1. Init => PayP!Init
  BY SameInternal DEF Init
<1>2. [Next]_vars => [PayP!Next]_(PayP!vars)
  BY PayStepIsOwn
<1>3. Spec => PayP!Spec
  BY <1>1, <1>2, PTL DEF Spec, PayP!Spec
<1>4. /\ PayP!Spec => []PayP!ServiceInv
      /\ PayP!Spec => []PayP!EventsInv
      /\ PayP!Spec => []PayP!FreshRefunds
  BY PayP!ServiceAlways, PayP!EventsAlways, PayP!FreshAlways, ConstantsAssumption
<1> QED
  BY <1>3, <1>4, PTL DEF PayInv
-----------------------------------------------------------------------------
(* The shop's view: what its listeners read was published by the service. *)

\* Nothing is on Kafka that neither outbox holds.
Sent == kafka \subseteq outbox \cup payOutbox

\* The two outboxes publish to different topics.
LEMMA TopicsDiffer ==
    ASSUME Sent, ShopP!TypeOK, PayP!EventsInv, NEW e \in kafka
    PROVE  IF e.topic \in {"payment.requested", "refund.requested"} THEN e \in outbox
                                                                   ELSE PayP!EventTrue(e)
<1>1. e \in outbox => e.topic \in {"payment.requested", "refund.requested"}
  BY DEF ShopP!TypeOK
<1>2. e \in payOutbox => PayP!EventTrue(e) /\ e.topic \notin {"payment.requested", "refund.requested"}
  BY DEF PayP!EventsInv, PayP!EventTrue, PayP!RefundTopics
<1> QED
  BY <1>1, <1>2 DEF Sent

\* A payment listener applies a result: "outcome" is what it records.
Applies(m, outcome) ==
    \/ ShopP!OnPaymentSucceeded(m) /\ outcome = "SUCCEEDED"
    \/ ShopP!OnPaymentFailed(m) /\ outcome = "FAILED"
    \/ (\E reason \in ShopP!UnresolvedReasons : ShopP!OnPaymentUnresolved(m, reason)) /\ outcome = "UNRESOLVED"
    \/ (\E attempt \in Attempts : ShopP!OnPaymentDeclined(m, attempt)) /\ outcome = "DECLINED"

\* The result is the service's: it names the payment's own order, and a final
\* outcome is the one in the payment's row.
TrueResult(m, outcome) ==
    /\ m \in ShopP!PaymentResult
    /\ payPayment[m.payment].request = m.order
    /\ outcome \in {"SUCCEEDED", "FAILED"} => payPayment[m.payment].status = outcome

\* So is the answer to a refund.
TrueAnswer(m, target) ==
    /\ m \in ShopP!RefundResult
    /\ target \in {"UNRESOLVED", "SUCCEEDED", "FAILED"}
    /\ target \in {"SUCCEEDED", "FAILED"} => payRefund[m.refund].status = target

PaymentIsHeard == \E m, outcome : TrueResult(m, outcome) /\ Applies(m, outcome)
RefundIsHeard == \E m, target : TrueAnswer(m, target) /\ ShopP!OnRefundResult(m, target)

\* A listener hears only the truth.
LEMMA ListenersHearTruth ==
    ASSUME Sent, ShopP!TypeOK, PayP!EventsInv, Deliver
    PROVE  PaymentIsHeard \/ RefundIsHeard
<1>1. ASSUME NEW e \in kafka, NEW outcome, Applies(Result(e), outcome),
             \/ e.topic = "payment.succeeded" /\ outcome = "SUCCEEDED"
             \/ e.topic = "payment.failed" /\ outcome = "FAILED"
             \/ e.topic = "payment.unresolved" /\ outcome = "UNRESOLVED"
             \/ e.topic = "payment.declined" /\ outcome = "DECLINED"
      PROVE  PaymentIsHeard
  <2>1. PayP!EventTrue(e)
    BY <1>1, TopicsDiffer
  <2>2. PICK m : m = Result(e)
    OBVIOUS
  <2>3. m.order = e.order /\ m.payment = e.payment
    BY <2>2 DEF Result
  <2>4. m \in ShopP!PaymentResult
    BY <2>1, <2>2 DEF Result, PayP!EventTrue, ShopP!PaymentResult
  <2>5. TrueResult(m, outcome)
    BY <1>1, <2>1, <2>3, <2>4 DEF TrueResult, PayP!EventTrue
  <2> QED
    BY <1>1, <2>2, <2>5 DEF PaymentIsHeard
<1>2. ASSUME NEW e \in kafka, NEW target, ShopP!OnRefundResult(RefundAnswer(e), target),
             \/ e.topic = "refund.unresolved" /\ target = "UNRESOLVED"
             \/ e.topic = "refund.succeeded" /\ target = "SUCCEEDED"
             \/ e.topic = "refund.failed" /\ target = "FAILED"
      PROVE  RefundIsHeard
  <2>1. PayP!EventTrue(e)
    BY <1>2, TopicsDiffer
  <2>2. PICK m : m = RefundAnswer(e)
    OBVIOUS
  <2>3. m.refund = e.detail
    BY <2>2 DEF RefundAnswer
  <2>4. m \in ShopP!RefundResult
    BY <1>2, <2>1, <2>2 DEF RefundAnswer, PayP!EventTrue, PayP!RefundTopics, ShopP!RefundResult
  <2>5. TrueAnswer(m, target)
    BY <1>2, <2>1, <2>3, <2>4 DEF TrueAnswer, PayP!EventTrue
  <2> QED
    BY <1>2, <2>2, <2>5 DEF RefundIsHeard
<1>3. CASE DeliverSucceeded
  BY <1>1, <1>3, SameListeners DEF DeliverSucceeded, OfTopic, Applies
<1>4. CASE DeliverFailed
  BY <1>1, <1>4, SameListeners DEF DeliverFailed, OfTopic, Applies
<1>5. CASE DeliverUnresolved
  <2>1. PICK e \in kafka : e.topic = "payment.unresolved" /\ ShopP!OnPaymentUnresolved(Result(e), e.detail)
    BY <1>5, SameListeners DEF DeliverUnresolved, OfTopic
  <2>2. e.detail \in ShopP!UnresolvedReasons
    BY <2>1, TopicsDiffer DEF PayP!EventTrue, ShopP!UnresolvedReasons
  <2> QED
    BY <1>1, <2>1, <2>2 DEF Applies
<1>6. CASE DeliverDeclined
  <2>1. PICK e \in kafka : e.topic = "payment.declined" /\ ShopP!OnPaymentDeclined(Result(e), e.detail)
    BY <1>6, SameListeners DEF DeliverDeclined, OfTopic
  <2>2. e.detail \in Attempts
    BY <2>1, TopicsDiffer DEF PayP!EventTrue
  <2> QED
    BY <1>1, <2>1, <2>2 DEF Applies
<1>7. CASE DeliverRefund
  BY <1>2, <1>7, SameListeners DEF DeliverRefund, OfTopic
<1> QED
  BY <1>3, <1>4, <1>5, <1>6, <1>7 DEF Deliver

\* What the shop does is one of its operations, or a listener hears the truth.
LEMMA ShopMoves ==
    ASSUME Sent, ShopP!TypeOK, PayP!EventsInv, [Next]_vars
    PROVE  \/ UNCHANGED shopVars
           \/ ShopP!Operation /\ UNCHANGED <<payVars, kafka>>
           \/ (PaymentIsHeard \/ RefundIsHeard) /\ UNCHANGED <<payVars, kafka>>
<1>1. CASE ShopStep
  BY <1>1, SameOperation DEF ShopStep
<1>2. CASE Deliver
  BY <1>2, ListenersHearTruth DEF Deliver
<1>3. CASE PayStep \/ Publish \/ UNCHANGED vars
  BY <1>3 DEF PayStep, Publish, vars
<1>4. ASSUME NEW c, NEW o, ReceivePaymentRequest(c, o) PROVE UNCHANGED shopVars
  BY <1>4 DEF ReceivePaymentRequest
<1>5. ASSUME NEW c, NEW o, NEW p, ReceiveRefundRequest(c, o, p) PROVE UNCHANGED shopVars
  BY <1>5 DEF ReceiveRefundRequest
<1> QED
  BY <1>1, <1>2, <1>3, <1>4, <1>5 DEF Next

\* Kafka delivers to the shop what its own specification lets arrive.
LEMMA ShopStepIsOwn ==
    ASSUME Sent, ShopP!TypeOK, PayP!EventsInv, [Next]_vars
    PROVE  [ShopP!Next]_(ShopP!vars)
<1>1. CASE UNCHANGED shopVars
  BY <1>1 DEF shopVars, ShopP!vars, ShopP!moneyVars, ShopP!refundVars, ShopP!stockVars
<1>2. CASE PaymentIsHeard
  BY <1>2 DEF PaymentIsHeard, TrueResult, Applies, ShopP!Next, ShopP!Delivery
<1>3. CASE RefundIsHeard
  BY <1>3 DEF RefundIsHeard, TrueAnswer, ShopP!Next, ShopP!Delivery
<1> QED
  BY <1>1, <1>2, <1>3, ShopMoves DEF ShopP!Next
-----------------------------------------------------------------------------
(* Together: the topics tie the two services to each other. *)

Base == Sent /\ ShopP!IInv /\ ShopP!RequestedIsPlaced

\* Nothing leaves an outbox, and only what is in one is published.
LEMMA SentStays ==
    ASSUME Sent, ShopP!TypeOK, PayP!ServiceInv, PayP!EventsInv, [Next]_vars
    PROVE  Sent'
<1>1. outbox \subseteq outbox'
  BY ShopStepIsOwn, ShopP!OutboxGrows, ConstantsAssumption
<1>2. payOutbox \subseteq payOutbox'
  <2>1. PayP!Telling
    BY PayStepIsOwn, PayP!StepTells, ConstantsAssumption
  <2> QED
    BY <2>1 DEF PayP!Telling, PayP!Untold, PayP!Told, PayP!ToldRefund
<1>3. CASE kafka' = kafka
  BY <1>1, <1>2, <1>3 DEF Sent
<1>4. CASE Publish
  BY <1>1, <1>2, <1>4 DEF Sent, Publish
<1>5. kafka' = kafka \/ Publish
  BY DEF Next, ShopStep, PayStep, Deliver, ReceivePaymentRequest, ReceiveRefundRequest, vars
<1> QED
  BY <1>3, <1>4, <1>5

\* Kafka holds what was sent, and the shop's own invariant holds over Kafka.
LEMMA BaseAlways == Spec => []Base
<1>1. Init => Base
  <2> SUFFICES ASSUME Init PROVE Base
    OBVIOUS
  <2>1. ShopP!Init /\ kafka = {}
    BY SameOperation DEF Init
  <2>2. ShopP!IInv
    BY <2>1, ShopP!IInvInit, ConstantsAssumption
  <2>3. ShopP!RequestedIsPlaced
    BY <2>1 DEF ShopP!Init, ShopP!RequestedIsPlaced
  <2> QED
    BY <2>1, <2>2, <2>3 DEF Base, Sent
<1>2. Base /\ PayInv /\ [Next]_vars => Base'
  <2> SUFFICES ASSUME Base, PayInv, [Next]_vars PROVE Base'
    OBVIOUS
  <2>1. Sent /\ ShopP!IInv /\ ShopP!RequestedIsPlaced /\ ShopP!TypeOK /\ PayP!ServiceInv /\ PayP!EventsInv
    BY DEF Base, PayInv, ShopP!IInv
  <2>2. [ShopP!Next]_(ShopP!vars)
    BY <2>1, ShopStepIsOwn
  <2>3. ShopP!IInv' /\ ShopP!RequestedIsPlaced'
    BY <2>1, <2>2, ShopP!IInvStep, ShopP!RequestsStayPlaced, ConstantsAssumption
  <2>4. Sent'
    BY <2>1, SentStays
  <2> QED
    BY <2>3, <2>4 DEF Base
<1> QED
  BY <1>1, <1>2, PayAlways, PTL DEF Spec

\* The shop has a payment in its book for an order only if the service charged
\* that order with it, and both know the same outcome of it.
PaymentAgrees(o) ==
    /\ paymentId[o] # None => payPayment[paymentId[o]].request = o
    /\ paymentStatus[o] \in {"SUCCEEDED", "FAILED"} =>
          paymentId[o] \in PaymentIds /\ payPayment[paymentId[o]].status = paymentStatus[o]

\* The service has a refund in its book only if the shop owes it, and the shop
\* knows no other outcome of it than the service does.
RefundAgrees(o) ==
    /\ payRefund[o].payment # None => ShopP!Due(o) /\ paymentId[o] = payRefund[o].payment
    /\ refund[o].status \in {"SUCCEEDED", "FAILED"} => payRefund[o].status = refund[o].status

\* The service charges only for orders that were placed.
PlacedFirst ==
    \A p \in PaymentIds : payPayment[p].request # None => status[payPayment[p].request] # "NONE"

Agree == \A o \in Orders : PaymentAgrees(o) /\ RefundAgrees(o)
SagaInv == Agree /\ PlacedFirst /\ NoRefundIsDeadLettered
Joint == Base /\ PayInv /\ SagaInv

\* A payment that is due to be returned is one the service knows as successful.
LEMMA DueIsPaid ==
    ASSUME Joint, NEW o \in Orders, ShopP!Due(o)
    PROVE  /\ paymentId[o] \in PaymentIds /\ refund[o].payment = paymentId[o]
           /\ payPayment[paymentId[o]].status = "SUCCEEDED"
           /\ payPayment[paymentId[o]].request = o
<1>1. paymentStatus[o] = "SUCCEEDED" /\ refund[o].payment = paymentId[o]
  BY DEF Joint, Base, ShopP!IInv, ShopP!RefundInv, ShopP!RefundIsBacked, ShopP!Due
<1>2. PaymentAgrees(o)
  BY DEF Joint, SagaInv, Agree
<1>3. paymentId[o] \in PaymentIds /\ paymentId[o] # None
  BY <1>1, <1>2, ConstantsAssumption DEF PaymentAgrees
<1> QED
  BY <1>1, <1>2, <1>3 DEF PaymentAgrees

\* A refund request that can be read belongs to a refund that is due.
LEMMA RequestIsDue ==
    ASSUME Joint, NEW o \in Orders, NEW p \in PaymentIds, Shop!RefundRequested(o, p) \in kafka
    PROVE  ShopP!Due(o) /\ paymentId[o] = p
<1>1. PICK e \in kafka : e = Shop!RefundRequested(o, p)
  OBVIOUS
<1>2. e.topic = "refund.requested" /\ e.order = o /\ e.payment = p
  BY <1>1 DEF Shop!RefundRequested
<1>3. e \in outbox
  BY <1>2, TopicsDiffer DEF Joint, Base, PayInv, ShopP!IInv
<1>4. refund[o] # ShopP!NoRefund /\ refund[o].payment = p
  BY <1>2, <1>3 DEF Joint, Base, ShopP!IInv, ShopP!RefundInv, ShopP!RefundIsBacked
<1> QED
  BY <1>4, DueIsPaid DEF ShopP!Due

\* Nor does a payment request come before its order.
LEMMA RequestIsPlaced ==
    ASSUME Joint, NEW o \in Orders, Shop!PaymentRequested(o) \in kafka
    PROVE  status[o] # "NONE"
<1>1. PICK e \in kafka : e = Shop!PaymentRequested(o)
  OBVIOUS
<1>2. e.topic = "payment.requested" /\ e.order = o
  BY <1>1 DEF Shop!PaymentRequested
<1>3. e \in outbox
  BY <1>2, TopicsDiffer DEF Joint, Base, PayInv, ShopP!IInv
<1> QED
  BY <1>2, <1>3 DEF Joint, Base, ShopP!RequestedIsPlaced

\* The service accepts every refund that is due: its payment succeeded, is that
\* order's own, and no other refund has claimed it.
LEMMA DueIsRefundable ==
    ASSUME Joint, NEW o \in Orders, ShopP!Due(o), NEW m,
           m.refund = o, m.order = o, m.payment = paymentId[o]
    PROVE  PayP!Refundable(m)
<1>1. /\ paymentId[o] \in PaymentIds
      /\ payPayment[paymentId[o]].status = "SUCCEEDED" /\ payPayment[paymentId[o]].request = o
  BY DueIsPaid
<1>2. ASSUME payRefund[o].payment # None PROVE payRefund[o].payment = paymentId[o]
  BY <1>2 DEF Joint, SagaInv, Agree, RefundAgrees
<1>3. ASSUME payRefund[o].payment = None
      PROVE  payRefund[o] = PayP!NoRefund /\ PayP!Unrefunded(paymentId[o])
  <2>1. payRefund[o] = PayP!NoRefund
    BY <1>3 DEF Joint, PayInv, PayP!FreshRefunds
  <2>2. ASSUME NEW r \in Orders, payRefund[r].payment = paymentId[o] PROVE FALSE
    <3>1. paymentId[r] = paymentId[o] /\ paymentId[r] # None
      BY <1>1, <2>2, ConstantsAssumption DEF Joint, SagaInv, Agree, RefundAgrees
    <3>2. payPayment[paymentId[r]].request = r
      BY <3>1 DEF Joint, SagaInv, Agree, PaymentAgrees
    <3> QED
      BY <1>1, <1>3, <2>2, <3>1, <3>2, ConstantsAssumption
  <2> QED
    BY <2>1, <2>2 DEF PayP!Unrefunded
<1> QED
  BY <1>1, <1>2, <1>3 DEF PayP!Refundable

-----------------------------------------------------------------------------
(* The saga's invariant is kept. *)

\* Neither side forgets: what the shop has bound and owes, and what the service
\* has in its rows, stays.
Keeps ==
    /\ \A o \in Orders : ShopP!SettledStays(o) /\ (ShopP!Due(o) => ShopP!Due(o)')
    /\ \A o \in Orders : status[o] # "NONE" => status'[o] # "NONE"
    /\ PayP!Steady /\ PayP!RefundsSteady

\* Every step of the saga keeps what each side has settled.
LEMMA StepKeeps == Joint /\ [Next]_vars => Keeps
<1> SUFFICES ASSUME Joint, [Next]_vars PROVE Keeps
  OBVIOUS
<1>1. Sent /\ ShopP!IInv /\ ShopP!TypeOK /\ PayP!ServiceInv /\ PayP!EventsInv
  BY DEF Joint, Base, PayInv, ShopP!IInv
<1>2. [ShopP!Next]_(ShopP!vars) /\ [PayP!Next]_(PayP!vars)
  BY <1>1, ShopStepIsOwn, PayStepIsOwn
<1>3. \A o \in Orders : ShopP!SettledStays(o)
  BY <1>1, <1>2, ShopP!SettledStep, ConstantsAssumption
<1>4. ShopP!OneOrderMoves
  BY <1>1, <1>2, ShopP!StepMovesOne, ConstantsAssumption
<1>5. PayP!Steady /\ PayP!RefundsSteady
  BY <1>1, <1>2, PayP!StepService, ConstantsAssumption
<1> QED
  BY <1>3, <1>4, <1>5, ShopP!MovesKeep, ConstantsAssumption DEF Keeps

\* The types that the cases below need.
LEMMA JointTypes ==
    ASSUME Joint
    PROVE  /\ paymentId \in [Orders -> PaymentIds \cup {None}]
           /\ paymentStatus \in [Orders -> ShopP!PaymentStatuses]
           /\ refund \in [Orders -> [status : ShopP!RefundStatuses, payment : PaymentIds \cup {None}]]
           /\ payPayment \in [PaymentIds -> PayP!PaymentRow]
           /\ payRefund \in [Orders -> PayP!RefundRow]
BY DEF Joint, Base, PayInv, ShopP!IInv, ShopP!TypeOK, PayP!ServiceInv, PayP!ChargeInv, PayP!RefundInv

\* A step of the service alone keeps the payments in agreement.
LEMMA PaymentAgreesOn ==
    ASSUME Joint, Keeps, NEW o \in Orders, UNCHANGED <<paymentId, paymentStatus>>
    PROVE  PaymentAgrees(o)'
<1>1. PaymentAgrees(o) /\ paymentId[o] \in PaymentIds \cup {None}
  BY JointTypes DEF Joint, SagaInv, Agree
<1>2. ASSUME paymentId[o] # None PROVE payPayment'[paymentId[o]].request = o
  BY <1>1, <1>2, ConstantsAssumption DEF PaymentAgrees, Keeps, PayP!Steady
<1>3. ASSUME paymentStatus[o] \in {"SUCCEEDED", "FAILED"}
      PROVE  paymentId[o] \in PaymentIds /\ payPayment'[paymentId[o]].status = paymentStatus[o]
  BY <1>1, <1>3 DEF PaymentAgrees, Keeps, PayP!Steady, PayP!Terminal
<1> QED
  BY <1>2, <1>3 DEF PaymentAgrees

\* Refunds agree as long as neither side claims or settles another one.
LEMMA RefundAgreesOn ==
    ASSUME Joint, Keeps, NEW o \in Orders, payRefund'[o].payment = payRefund[o].payment,
           refund'[o].status \in {"SUCCEEDED", "FAILED"} => payRefund'[o].status = refund'[o].status
    PROVE  RefundAgrees(o)'
<1>1. RefundAgrees(o)
  BY DEF Joint, SagaInv, Agree
<1>2. ASSUME payRefund[o].payment # None PROVE ShopP!Due(o)' /\ paymentId'[o] = payRefund[o].payment
  BY <1>1, <1>2 DEF RefundAgrees, Keeps, ShopP!SettledStays
<1>3. (ShopP!Due(o))' <=> refund'[o] # ShopP!NoRefund
  BY DEF ShopP!Due, ShopP!NoRefund
<1> QED
  BY <1>2, <1>3 DEF RefundAgrees, ShopP!Due, ShopP!NoRefund

\* So a refund that the service settles, while the shop's books rest, still agrees.
LEMMA SettledRefundStays ==
    ASSUME Joint, Keeps, NEW o \in Orders, refund'[o] = refund[o],
           refund[o].status \in {"SUCCEEDED", "FAILED"}
    PROVE  payRefund'[o].status = refund'[o].status
<1>1. payRefund[o].status = refund[o].status
  BY DEF Joint, SagaInv, Agree, RefundAgrees
<1> QED
  BY <1>1 DEF Keeps, PayP!RefundsSteady, PayP!Terminal

\* A step of the service on its own: nothing new is claimed and nothing refused.
LEMMA OwnStepKeeps ==
    ASSUME Joint, Keeps, UNCHANGED shopVars, PayP!OnItsOwn
    PROVE  SagaInv'
<1>1. UNCHANGED <<status, paymentId, paymentStatus, refund>>
  BY DEF shopVars
<1>2. ASSUME NEW o \in Orders PROVE PaymentAgrees(o)' /\ RefundAgrees(o)'
  <2>1. PaymentAgrees(o)'
    BY <1>1, PaymentAgreesOn
  <2>2. payRefund'[o].payment = payRefund[o].payment
    BY DEF PayP!OnItsOwn
  <2>3. refund'[o].status \in {"SUCCEEDED", "FAILED"} => payRefund'[o].status = refund'[o].status
    BY <1>1, SettledRefundStays
  <2> QED
    BY <2>1, <2>2, <2>3, RefundAgreesOn
<1>3. PlacedFirst'
  BY <1>1 DEF Joint, SagaInv, PlacedFirst, PayP!OnItsOwn
<1>4. NoRefundIsDeadLettered'
  BY DEF Joint, SagaInv, NoRefundIsDeadLettered, PayP!OnItsOwn
<1> QED
  BY <1>2, <1>3, <1>4 DEF SagaInv, Agree

\* A payment request opens a row for the placed order it names.
LEMMA PaymentRequestKeeps ==
    ASSUME Joint, Keeps, NEW c \in Consumers, NEW o \in Orders, ReceivePaymentRequest(c, o)
    PROVE  SagaInv'
<1>1. /\ UNCHANGED <<status, paymentId, paymentStatus, refund, payRefund, dlq>>
      /\ \A p \in PaymentIds : payPayment'[p].request \in {payPayment[p].request, o}
  <2>1. UNCHANGED shopVars /\ PayP!HandleRequest(c, o)
    BY SameConsumers DEF ReceivePaymentRequest
  <2>2. \A p \in PaymentIds : payPayment'[p].request \in {payPayment[p].request, o}
    BY <2>1, JointTypes DEF PayP!HandleRequest
  <2> QED
    BY <2>1, <2>2 DEF shopVars, PayP!HandleRequest, PayP!refundVars
<1>2. ASSUME NEW x \in Orders PROVE PaymentAgrees(x)' /\ RefundAgrees(x)'
  <2>1. refund'[x].status \in {"SUCCEEDED", "FAILED"} => payRefund'[x].status = refund'[x].status
    BY <1>1, SettledRefundStays
  <2> QED
    BY <1>1, <2>1, PaymentAgreesOn, RefundAgreesOn
<1>3. PlacedFirst'
  <2>1. status[o] # "NONE"
    BY RequestIsPlaced DEF ReceivePaymentRequest
  <2> QED
    BY <1>1, <2>1 DEF Joint, SagaInv, PlacedFirst
<1>4. NoRefundIsDeadLettered'
  BY <1>1 DEF Joint, SagaInv, NoRefundIsDeadLettered
<1> QED
  BY <1>2, <1>3, <1>4 DEF SagaInv, Agree

\* A refund request is never refused, and the row it opens is due.
LEMMA RefundRequestKeeps ==
    ASSUME Joint, Keeps, NEW c \in RefundConsumers, NEW o \in Orders, NEW p \in PaymentIds,
           ReceiveRefundRequest(c, o, p)
    PROVE  SagaInv'
<1>1. PICK m : m = [refund |-> o, order |-> o, payment |-> p]
  OBVIOUS
<1>2. m.refund = o /\ m.order = o /\ m.payment = p
  BY <1>1
<1>3. UNCHANGED shopVars /\ (PayP!HandleRefund(c, m) \/ PayP!RefuseRefund(c, m))
  BY <1>1, SameConsumers DEF ReceiveRefundRequest
<1>4. ShopP!Due(o) /\ paymentId[o] = p
  BY RequestIsDue DEF ReceiveRefundRequest
<1>5. PayP!HandleRefund(c, m)
  BY <1>2, <1>3, <1>4, DueIsRefundable DEF PayP!RefuseRefund
<1>6. /\ UNCHANGED <<payPayment, dlq>>
      /\ payRefund' = [payRefund EXCEPT ![o].payment = p, ![o].status = "REQUESTED"]
  BY <1>2, <1>5 DEF PayP!HandleRefund, PayP!chargeVars
<1>7. UNCHANGED <<status, paymentId, paymentStatus, refund>>
  BY <1>3 DEF shopVars
<1>8. ASSUME NEW x \in Orders PROVE PaymentAgrees(x)' /\ RefundAgrees(x)'
  <2>1. PaymentAgrees(x)'
    BY <1>7, PaymentAgreesOn
  <2>2. refund'[x].status \in {"SUCCEEDED", "FAILED"} => payRefund'[x].status = refund'[x].status
    BY <1>7, SettledRefundStays
  <2>3. payRefund'[x].payment = IF x = o THEN p ELSE payRefund[x].payment
    BY <1>6, JointTypes DEF PayP!RefundRow
  <2>4. CASE x = o
    <3>1. (ShopP!Due(x))'
      BY <1>4, <1>7, <2>4 DEF ShopP!Due, ShopP!NoRefund
    <3> QED
      BY <1>4, <1>7, <2>1, <2>2, <2>3, <2>4, <3>1 DEF RefundAgrees
  <2>5. CASE x # o
    BY <2>1, <2>2, <2>3, <2>5, RefundAgreesOn
  <2> QED
    BY <2>4, <2>5
<1>9. PlacedFirst' /\ NoRefundIsDeadLettered'
  BY <1>6, <1>7 DEF Joint, SagaInv, PlacedFirst, NoRefundIsDeadLettered
<1> QED
  BY <1>8, <1>9 DEF SagaInv, Agree

\* The shop's step leaves the service's rows alone: what it records has to agree
\* with the rows as they are.
LEMMA ShopStepKeeps ==
    ASSUME Joint, Keeps, UNCHANGED payVars,
           \A o \in Orders : PaymentAgrees(o)',
           \A o \in Orders : refund'[o].status \in {"SUCCEEDED", "FAILED"} =>
                                payRefund[o].status = refund'[o].status
    PROVE  SagaInv'
<1>1. UNCHANGED <<payPayment, payRefund, dlq>>
  BY DEF payVars
<1>2. \A o \in Orders : RefundAgrees(o)'
  BY <1>1, RefundAgreesOn
<1>3. PlacedFirst'
  BY <1>1, JointTypes DEF Joint, SagaInv, PlacedFirst, Keeps, PayP!PaymentRow
<1>4. NoRefundIsDeadLettered'
  BY <1>1 DEF Joint, SagaInv, NoRefundIsDeadLettered
<1> QED
  BY <1>2, <1>3, <1>4 DEF SagaInv, Agree

\* The refunds that are settled after a step that settles none.
LEMMA NoNewSettlement ==
    ASSUME Joint, ShopP!NoRefundSettles, NEW o \in Orders, refund'[o].status \in {"SUCCEEDED", "FAILED"}
    PROVE  payRefund[o].status = refund'[o].status
<1>1. refund'[o] = refund[o]
  BY DEF ShopP!NoRefundSettles, ShopP!TerminalRefund
<1> QED
  BY <1>1 DEF Joint, SagaInv, Agree, RefundAgrees

\* The shop's own operations record nothing that the service would have to know.
LEMMA OperationKeeps ==
    ASSUME Joint, Keeps, ShopP!Operation, UNCHANGED payVars
    PROVE  SagaInv'
<1>1. /\ UNCHANGED <<paymentId, payPayment>> /\ ShopP!NoRefundSettles
      /\ \A x \in Orders : paymentStatus'[x] \in {"SUCCEEDED", "FAILED"} => paymentStatus'[x] = paymentStatus[x]
  <2>1. ShopP!TypeOK
    BY DEF Joint, Base, ShopP!IInv
  <2> QED
    BY <2>1, ShopP!OperationSettlesNothing, ConstantsAssumption DEF payVars, ShopP!TerminalPayment
<1>2. \A o \in Orders : PaymentAgrees(o)'
  BY <1>1 DEF Joint, SagaInv, Agree, PaymentAgrees
<1> QED
  BY <1>1, <1>2, NoNewSettlement, ShopStepKeeps

\* A payment listener binds the payment that the service charged the order with
\* and records the service's own outcome.
LEMMA PaymentHeardKeeps ==
    ASSUME Joint, Keeps, PaymentIsHeard, UNCHANGED payVars
    PROVE  SagaInv'
<1>1. PICK m, outcome : TrueResult(m, outcome) /\ Applies(m, outcome)
  BY DEF PaymentIsHeard
<1>2. m \in ShopP!PaymentResult /\ m.order \in Orders /\ m.payment \in PaymentIds
  BY <1>1 DEF TrueResult, ShopP!PaymentResult
<1>3. /\ paymentId' = [paymentId EXCEPT ![m.order] = m.payment]
      /\ paymentStatus' = [paymentStatus EXCEPT ![m.order] = outcome]
      /\ ShopP!NoRefundSettles
  <2>1. ShopP!TypeOK
    BY DEF Joint, Base, ShopP!IInv
  <2>2. \/ ShopP!OnPaymentSucceeded(m) /\ outcome = "SUCCEEDED"
        \/ ShopP!OnPaymentFailed(m) /\ outcome = "FAILED"
        \/ (\E reason : ShopP!OnPaymentUnresolved(m, reason)) /\ outcome = "UNRESOLVED"
        \/ (\E attempt : ShopP!OnPaymentDeclined(m, attempt)) /\ outcome = "DECLINED"
    BY <1>1 DEF Applies
  <2> QED
    BY <1>2, <2>1, <2>2, ShopP!ListenerRecords, ConstantsAssumption
<1>4. UNCHANGED payPayment
  BY DEF payVars
<1>5. ASSUME NEW o \in Orders PROVE PaymentAgrees(o)'
  <2>1. CASE o = m.order
    <3>1. paymentId'[o] = m.payment /\ paymentStatus'[o] = outcome
      BY <1>3, <2>1, JointTypes
    <3> QED
      BY <1>1, <1>2, <1>4, <2>1, <3>1 DEF TrueResult, PaymentAgrees
  <2>2. CASE o # m.order
    <3>1. paymentId'[o] = paymentId[o] /\ paymentStatus'[o] = paymentStatus[o]
      BY <1>3, <2>2, JointTypes
    <3> QED
      BY <1>4, <3>1 DEF Joint, SagaInv, Agree, PaymentAgrees
  <2> QED
    BY <2>1, <2>2
<1> QED
  BY <1>3, <1>5, NoNewSettlement, ShopStepKeeps

\* The refund listener records what the service's row says.
LEMMA RefundHeardKeeps ==
    ASSUME Joint, Keeps, RefundIsHeard, UNCHANGED payVars
    PROVE  SagaInv'
<1>1. PICK m, target : TrueAnswer(m, target) /\ ShopP!OnRefundResult(m, target)
  BY DEF RefundIsHeard
<1>2. m.order \in Orders /\ m.refund = m.order
  BY <1>1 DEF TrueAnswer, ShopP!RefundResult, ShopP!OnRefundResult
<1>3. /\ refund' = [refund EXCEPT ![m.order].status = target]
      /\ UNCHANGED <<paymentId, paymentStatus>>
  BY <1>1 DEF ShopP!OnRefundResult, ShopP!moneyVars
<1>4. ASSUME NEW o \in Orders, refund'[o].status \in {"SUCCEEDED", "FAILED"}
      PROVE  payRefund[o].status = refund'[o].status
  <2>1. CASE o = m.order
    <3>1. refund'[o].status = target
      BY <1>3, <2>1, JointTypes
    <3> QED
      BY <1>1, <1>2, <1>4, <2>1, <3>1 DEF TrueAnswer
  <2>2. CASE o # m.order
    <3>1. refund'[o] = refund[o]
      BY <1>3, <2>2, JointTypes
    <3> QED
      BY <1>4, <3>1 DEF Joint, SagaInv, Agree, RefundAgrees
  <2> QED
    BY <2>1, <2>2
<1> QED
  BY <1>3, <1>4, PaymentAgreesOn, ShopStepKeeps

\* No step of the saga breaks its invariant.
LEMMA SagaStep == Joint /\ [Next]_vars => SagaInv'
<1> SUFFICES ASSUME Joint, [Next]_vars PROVE SagaInv'
  OBVIOUS
<1>0. Keeps /\ Sent /\ ShopP!TypeOK /\ PayP!ServiceInv /\ PayP!EventsInv
  BY StepKeeps DEF Joint, Base, PayInv, ShopP!IInv
<1>1. CASE Publish \/ UNCHANGED vars
  BY <1>1 DEF Joint, SagaInv, Agree, PaymentAgrees, RefundAgrees, PlacedFirst, NoRefundIsDeadLettered,
     ShopP!Due, ShopP!NoRefund, Publish, vars, shopVars, payVars
<1>2. CASE PayStep
  <2>1. PayP!OnItsOwn /\ UNCHANGED shopVars
    BY <1>0, <1>2, SameInternal, PayP!InternalIsOnItsOwn, ConstantsAssumption DEF PayStep
  <2> QED
    BY <1>0, <2>1, OwnStepKeeps
<1>3. ASSUME NEW c \in Consumers, NEW o \in Orders, ReceivePaymentRequest(c, o) PROVE SagaInv'
  BY <1>0, <1>3, PaymentRequestKeeps
<1>4. ASSUME NEW c \in RefundConsumers, NEW o \in Orders, NEW p \in PaymentIds, ReceiveRefundRequest(c, o, p)
      PROVE  SagaInv'
  BY <1>0, <1>4, RefundRequestKeeps
<1>5. CASE ShopStep
  BY <1>0, <1>5, SameOperation, OperationKeeps DEF ShopStep
<1>6. CASE Deliver
  BY <1>0, <1>6, ListenersHearTruth, PaymentHeardKeeps, RefundHeardKeeps DEF Deliver
<1> QED
  BY <1>1, <1>2, <1>3, <1>4, <1>5, <1>6 DEF Next

\* The saga's invariant holds in every state.
LEMMA SagaAlways == Spec => []Joint
<1>1. Init => SagaInv
  <2> SUFFICES ASSUME Init PROVE SagaInv
    OBVIOUS
  <2>1. ShopP!Init /\ PayP!Init
    BY SameOperation, SameInternal DEF Init
  <2> QED
    BY <2>1 DEF ShopP!Init, PayP!Init, SagaInv, Agree, PaymentAgrees, RefundAgrees, PlacedFirst,
       NoRefundIsDeadLettered, ShopP!NoRefund, PayP!NoPayment, PayP!NoRefund
<1>2. Base /\ PayInv /\ SagaInv /\ [Next]_vars => SagaInv'
  BY SagaStep DEF Joint
<1> QED
  BY <1>1, <1>2, BaseAlways, PayAlways, PTL DEF Spec, Joint

-----------------------------------------------------------------------------
(* What follows from it. *)

\* The backend's record of a payment and of a refund, the Payment Service's rows
\* and the provider's books agree in every state of the saga: messages that are
\* lost for a while, repeated or reordered, crashes and unknown outcomes included.
THEOREM BooksAlwaysAgree == Spec => []BooksAgree
<1>1. Joint => BooksAgree
  <2> SUFFICES ASSUME Joint, NEW o \in Orders
               PROVE  /\ paymentStatus[o] \in {"SUCCEEDED", "FAILED"} =>
                            /\ payPayment[paymentId[o]].request = o
                            /\ payPayment[paymentId[o]].status = paymentStatus[o]
                      /\ refund[o].status \in {"SUCCEEDED", "FAILED"} => payRefund[o].status = refund[o].status
                      /\ refund[o].status = "SUCCEEDED" => Pay!GivenBack(o, paymentId[o])
                      /\ paymentStatus[o] = "FAILED" =>
                            \A p \in PaymentIds : payPayment[p].request = o => ~Pay!Charged(p)
    BY DEF BooksAgree
  <2>1. PaymentAgrees(o) /\ RefundAgrees(o) /\ PayP!ServiceInv /\ PayP!FreshRefunds
    BY DEF Joint, SagaInv, Agree, PayInv
  <2>2. paymentStatus[o] \in {"SUCCEEDED", "FAILED"} =>
          paymentId[o] \in PaymentIds /\ payPayment[paymentId[o]].request = o
    BY <2>1, ConstantsAssumption DEF PaymentAgrees
  <2>3. ASSUME refund[o].status = "SUCCEEDED" PROVE Pay!GivenBack(o, paymentId[o])
    <3>1. payRefund[o].status = "SUCCEEDED"
      BY <2>1, <2>3 DEF RefundAgrees
    <3>2. payRefund[o].payment # None
      BY <2>1, <3>1 DEF PayP!FreshRefunds, PayP!NoRefund
    <3>3. payRefund[o].payment = paymentId[o] /\ paymentId[o] \in PaymentIds
      BY <2>1, <3>2, DueIsPaid DEF RefundAgrees
    <3>4. PayP!RefundedOnce
      BY <2>1, PayP!RefundsAgree, ConstantsAssumption
    <3> QED
      BY <3>1, <3>3, <3>4, SameMoney DEF PayP!RefundedOnce
  <2>4. ASSUME paymentStatus[o] = "FAILED", NEW p \in PaymentIds, payPayment[p].request = o
        PROVE  ~Pay!Charged(p)
    <3>1. p = paymentId[o]
      BY <2>1, <2>2, <2>4, ConstantsAssumption DEF PayP!ServiceInv, PayP!ChargeInv, PayP!OneRowPerRequest
    <3>2. payPayment[p].status = "FAILED"
      BY <2>1, <2>4, <3>1 DEF PaymentAgrees
    <3>3. PayP!OutcomeIsTheProviders
      BY <2>1, PayP!OutcomesAgree, ConstantsAssumption
    <3> QED
      BY <3>2, <3>3, SameMoney DEF PayP!OutcomeIsTheProviders
  <2> QED
    BY <2>1, <2>2, <2>3, <2>4 DEF PaymentAgrees, RefundAgrees
<1> QED
  BY <1>1, SagaAlways, PTL

\* No refund request of the backend is ever given to the dead letter topic: the
\* backend asks only after it has read that the charge succeeded, which the
\* Payment Service wrote before, and asks once for a payment.
THEOREM NoRefundIsLost == Spec => []NoRefundIsDeadLettered
<1>1. Joint => NoRefundIsDeadLettered
  BY DEF Joint, SagaInv
<1> QED
  BY <1>1, SagaAlways, PTL

-----------------------------------------------------------------------------
(* The saga implements OrderMoney. *)

\* What OrderMoney sees of the saga.
Goods == [x \in Orders |-> GoodsOf(x)]
Moneys == [x \in Orders |-> MoneyOf(x)]
Learned == {x \in Orders : paymentStatus[x] = "SUCCEEDED"}
Owed == {x \in Orders : refund[x] # Shop!NoRefund}

\* A step that OrderMoney does not see.
Unseen == UNCHANGED <<Goods, Moneys, Learned, Owed>>

\* Money moves only in a step of the service, and goods and knowledge only in
\* one of the shop.
LEMMA MoneyRests == UNCHANGED payVars => UNCHANGED Moneys
BY DEF payVars, Moneys, MoneyOf, Pay!Charged, Pay!GivenBack

\* Where the shop rests, its goods, its knowledge and its debts do.
LEMMA ShopRests == UNCHANGED shopVars => UNCHANGED <<Goods, Learned, Owed>>
BY DEF shopVars, Goods, GoodsOf, Learned, Owed, Shop!NoRefund

\* The knowledge of one order at most changes.
LEMMA OtherOrdersRest ==
    ASSUME NEW o \in Orders, \A x \in Orders \ {o} : ShopP!Rests(x)
    PROVE  /\ Goods' = [Goods EXCEPT ![o] = (GoodsOf(o))']
           /\ Learned' = IF ShopP!Known(o)' THEN Learned \cup {o} ELSE Learned \ {o}
           /\ Owed' = IF ShopP!Due(o)' THEN Owed \cup {o} ELSE Owed \ {o}
<1>1. \A x \in Orders \ {o} : (GoodsOf(x))' = GoodsOf(x)
  BY DEF ShopP!Rests, GoodsOf
<1>2. Goods' = [Goods EXCEPT ![o] = (GoodsOf(o))']
  BY <1>1 DEF Goods
<1>3. \A x \in Orders \ {o} : /\ paymentStatus'[x] = "SUCCEEDED" <=> paymentStatus[x] = "SUCCEEDED"
                              /\ refund'[x] # Shop!NoRefund <=> refund[x] # Shop!NoRefund
  BY DEF ShopP!Rests, ShopP!KnowsAsBefore, ShopP!Known, ShopP!Due, ShopP!NoRefund, Shop!NoRefund
<1>4. Learned' = IF ShopP!Known(o)' THEN Learned \cup {o} ELSE Learned \ {o}
  BY <1>3 DEF Learned, ShopP!Known
<1>5. Owed' = IF ShopP!Due(o)' THEN Owed \cup {o} ELSE Owed \ {o}
  BY <1>3 DEF Owed, ShopP!Due, ShopP!NoRefund, Shop!NoRefund
<1> QED
  BY <1>2, <1>4, <1>5

\* What a listener learns of a charge has happened, and none of it has gone back.
LEMMA LearnedIsTaken ==
    ASSUME Joint, SagaInv', UNCHANGED payVars, NEW o \in Orders, ShopP!Learns(o)
    PROVE  MoneyOf(o) = "taken"
<1>1. paymentStatus[o] # "SUCCEEDED" /\ paymentStatus'[o] = "SUCCEEDED"
  BY DEF ShopP!Learns, ShopP!Known
<1>2. UNCHANGED payPayment
  BY DEF payVars
<1>3. PICK p \in PaymentIds : payPayment[p].request = o /\ payPayment[p].status = "SUCCEEDED"
  BY <1>1, <1>2, ConstantsAssumption DEF SagaInv, Agree, PaymentAgrees
<1>4. PayP!ServiceInv
  BY DEF Joint, PayInv
<1>5. Pay!Charged(p)
  BY <1>3, <1>4, SameMoney, PayP!OutcomesAgree, ConstantsAssumption DEF PayP!OutcomeIsTheProviders
<1>6. ASSUME NEW q \in PaymentIds, Pay!GivenBack(o, q) PROVE FALSE
  <2>1. payRefund[o].payment = q /\ q # None
    BY <1>4, <1>6, SameMoney, PayP!GivenBackIsReturned, ConstantsAssumption
  <2>2. ShopP!Due(o)
    BY <2>1 DEF Joint, SagaInv, Agree, RefundAgrees
  <2> QED
    BY <1>1, <2>2 DEF Joint, Base, ShopP!IInv, ShopP!RefundInv, ShopP!RefundIsBacked, ShopP!Due
<1> QED
  BY <1>3, <1>5, <1>6 DEF MoneyOf

\* Every step of the shop is one of the promise's, or none.
LEMMA ShopRefines ==
    ASSUME Joint, SagaInv', UNCHANGED payVars, ShopP!OneOrderMoves
    PROVE  Money!Next \/ Unseen
<1>1. UNCHANGED Moneys
  BY MoneyRests
<1>2. CASE \A x \in Orders : ShopP!Rests(x)
  <2>1. \A x \in Orders : /\ status'[x] = status[x]
                          /\ paymentStatus'[x] = "SUCCEEDED" <=> paymentStatus[x] = "SUCCEEDED"
                          /\ refund'[x] # Shop!NoRefund <=> refund[x] # Shop!NoRefund
    BY <1>2 DEF ShopP!Rests, ShopP!KnowsAsBefore, ShopP!Known, ShopP!Due, ShopP!NoRefund, Shop!NoRefund
  <2>2. \A x \in Orders : (GoodsOf(x))' = GoodsOf(x)
    BY <2>1 DEF GoodsOf
  <2> QED
    BY <1>1, <2>1, <2>2 DEF Unseen, Goods, Learned, Owed, Shop!NoRefund
<1>3. ASSUME NEW o \in Orders,
             ShopP!Places(o) \/ ShopP!Learns(o) \/ ShopP!Cancels(o) \/ ShopP!Fulfils(o) \/ ShopP!Grants(o),
             \A x \in Orders \ {o} : ShopP!Rests(x)
      PROVE  Money!Next \/ Unseen
  <2>1. /\ Goods' = [Goods EXCEPT ![o] = (GoodsOf(o))']
        /\ Learned' = IF ShopP!Known(o)' THEN Learned \cup {o} ELSE Learned \ {o}
        /\ Owed' = IF ShopP!Due(o)' THEN Owed \cup {o} ELSE Owed \ {o}
    BY <1>3, OtherOrdersRest
  <2>2. /\ Goods[o] = GoodsOf(o)
        /\ o \in Learned <=> ShopP!Known(o)
        /\ o \in Owed <=> ShopP!Due(o)
    BY DEF Goods, Learned, Owed, ShopP!Known, ShopP!Due, Shop!NoRefund, ShopP!NoRefund
  <2>3. CASE ShopP!Places(o)
    <3>1. GoodsOf(o) = "cart" /\ (GoodsOf(o))' = "reserved" /\ UNCHANGED <<Learned, Owed>>
      BY <2>1, <2>2, <2>3 DEF ShopP!Places, ShopP!KnowsAsBefore, GoodsOf
    <3>2. Money!Place(o)
      BY <1>1, <2>1, <2>2, <3>1 DEF Money!Place, Goods, Moneys, Learned, Owed
    <3> QED
      BY <3>2 DEF Money!Next
  <2>4. CASE ShopP!Learns(o)
    <3>1. Moneys[o] = "taken"
      BY <2>4, LearnedIsTaken DEF Moneys
    <3>2. o \notin Learned /\ Learned' = Learned \cup {o}
      BY <2>1, <2>2, <2>4 DEF ShopP!Learns
    <3>3. \/ Goods[o] = "reserved" /\ Goods' = [Goods EXCEPT ![o] = "sold"] /\ UNCHANGED Owed
          \/ Goods[o] = "released" /\ UNCHANGED Goods /\ Owed' = Owed \cup {o}
      <4>1. CASE status[o] = "PENDING"
        <5>1. GoodsOf(o) = "reserved" /\ (GoodsOf(o))' = "sold" /\ (ShopP!Due(o)' <=> ShopP!Due(o))
          BY <2>4, <4>1 DEF ShopP!Learns, GoodsOf
        <5> QED
          BY <2>1, <2>2, <5>1
      <4>2. CASE status[o] = "CANCELLED"
        <5>1. GoodsOf(o) = "released" /\ (GoodsOf(o))' = "released" /\ ShopP!Due(o)'
          BY <2>4, <4>2 DEF ShopP!Learns, GoodsOf
        <5>2. Goods' = Goods
          BY <2>1, <2>2, <5>1 DEF Goods
        <5> QED
          BY <2>1, <2>2, <5>1, <5>2
      <4> QED
        BY <2>4, <4>1, <4>2 DEF ShopP!Learns
    <3>4. Money!Learn(o)
      BY <1>1, <3>1, <3>2, <3>3 DEF Money!Learn, Goods, Moneys, Learned, Owed
    <3> QED
      BY <3>4 DEF Money!Next
  <2>5. CASE ShopP!Cancels(o)
    <3>1. /\ GoodsOf(o) \in {"reserved", "sold"} /\ (GoodsOf(o))' = "released" /\ UNCHANGED Learned
          /\ Owed' = IF o \in Learned THEN Owed \cup {o} ELSE Owed
      BY <2>1, <2>2, <2>5 DEF ShopP!Cancels, GoodsOf
    <3>2. Money!Cancel(o)
      BY <1>1, <2>1, <2>2, <3>1 DEF Money!Cancel, Goods, Moneys, Learned, Owed
    <3> QED
      BY <3>2 DEF Money!Next
  <2>6. CASE ShopP!Fulfils(o)
    <3>1. (GoodsOf(o))' = "moving" /\ GoodsOf(o) \in {"sold", "moving"} /\ UNCHANGED <<Learned, Owed>>
      BY <2>1, <2>2, <2>6 DEF ShopP!Fulfils, ShopP!Sold, ShopP!KnowsAsBefore, GoodsOf
    <3>2. CASE GoodsOf(o) = "sold"
      <4>1. Money!Move(o)
        BY <1>1, <2>1, <2>2, <3>1, <3>2 DEF Money!Move, Goods, Moneys, Learned, Owed
      <4> QED
        BY <4>1 DEF Money!Next
    <3>3. CASE GoodsOf(o) = "moving"
      <4>1. Goods' = Goods
        BY <2>1, <2>2, <3>1, <3>3 DEF Goods
      <4> QED
        BY <1>1, <3>1, <4>1 DEF Unseen
    <3> QED
      BY <3>1, <3>2, <3>3
  <2>7. CASE ShopP!Grants(o)
    <3>1. /\ GoodsOf(o) \in {"sold", "moving"} /\ (GoodsOf(o))' = GoodsOf(o)
          /\ UNCHANGED Learned /\ Owed' = Owed \cup {o}
      BY <2>1, <2>2, <2>7 DEF ShopP!Grants, ShopP!Sold, GoodsOf
    <3>2. Goods' = Goods
      BY <2>1, <2>2, <3>1 DEF Goods
    <3>3. Money!Grant(o)
      BY <1>1, <2>2, <3>1, <3>2 DEF Money!Grant, Goods, Moneys, Learned, Owed
    <3> QED
      BY <3>3 DEF Money!Next
  <2> QED
    BY <1>3, <2>3, <2>4, <2>5, <2>6, <2>7
<1> QED
  BY <1>2, <1>3 DEF ShopP!OneOrderMoves

\* The provider's books of one order.
Taken(x) == \E p \in PaymentIds : payPayment[p].request = x /\ PayP!Charged(p)
Gave(x) == \E p \in PaymentIds : PayP!GivenBack(x, p)

\* The two ways of reading the books are one ...
LEMMA MoneyIs == \A x : MoneyOf(x) = IF Gave(x) THEN "returned" ELSE IF Taken(x) THEN "taken" ELSE "none"
BY SameMoney DEF MoneyOf, Taken, Gave

\* ... also after a step.
LEMMA MoneyIsNext ==
    \A x : (MoneyOf(x))' = IF Gave(x)' THEN "returned" ELSE IF Taken(x)' THEN "taken" ELSE "none"
BY DEF MoneyOf, Taken, Gave, PayP!Charged, PayP!GivenBack, Pay!Charged, Pay!GivenBack

\* Only money that was taken for an order goes back to it.
LEMMA GaveIsTaken == ASSUME Joint, NEW x \in Orders, Gave(x) PROVE Taken(x)
<1>1. PICK p \in PaymentIds : PayP!GivenBack(x, p)
  BY DEF Gave
<1>2. PayP!ServiceInv
  BY DEF Joint, PayInv
<1>3. payRefund[x].payment = p /\ p # None
  BY <1>1, <1>2, PayP!GivenBackIsReturned, ConstantsAssumption
<1>4. paymentId[x] = p /\ ShopP!Due(x)
  BY <1>3 DEF Joint, SagaInv, Agree, RefundAgrees
<1>5. payPayment[p].request = x /\ payPayment[p].status = "SUCCEEDED"
  BY <1>4, DueIsPaid
<1> QED
  BY <1>2, <1>5, PayP!OutcomesAgree, ConstantsAssumption DEF Taken, PayP!OutcomeIsTheProviders

\* An order's charge stands if those of its own payments do.
LEMMA TakenStands ==
    ASSUME Joint, Keeps, NEW x \in Orders,
           \A p \in PaymentIds : payPayment'[p].request = x => (PayP!Charged(p)' <=> PayP!Charged(p))
    PROVE  Taken(x)' <=> Taken(x)
<1>1. x # None
  BY ConstantsAssumption
<1>2. ASSUME NEW p \in PaymentIds, payPayment[p].request # None
      PROVE  payPayment'[p].request = payPayment[p].request
  BY <1>2 DEF Keeps, PayP!Steady
<1>3. ASSUME NEW p \in PaymentIds, PayP!Charged(p) PROVE payPayment[p].request # None
  BY <1>3, PayP!ChargedIsDecided, ConstantsAssumption DEF Joint, PayInv
<1> QED
  BY <1>1, <1>2, <1>3 DEF Taken

\* As long as the provider's books stand, so does every order's money.
LEMMA BooksStandUnseen ==
    ASSUME Joint, Keeps, UNCHANGED shopVars, PayP!BooksStand
    PROVE  Unseen
<1>1. \A x \in Orders : (Taken(x)' <=> Taken(x)) /\ (Gave(x)' <=> Gave(x))
  BY TakenStands DEF PayP!BooksStand, Gave
<1>2. \A x \in Orders : (MoneyOf(x))' = MoneyOf(x)
  BY <1>1, MoneyIs, MoneyIsNext
<1> QED
  BY <1>2, ShopRests DEF Unseen, Moneys

\* A charge is made for a placed order whose money was not taken before.
LEMMA ChargeRefines ==
    ASSUME Joint, Keeps, UNCHANGED shopVars, NEW q \in PaymentIds, PayP!MayCharge(q),
           ~PayP!Charged(q), PayP!Charged(q)'
    PROVE  Money!Next
<1>1. PICK o \in Orders : payPayment[q].request = o /\ payPayment'[q].request = o
  BY JointTypes DEF PayP!MayCharge, PayP!PaymentRow, Keeps, PayP!Steady
<1>2. \A x \in Orders : Gave(x)' <=> Gave(x)
  BY DEF PayP!MayCharge, Gave
<1>3. \A x \in Orders \ {o} : (MoneyOf(x))' = MoneyOf(x)
  <2>1. ASSUME NEW x \in Orders \ {o}, NEW p \in PaymentIds, payPayment'[p].request = x
        PROVE  PayP!Charged(p)' <=> PayP!Charged(p)
    BY <1>1, <2>1 DEF PayP!MayCharge
  <2>2. \A x \in Orders \ {o} : Taken(x)' <=> Taken(x)
    BY <2>1, TakenStands
  <2> QED
    BY <1>2, <2>2, MoneyIs, MoneyIsNext
<1>4. ~Taken(o)
  <2>1. \A p \in PaymentIds : payPayment[p].request = o => p = q
    BY <1>1, ConstantsAssumption DEF Joint, PayInv, PayP!ServiceInv, PayP!ChargeInv, PayP!OneRowPerRequest
  <2> QED
    BY <2>1 DEF Taken
<1>5. ~Gave(o)
  BY <1>4, GaveIsTaken
<1>6. Taken(o)'
  BY <1>1 DEF Taken
<1>7. MoneyOf(o) = "none" /\ (MoneyOf(o))' = "taken"
  BY <1>2, <1>4, <1>5, <1>6, MoneyIs, MoneyIsNext
<1>8. Moneys[o] = "none" /\ Moneys' = [Moneys EXCEPT ![o] = "taken"]
  BY <1>3, <1>7 DEF Moneys
<1>9. Goods[o] # "cart"
  <2>1. status[o] # "NONE"
    BY <1>1, ConstantsAssumption DEF Joint, SagaInv, PlacedFirst
  <2>2. GoodsOf(o) # "cart"
    BY <2>1 DEF GoodsOf
  <2> QED
    BY <2>2 DEF Goods
<1>10. Money!Charge(o)
  BY <1>8, <1>9, ShopRests DEF Money!Charge, Goods, Moneys, Learned, Owed
<1> QED
  BY <1>10 DEF Money!Next

\* Money goes back for a refund that is due and was taken before.
LEMMA ReturnRefines ==
    ASSUME Joint, Keeps, UNCHANGED shopVars, NEW o \in Orders, NEW q \in PaymentIds, PayP!MayReturn(o, q),
           ~PayP!GivenBack(o, q), PayP!GivenBack(o, q)'
    PROVE  Money!Next
<1>1. PayP!ServiceInv /\ payRefund[o].payment = q /\ q # None
  BY ConstantsAssumption DEF Joint, PayInv, PayP!MayReturn
<1>2. ShopP!Due(o) /\ paymentId[o] = q
  BY <1>1 DEF Joint, SagaInv, Agree, RefundAgrees
<1>3. payPayment[q].request = o /\ payPayment[q].status = "SUCCEEDED"
  BY <1>2, DueIsPaid
<1>4. Taken(o)
  BY <1>1, <1>3, PayP!OutcomesAgree, ConstantsAssumption DEF Taken, PayP!OutcomeIsTheProviders
<1>5. ~Gave(o)
  <2>1. \A p \in PaymentIds : PayP!GivenBack(o, p) => p = q
    BY <1>1, PayP!GivenBackIsReturned, ConstantsAssumption
  <2> QED
    BY <2>1 DEF Gave
<1>6. Gave(o)'
  BY DEF Gave
<1>7. \A x \in Orders \ {o} : (Taken(x)' <=> Taken(x)) /\ (Gave(x)' <=> Gave(x))
  BY TakenStands DEF PayP!MayReturn, Gave
<1>8. /\ MoneyOf(o) = "taken" /\ (MoneyOf(o))' = "returned"
      /\ \A x \in Orders \ {o} : (MoneyOf(x))' = MoneyOf(x)
  BY <1>4, <1>5, <1>6, <1>7, MoneyIs, MoneyIsNext
<1>9. Moneys[o] = "taken" /\ Moneys' = [Moneys EXCEPT ![o] = "returned"]
  BY <1>8 DEF Moneys
<1>10. o \in Owed
  BY <1>2 DEF Owed, ShopP!Due, ShopP!NoRefund, Shop!NoRefund
<1>11. Money!Return(o)
  BY <1>9, <1>10, ShopRests DEF Money!Return, Goods, Moneys, Learned, Owed
<1> QED
  BY <1>11 DEF Money!Next

\* Every step of the service or of a provider is one of the promise's, or none.
LEMMA PayRefines ==
    ASSUME Joint, Keeps, UNCHANGED shopVars, PayP!OneMove
    PROVE  Money!Next \/ Unseen
<1>1. ASSUME NEW q \in PaymentIds, PayP!MayCharge(q) PROVE Money!Next \/ Unseen
  <2>1. CASE ~PayP!Charged(q) /\ PayP!Charged(q)'
    BY <1>1, <2>1, ChargeRefines
  <2>2. CASE PayP!Charged(q) \/ ~PayP!Charged(q)'
    <3>1. PayP!BooksStand
      BY <1>1, <2>2 DEF PayP!MayCharge, PayP!BooksStand
    <3> QED
      BY <3>1, BooksStandUnseen
  <2> QED
    BY <2>1, <2>2
<1>2. ASSUME NEW o \in Orders, NEW q \in PaymentIds, PayP!MayReturn(o, q) PROVE Money!Next \/ Unseen
  <2>1. CASE ~PayP!GivenBack(o, q) /\ PayP!GivenBack(o, q)'
    BY <1>2, <2>1, ReturnRefines
  <2>2. CASE PayP!GivenBack(o, q) \/ ~PayP!GivenBack(o, q)'
    <3>1. PayP!BooksStand
      BY <1>2, <2>2 DEF PayP!MayReturn, PayP!BooksStand
    <3> QED
      BY <3>1, BooksStandUnseen
  <2> QED
    BY <2>1, <2>2
<1> QED
  BY <1>1, <1>2, BooksStandUnseen DEF PayP!OneMove

\* The shop and the Payment Service together, with every message, retry and
\* crash between them, do only what OrderMoney allows: money is taken once and
\* for a placed order, goods move only against it, and it returns only if due.
THEOREM SagaImplementsOrderMoney == Spec => ImplementsOrderMoney
<1>1. Init => Money!Init
  <2> SUFFICES ASSUME Init PROVE Money!Init
    OBVIOUS
  <2>1. ShopP!Init /\ PayP!Init
    BY SameOperation, SameInternal DEF Init
  <2>2. Goods = [x \in Orders |-> "cart"] /\ Learned = {} /\ Owed = {}
    BY <2>1 DEF ShopP!Init, Goods, GoodsOf, Learned, Owed, ShopP!NoRefund, Shop!NoRefund
  <2>3. \A x \in Orders : ~Taken(x) /\ ~Gave(x)
    BY <2>1 DEF PayP!Init, Taken, Gave, PayP!Charged, PayP!GivenBack, PayP!NoIntent
  <2>4. Moneys = [x \in Orders |-> "none"]
    BY <2>3, MoneyIs DEF Moneys
  <2> QED
    BY <2>2, <2>4 DEF Money!Init, Goods, Moneys, Learned, Owed
<1>2. Joint /\ SagaInv' /\ [Next]_vars => [Money!Next]_(Money!vars)
  <2> SUFFICES ASSUME Joint, SagaInv', [Next]_vars PROVE Money!Next \/ Unseen
    BY DEF Unseen, Money!vars, Goods, Moneys, Learned, Owed
  <2>0. /\ Keeps /\ Sent /\ ShopP!IInv /\ ShopP!TypeOK
        /\ PayP!ServiceInv /\ PayP!EventsInv
    BY StepKeeps DEF Joint, Base, PayInv, ShopP!IInv
  <2>1. CASE UNCHANGED shopVars
    <3>1. PayP!OneMove
      BY <2>0, PayStepIsOwn, PayP!StepMovesOne, ConstantsAssumption
    <3> QED
      BY <2>0, <2>1, <3>1, PayRefines
  <2>2. CASE UNCHANGED payVars
    <3>1. ShopP!OneOrderMoves
      BY <2>0, ShopStepIsOwn, ShopP!StepMovesOne, ConstantsAssumption
    <3> QED
      BY <2>2, <3>1, ShopRefines
  <2> QED
    BY <2>0, <2>1, <2>2, ShopMoves
<1>3. Joint => SagaInv
  BY DEF Joint
<1> QED
  BY <1>1, <1>2, <1>3, SagaAlways, PTL DEF Spec, ImplementsOrderMoney, Money!Spec

\* In the saga's own terms: goods leave only for money that the provider took,
\* the provider returns only what the backend owes, and the backend owes the
\* money of every cancelled order that it knows as paid.
THEOREM SagaKeepsPromise == Spec => []Money!Promise
<1>1. Joint => Money!Promise
  <2> SUFFICES ASSUME Joint, NEW o \in Orders
               PROVE  /\ GoodsOf(o) \in {"sold", "moving"} => MoneyOf(o) # "none"
                      /\ MoneyOf(o) = "returned" => o \in Owed
                      /\ GoodsOf(o) = "released" /\ o \in Learned => o \in Owed
    BY DEF Money!Promise, Learned, Owed
  <2>0. /\ ShopP!TypeOK /\ ShopP!ReceiptAgrees /\ ShopP!CancelledChargeIsRefunded
        /\ PayP!ServiceInv /\ PaymentAgrees(o) /\ RefundAgrees(o)
    BY DEF Joint, Base, ShopP!IInv, ShopP!RefundInv, PayInv, SagaInv, Agree
  <2>1. status[o] \in ShopP!Statuses
    BY <2>0 DEF ShopP!TypeOK
  <2>2. ASSUME GoodsOf(o) \in {"sold", "moving"} PROVE MoneyOf(o) # "none"
    <3>1. status[o] \in {"PAID", "PROCESSING", "SHIPPING", "COMPLETED"}
      BY <2>1, <2>2 DEF GoodsOf, ShopP!Statuses
    <3>2. paymentId[o] \in PaymentIds /\ payPayment[paymentId[o]].status = "SUCCEEDED"
          /\ payPayment[paymentId[o]].request = o
      BY <2>0, <3>1, ConstantsAssumption DEF ShopP!ReceiptAgrees, PaymentAgrees
    <3>3. Taken(o)
      BY <2>0, <3>2, PayP!OutcomesAgree, ConstantsAssumption DEF Taken, PayP!OutcomeIsTheProviders
    <3> QED
      BY <3>3, MoneyIs
  <2>3. ASSUME MoneyOf(o) = "returned" PROVE o \in Owed
    <3>1. PICK p \in PaymentIds : PayP!GivenBack(o, p)
      BY <2>3, MoneyIs DEF Gave
    <3>2. payRefund[o].payment # None
      BY <2>0, <3>1, PayP!GivenBackIsReturned, ConstantsAssumption
    <3> QED
      BY <2>0, <3>2 DEF RefundAgrees, Owed, ShopP!Due, ShopP!NoRefund, Shop!NoRefund
  <2>4. ASSUME GoodsOf(o) = "released", o \in Learned PROVE o \in Owed
    <3>1. status[o] = "CANCELLED" /\ paymentStatus[o] = "SUCCEEDED"
      BY <2>1, <2>4 DEF GoodsOf, Learned, ShopP!Statuses
    <3> QED
      BY <2>0, <3>1 DEF ShopP!CancelledChargeIsRefunded, Owed, ShopP!NoRefund, Shop!NoRefund
  <2> QED
    BY <2>2, <2>3, <2>4
<1> QED
  BY <1>1, SagaAlways, PTL

-----------------------------------------------------------------------------
(* What OrderMoney promises holds in every one of its behaviours, of which the *)
(* saga's are some: the variables here are any that behave as it says.         *)
VARIABLES goods, money, known, due

Any == INSTANCE OrderMoney

Shape ==
    /\ goods \in [Orders -> {"cart", "reserved", "sold", "moving", "released"}]
    /\ money \in [Orders -> {"none", "taken", "returned"}]

\* The promise needs the knowledge behind it: the shop knows only of charges
\* that were made, it sells only what it knows to be paid, and it decides to
\* return only money that was taken.
Knowledge ==
    \A o \in Orders :
        /\ o \in known => money[o] # "none" /\ goods[o] \in {"sold", "moving", "released"}
        /\ goods[o] \in {"sold", "moving"} => o \in known
        /\ o \in due => o \in known

Inductive == Shape /\ Knowledge /\ Any!Promise

\* Goods leave only against money that was taken, money returns only if the
\* shop decided so, and a known charge of a released order is always due.
THEOREM PromiseKept == Any!Spec => []Any!Promise
<1>1. Any!Init => Inductive
  BY DEF Any!Init, Inductive, Shape, Knowledge, Any!Promise
<1>2. Inductive /\ [Any!Next]_(Any!vars) => Inductive'
  <2> SUFFICES ASSUME Inductive, [Any!Next]_(Any!vars) PROVE Inductive'
    OBVIOUS
  <2> USE DEF Inductive, Shape, Knowledge, Any!Promise
  <2>1. ASSUME NEW o \in Orders, Any!Place(o) PROVE Inductive'
    BY <2>1 DEF Any!Place
  <2>2. ASSUME NEW o \in Orders, Any!Charge(o) PROVE Inductive'
    BY <2>2 DEF Any!Charge
  <2>3. ASSUME NEW o \in Orders, Any!Learn(o) PROVE Inductive'
    BY <2>3 DEF Any!Learn
  <2>4. ASSUME NEW o \in Orders, Any!Cancel(o) PROVE Inductive'
    BY <2>4 DEF Any!Cancel
  <2>5. ASSUME NEW o \in Orders, Any!Move(o) PROVE Inductive'
    BY <2>5 DEF Any!Move
  <2>6. ASSUME NEW o \in Orders, Any!Grant(o) PROVE Inductive'
    BY <2>6 DEF Any!Grant
  <2>7. ASSUME NEW o \in Orders, Any!Return(o) PROVE Inductive'
    BY <2>7 DEF Any!Return
  <2>8. CASE UNCHANGED Any!vars
    BY <2>8 DEF Any!vars
  <2> QED
    BY <2>1, <2>2, <2>3, <2>4, <2>5, <2>6, <2>7, <2>8 DEF Any!Next
<1>3. Inductive => Any!Promise
  BY DEF Inductive
<1> QED
  BY <1>1, <1>2, <1>3, PTL DEF Any!Spec
=============================================================================
