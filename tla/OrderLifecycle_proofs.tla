----------------------- MODULE OrderLifecycle_proofs -----------------------
(* Theorems about OrderLifecycle, for every value of its constants. *)
EXTENDS OrderLifecycle, Sums_proofs, TLAPS

\* A set of inventory row ids that is not empty has a first one.
LEMMA LeastRow ==
    ASSUME NEW S \in SUBSET Nat, S # {}
    PROVE  \E r \in S : \A s \in S : r <= s
<1> DEFINE R == OpToRel(<, Nat)
<1>1. IsWellFoundedOn(R, Nat)
  BY NatLessThanWellFounded
<1>2. PICK r \in S : \A s \in S : ~(<<s, r>> \in R)
  BY <1>1, WFMin
<1>3. \A s \in S : <<s, r>> \in R <=> s < r
  BY DEF OpToRel
<1> HIDE DEF R
<1>4. \A s \in S : ~(s < r)
  BY <1>2, <1>3, Zenon
<1> QED
  BY <1>4

-----------------------------------------------------------------------------
(* Type correctness. *)

RefundTypeOK ==
    /\ refund \in [Orders -> [status : RefundStatuses, payment : PaymentIds \cup {NoPayment}]]
    /\ refundRequest \in [Orders -> [RefundRequestIds -> RequestStatuses]]
    /\ outbox \subseteq [topic : {"payment.requested", "refund.requested"},
                         order : Orders, payment : PaymentIds \cup {NoPayment}]

\* Issuing a refund, or not, keeps the refund tables well-typed.
LEMMA EnsureRefundType ==
    ASSUME TypeOK, NEW o \in Orders, NEW p \in PaymentIds \cup {NoPayment},
           NEW payStatus, NEW receiptNow, EnsureRefund(o, payStatus, receiptNow, p)
    PROVE  RefundTypeOK'
<1>1. CASE UNCHANGED refundVars
  BY <1>1 DEF TypeOK, RefundTypeOK, refundVars
<1>2. CASE IssueRefund(o, p) /\ CloseRequests(o)
  BY <1>2 DEF TypeOK, RefundTypeOK, IssueRefund, CloseRequests, RefundRequested,
     RefundStatuses, RequestStatuses
<1> QED
  BY <1>1, <1>2 DEF EnsureRefund

\* Giving stock back keeps every quantity a natural number.
LEMMA ReleaseStockType ==
    ASSUME TypeOK, NEW o \in Orders, ReleaseStock(o)
    PROVE  (released \subseteq Orders /\ stock \in [Rows -> Nat])'
BY ConstantsAssumption DEF TypeOK, ReleaseStock

\* The row an order is allocated from exists and holds its quantity.
LEMMA FirstRowFits ==
    ASSUME NEW o \in Orders, Allocatable(Qty[o]) # {}
    PROVE  FirstRow(Qty[o]) \in Rows /\ stock[FirstRow(Qty[o])] >= Qty[o]
<1>1. Allocatable(Qty[o]) \in SUBSET Nat
  BY ConstantsAssumption DEF Allocatable
<1>2. \E r \in Allocatable(Qty[o]) : \A s \in Allocatable(Qty[o]) : r <= s
  BY <1>1, LeastRow
<1>3. FirstRow(Qty[o]) \in Allocatable(Qty[o])
  BY <1>2 DEF FirstRow
<1> QED
  BY <1>3 DEF Allocatable

\* Every step, the listeners' included, keeps the rows well-typed.
LEMMA TypeStep == TypeOK /\ [Next]_vars => TypeOK'
<1> SUFFICES ASSUME TypeOK, [Next]_vars PROVE TypeOK'
  OBVIOUS
<1> USE DEF moneyVars, refundVars, stockVars
<1>1. ASSUME NEW o \in Orders, PlaceOrder(o) PROVE TypeOK'
  <2> DEFINE r == FirstRow(Qty[o])
  <2>1. r \in Rows /\ stock[r] >= Qty[o]
    BY <1>1, FirstRowFits DEF PlaceOrder
  <2>2. /\ allocated' = [allocated EXCEPT ![o] = r]
        /\ stock' = [stock EXCEPT ![r] = stock[r] - Qty[o]]
        /\ outbox' = outbox \cup {PaymentRequested(o)}
    BY <1>1 DEF PlaceOrder
  <2> HIDE DEF r
  <2>3. stock[r] - Qty[o] \in Nat
    BY <2>1, ConstantsAssumption DEF TypeOK
  <2>4. (allocated \in [Orders -> Rows \cup {NoRow}])' /\ (stock \in [Rows -> Nat])'
    BY <2>1, <2>2, <2>3 DEF TypeOK
  <2>5. PaymentRequested(o) \in [topic : {"payment.requested", "refund.requested"},
                                 order : Orders, payment : PaymentIds \cup {NoPayment}]
    BY DEF PaymentRequested
  <2>6. (status \in [Orders -> Statuses] /\ paymentStatus \in [Orders -> PaymentStatuses])'
    BY <1>1 DEF TypeOK, PlaceOrder, Statuses, PaymentStatuses
  <2>7. UNCHANGED <<paymentId, receipt, declines, refund, refundRequest, cancelReceipts, tracked, released>>
    BY <1>1 DEF PlaceOrder
  <2> QED
    BY <2>2, <2>4, <2>5, <2>6, <2>7 DEF TypeOK
<1>2. ASSUME NEW o \in Orders, SetTracking(o) PROVE TypeOK'
  BY <1>2 DEF TypeOK, SetTracking
<1>3. ASSUME NEW o \in Orders, NEW target \in Statuses, Fulfil(o, target) PROVE TypeOK'
  BY <1>3 DEF TypeOK, Fulfil
<1>4. ASSUME NEW o \in Orders, NEW id \in CancelIds, NEW actor \in Actors,
             CancelOrder(id, o, actor)
      PROVE  TypeOK'
  <2>1. RefundTypeOK'
    <3>1. paymentId[o] \in PaymentIds \cup {NoPayment}
      BY DEF TypeOK
    <3>2. EnsureRefund(o, paymentStatus[o], receipt[o], paymentId[o])
      BY <1>4 DEF CancelOrder
    <3> QED
      BY <3>1, <3>2, EnsureRefundType
  <2>2. (status \in [Orders -> Statuses] /\ released \subseteq Orders /\ stock \in [Rows -> Nat])'
    <3>1. CASE CancelAndRecover(o)
      BY <3>1, ReleaseStockType DEF TypeOK, CancelAndRecover, Statuses
    <3>2. CASE UNCHANGED <<status, released, stock, notices>>
      BY <3>2 DEF TypeOK
    <3> QED
      BY <1>4, <3>1, <3>2 DEF CancelOrder
  <2> QED
    BY <1>4, <2>1, <2>2 DEF TypeOK, RefundTypeOK, CancelOrder
<1>5. ASSUME NEW o \in Orders, NEW k \in RefundRequestIds,
             RequestRefund(o, k) \/ ApproveRefund(o, k) \/ RejectRefund(o, k)
      PROVE  TypeOK'
  <2>1. CASE RequestRefund(o, k)
    BY <2>1 DEF TypeOK, RequestRefund, RequestStatuses
  <2>2. CASE ApproveRefund(o, k)
    BY <2>2 DEF TypeOK, ApproveRefund, IssueRefund, RefundRequested, RequestStatuses, RefundStatuses
  <2>3. CASE RejectRefund(o, k)
    BY <2>3 DEF TypeOK, RejectRefund, RequestStatuses
  <2> QED
    BY <1>5, <2>1, <2>2, <2>3
<1>6. ASSUME NEW m \in PaymentResult, OnPaymentSucceeded(m) PROVE TypeOK'
  <2>1. m.order \in Orders /\ m.payment \in PaymentIds
    BY DEF PaymentResult
  <2>2. RefundTypeOK'
    BY <1>6, <2>1, EnsureRefundType DEF TypeOK, RefundTypeOK, OnPaymentSucceeded
  <2> QED
    BY <1>6, <2>1, <2>2 DEF TypeOK, RefundTypeOK, OnPaymentSucceeded, RecordOutcome,
       Statuses, PaymentStatuses
<1>7. ASSUME NEW m \in PaymentResult, OnPaymentFailed(m) PROVE TypeOK'
  <2>1. m.order \in Orders /\ m.payment \in PaymentIds
    BY DEF PaymentResult
  <2>2. (status \in [Orders -> Statuses] /\ released \subseteq Orders /\ stock \in [Rows -> Nat])'
    BY <1>7, <2>1, ReleaseStockType DEF TypeOK, OnPaymentFailed, CancelAndRecover, Statuses
  <2> QED
    BY <1>7, <2>1, <2>2 DEF TypeOK, OnPaymentFailed, RecordOutcome, PaymentStatuses
<1>8. ASSUME NEW m \in PaymentResult, NEW reason \in UnresolvedReasons, OnPaymentUnresolved(m, reason)
      PROVE  TypeOK'
  BY <1>8 DEF TypeOK, OnPaymentUnresolved, PaymentResult, PaymentStatuses
<1>9. ASSUME NEW m \in PaymentResult, NEW attempt \in Attempts, OnPaymentDeclined(m, attempt)
      PROVE  TypeOK'
  BY <1>9 DEF TypeOK, OnPaymentDeclined, PaymentResult, PaymentStatuses
<1>10. ASSUME NEW m \in RefundResult, NEW target \in {"UNRESOLVED", "SUCCEEDED", "FAILED"},
              OnRefundResult(m, target)
       PROVE  TypeOK'
  <2>1. m.order \in Orders
    BY DEF RefundResult
  <2>2. /\ refund' = [refund EXCEPT ![m.order].status = target]
        /\ UNCHANGED <<status, moneyVars, refundRequest, outbox, cancelReceipts, tracked, stockVars>>
    BY <1>10 DEF OnRefundResult
  <2> QED
    BY <2>1, <2>2 DEF TypeOK, RefundStatuses
<1>11. CASE UNCHANGED vars
  BY <1>11 DEF TypeOK, vars
<1>12. CASE Operation
  BY <1>12, <1>1, <1>2, <1>3, <1>4, <1>5 DEF Operation
<1>13. CASE Delivery
  BY <1>13, <1>6, <1>7, <1>8, <1>9, <1>10 DEF Delivery
<1> QED
  BY <1>11, <1>12, <1>13 DEF Next

\* Whatever is delivered and whoever acts, the backend's rows stay well-typed:
\* no quantity becomes negative and no status leaves its vocabulary.
THEOREM TypeCorrect == Spec => []TypeOK
<1>1. Init => TypeOK
  BY ConstantsAssumption DEF Init, TypeOK, NoReceipt, NoRefund, Statuses, PaymentStatuses,
     RefundStatuses, RequestStatuses
<1> QED
  BY <1>1, TypeStep, PTL DEF Spec

-----------------------------------------------------------------------------
(* The safety invariants.  They lean on each other and on two facts that no  *)
(* run checks by itself: nothing has happened to a cart yet, and a refund is *)
(* only ever asked for an order that was paid.                               *)

CartIsUntouched == \A o \in Orders : status[o] = "NONE" => paymentStatus[o] = "PENDING"

\* A delivered result names an order and a payment.
LEMMA ResultType ==
    ASSUME NEW m \in PaymentResult
    PROVE  m.order \in Orders /\ m.payment \in PaymentIds
BY DEF PaymentResult

\* Receipt, payment status and order status keep telling one story.
LEMMA ReceiptStep ==
    TypeOK /\ CartIsUntouched /\ ReceiptAgrees /\ [Next]_vars => (CartIsUntouched /\ ReceiptAgrees)'
<1> SUFFICES ASSUME TypeOK, CartIsUntouched, ReceiptAgrees, [Next]_vars
             PROVE  (CartIsUntouched /\ ReceiptAgrees)'
  OBVIOUS
<1> USE DEF TypeOK, CartIsUntouched, ReceiptAgrees, moneyVars, refundVars, stockVars
<1>1. ASSUME NEW o \in Orders, PlaceOrder(o) PROVE (CartIsUntouched /\ ReceiptAgrees)'
  BY <1>1 DEF PlaceOrder
<1>2. ASSUME NEW o \in Orders, SetTracking(o) PROVE (CartIsUntouched /\ ReceiptAgrees)'
  BY <1>2 DEF SetTracking
<1>3. ASSUME NEW o \in Orders, NEW target \in Statuses, Fulfil(o, target)
      PROVE  (CartIsUntouched /\ ReceiptAgrees)'
  BY <1>3 DEF Fulfil, CanTransition
<1>4. ASSUME NEW o \in Orders, NEW id \in CancelIds, NEW actor \in Actors,
             CancelOrder(id, o, actor)
      PROVE  (CartIsUntouched /\ ReceiptAgrees)'
  BY <1>4 DEF CancelOrder, CancelAndRecover, CanTransition
<1>5. ASSUME NEW o \in Orders, NEW k \in RefundRequestIds,
             RequestRefund(o, k) \/ ApproveRefund(o, k) \/ RejectRefund(o, k)
      PROVE  (CartIsUntouched /\ ReceiptAgrees)'
  BY <1>5 DEF RequestRefund, ApproveRefund, RejectRefund
<1>6. ASSUME NEW m \in PaymentResult, OnPaymentSucceeded(m)
      PROVE  (CartIsUntouched /\ ReceiptAgrees)'
  <2> DEFINE o == m.order
  <2>1. o \in Orders /\ m.payment \in PaymentIds
    BY ResultType
  <2>2. /\ status[o] # "NONE"
        /\ paymentStatus[o] \notin TerminalPayment
        /\ receipt' = [receipt EXCEPT ![o] = [result |-> "PAID", payment |-> m.payment]]
        /\ paymentId' = [paymentId EXCEPT ![o] = m.payment]
        /\ paymentStatus' = [paymentStatus EXCEPT ![o] = "SUCCEEDED"]
    BY <1>6 DEF OnPaymentSucceeded, RecordOutcome, Correlated
  <2>3. \/ status[o] = "PENDING" /\ status' = [status EXCEPT ![o] = "PAID"]
        \/ status[o] = "CANCELLED" /\ UNCHANGED status
    BY <1>6 DEF OnPaymentSucceeded, CanTransition
  <2> HIDE DEF o
  <2> QED
    BY <2>1, <2>2, <2>3 DEF NoReceipt, TerminalPayment
<1>7. ASSUME NEW m \in PaymentResult, OnPaymentFailed(m)
      PROVE  (CartIsUntouched /\ ReceiptAgrees)'
  <2> DEFINE o == m.order
  <2>1. o \in Orders /\ m.payment \in PaymentIds
    BY ResultType
  <2>2. /\ status[o] # "NONE"
        /\ paymentStatus[o] \notin TerminalPayment
        /\ receipt' = [receipt EXCEPT ![o] = [result |-> "CANCELLED", payment |-> m.payment]]
        /\ paymentId' = [paymentId EXCEPT ![o] = m.payment]
        /\ paymentStatus' = [paymentStatus EXCEPT ![o] = "FAILED"]
    BY <1>7 DEF OnPaymentFailed, RecordOutcome, Correlated
  <2>3. \/ status[o] \in {"PENDING", "PAID"} /\ status' = [status EXCEPT ![o] = "CANCELLED"]
        \/ status[o] = "CANCELLED" /\ UNCHANGED status
    BY <1>7 DEF OnPaymentFailed, CancelAndRecover, CanTransition
  <2> HIDE DEF o
  <2> QED
    BY <2>1, <2>2, <2>3 DEF NoReceipt, TerminalPayment
<1>8. ASSUME NEW m \in PaymentResult, NEW reason \in UnresolvedReasons, OnPaymentUnresolved(m, reason)
      PROVE  (CartIsUntouched /\ ReceiptAgrees)'
  BY <1>8, ResultType DEF OnPaymentUnresolved, Correlated, Unsettled, NoReceipt, TerminalPayment
<1>9. ASSUME NEW m \in PaymentResult, NEW attempt \in Attempts, OnPaymentDeclined(m, attempt)
      PROVE  (CartIsUntouched /\ ReceiptAgrees)'
  BY <1>9, ResultType DEF OnPaymentDeclined, Correlated, Unsettled, NoReceipt, TerminalPayment
<1>10. ASSUME NEW m \in RefundResult, NEW target \in {"UNRESOLVED", "SUCCEEDED", "FAILED"},
              OnRefundResult(m, target)
       PROVE  (CartIsUntouched /\ ReceiptAgrees)'
  BY <1>10 DEF OnRefundResult
<1>11. CASE UNCHANGED vars
  BY <1>11 DEF vars
<1>12. CASE Operation
  BY <1>12, <1>1, <1>2, <1>3, <1>4, <1>5 DEF Operation
<1>13. CASE Delivery
  BY <1>13, <1>6, <1>7, <1>8, <1>9, <1>10 DEF Delivery
<1> QED
  BY <1>11, <1>12, <1>13 DEF Next

OpenRequestIsPaid == \A o \in Orders : HasOpenRequest(o) => paymentStatus[o] = "SUCCEEDED"

RefundInv ==
    CancelledChargeIsRefunded /\ RefundIsBacked /\ OpenRequestIsLive /\ OpenRequestIsPaid

\* Everything RefundInv reads of an order, its refund events included.
Same(x) ==
    /\ status'[x] = status[x]
    /\ paymentStatus'[x] = paymentStatus[x]
    /\ paymentId'[x] = paymentId[x]
    /\ refund'[x] = refund[x]
    /\ refundRequest'[x] = refundRequest[x]

\* RefundInv of one order.
RefundInvOf(o) ==
    /\ status[o] = "CANCELLED" /\ paymentStatus[o] = "SUCCEEDED" => refund[o] # NoRefund
    /\ refund[o] # NoRefund =>
          /\ paymentStatus[o] = "SUCCEEDED"
          /\ refund[o].payment = paymentId[o]
          /\ RefundRequested(o, paymentId[o]) \in outbox
    /\ \A e \in outbox : e.topic = "refund.requested" /\ e.order = o =>
          refund[o] # NoRefund /\ refund[o].payment = e.payment
    /\ HasOpenRequest(o) =>
          refund[o] = NoRefund /\ status[o] # "CANCELLED" /\ paymentStatus[o] = "SUCCEEDED"
    /\ \A k, l \in RefundRequestIds :
          refundRequest[o][k] \in {"REQUESTED", "APPROVED"} /\
          refundRequest[o][l] \in {"REQUESTED", "APPROVED"} => k = l
    /\ \A k \in RefundRequestIds : refundRequest[o][k] = "APPROVED" => refund[o] # NoRefund

\* The refund invariants can be read order by order, in this state ...
LEMMA RefundInvPerOrder ==
    TypeOK => (RefundInv <=> \A o \in Orders : RefundInvOf(o))
BY DEF TypeOK, RefundInv, RefundInvOf, CancelledChargeIsRefunded, RefundIsBacked,
   OpenRequestIsLive, OpenRequestIsPaid

\* ... and in the next one.
LEMMA RefundInvPerOrderNext ==
    TypeOK' => (RefundInv' <=> \A o \in Orders : RefundInvOf(o)')
BY DEF TypeOK, RefundInv, RefundInvOf, CancelledChargeIsRefunded, RefundIsBacked,
   OpenRequestIsLive, OpenRequestIsPaid

\* A step about order o leaves the invariant of every other order alone.
LEMMA OtherOrders ==
    ASSUME NEW o \in Orders, NEW x \in Orders, x # o, RefundInvOf(x), Same(x),
           outbox \subseteq outbox', \A e \in outbox' \ outbox : e.order = o
    PROVE  RefundInvOf(x)'
BY DEF RefundInvOf, Same, HasOpenRequest, RefundRequested

\* Issuing the refund of a charged order, its request decided with it.
LEMMA IssuedRefund ==
    ASSUME TypeOK, NEW o \in Orders, NEW p, RefundInvOf(o), refund[o] = NoRefund,
           IssueRefund(o, p), paymentStatus'[o] = "SUCCEEDED", paymentId'[o] = p,
           \A k \in RefundRequestIds :
              /\ refundRequest'[o][k] # "REQUESTED"
              /\ refundRequest'[o][k] = "APPROVED" => refundRequest[o][k] \in {"REQUESTED", "APPROVED"}
    PROVE  RefundInvOf(o)'
<1>1. refund'[o] = [status |-> "PENDING", payment |-> p]
  BY DEF IssueRefund, TypeOK
<1>2. refund'[o] # NoRefund /\ refund'[o].payment = p
  BY <1>1 DEF NoRefund
<1>3. outbox' = outbox \cup {RefundRequested(o, p)}
  BY DEF IssueRefund
<1>4. \A e \in outbox' : e.topic = "refund.requested" /\ e.order = o => e.payment = p
  BY <1>3 DEF RefundInvOf, RefundRequested
<1> QED
  BY <1>2, <1>3, <1>4 DEF RefundInvOf, HasOpenRequest

\* An order that is neither paid nor paid by this step keeps its invariant: it
\* has no refund and no request.
LEMMA UnpaidOrder ==
    ASSUME TypeOK, NEW o \in Orders, RefundInvOf(o), paymentStatus[o] # "SUCCEEDED",
           paymentStatus'[o] # "SUCCEEDED", UNCHANGED <<refund, refundRequest, outbox>>
    PROVE  RefundInvOf(o)'
BY DEF RefundInvOf, HasOpenRequest

\* Refund rows, refund events and refund requests stay in step with the charge.
LEMMA RefundStep ==
    TypeOK /\ TypeOK' /\ CartIsUntouched /\ ReceiptAgrees /\ RefundInv /\ [Next]_vars => RefundInv'
<1> SUFFICES ASSUME TypeOK, TypeOK', CartIsUntouched, ReceiptAgrees, RefundInv, [Next]_vars,
                    NEW x \in Orders
             PROVE  RefundInvOf(x)'
  BY RefundInvPerOrderNext
<1>0. \A o \in Orders : RefundInvOf(o)
  BY RefundInvPerOrder
<1> USE DEF moneyVars, refundVars, stockVars
<1>1. ASSUME NEW o \in Orders, PlaceOrder(o) PROVE RefundInvOf(x)'
  <2>1. CASE x = o
    <3>1. UNCHANGED <<paymentId, refund, refundRequest>> /\ outbox' = outbox \cup {PaymentRequested(o)}
      BY <1>1 DEF PlaceOrder
    <3>2. status'[o] = "PENDING" /\ paymentStatus'[o] = paymentStatus[o]
      BY <1>1 DEF PlaceOrder, TypeOK, CartIsUntouched
    <3> QED
      BY <1>0, <2>1, <3>1, <3>2 DEF RefundInvOf, HasOpenRequest, PaymentRequested
  <2>2. CASE x # o
    BY <1>0, <1>1, <2>2, OtherOrders DEF PlaceOrder, Same, TypeOK, PaymentRequested
  <2> QED
    BY <2>1, <2>2
<1>2. ASSUME NEW o \in Orders, SetTracking(o) PROVE RefundInvOf(x)'
  BY <1>0, <1>2 DEF SetTracking, RefundInvOf, HasOpenRequest
<1>3. ASSUME NEW o \in Orders, NEW target \in Statuses, Fulfil(o, target) PROVE RefundInvOf(x)'
  BY <1>0, <1>3 DEF Fulfil, RefundInvOf, HasOpenRequest, TypeOK
<1>4. ASSUME NEW o \in Orders, NEW id \in CancelIds, NEW actor \in Actors,
             CancelOrder(id, o, actor)
      PROVE  RefundInvOf(x)'
  <2>1. /\ EnsureRefund(o, paymentStatus[o], receipt[o], paymentId[o])
        /\ UNCHANGED <<paymentStatus, paymentId>>
        /\ \A y \in Orders \ {o} : status'[y] = status[y]
        /\ status'[o] = "CANCELLED"
    BY <1>4 DEF CancelOrder, CancelAndRecover, TypeOK
  <2>2. CASE RefundOwed(o, paymentStatus[o])
    <3>1. IssueRefund(o, paymentId[o]) /\ CloseRequests(o)
      BY <2>1, <2>2 DEF EnsureRefund
    <3>2. CASE x = o
      BY <1>0, <2>1, <2>2, <3>1, <3>2, IssuedRefund DEF CloseRequests, RefundOwed, TypeOK
    <3>3. CASE x # o
      BY <1>0, <2>1, <3>1, <3>3, OtherOrders DEF IssueRefund, CloseRequests, RefundRequested, Same, TypeOK
    <3> QED
      BY <3>2, <3>3
  <2>3. CASE ~RefundOwed(o, paymentStatus[o])
    <3>1. UNCHANGED refundVars
      BY <2>1, <2>3 DEF EnsureRefund
    <3> QED
      BY <1>0, <2>1, <2>3, <3>1 DEF RefundInvOf, HasOpenRequest, RefundOwed
  <2> QED
    BY <2>2, <2>3
<1>5. ASSUME NEW o \in Orders, NEW k \in RefundRequestIds, RequestRefund(o, k)
      PROVE  RefundInvOf(x)'
  <2>1. /\ ~HasOpenRequest(o)
        /\ status[o] # "CANCELLED" /\ paymentStatus[o] = "SUCCEEDED" /\ refund[o] = NoRefund
        /\ refundRequest' = [refundRequest EXCEPT ![o][k] = "REQUESTED"]
        /\ UNCHANGED <<status, paymentStatus, paymentId, refund, outbox>>
    BY <1>5 DEF RequestRefund, RefundEligible
  <2> QED
    BY <1>0, <2>1 DEF RefundInvOf, HasOpenRequest, TypeOK
<1>6. ASSUME NEW o \in Orders, NEW k \in RefundRequestIds, ApproveRefund(o, k)
      PROVE  RefundInvOf(x)'
  <2>1. /\ refundRequest[o][k] = "REQUESTED"
        /\ paymentStatus[o] = "SUCCEEDED" /\ refund[o] = NoRefund
        /\ IssueRefund(o, paymentId[o])
        /\ refundRequest' = [refundRequest EXCEPT ![o][k] = "APPROVED"]
        /\ UNCHANGED <<status, paymentStatus, paymentId>>
    BY <1>6 DEF ApproveRefund, RefundEligible
  <2>2. CASE x = o
    <3>1. \A l \in RefundRequestIds :
              /\ refundRequest'[o][l] # "REQUESTED"
              /\ refundRequest'[o][l] = "APPROVED" => refundRequest[o][l] \in {"REQUESTED", "APPROVED"}
      BY <1>0, <2>1 DEF RefundInvOf, TypeOK
    <3> QED
      BY <1>0, <2>1, <2>2, <3>1, IssuedRefund
  <2>3. CASE x # o
    BY <1>0, <2>1, <2>3, OtherOrders DEF IssueRefund, RefundRequested, Same, TypeOK
  <2> QED
    BY <2>2, <2>3
<1>7. ASSUME NEW o \in Orders, NEW k \in RefundRequestIds, RejectRefund(o, k)
      PROVE  RefundInvOf(x)'
  <2>1. /\ refundRequest' = [refundRequest EXCEPT ![o][k] = "REJECTED"]
        /\ UNCHANGED <<status, paymentStatus, paymentId, refund, outbox>>
    BY <1>7 DEF RejectRefund
  <2> QED
    BY <1>0, <2>1 DEF RefundInvOf, HasOpenRequest, TypeOK
<1>8. ASSUME NEW m \in PaymentResult, OnPaymentSucceeded(m) PROVE RefundInvOf(x)'
  <2> DEFINE o == m.order
  <2>1. o \in Orders /\ m.payment \in PaymentIds
    BY ResultType
  <2>2. /\ paymentStatus[o] \notin TerminalPayment
        /\ paymentId' = [paymentId EXCEPT ![o] = m.payment]
        /\ paymentStatus' = [paymentStatus EXCEPT ![o] = "SUCCEEDED"]
    BY <1>8 DEF OnPaymentSucceeded, RecordOutcome
  <2>3. \/ status' = [status EXCEPT ![o] = "PAID"] /\ UNCHANGED refundVars
        \/ /\ status[o] = "CANCELLED" /\ UNCHANGED status
           /\ EnsureRefund(o, "SUCCEEDED", receipt'[o], m.payment)
    BY <1>8 DEF OnPaymentSucceeded
  <2> HIDE DEF o
  <2>4. refund[o] = NoRefund /\ ~HasOpenRequest(o)
    BY <1>0, <2>1, <2>2 DEF RefundInvOf, TerminalPayment
  <2>5. paymentStatus'[o] = "SUCCEEDED" /\ paymentId'[o] = m.payment
    BY <2>1, <2>2 DEF TypeOK
  <2>6. CASE status' = [status EXCEPT ![o] = "PAID"] /\ UNCHANGED refundVars
    <3>1. CASE x = o
      BY <1>0, <2>1, <2>4, <2>5, <2>6, <3>1 DEF RefundInvOf, HasOpenRequest, TypeOK
    <3>2. CASE x # o
      BY <1>0, <2>1, <2>2, <2>6, <3>2, OtherOrders DEF Same, TypeOK
    <3> QED
      BY <3>1, <3>2
  <2>7. CASE status[o] = "CANCELLED" /\ UNCHANGED status
             /\ EnsureRefund(o, "SUCCEEDED", receipt'[o], m.payment)
    <3>1. IssueRefund(o, m.payment) /\ CloseRequests(o)
      BY <2>4, <2>7 DEF EnsureRefund, RefundOwed
    <3>2. CASE x = o
      BY <1>0, <2>1, <2>4, <2>5, <3>1, <3>2, IssuedRefund DEF CloseRequests, TypeOK
    <3>3. CASE x # o
      BY <1>0, <2>1, <2>2, <2>7, <3>1, <3>3, OtherOrders
         DEF IssueRefund, CloseRequests, RefundRequested, Same, TypeOK
    <3> QED
      BY <3>2, <3>3
  <2> QED
    BY <2>3, <2>6, <2>7
<1>9. ASSUME NEW m \in PaymentResult,
             \/ OnPaymentFailed(m)
             \/ \E reason \in UnresolvedReasons : OnPaymentUnresolved(m, reason)
             \/ \E attempt \in Attempts : OnPaymentDeclined(m, attempt)
      PROVE  RefundInvOf(x)'
  <2> DEFINE o == m.order
  <2>1. o \in Orders
    BY ResultType
  <2>2. /\ paymentStatus[o] \notin TerminalPayment
        /\ \E s \in {"FAILED", "UNRESOLVED", "DECLINED"} : paymentStatus' = [paymentStatus EXCEPT ![o] = s]
        /\ paymentId' = [paymentId EXCEPT ![o] = m.payment]
        /\ UNCHANGED refundVars
        /\ UNCHANGED status \/ status' = [status EXCEPT ![o] = "CANCELLED"]
    BY <1>9 DEF OnPaymentFailed, OnPaymentUnresolved, OnPaymentDeclined, RecordOutcome, Unsettled,
       CancelAndRecover
  <2> HIDE DEF o
  <2>3. CASE x = o
    BY <1>0, <2>1, <2>2, <2>3, UnpaidOrder DEF TypeOK, TerminalPayment
  <2>4. CASE x # o
    BY <1>0, <2>1, <2>2, <2>4, OtherOrders DEF Same, TypeOK
  <2> QED
    BY <2>3, <2>4
<1>10. ASSUME NEW m \in RefundResult, NEW target \in {"UNRESOLVED", "SUCCEEDED", "FAILED"},
              OnRefundResult(m, target)
       PROVE  RefundInvOf(x)'
  <2>1. m.order \in Orders
    BY DEF RefundResult
  <2>2. /\ refund[m.order].status \in {"PENDING", "UNRESOLVED"}
        /\ refund' = [refund EXCEPT ![m.order].status = target]
        /\ UNCHANGED <<status, paymentStatus, paymentId, refundRequest, outbox>>
    BY <1>10 DEF OnRefundResult, RefundPending
  <2>3. /\ refund[x] # NoRefund <=> refund'[x] # NoRefund
        /\ refund'[x].payment = refund[x].payment
    BY <2>1, <2>2 DEF TypeOK, NoRefund
  <2> QED
    BY <1>0, <2>2, <2>3 DEF RefundInvOf, HasOpenRequest
<1>11. CASE UNCHANGED vars
  BY <1>0, <1>11 DEF vars, RefundInvOf, HasOpenRequest
<1>12. CASE Operation
  BY <1>12, <1>1, <1>2, <1>3, <1>4, <1>5, <1>6, <1>7 DEF Operation
<1>13. CASE Delivery
  BY <1>13, <1>8, <1>9, <1>10 DEF Delivery
<1> QED
  BY <1>11, <1>12, <1>13 DEF Next

-----------------------------------------------------------------------------
(* The inductive invariant and what follows from it. *)

IInv == TypeOK /\ CartIsUntouched /\ ReceiptAgrees /\ RefundInv

\* Every step keeps the inductive invariant ...
LEMMA IInvStep == IInv /\ [Next]_vars => IInv'
BY TypeStep, ReceiptStep, RefundStep DEF IInv

\* ... which holds before anything was placed ...
LEMMA IInvInit == Init => IInv
<1> SUFFICES ASSUME Init PROVE IInv
  OBVIOUS
<1>1. TypeOK
  BY ConstantsAssumption DEF Init, TypeOK, NoReceipt, NoRefund, Statuses, PaymentStatuses,
     RefundStatuses, RequestStatuses
<1>2. CartIsUntouched /\ ReceiptAgrees
  BY DEF Init, CartIsUntouched, ReceiptAgrees, NoReceipt
<1>3. RefundInv
  BY DEF Init, RefundInv, CancelledChargeIsRefunded, RefundIsBacked, OpenRequestIsLive,
     OpenRequestIsPaid, HasOpenRequest
<1> QED
  BY <1>1, <1>2, <1>3 DEF IInv

\* ... and therefore always.
LEMMA IInvCorrect == Spec => []IInv
BY IInvInit, IInvStep, PTL DEF Spec

\* Whatever results arrive, in whatever order and however often, the receipt,
\* the payment status and the order status never contradict each other.
THEOREM ReceiptCorrect == Spec => []ReceiptAgrees
<1>1. IInv => ReceiptAgrees
  BY DEF IInv
<1> QED
  BY <1>1, IInvCorrect, PTL

\* A cancelled order whose charge succeeded has its refund, whichever of the
\* cancellation and the charge was recorded first.
THEOREM NoCancelledChargeIsKept == Spec => []CancelledChargeIsRefunded
<1>1. IInv => CancelledChargeIsRefunded
  BY DEF IInv, RefundInv
<1> QED
  BY <1>1, IInvCorrect, PTL

\* Every refund row and every refund.requested event answers the one charge
\* that succeeded, so no order is refunded without it or for another payment.
THEOREM RefundsAreBacked == Spec => []RefundIsBacked
<1>1. IInv => RefundIsBacked
  BY DEF IInv, RefundInv
<1> QED
  BY <1>1, IInvCorrect, PTL

\* A refund request that waits for a decision belongs to an order that is
\* neither refunded nor cancelled, and an approved one has its refund.
THEOREM OpenRequestsAreLive == Spec => []OpenRequestIsLive
<1>1. IInv => OpenRequestIsLive
  BY DEF IInv, RefundInv
<1> QED
  BY <1>1, IInvCorrect, PTL

-----------------------------------------------------------------------------
(* What a step may never do. *)

\* No step changes what is settled: the argument needs the inductive invariant
\* because a placement resets the payment status of the cart it starts from,
\* and a new refund replaces the row only of an order that has none.
LEMMA SettledStep ==
    IInv /\ [Next]_vars => \A o \in Orders : SettledStays(o)
<1> SUFFICES ASSUME IInv, [Next]_vars, NEW x \in Orders PROVE SettledStays(x)
  OBVIOUS
<1> USE DEF moneyVars, refundVars, stockVars
<1>0. TypeOK /\ CartIsUntouched /\ ReceiptAgrees /\ RefundInv
  BY DEF IInv
<1>1. ASSUME NEW o \in Orders, PlaceOrder(o) PROVE SettledStays(x)
  BY <1>0, <1>1 DEF PlaceOrder, TypeOK, CartIsUntouched, SettledStays, TerminalPayment
<1>2. ASSUME NEW o \in Orders, SetTracking(o) PROVE SettledStays(x)
  BY <1>2 DEF SetTracking, SettledStays
<1>3. ASSUME NEW o \in Orders, NEW target \in Statuses, Fulfil(o, target) PROVE SettledStays(x)
  BY <1>0, <1>3 DEF Fulfil, CanTransition, TypeOK, SettledStays
<1>4. ASSUME NEW o \in Orders, NEW p, NEW payStatus, NEW receiptNow,
             EnsureRefund(o, payStatus, receiptNow, p)
      PROVE  refund[x].status \in TerminalRefund => refund'[x] = refund[x]
  BY <1>0, <1>4 DEF EnsureRefund, RefundOwed, IssueRefund, NoRefund, TerminalRefund, TypeOK
<1>5. ASSUME NEW o \in Orders, NEW id \in CancelIds, NEW actor \in Actors,
             CancelOrder(id, o, actor)
      PROVE  SettledStays(x)
  <2>1. refund[x].status \in TerminalRefund => refund'[x] = refund[x]
    BY <1>4, <1>5 DEF CancelOrder
  <2>2. status[x] = "CANCELLED" => status'[x] = "CANCELLED"
    BY <1>0, <1>5 DEF CancelOrder, CancelAndRecover, TypeOK
  <2>3. UNCHANGED <<paymentStatus, paymentId>>
    BY <1>5 DEF CancelOrder
  <2> QED
    BY <2>1, <2>2, <2>3 DEF SettledStays
<1>6. ASSUME NEW o \in Orders, NEW k \in RefundRequestIds,
             RequestRefund(o, k) \/ ApproveRefund(o, k) \/ RejectRefund(o, k)
      PROVE  SettledStays(x)
  <2>1. UNCHANGED <<status, paymentStatus, paymentId>>
    BY <1>6 DEF RequestRefund, ApproveRefund, RejectRefund
  <2>2. UNCHANGED refund \/ (refund[o] = NoRefund /\ \E p : IssueRefund(o, p))
    BY <1>6 DEF RequestRefund, ApproveRefund, RejectRefund, RefundEligible
  <2> QED
    BY <1>0, <2>1, <2>2 DEF IssueRefund, NoRefund, TerminalRefund, TypeOK, SettledStays
<1>7. ASSUME NEW m \in PaymentResult,
             \/ OnPaymentSucceeded(m)
             \/ OnPaymentFailed(m)
             \/ \E reason \in UnresolvedReasons : OnPaymentUnresolved(m, reason)
             \/ \E attempt \in Attempts : OnPaymentDeclined(m, attempt)
      PROVE  SettledStays(x)
  <2> DEFINE o == m.order
  <2>1. o \in Orders /\ m.payment \in PaymentIds
    BY ResultType
  <2>2. /\ paymentStatus[o] \notin TerminalPayment
        /\ paymentId[o] \in {NoPayment, m.payment}
        /\ paymentId' = [paymentId EXCEPT ![o] = m.payment]
        /\ \E s \in PaymentStatuses : paymentStatus' = [paymentStatus EXCEPT ![o] = s]
    BY <1>7 DEF OnPaymentSucceeded, OnPaymentFailed, OnPaymentUnresolved, OnPaymentDeclined,
       RecordOutcome, Unsettled, PaymentFits, PaymentStatuses
  <2>3. \/ UNCHANGED status
        \/ status[o] # "CANCELLED" /\ \E s \in Statuses : status' = [status EXCEPT ![o] = s]
    BY <1>7 DEF OnPaymentSucceeded, OnPaymentFailed, OnPaymentUnresolved, OnPaymentDeclined,
       CancelAndRecover, CanTransition, Statuses
  <2>4. UNCHANGED refund \/ EnsureRefund(o, "SUCCEEDED", receipt'[o], m.payment)
    BY <1>7 DEF OnPaymentSucceeded, OnPaymentFailed, OnPaymentUnresolved, OnPaymentDeclined
  <2> HIDE DEF o
  <2>5. refund[x].status \in TerminalRefund => refund'[x] = refund[x]
    BY <1>4, <2>1, <2>4
  <2> QED
    BY <1>0, <2>1, <2>2, <2>3, <2>5 DEF SettledStays, TypeOK
<1>8. ASSUME NEW m \in RefundResult, NEW target \in {"UNRESOLVED", "SUCCEEDED", "FAILED"},
             OnRefundResult(m, target)
      PROVE  SettledStays(x)
  <2>1. m.order \in Orders
    BY DEF RefundResult
  <2>2. /\ refund[m.order].status \in {"PENDING", "UNRESOLVED"}
        /\ refund' = [refund EXCEPT ![m.order].status = target]
        /\ UNCHANGED <<status, paymentStatus, paymentId>>
    BY <1>8 DEF OnRefundResult, RefundPending
  <2> QED
    BY <1>0, <2>1, <2>2 DEF SettledStays, TerminalRefund, TypeOK
<1>9. CASE UNCHANGED vars
  BY <1>9 DEF vars, SettledStays
<1>10. CASE Operation
  BY <1>10, <1>1, <1>2, <1>3, <1>5, <1>6 DEF Operation
<1>11. CASE Delivery
  BY <1>11, <1>7, <1>8 DEF Delivery
<1> QED
  BY <1>9, <1>10, <1>11 DEF Next

\* Payment outcomes, refund outcomes, payment identities and cancellations are
\* final, whatever is delivered later.
THEOREM SettledIsFinal == Spec => OutcomesAreFinal
<1>1. IInv /\ [Next]_vars => [\A o \in Orders : SettledStays(o)]_vars
  BY SettledStep
<1> QED
  BY <1>1, IInvCorrect, PTL DEF Spec, OutcomesAreFinal

-----------------------------------------------------------------------------
(* What the customer was told. *)

Told(o, kind) == Notice(o, kind, "none") \in notices
Fulfilling == {"PROCESSING", "SHIPPING", "COMPLETED"}

\* A notice that goes out now tells what this very step makes of order x, and
\* no step cancels it silently or takes it out of fulfilment.
TellsTheStep(x) ==
    /\ notices \subseteq notices'
    /\ status[x] \in Fulfilling => status'[x] \in Fulfilling
    /\ status'[x] = "CANCELLED" /\ status[x] # "CANCELLED" => Told(x, "CANCELLED")'
    /\ Told(x, "PROCESSING")' => Told(x, "PROCESSING") \/ status'[x] = "PROCESSING"
    /\ Told(x, "CANCELLED")' => Told(x, "CANCELLED") \/ status'[x] = "CANCELLED"
    /\ Told(x, "PAID")' => Told(x, "PAID") \/ paymentStatus'[x] = "SUCCEEDED"
    /\ Told(x, "REFUNDED")' => Told(x, "REFUNDED") \/ refund'[x].status = "SUCCEEDED"
    /\ Told(x, "REFUND_FAILED")' => Told(x, "REFUND_FAILED") \/ refund'[x].status = "FAILED"

\* What a notice claims of its order, in the state after the step.
IsSo(kind, x) ==
    /\ kind = "PROCESSING" => status'[x] = "PROCESSING"
    /\ kind = "CANCELLED" => status'[x] = "CANCELLED"
    /\ kind = "PAID" => paymentStatus'[x] = "SUCCEEDED"
    /\ kind = "REFUNDED" => refund'[x].status = "SUCCEEDED"
    /\ kind = "REFUND_FAILED" => refund'[x].status = "FAILED"

\* A step that enqueues one notice, which claims only what is so, tells
\* nothing else.
LEMMA NotifyTells ==
    ASSUME NEW o, NEW x, NEW kind, NEW ref, Notify(o, kind, ref), x = o => IsSo(kind, x),
           status[x] \in Fulfilling => status'[x] \in Fulfilling,
           status'[x] = "CANCELLED" /\ status[x] # "CANCELLED"
              => x = o /\ kind = "CANCELLED" /\ ref = "none"
    PROVE  TellsTheStep(x)
<1>1. notices' = notices \cup {Notice(o, kind, ref)}
  BY DEF Notify
<1>2. ASSUME NEW other, Told(x, other)', ~Told(x, other)
      PROVE  x = o /\ other = kind
  BY <1>1, <1>2 DEF Told, Notice
<1>3. status'[x] = "CANCELLED" /\ status[x] # "CANCELLED" => Told(x, "CANCELLED")'
  BY <1>1 DEF Told, Notice
<1>4. Told(x, "PROCESSING")' => Told(x, "PROCESSING") \/ status'[x] = "PROCESSING"
  BY <1>2 DEF IsSo
<1>5. Told(x, "CANCELLED")' => Told(x, "CANCELLED") \/ status'[x] = "CANCELLED"
  BY <1>2 DEF IsSo
<1>6. Told(x, "PAID")' => Told(x, "PAID") \/ paymentStatus'[x] = "SUCCEEDED"
  BY <1>2 DEF IsSo
<1>7. Told(x, "REFUNDED")' => Told(x, "REFUNDED") \/ refund'[x].status = "SUCCEEDED"
  BY <1>2 DEF IsSo
<1>8. Told(x, "REFUND_FAILED")' => Told(x, "REFUND_FAILED") \/ refund'[x].status = "FAILED"
  BY <1>2 DEF IsSo
<1> QED
  BY <1>1, <1>3, <1>4, <1>5, <1>6, <1>7, <1>8 DEF TellsTheStep

\* Every step tells only what it does.
LEMMA TellsStep == TypeOK /\ [Next]_vars => \A x \in Orders : TellsTheStep(x)
<1> SUFFICES ASSUME TypeOK, [Next]_vars, NEW x \in Orders PROVE TellsTheStep(x)
  OBVIOUS
<1> USE DEF moneyVars, refundVars, stockVars
<1>1. ASSUME NEW o \in Orders, PlaceOrder(o) PROVE TellsTheStep(x)
  <2>1. Notify(o, "PLACED", "none") /\ status[o] = "NONE" /\ status' = [status EXCEPT ![o] = "PENDING"]
    BY <1>1 DEF PlaceOrder
  <2> QED
    BY <2>1, NotifyTells DEF IsSo, Fulfilling, TypeOK
<1>2. ASSUME UNCHANGED <<status, notices>> PROVE TellsTheStep(x)
  BY <1>2 DEF TellsTheStep, Told
<1>3. ASSUME NEW o \in Orders, NEW target \in Statuses, Fulfil(o, target) PROVE TellsTheStep(x)
  <2>1. /\ target \in Fulfilling
        /\ status' = [status EXCEPT ![o] = target]
        /\ Notify(o, NoticeOf(target), "none")
    BY <1>3 DEF Fulfil, Fulfilling
  <2>2. NoticeOf(target) \in {"PROCESSING", "SHIPPED", "COMPLETED"}
        /\ (NoticeOf(target) = "PROCESSING" => target = "PROCESSING")
    BY <2>1 DEF Fulfilling, NoticeOf
  <2>3. /\ x = o => IsSo(NoticeOf(target), x)
        /\ status[x] \in Fulfilling => status'[x] \in Fulfilling
        /\ ~(status'[x] = "CANCELLED" /\ status[x] # "CANCELLED")
    BY <2>1, <2>2 DEF IsSo, Fulfilling, TypeOK
  <2> QED
    BY <2>1, <2>3, NotifyTells
<1>4. ASSUME NEW o \in Orders, CancelAndRecover(o) PROVE TellsTheStep(x)
  <2>1. /\ status[o] \in {"PENDING", "PAID"}
        /\ status' = [status EXCEPT ![o] = "CANCELLED"]
        /\ Notify(o, "CANCELLED", "none")
    BY <1>4 DEF CancelAndRecover, CanTransition
  <2> QED
    BY <2>1, NotifyTells DEF IsSo, Fulfilling, TypeOK
<1>5. ASSUME NEW o \in Orders, NEW kind \in {"REFUND_REQUESTED", "REFUND_REJECTED",
                                              "PAYMENT_RETRY_REQUIRED", "PAYMENT_FAILED"},
             NEW ref, Notify(o, kind, ref), UNCHANGED status
      PROVE  TellsTheStep(x)
  BY <1>5, NotifyTells DEF IsSo
<1>6. ASSUME NEW m \in PaymentResult, OnPaymentSucceeded(m) PROVE TellsTheStep(x)
  <2> DEFINE o == m.order
  <2>1. CASE UNCHANGED <<status, notices>>
    BY <2>1, <1>2
  <2>2. CASE ~UNCHANGED <<status, notices>>
    <3>1. /\ o \in Orders
          /\ status[o] = "PENDING"
          /\ status' = [status EXCEPT ![o] = "PAID"]
          /\ paymentStatus' = [paymentStatus EXCEPT ![o] = "SUCCEEDED"]
          /\ Notify(o, "PAID", "none")
      BY <1>6, <2>2, ResultType DEF OnPaymentSucceeded, RecordOutcome, CanTransition
    <3> HIDE DEF o
    <3> QED
      BY <3>1, NotifyTells DEF IsSo, Fulfilling, TypeOK
  <2> QED
    BY <2>1, <2>2
<1>7. ASSUME NEW m \in RefundResult, NEW target \in {"UNRESOLVED", "SUCCEEDED", "FAILED"},
             OnRefundResult(m, target)
      PROVE  TellsTheStep(x)
  <2> DEFINE o == m.order
  <2>1. /\ o \in Orders
        /\ refund' = [refund EXCEPT ![o].status = target]
        /\ UNCHANGED status
    BY <1>7 DEF OnRefundResult, RefundResult
  <2>2. \/ target = "SUCCEEDED" /\ Notify(o, "REFUNDED", "none")
        \/ target = "FAILED" /\ Notify(o, "REFUND_FAILED", "none")
        \/ UNCHANGED notices
    BY <1>7 DEF OnRefundResult
  <2> HIDE DEF o
  <2>3. CASE UNCHANGED notices
    BY <2>1, <2>3, <1>2
  <2>4. CASE target = "SUCCEEDED" /\ Notify(o, "REFUNDED", "none")
    BY <2>1, <2>4, NotifyTells DEF IsSo, TypeOK
  <2>5. CASE target = "FAILED" /\ Notify(o, "REFUND_FAILED", "none")
    BY <2>1, <2>5, NotifyTells DEF IsSo, TypeOK
  <2> QED
    BY <2>2, <2>3, <2>4, <2>5
<1>8. CASE UNCHANGED vars
  BY <1>2, <1>8 DEF vars
<1>9. CASE Operation
  <2>1. ASSUME NEW o \in Orders, NEW id \in CancelIds, NEW actor \in Actors,
               CancelOrder(id, o, actor)
        PROVE  TellsTheStep(x)
    BY <2>1, <1>2, <1>4 DEF CancelOrder
  <2>2. ASSUME NEW o \in Orders, NEW k \in RefundRequestIds,
               RequestRefund(o, k) \/ ApproveRefund(o, k) \/ RejectRefund(o, k)
        PROVE  TellsTheStep(x)
    BY <2>2, <1>2, <1>5 DEF RequestRefund, ApproveRefund, RejectRefund
  <2>3. ASSUME NEW o \in Orders, SetTracking(o) PROVE TellsTheStep(x)
    BY <2>3, <1>2 DEF SetTracking
  <2> QED
    BY <1>9, <1>1, <1>3, <2>1, <2>2, <2>3 DEF Operation
<1>10. CASE Delivery
  <2>1. ASSUME NEW m \in PaymentResult, OnPaymentFailed(m) PROVE TellsTheStep(x)
    BY <2>1, <1>2, <1>4, ResultType DEF OnPaymentFailed
  <2>2. ASSUME NEW m \in PaymentResult, NEW reason, OnPaymentUnresolved(m, reason)
        PROVE  TellsTheStep(x)
    BY <2>2, <1>2, <1>5, ResultType DEF OnPaymentUnresolved
  <2>3. ASSUME NEW m \in PaymentResult, NEW attempt, OnPaymentDeclined(m, attempt)
        PROVE  TellsTheStep(x)
    BY <2>3, <1>2, <1>5, ResultType DEF OnPaymentDeclined
  <2> QED
    BY <1>10, <1>6, <1>7, <2>1, <2>2, <2>3 DEF Delivery
<1> QED
  BY <1>8, <1>9, <1>10 DEF Next

\* NoticesAreTrue is not inductive: that an order told to be in preparation is
\* never cancelled needs that it is still being fulfilled.
ToldIsSo ==
    \A o \in Orders :
        /\ Told(o, "PROCESSING") => status[o] \in Fulfilling
        /\ Told(o, "CANCELLED") <=> status[o] = "CANCELLED"
        /\ Told(o, "PAID") => paymentStatus[o] = "SUCCEEDED"
        /\ Told(o, "REFUNDED") => refund[o].status = "SUCCEEDED"
        /\ Told(o, "REFUND_FAILED") => refund[o].status = "FAILED"

\* No notice is ever contradicted by the books: what was true when it was told
\* is settled, and what is settled stays.
THEOREM NoticesCorrect == Spec => []NoticesAreTrue
<1>1. Init => ToldIsSo
  BY DEF Init, ToldIsSo, Told
<1>2. IInv /\ ToldIsSo /\ [Next]_vars => ToldIsSo'
  <2> SUFFICES ASSUME IInv, ToldIsSo, [Next]_vars, NEW x \in Orders
               PROVE  /\ Told(x, "PROCESSING")' => status'[x] \in Fulfilling
                      /\ Told(x, "CANCELLED")' <=> status'[x] = "CANCELLED"
                      /\ Told(x, "PAID")' => paymentStatus'[x] = "SUCCEEDED"
                      /\ Told(x, "REFUNDED")' => refund'[x].status = "SUCCEEDED"
                      /\ Told(x, "REFUND_FAILED")' => refund'[x].status = "FAILED"
    BY DEF ToldIsSo, Fulfilling
  <2>1. SettledStays(x) /\ TellsTheStep(x)
    BY SettledStep, TellsStep DEF IInv
  <2>2. Told(x, "CANCELLED") => Told(x, "CANCELLED")'
    BY <2>1 DEF TellsTheStep, Told, Notice
  <2> QED
    BY <2>1, <2>2 DEF ToldIsSo, SettledStays, TellsTheStep, Fulfilling, TerminalPayment, TerminalRefund
<1>3. ToldIsSo => NoticesAreTrue
  BY DEF ToldIsSo, NoticesAreTrue, Told, Fulfilling
<1> QED
  BY <1>1, <1>2, <1>3, IInvCorrect, PTL DEF Spec

-----------------------------------------------------------------------------
(* The stock. *)

\* StockConserved is not inductive: what is given back is what the order holds
\* only if it holds a row, gave nothing back before, and only finitely many
\* orders hold anything.
Placed == {o \in Orders : status[o] # "NONE"}
HoldingOK ==
    \A o \in Orders :
        /\ status[o] = "NONE" => allocated[o] = NoRow
        /\ status[o] # "NONE" => allocated[o] \in Rows
        /\ o \in released <=> status[o] = "CANCELLED"
StockInv == IsFiniteSet(Placed) /\ HoldingOK /\ StockConserved

\* A step that neither places nor cancels an order moves no goods.
HoldsStill(x) ==
    /\ status'[x] = "NONE" <=> status[x] = "NONE"
    /\ status'[x] = "CANCELLED" <=> status[x] = "CANCELLED"
MovesNothing == UNCHANGED stockVars /\ \A x \in Orders : HoldsStill(x)

\* A step that moves no goods keeps the books of the stock.
LEMMA NothingMoved == StockInv /\ MovesNothing => StockInv'
<1> SUFFICES ASSUME StockInv, MovesNothing PROVE StockInv'
  OBVIOUS
<1>1. Placed' = Placed /\ \A r \in Rows : HeldOf(r)' = HeldOf(r)
  BY DEF MovesNothing, HoldsStill, Placed, HeldOf, stockVars
<1>2. HoldingOK'
  BY DEF StockInv, HoldingOK, MovesNothing, HoldsStill, stockVars
<1>3. StockConserved'
  BY <1>1 DEF StockInv, StockConserved, MovesNothing, stockVars
<1> QED
  BY <1>1, <1>2, <1>3 DEF StockInv

\* The orders that hold goods of a row are finitely many.
LEMMA HoldersAreFinite ==
    ASSUME StockInv, NEW r \in Rows
    PROVE  IsFiniteSet(HeldOf(r)) /\ \A x \in Orders : Qty[x] \in Int
<1>1. HeldOf(r) \subseteq Placed
  BY ConstantsAssumption DEF HeldOf, Placed, StockInv, HoldingOK
<1> QED
  BY <1>1, FS_Subset, ConstantsAssumption DEF StockInv

\* A placement takes from one row exactly what its order then holds of it.
LEMMA PlacementTakes == ASSUME TypeOK, StockInv, NEW o \in Orders, PlaceOrder(o) PROVE StockInv'
<1> DEFINE q == FirstRow(Qty[o])
<1>1. /\ q \in Rows /\ status[o] = "NONE" /\ o \notin released /\ o \notin Placed
      /\ status' = [status EXCEPT ![o] = "PENDING"]
      /\ allocated' = [allocated EXCEPT ![o] = q]
      /\ stock' = [stock EXCEPT ![q] = @ - Qty[o]]
      /\ UNCHANGED released
  BY FirstRowFits DEF PlaceOrder, StockInv, HoldingOK, Placed
<1> HIDE DEF q
<1>2. IsFiniteSet(Placed)'
  <2>1. Placed' = Placed \cup {o}
    BY <1>1 DEF Placed, TypeOK
  <2> QED
    BY <2>1, FS_AddElement DEF StockInv
<1>3. HoldingOK'
  BY <1>1 DEF StockInv, HoldingOK, TypeOK
<1>4. ASSUME NEW r \in Rows PROVE stock'[r] + Total(Qty, HeldOf(r)') = InitialStock[r]
  <2>1. stock[r] + Total(Qty, HeldOf(r)) = InitialStock[r] /\ o \notin HeldOf(r)
    BY <1>1, ConstantsAssumption DEF StockInv, HoldingOK, StockConserved, HeldOf
  <2>2. IsFiniteSet(HeldOf(r)) /\ HeldOf(r) \subseteq Orders /\ \A x \in Orders : Qty[x] \in Int
    BY HoldersAreFinite DEF HeldOf
  <2>3. Total(Qty, HeldOf(r)) \in Int /\ stock[r] \in Int
    BY <2>2, TotalIsInt DEF TypeOK
  <2>4. CASE r = q
    <3>1. HeldOf(r)' = HeldOf(r) \cup {o}
      BY <1>1, <2>4 DEF HeldOf, TypeOK
    <3>2. \A x \in HeldOf(r) \cup {o} : Qty[x] \in Int
      BY <2>2
    <3>3. Total(Qty, HeldOf(r)') = Qty[o] + Total(Qty, HeldOf(r))
      BY <2>1, <2>2, <3>1, <3>2, TotalAdds
    <3>4. stock'[r] = stock[r] - Qty[o]
      BY <1>1, <2>4 DEF TypeOK
    <3> QED
      BY <2>1, <2>2, <2>3, <3>3, <3>4
  <2>5. CASE r # q
    <3>1. HeldOf(r)' = HeldOf(r)
      BY <1>1, <2>1, <2>5 DEF HeldOf, TypeOK
    <3> QED
      BY <1>1, <2>1, <2>5, <3>1 DEF TypeOK
  <2> QED
    BY <2>4, <2>5
<1>5. StockConserved'
  BY <1>4 DEF StockConserved
<1> QED
  BY <1>2, <1>3, <1>5 DEF StockInv

\* A cancellation gives back to the order's own row exactly what the order held.
LEMMA CancellationGivesBack ==
    ASSUME TypeOK, StockInv, NEW o \in Orders, CancelAndRecover(o), UNCHANGED allocated
    PROVE  StockInv'
<1>1. PICK q \in Rows :
        /\ q = allocated[o] /\ status[o] \in {"PENDING", "PAID"} /\ o \notin released
        /\ status' = [status EXCEPT ![o] = "CANCELLED"]
        /\ stock' = [stock EXCEPT ![q] = @ + Qty[o]]
        /\ released' = released \cup {o}
  BY DEF CancelAndRecover, CanTransition, ReleaseStock, StockInv, HoldingOK
<1>2. Placed' = Placed
  BY <1>1 DEF Placed, TypeOK
<1>3. HoldingOK'
  BY <1>1 DEF StockInv, HoldingOK, TypeOK
<1>4. ASSUME NEW r \in Rows PROVE stock'[r] + Total(Qty, HeldOf(r)') = InitialStock[r]
  <2>1. stock[r] + Total(Qty, HeldOf(r)) = InitialStock[r]
    BY DEF StockInv, StockConserved
  <2>2. IsFiniteSet(HeldOf(r)) /\ HeldOf(r) \subseteq Orders /\ \A x \in Orders : Qty[x] \in Int
    BY HoldersAreFinite DEF HeldOf
  <2>3. IsFiniteSet(HeldOf(r) \ {o})
    BY <2>2, FS_RemoveElement
  <2>4. Total(Qty, HeldOf(r) \ {o}) \in Int /\ stock[r] \in Int
    BY <2>2, <2>3, TotalIsInt DEF TypeOK
  <2>5. CASE r = q
    <3>1. HeldOf(r)' = HeldOf(r) \ {o} /\ o \in HeldOf(r)
      BY <1>1, <2>5 DEF HeldOf, TypeOK
    <3>2. \A x \in HeldOf(r) : Qty[x] \in Int
      BY <2>2
    <3>3. Total(Qty, HeldOf(r)) = Qty[o] + Total(Qty, HeldOf(r) \ {o})
      BY <2>2, <3>1, <3>2, TotalTakes
    <3>4. stock'[r] = stock[r] + Qty[o]
      BY <1>1, <2>5 DEF TypeOK
    <3> QED
      BY <2>1, <2>2, <2>4, <3>1, <3>3, <3>4
  <2>6. CASE r # q
    <3>1. HeldOf(r)' = HeldOf(r)
      BY <1>1, <2>6 DEF HeldOf, TypeOK
    <3> QED
      BY <1>1, <2>1, <2>6, <3>1 DEF TypeOK
  <2> QED
    BY <2>5, <2>6
<1>5. StockConserved'
  BY <1>4 DEF StockConserved
<1> QED
  BY <1>2, <1>3, <1>5 DEF StockInv

\* Of all steps only placements and cancellations move goods.
LEMMA StockStep == TypeOK /\ StockInv /\ [Next]_vars => StockInv'
<1> SUFFICES ASSUME TypeOK, StockInv, [Next]_vars PROVE StockInv'
  OBVIOUS
<1> USE DEF moneyVars, refundVars
<1>1. ASSUME UNCHANGED <<status, stockVars>> PROVE StockInv'
  BY <1>1, NothingMoved DEF MovesNothing, HoldsStill
<1>2. ASSUME NEW o \in Orders, NEW target \in Statuses, Fulfil(o, target) PROVE StockInv'
  <2>1. /\ status[o] \notin {"NONE", "CANCELLED"} /\ target \notin {"NONE", "CANCELLED"}
        /\ status' = [status EXCEPT ![o] = target]
        /\ UNCHANGED stockVars
    BY <1>2 DEF Fulfil, CanTransition
  <2> QED
    BY <2>1, NothingMoved DEF MovesNothing, HoldsStill, TypeOK
<1>3. ASSUME NEW o \in Orders, NEW id \in CancelIds, NEW actor \in Actors, CancelOrder(id, o, actor)
      PROVE  StockInv'
  <2>1. CASE CancelAndRecover(o)
    BY <1>3, <2>1, CancellationGivesBack DEF CancelOrder
  <2>2. CASE UNCHANGED <<status, released, stock, notices>>
    BY <1>3, <2>2, <1>1 DEF CancelOrder, stockVars
  <2> QED
    BY <1>3, <2>1, <2>2 DEF CancelOrder
<1>4. ASSUME NEW m \in PaymentResult, OnPaymentSucceeded(m) PROVE StockInv'
  <2>1. CASE UNCHANGED status
    BY <1>4, <2>1, <1>1 DEF OnPaymentSucceeded
  <2>2. CASE ~UNCHANGED status
    <3>1. /\ m.order \in Orders /\ status[m.order] = "PENDING"
          /\ status' = [status EXCEPT ![m.order] = "PAID"]
          /\ UNCHANGED stockVars
      BY <1>4, <2>2, ResultType DEF OnPaymentSucceeded, CanTransition
    <3> QED
      BY <3>1, NothingMoved DEF MovesNothing, HoldsStill, TypeOK
  <2> QED
    BY <2>1, <2>2
<1>5. ASSUME NEW m \in PaymentResult, OnPaymentFailed(m) PROVE StockInv'
  <2>1. CASE CancelAndRecover(m.order)
    BY <1>5, <2>1, ResultType, CancellationGivesBack DEF OnPaymentFailed
  <2>2. CASE UNCHANGED <<status, released, stock, notices>>
    BY <1>5, <2>2, <1>1 DEF OnPaymentFailed, stockVars
  <2> QED
    BY <1>5, <2>1, <2>2 DEF OnPaymentFailed
<1>6. CASE UNCHANGED vars
  BY <1>1, <1>6 DEF vars
<1>7. CASE Operation
  <2>1. ASSUME NEW o \in Orders, NEW k \in RefundRequestIds,
               RequestRefund(o, k) \/ ApproveRefund(o, k) \/ RejectRefund(o, k)
        PROVE  StockInv'
    BY <2>1, <1>1 DEF RequestRefund, ApproveRefund, RejectRefund
  <2>2. ASSUME NEW o \in Orders, SetTracking(o) PROVE StockInv'
    BY <2>2, <1>1 DEF SetTracking
  <2> QED
    BY <1>7, <1>2, <1>3, <2>1, <2>2, PlacementTakes DEF Operation
<1>8. CASE Delivery
  <2>1. ASSUME NEW m \in PaymentResult, NEW reason, OnPaymentUnresolved(m, reason) PROVE StockInv'
    BY <2>1, <1>1 DEF OnPaymentUnresolved
  <2>2. ASSUME NEW m \in PaymentResult, NEW attempt, OnPaymentDeclined(m, attempt) PROVE StockInv'
    BY <2>2, <1>1 DEF OnPaymentDeclined
  <2>3. ASSUME NEW m, NEW target, OnRefundResult(m, target) PROVE StockInv'
    BY <2>3, <1>1 DEF OnRefundResult
  <2> QED
    BY <1>8, <1>4, <1>5, <2>1, <2>2, <2>3 DEF Delivery
<1> QED
  BY <1>6, <1>7, <1>8 DEF Next

\* What has gone from an inventory row is what the orders that are not cancelled
\* hold of it, however many orders, rows and quantities there are.
THEOREM StockIsConserved == Spec => []StockConserved
<1>1. Init => StockInv
  <2> SUFFICES ASSUME Init PROVE StockInv
    OBVIOUS
  <2>1. Placed = {}
    BY DEF Init, Placed
  <2>2. HoldingOK
    BY DEF Init, HoldingOK
  <2>3. ASSUME NEW r \in Rows PROVE stock[r] + Total(Qty, HeldOf(r)) = InitialStock[r]
    <3>1. HeldOf(r) = {}
      BY ConstantsAssumption DEF Init, HeldOf
    <3>2. stock[r] = InitialStock[r] /\ InitialStock[r] \in Nat
      BY ConstantsAssumption DEF Init
    <3> QED
      BY <3>1, <3>2, TotalEmpty
  <2> QED
    BY <2>1, <2>2, <2>3, FS_EmptySet DEF StockInv, StockConserved
<1>2. TypeOK /\ StockInv /\ [Next]_vars => StockInv'
  BY StockStep
<1>3. StockInv => StockConserved
  BY DEF StockInv
<1> QED
  BY <1>1, <1>2, <1>3, TypeCorrect, PTL DEF Spec


-----------------------------------------------------------------------------
(* What a step does to an order's goods and to what is known and owed of its *)
(* money: PaymentSaga needs no more of the backend than this.                *)

Known(x) == paymentStatus[x] = "SUCCEEDED"
Due(x) == refund[x] # NoRefund

KnowsAsBefore(x) == (Known(x)' <=> Known(x)) /\ (Due(x)' <=> Due(x))
Rests(x) == status'[x] = status[x] /\ KnowsAsBefore(x)

Sold == {"PAID", "PROCESSING", "SHIPPING", "COMPLETED"}

Places(o) == status[o] = "NONE" /\ status'[o] = "PENDING" /\ KnowsAsBefore(o)
Learns(o) ==
    /\ ~Known(o) /\ Known(o)'
    /\ \/ status[o] = "PENDING" /\ status'[o] = "PAID" /\ (Due(o)' <=> Due(o))
       \/ status[o] = "CANCELLED" /\ status'[o] = "CANCELLED" /\ Due(o)'
Cancels(o) ==
    /\ status[o] \in {"PENDING", "PAID"} /\ status'[o] = "CANCELLED"
    /\ Known(o)' <=> Known(o)
    /\ Due(o)' <=> Due(o) \/ Known(o)
Fulfils(o) ==
    /\ status[o] \in Sold /\ status'[o] \in Sold \ {"PAID"}
    /\ KnowsAsBefore(o)
Grants(o) == status[o] \in Sold /\ status'[o] = status[o] /\ (Known(o)' <=> Known(o)) /\ Due(o)'

OneOrderMoves ==
    \/ \A x \in Orders : Rests(x)
    \/ \E o \in Orders :
          /\ Places(o) \/ Learns(o) \/ Cancels(o) \/ Fulfils(o) \/ Grants(o)
          /\ \A x \in Orders \ {o} : Rests(x)

\* A step that touches neither status, payment status nor whether a refund exists.
LEMMA NothingMoves ==
    ASSUME UNCHANGED <<status, paymentStatus, refund>>
    PROVE  OneOrderMoves
BY DEF OneOrderMoves, Rests, KnowsAsBefore, Known, Due

\* A refund is issued for one order, and is then due.
LEMMA IssueMakesDue ==
    ASSUME TypeOK, NEW o \in Orders, NEW p, IssueRefund(o, p)
    PROVE  Due(o)' /\ \A x \in Orders \ {o} : refund'[x] = refund[x]
BY DEF TypeOK, IssueRefund, Due, NoRefund

\* ensureRefund makes the refund of a known charge due, and no other.
LEMMA EnsureMakesDue ==
    ASSUME TypeOK, NEW o \in Orders, NEW payStatus, NEW receiptNow, NEW p,
           EnsureRefund(o, payStatus, receiptNow, p)
    PROVE  /\ Due(o)' <=> Due(o) \/ payStatus = "SUCCEEDED"
           /\ \A x \in Orders \ {o} : refund'[x] = refund[x]
<1>1. CASE RefundOwed(o, payStatus)
  <2>1. Due(o)' /\ \A x \in Orders \ {o} : refund'[x] = refund[x]
    BY <1>1, IssueMakesDue DEF EnsureRefund
  <2> QED
    BY <1>1, <2>1 DEF RefundOwed
<1>2. CASE ~RefundOwed(o, payStatus)
  BY <1>2 DEF EnsureRefund, RefundOwed, Due, refundVars
<1> QED
  BY <1>1, <1>2

\* A step moves the goods or the knowledge of one order at most, and only in
\* one of five ways.
LEMMA StepMovesOne == IInv /\ [Next]_vars => OneOrderMoves
<1> SUFFICES ASSUME IInv, [Next]_vars PROVE OneOrderMoves
  OBVIOUS
<1> USE DEF moneyVars, stockVars
<1>0. TypeOK /\ CartIsUntouched /\ ReceiptAgrees /\ RefundInv
  BY DEF IInv
<1>1. ASSUME NEW o \in Orders, PlaceOrder(o) PROVE OneOrderMoves
  <2>1. Places(o) /\ \A x \in Orders \ {o} : Rests(x)
    BY <1>0, <1>1 DEF PlaceOrder, Places, Rests, KnowsAsBefore, Known, Due, TypeOK, CartIsUntouched
  <2> QED
    BY <2>1 DEF OneOrderMoves
<1>2. ASSUME NEW o \in Orders, SetTracking(o) PROVE OneOrderMoves
  BY <1>2, NothingMoves DEF SetTracking, refundVars
<1>3. ASSUME NEW o \in Orders, NEW target \in Statuses, Fulfil(o, target) PROVE OneOrderMoves
  <2>1. Fulfils(o) /\ \A x \in Orders \ {o} : Rests(x)
    BY <1>0, <1>3 DEF Fulfil, CanTransition, Fulfils, Rests, KnowsAsBefore, Known, Due, Sold, TypeOK, refundVars
  <2> QED
    BY <2>1 DEF OneOrderMoves
<1>4. ASSUME NEW o \in Orders, NEW id \in CancelIds, NEW actor \in Actors, CancelOrder(id, o, actor)
      PROVE  OneOrderMoves
  <2>1. /\ Due(o)' <=> Due(o) \/ Known(o)
        /\ \A x \in Orders \ {o} : refund'[x] = refund[x]
    BY <1>0, <1>4, EnsureMakesDue DEF CancelOrder, Known
  <2>2. UNCHANGED paymentStatus
    BY <1>4 DEF CancelOrder
  <2>3. CASE CancelAndRecover(o)
    <3>1. Cancels(o) /\ \A x \in Orders \ {o} : Rests(x)
      BY <1>0, <2>1, <2>2, <2>3
         DEF CancelAndRecover, CanTransition, Cancels, Rests, KnowsAsBefore, Known, Due, TypeOK
    <3> QED
      BY <3>1 DEF OneOrderMoves
  <2>4. CASE status[o] = "CANCELLED" /\ UNCHANGED status
    <3>1. Known(o) => Due(o)
      BY <1>0, <2>4 DEF Known, Due, RefundInv, CancelledChargeIsRefunded
    <3>2. \A x \in Orders : Rests(x)
      BY <2>1, <2>2, <2>4, <3>1 DEF Rests, KnowsAsBefore, Known, Due
    <3> QED
      BY <3>2 DEF OneOrderMoves
  <2> QED
    BY <1>4, <2>3, <2>4 DEF CancelOrder
<1>5. ASSUME NEW o \in Orders, NEW k \in RefundRequestIds,
             RequestRefund(o, k) \/ ApproveRefund(o, k) \/ RejectRefund(o, k)
      PROVE  OneOrderMoves
  <2>1. CASE RequestRefund(o, k) \/ RejectRefund(o, k)
    BY <2>1, NothingMoves DEF RequestRefund, RejectRefund
  <2>2. CASE ApproveRefund(o, k)
    <3>1. Due(o)' /\ \A x \in Orders \ {o} : refund'[x] = refund[x]
      BY <1>0, <2>2, IssueMakesDue DEF ApproveRefund
    <3>2. UNCHANGED <<status, paymentStatus>> /\ status[o] \in Sold
      BY <1>0, <2>2 DEF ApproveRefund, RefundEligible, Sold, TypeOK, Statuses
    <3>3. Grants(o) /\ \A x \in Orders \ {o} : Rests(x)
      BY <3>1, <3>2 DEF Grants, Rests, KnowsAsBefore, Known, Due
    <3> QED
      BY <3>3 DEF OneOrderMoves
  <2> QED
    BY <1>5, <2>1, <2>2
<1>6. ASSUME NEW m \in PaymentResult, OnPaymentSucceeded(m) PROVE OneOrderMoves
  <2> PICK o \in Orders : o = m.order
    BY ResultType
  <2>1. /\ paymentStatus[o] \notin TerminalPayment
        /\ paymentStatus' = [paymentStatus EXCEPT ![o] = "SUCCEEDED"]
    BY <1>6 DEF OnPaymentSucceeded, RecordOutcome
  <2>2. ~Known(o) /\ Known(o)' /\ \A x \in Orders \ {o} : Known(x)' <=> Known(x)
    BY <1>0, <2>1 DEF Known, TypeOK, TerminalPayment
  <2>3. CASE status[o] = "PENDING" /\ status' = [status EXCEPT ![o] = "PAID"] /\ UNCHANGED refund
    <3>1. Learns(o) /\ \A x \in Orders \ {o} : Rests(x)
      BY <1>0, <2>2, <2>3 DEF Learns, Rests, KnowsAsBefore, Due, TypeOK
    <3> QED
      BY <3>1 DEF OneOrderMoves
  <2>4. CASE status[o] = "CANCELLED" /\ EnsureRefund(o, "SUCCEEDED", receipt'[o], m.payment) /\ UNCHANGED status
    <3>1. Due(o)' /\ \A x \in Orders \ {o} : refund'[x] = refund[x]
      BY <1>0, <2>4, EnsureMakesDue
    <3>2. Learns(o) /\ \A x \in Orders \ {o} : Rests(x)
      BY <2>2, <2>4, <3>1 DEF Learns, Rests, KnowsAsBefore, Due
    <3> QED
      BY <3>2 DEF OneOrderMoves
  <2> QED
    BY <1>6, <2>3, <2>4 DEF OnPaymentSucceeded, CanTransition, refundVars
<1>7. ASSUME NEW m \in PaymentResult, NEW outcome \in PaymentStatuses \ {"SUCCEEDED"},
             paymentStatus[m.order] # "SUCCEEDED",
             paymentStatus' = [paymentStatus EXCEPT ![m.order] = outcome], UNCHANGED refund,
             \/ UNCHANGED status
             \/ CancelAndRecover(m.order)
      PROVE  OneOrderMoves
  <2> PICK o \in Orders : o = m.order
    BY ResultType
  <2>1. \A x \in Orders : KnowsAsBefore(x)
    BY <1>0, <1>7 DEF KnowsAsBefore, Known, Due, TypeOK
  <2>2. CASE UNCHANGED status
    BY <2>1, <2>2 DEF OneOrderMoves, Rests
  <2>3. CASE CancelAndRecover(o)
    <3>1. Cancels(o) /\ \A x \in Orders \ {o} : Rests(x)
      BY <1>0, <1>7, <2>1, <2>3 DEF CancelAndRecover, CanTransition, Cancels, Rests, KnowsAsBefore, Known, TypeOK
    <3> QED
      BY <3>1 DEF OneOrderMoves
  <2> QED
    BY <1>7, <2>2, <2>3
<1>8. ASSUME NEW m \in PaymentResult, OnPaymentFailed(m) PROVE OneOrderMoves
  <2>1. /\ paymentStatus[m.order] # "SUCCEEDED" /\ UNCHANGED refund
        /\ paymentStatus' = [paymentStatus EXCEPT ![m.order] = "FAILED"]
        /\ UNCHANGED status \/ CancelAndRecover(m.order)
    BY <1>8 DEF OnPaymentFailed, RecordOutcome, TerminalPayment, refundVars
  <2> QED
    BY <1>7, <2>1 DEF PaymentStatuses
<1>9. ASSUME NEW m \in PaymentResult,
             \/ \E reason \in UnresolvedReasons : OnPaymentUnresolved(m, reason)
             \/ \E attempt \in Attempts : OnPaymentDeclined(m, attempt)
      PROVE  OneOrderMoves
  <2>1. /\ paymentStatus[m.order] # "SUCCEEDED" /\ UNCHANGED <<status, refund>>
        /\ \E outcome \in {"UNRESOLVED", "DECLINED"} : paymentStatus' = [paymentStatus EXCEPT ![m.order] = outcome]
    BY <1>9 DEF OnPaymentUnresolved, OnPaymentDeclined, Unsettled, TerminalPayment, refundVars
  <2> QED
    BY <1>7, <2>1 DEF PaymentStatuses
<1>10. ASSUME NEW m \in RefundResult, NEW target \in {"UNRESOLVED", "SUCCEEDED", "FAILED"},
              OnRefundResult(m, target)
       PROVE  OneOrderMoves
  <2> PICK o \in Orders : o = m.order
    BY DEF RefundResult
  <2>1. /\ refund[o].status \in {"PENDING", "UNRESOLVED"} /\ refund' = [refund EXCEPT ![o].status = target]
        /\ UNCHANGED <<status, paymentStatus>>
    BY <1>10 DEF OnRefundResult, RefundPending
  <2>2. refund'[o].status = target /\ \A x \in Orders \ {o} : refund'[x] = refund[x]
    BY <1>0, <2>1 DEF TypeOK
  <2>3. Due(o) /\ Due(o)'
    BY <2>1, <2>2 DEF Due, NoRefund
  <2>4. \A x \in Orders : Rests(x)
    BY <2>1, <2>2, <2>3 DEF Rests, KnowsAsBefore, Known, Due
  <2> QED
    BY <2>4 DEF OneOrderMoves
<1>11. CASE UNCHANGED vars
  BY <1>11, NothingMoves DEF vars, refundVars
<1>12. CASE Operation
  BY <1>12, <1>1, <1>2, <1>3, <1>4, <1>5 DEF Operation
<1>13. CASE Delivery
  BY <1>13, <1>6, <1>8, <1>9, <1>10 DEF Delivery
<1> QED
  BY <1>11, <1>12, <1>13 DEF Next

\* What was placed stays placed, and a payment request belongs to a placed order.
RequestedIsPlaced == \A e \in outbox : e.topic = "payment.requested" => status[e.order] # "NONE"

\* A step only adds to the outbox, and a payment request only for the order it places.
LEMMA OutboxGrows ==
    TypeOK /\ [Next]_vars
        => /\ outbox \subseteq outbox'
           /\ \A e \in outbox' \ outbox : e.topic = "payment.requested" => status'[e.order] # "NONE"
<1> SUFFICES ASSUME TypeOK, [Next]_vars
             PROVE  /\ outbox \subseteq outbox'
                    /\ \A e \in outbox' \ outbox : e.topic = "payment.requested" => status'[e.order] # "NONE"
  OBVIOUS
<1>1. ASSUME NEW o, NEW p, UNCHANGED outbox \/ IssueRefund(o, p)
      PROVE  /\ outbox \subseteq outbox'
             /\ \A e \in outbox' \ outbox : e.topic # "payment.requested"
  BY <1>1 DEF IssueRefund, RefundRequested
<1>2. ASSUME NEW o \in Orders, PlaceOrder(o)
      PROVE  /\ outbox \subseteq outbox'
             /\ \A e \in outbox' \ outbox : e.topic = "payment.requested" => status'[e.order] # "NONE"
  BY <1>2 DEF PlaceOrder, PaymentRequested, TypeOK
<1>3. CASE UNCHANGED outbox \/ \E o, p : IssueRefund(o, p)
  BY <1>1, <1>3
<1>4. CASE Operation
  <2>1. ASSUME NEW o \in Orders, NEW id \in CancelIds, NEW actor \in Actors, CancelOrder(id, o, actor)
        PROVE  UNCHANGED outbox \/ IssueRefund(o, paymentId[o])
    BY <2>1 DEF CancelOrder, EnsureRefund, refundVars
  <2> QED
    BY <1>2, <1>3, <1>4, <2>1 DEF Operation, SetTracking, Fulfil, RequestRefund, ApproveRefund, RejectRefund, refundVars
<1>5. CASE Delivery
  <2>1. ASSUME NEW m \in PaymentResult, OnPaymentSucceeded(m)
        PROVE  UNCHANGED outbox \/ IssueRefund(m.order, m.payment)
    BY <2>1 DEF OnPaymentSucceeded, EnsureRefund, refundVars
  <2> QED
    BY <1>3, <1>5, <2>1 DEF Delivery, OnPaymentFailed, OnPaymentUnresolved, OnPaymentDeclined, OnRefundResult, refundVars
<1> QED
  BY <1>3, <1>4, <1>5 DEF Next, vars, refundVars

\* An order that is placed stays so, and a refund that is due stays due.
LEMMA MovesKeep ==
    OneOrderMoves => \A x \in Orders :
        /\ status[x] # "NONE" => status'[x] # "NONE"
        /\ Due(x) => Due(x)'
BY DEF OneOrderMoves, Rests, KnowsAsBefore, Places, Learns, Cancels, Fulfils, Grants, Sold

\* A payment request in the outbox always belongs to a placed order.
LEMMA RequestsStayPlaced == IInv /\ RequestedIsPlaced /\ [Next]_vars => RequestedIsPlaced'
<1> SUFFICES ASSUME IInv, RequestedIsPlaced, [Next]_vars, NEW e \in outbox', e.topic = "payment.requested"
             PROVE  status'[e.order] # "NONE"
  BY DEF RequestedIsPlaced
<1>1. TypeOK /\ OneOrderMoves
  BY StepMovesOne DEF IInv
<1>2. CASE e \in outbox
  BY <1>1, <1>2, MovesKeep DEF RequestedIsPlaced, TypeOK
<1>3. CASE e \notin outbox
  BY <1>1, <1>3, OutboxGrows
<1> QED
  BY <1>2, <1>3

\* No refund is settled in this step.
NoRefundSettles ==
    \A x \in Orders : refund'[x].status \in TerminalRefund => refund'[x] = refund[x]

\* ensureRefund issues a refund, which is pending.
LEMMA EnsuredIsPending ==
    ASSUME TypeOK, NEW o \in Orders, NEW payStatus, NEW receiptNow, NEW p,
           EnsureRefund(o, payStatus, receiptNow, p)
    PROVE  NoRefundSettles
<1>1. CASE IssueRefund(o, p)
  BY <1>1 DEF IssueRefund, NoRefundSettles, TerminalRefund, TypeOK
<1>2. CASE UNCHANGED refundVars
  BY <1>2 DEF NoRefundSettles, refundVars
<1> QED
  BY <1>1, <1>2 DEF EnsureRefund

\* The shop's own operations settle nothing and bind no payment.
LEMMA OperationSettlesNothing ==
    ASSUME TypeOK, Operation
    PROVE  /\ UNCHANGED paymentId /\ NoRefundSettles
           /\ \A x \in Orders : paymentStatus'[x] \in TerminalPayment => paymentStatus'[x] = paymentStatus[x]
<1> DEFINE Settles == \A x \in Orders : paymentStatus'[x] \in TerminalPayment => paymentStatus'[x] = paymentStatus[x]
<1>1. ASSUME UNCHANGED <<paymentId, paymentStatus, refund>> PROVE UNCHANGED paymentId /\ NoRefundSettles /\ Settles
  BY <1>1 DEF NoRefundSettles
<1>2. ASSUME NEW o \in Orders, PlaceOrder(o) PROVE UNCHANGED paymentId /\ NoRefundSettles /\ Settles
  BY <1>2 DEF PlaceOrder, NoRefundSettles, TerminalPayment, TypeOK
<1>3. ASSUME NEW o \in Orders, NEW id \in CancelIds, NEW actor \in Actors, CancelOrder(id, o, actor)
      PROVE  UNCHANGED paymentId /\ NoRefundSettles /\ Settles
  BY <1>3, EnsuredIsPending DEF CancelOrder, moneyVars
<1>4. ASSUME NEW o \in Orders, NEW k \in RefundRequestIds, ApproveRefund(o, k)
      PROVE  UNCHANGED paymentId /\ NoRefundSettles /\ Settles
  BY <1>4 DEF ApproveRefund, IssueRefund, NoRefundSettles, TerminalRefund, TypeOK, moneyVars
<1> HIDE DEF Settles
<1>5. UNCHANGED paymentId /\ NoRefundSettles /\ Settles
  BY <1>1, <1>2, <1>3, <1>4 DEF Operation, SetTracking, Fulfil, RequestRefund, RejectRefund, moneyVars, refundVars
<1> QED
  BY <1>5 DEF Settles

\* A listener binds the payment of its result to the order of its result, and
\* records the outcome that its topic stands for.
LEMMA ListenerRecords ==
    ASSUME TypeOK, NEW m \in PaymentResult, NEW outcome,
           \/ OnPaymentSucceeded(m) /\ outcome = "SUCCEEDED"
           \/ OnPaymentFailed(m) /\ outcome = "FAILED"
           \/ (\E reason : OnPaymentUnresolved(m, reason)) /\ outcome = "UNRESOLVED"
           \/ (\E attempt : OnPaymentDeclined(m, attempt)) /\ outcome = "DECLINED"
    PROVE  /\ paymentId' = [paymentId EXCEPT ![m.order] = m.payment]
           /\ paymentStatus' = [paymentStatus EXCEPT ![m.order] = outcome]
           /\ NoRefundSettles
<1>1. m.order \in Orders
  BY ResultType
<1>2. UNCHANGED refund \/ EnsureRefund(m.order, "SUCCEEDED", receipt'[m.order], m.payment)
  BY DEF OnPaymentSucceeded, OnPaymentFailed, OnPaymentUnresolved, OnPaymentDeclined, refundVars
<1>3. NoRefundSettles
  BY <1>1, <1>2, EnsuredIsPending DEF NoRefundSettles
<1> QED
  BY <1>3 DEF OnPaymentSucceeded, OnPaymentFailed, OnPaymentUnresolved, OnPaymentDeclined, RecordOutcome
=============================================================================
