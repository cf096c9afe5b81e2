----------------------- MODULE PaymentService_proofs -----------------------
(* Theorems about PaymentService, for any number of orders, payments,       *)
(* refunds, consumers, settlers and card attempts.                          *)
EXTENDS PaymentService, FiniteSetTheorems, TLAPS

PaymentRow == [request : Orders \cup {None}, status : Statuses, notified : BOOLEAN]
IntentRecord == [state : {"none", "open", "processing", "declined", "transient", "succeeded", "canceled"},
                 attempt : Attempts \cup {None}]
\* An intent that a card was tried for names the attempt.
Intents == {i \in IntentRecord :
              i.state \in {"processing", "declined", "transient", "succeeded"} => i.attempt \in Attempts}
Final == {"succeeded", "canceled"}
ConsumerState == [pc : {"idle", "charge", "record", "unknown"},
                  payment : PaymentIds \cup {None}, approved : BOOLEAN]
SettlerState == [payment : PaymentIds \cup {None}, intent : Intents]
LedgerRow == [operation : {"CHARGE", "REFUND"}, key : PaymentIds \cup RefundIds,
              payment : PaymentIds, approved : BOOLEAN]

Charges == {e \in ledger : e.operation = "CHARGE"}
Refunds == {e \in ledger : e.operation = "REFUND"}
ChargeOf(p, approved) == \E e \in Charges : e.payment = p /\ e.approved = approved

\* The provider has answered for payment p, once and for all.
Decided(p, approved) ==
  IF IsStripe(p) THEN intent[p].state = IF approved THEN "succeeded" ELSE "canceled"
                 ELSE ChargeOf(p, approved)

PaymentInv(p) ==
  /\ payment[p] \in PaymentRow
  /\ payment[p].request = None <=> payment[p].status = "NONE"
  /\ payment[p].status = "SUCCEEDED" => Decided(p, TRUE)
  /\ payment[p].status = "FAILED" => Decided(p, FALSE)

IntentInv(p) ==
  /\ intent[p] \in Intents
  /\ intent[p].state # "none" => IsStripe(p)

\* A consumer works for a request that has its row, and an answer it is about to
\* record is the one in the ledger.
ConsumerInv(c) ==
  /\ consumer[c] \in ConsumerState
  /\ consumer[c].pc # "idle" => Held(c) \in PaymentIds /\ payment[Held(c)].request # None
  /\ consumer[c].pc = "record" => ~IsStripe(Held(c)) /\ ChargeOf(Held(c), consumer[c].approved)

\* What a settler has read may be out of date, but not if it is final.
SettlerInv(s) ==
  /\ settler[s] \in SettlerState
  /\ settler[s] # SettlerIdle => settler[s].payment \in PaymentIds
  /\ settler[s] # SettlerIdle /\ settler[s].intent.state \in Final
       => intent[settler[s].payment].state = settler[s].intent.state

LedgerInv ==
  /\ ledger \subseteq LedgerRow
  /\ \A e \in Charges : payment[e.payment].request # None /\ ~IsStripe(e.payment)
  /\ \A e, f \in Charges : e.payment = f.payment => e = f

OneRowPerRequest ==
  \A p, q \in PaymentIds :
    payment[p].request # None /\ payment[p].request = payment[q].request => p = q

ChargeInv ==
  /\ payment \in [PaymentIds -> PaymentRow]
  /\ intent \in [PaymentIds -> Intents]
  /\ consumer \in [Consumers -> ConsumerState]
  /\ settler \in [Settlers -> SettlerState]
  /\ bound \subseteq PaymentIds
  /\ \A p \in PaymentIds : PaymentInv(p) /\ IntentInv(p)
  /\ \A c \in Consumers : ConsumerInv(c)
  /\ \A s \in Settlers : SettlerInv(s)
  /\ LedgerInv
  /\ OneRowPerRequest

-----------------------------------------------------------------------------
(* What every step keeps.                                                   *)

Steady ==
  /\ \A p \in PaymentIds : payment[p].request # None => payment'[p].request = payment[p].request
  /\ \A p \in PaymentIds : payment[p].status \in Terminal => payment'[p] = payment[p]
  /\ Charges \subseteq Charges'
  /\ \A p \in PaymentIds : intent[p].state \in Final => intent'[p].state = intent[p].state

\* A card payment has a row.
LEMMA StripeIsRequested ==
  \A p \in PaymentIds : payment[p] \in PaymentRow /\ IsStripe(p) => payment[p].request # None
BY ConstantsAssumption DEF IsStripe, PaymentRow

\* What the provider has decided stays decided.
LEMMA DecidedKept ==
  ASSUME ChargeInv, Steady, NEW p \in PaymentIds, NEW approved \in BOOLEAN,
         payment[p].request # None, Decided(p, approved)
  PROVE  Decided(p, approved)'
<1>1. payment'[p].request = payment[p].request
  BY DEF Steady
<1>2. CASE IsStripe(p)
  BY <1>1, <1>2 DEF Decided, IsStripe, Steady, Final
<1>3. CASE ~IsStripe(p)
  <2>1. ChargeOf(p, approved)'
    BY <1>3 DEF Decided, ChargeOf, Steady
  <2> QED
    BY <1>1, <1>3, <2>1 DEF Decided, IsStripe
<1> QED
  BY <1>2, <1>3

\* A payment keeps its invariant when its status and request stay.
LEMMA PaymentKept ==
  ASSUME ChargeInv, Steady, NEW p \in PaymentIds,
         payment'[p] \in PaymentRow,
         payment'[p].request = payment[p].request, payment'[p].status = payment[p].status
  PROVE  PaymentInv(p)'
<1>1. payment[p].status \in {"SUCCEEDED", "FAILED"} => payment[p].request # None
  BY DEF ChargeInv, PaymentInv
<1>2. payment[p].status = "SUCCEEDED" => Decided(p, TRUE)'
  BY <1>1, DecidedKept DEF ChargeInv, PaymentInv
<1>3. payment[p].status = "FAILED" => Decided(p, FALSE)'
  BY <1>1, DecidedKept DEF ChargeInv, PaymentInv
<1> QED
  BY <1>2, <1>3 DEF ChargeInv, PaymentInv

\* A consumer that is left alone remembers what is still true.
LEMMA ConsumerKept ==
  ASSUME ChargeInv, Steady, NEW c \in Consumers, consumer'[c] = consumer[c]
  PROVE  ConsumerInv(c)'
<1>1. ConsumerInv(c)
  BY DEF ChargeInv
<1>2. CASE consumer[c].pc = "idle"
  BY <1>1, <1>2 DEF ConsumerInv
<1>3. CASE consumer[c].pc # "idle"
  <2> PICK p \in PaymentIds : p = Held(c)
    BY <1>1, <1>3 DEF ConsumerInv
  <2>1. payment'[p].request = payment[p].request /\ payment[p].request # None
    BY <1>1, <1>3 DEF ConsumerInv, Steady
  <2>2. Held(c)' = p
    BY DEF Held
  <2>3. consumer[c].pc = "record" => ~IsStripe(p)' /\ ChargeOf(p, consumer[c].approved)'
    BY <1>1, <2>1 DEF ConsumerInv, IsStripe, ChargeOf, Steady
  <2> QED
    BY <1>1, <2>1, <2>2, <2>3 DEF ConsumerInv, IsStripe, ChargeOf
<1> QED
  BY <1>2, <1>3

\* A consumer between two messages remembers nothing.
LEMMA IdleConsumer ==
  ASSUME NEW c \in Consumers, consumer'[c] = Idle
  PROVE  ConsumerInv(c)'
BY DEF ConsumerInv, ConsumerState, Idle

\* A settler that is left alone remembers what is still true of its intent.
LEMMA SettlerKept ==
  ASSUME ChargeInv, Steady, NEW s \in Settlers, settler'[s] = settler[s]
  PROVE  SettlerInv(s)'
<1>1. SettlerInv(s)
  BY DEF ChargeInv
<1>2. settler[s] # SettlerIdle /\ settler[s].intent.state \in Final
        => intent'[settler[s].payment].state = settler[s].intent.state
  BY <1>1 DEF SettlerInv, Steady
<1>3. SettlerIdle' = SettlerIdle
  BY DEF SettlerIdle, NoIntent
<1> QED
  BY <1>1, <1>2, <1>3 DEF SettlerInv

\* A settler between two intents remembers nothing.
LEMMA IdleSettler ==
  ASSUME NEW s \in Settlers, settler'[s] = SettlerIdle
  PROVE  SettlerInv(s)'
BY DEF SettlerInv, SettlerState, SettlerIdle, NoIntent, Intents, IntentRecord

\* The ledger keeps its invariant when no charge is added.
LEMMA LedgerKept ==
  ASSUME ChargeInv, Steady, ledger' \subseteq LedgerRow, Charges' = Charges
  PROVE  LedgerInv'
<1>1. \A e \in Charges : e.payment \in PaymentIds
  BY DEF Charges, ChargeInv, LedgerInv, LedgerRow
<1>2. \A e \in Charges : payment'[e.payment].request = payment[e.payment].request
  BY <1>1 DEF Steady, ChargeInv, LedgerInv
<1> QED
  BY <1>2 DEF ChargeInv, LedgerInv, IsStripe

\* An intent nobody touches.
LEMMA IntentKept ==
  ASSUME ChargeInv, Steady, NEW p \in PaymentIds, intent'[p] = intent[p]
  PROVE  IntentInv(p)'
<1>1. IntentInv(p) /\ (IsStripe(p) => payment[p].request # None)
  BY StripeIsRequested DEF ChargeInv
<1> QED
  BY <1>1 DEF IntentInv, Steady, IsStripe

\* A step that claims no request keeps one row per request.
LEMMA RowsKept ==
  ASSUME ChargeInv, \A p \in PaymentIds : payment'[p].request = payment[p].request
  PROVE  OneRowPerRequest'
BY DEF ChargeInv, OneRowPerRequest

-----------------------------------------------------------------------------
(* The steps of a charge.                                                   *)

\* Nothing was charged before the first request.
LEMMA InitCharge == Init => ChargeInv
<1> SUFFICES ASSUME Init PROVE ChargeInv
  OBVIOUS
<1>1. NoPayment \in PaymentRow /\ NoIntent \in Intents /\ Idle \in ConsumerState
      /\ SettlerIdle \in SettlerState
  BY DEF NoPayment, PaymentRow, Statuses, NoIntent, Intents, IntentRecord, Idle, ConsumerState,
         SettlerIdle, SettlerState
<1>2. \A p \in PaymentIds : PaymentInv(p) /\ IntentInv(p)
  BY <1>1 DEF Init, PaymentInv, IntentInv, NoPayment, NoIntent
<1>3. \A c \in Consumers : ConsumerInv(c)
  BY <1>1 DEF Init, ConsumerInv, Idle
<1>4. \A s \in Settlers : SettlerInv(s)
  BY <1>1 DEF Init, SettlerInv
<1>5. LedgerInv /\ OneRowPerRequest
  BY DEF Init, LedgerInv, Charges, OneRowPerRequest, NoPayment
<1> QED
  BY <1>1, <1>2, <1>3, <1>4, <1>5 DEF Init, ChargeInv

\* A step that leaves the rows of the payments, the intents and the charges alone.
LEMMA QuietStep ==
  ASSUME ChargeInv, UNCHANGED <<payment, intent>>, Charges' = Charges, ledger' \subseteq LedgerRow,
         bound' \subseteq PaymentIds,
         consumer' \in [Consumers -> ConsumerState], settler' \in [Settlers -> SettlerState],
         \A c \in Consumers : consumer'[c] = consumer[c] \/ ConsumerInv(c)',
         \A s \in Settlers : settler'[s] = settler[s] \/ SettlerInv(s)'
  PROVE  ChargeInv' /\ Steady
<1>1. Steady
  BY DEF Steady
<1>2. \A p \in PaymentIds : PaymentInv(p)' /\ IntentInv(p)'
  BY <1>1, PaymentKept, IntentKept DEF ChargeInv
<1>3. \A c \in Consumers : ConsumerInv(c)'
  BY <1>1, ConsumerKept
<1>4. \A s \in Settlers : SettlerInv(s)'
  BY <1>1, SettlerKept
<1>5. LedgerInv' /\ OneRowPerRequest'
  BY <1>1, LedgerKept, RowsKept
<1> QED
  BY <1>1, <1>2, <1>3, <1>4, <1>5 DEF ChargeInv

\* A step of the store: the status or the flag of one row, with the answer to it.
LEMMA StoreStep ==
  ASSUME ChargeInv, NEW p \in PaymentIds, NEW r \in PaymentRow,
         payment' = [payment EXCEPT ![p] = r], UNCHANGED <<intent, ledger>>,
         bound' \subseteq PaymentIds,
         payment[p].status = "REQUESTED", r.request = payment[p].request, r.request # None,
         \/ r.status = payment[p].status
         \/ r.status = "SUCCEEDED" /\ Decided(p, TRUE)
         \/ r.status = "FAILED" /\ Decided(p, FALSE),
         consumer' \in [Consumers -> ConsumerState], settler' \in [Settlers -> SettlerState],
         \A c \in Consumers : consumer'[c] = consumer[c] \/ consumer'[c] = Idle,
         \A s \in Settlers : settler'[s] = settler[s] \/ settler'[s] = SettlerIdle
  PROVE  ChargeInv' /\ Steady
<1>1. \A q \in PaymentIds : payment'[q] = IF q = p THEN r ELSE payment[q]
  BY DEF ChargeInv
<1>2. Steady
  BY <1>1 DEF Steady, Charges, Terminal
<1>3. \A q \in PaymentIds : IntentInv(q)'
  BY <1>2, IntentKept
<1>4. ASSUME NEW q \in PaymentIds PROVE PaymentInv(q)'
  <2>1. CASE q # p \/ r.status = payment[p].status
    BY <1>1, <1>2, <2>1, PaymentKept DEF ChargeInv
  <2>2. CASE q = p /\ r.status = "SUCCEEDED" /\ Decided(p, TRUE)
    <3>1. Decided(p, TRUE)'
      BY <1>2, <2>2, DecidedKept
    <3> QED
      BY <1>1, <2>2, <3>1 DEF PaymentInv
  <2>3. CASE q = p /\ r.status = "FAILED" /\ Decided(p, FALSE)
    <3>1. Decided(p, FALSE)'
      BY <1>2, <2>3, DecidedKept
    <3> QED
      BY <1>1, <2>3, <3>1 DEF PaymentInv
  <2> QED
    BY <2>1, <2>2, <2>3
<1>5. \A c \in Consumers : ConsumerInv(c)'
  BY <1>2, ConsumerKept, IdleConsumer
<1>6. \A s \in Settlers : SettlerInv(s)'
  BY <1>2, SettlerKept, IdleSettler
<1>7. LedgerInv'
  BY <1>2, LedgerKept DEF Charges, ChargeInv, LedgerInv
<1>8. OneRowPerRequest'
  BY <1>1, RowsKept
<1>9. payment' \in [PaymentIds -> PaymentRow]
  BY DEF ChargeInv
<1> QED
  BY <1>2, <1>3, <1>4, <1>5, <1>6, <1>7, <1>8, <1>9 DEF ChargeInv

\* Taking a request from Kafka saves one row for it or finds it.
LEMMA HandleRequestKeeps ==
  ASSUME ChargeInv, NEW c \in Consumers, NEW o \in Orders, HandleRequest(c, o)
  PROVE  ChargeInv' /\ Steady
<1> PICK p \in PaymentIds :
      /\ \/ Resumable(p, o) /\ UNCHANGED payment
         \/ /\ Unclaimed(o) /\ payment[p] = NoPayment
            /\ payment' = [payment EXCEPT ![p] =
                  [request |-> o, status |-> "REQUESTED", notified |-> FALSE]]
      /\ consumer' = [consumer EXCEPT ![c] = [pc |-> "charge", payment |-> p, approved |-> FALSE]]
  BY DEF HandleRequest
<1> DEFINE held == [pc |-> "charge", payment |-> p, approved |-> FALSE]
           r == [request |-> o, status |-> "REQUESTED", notified |-> FALSE]
<1>1. UNCHANGED <<bound, intent, ledger, settler>>
  BY DEF HandleRequest, refundVars
<1>2. o # None
  BY ConstantsAssumption
<1>3. consumer' \in [Consumers -> ConsumerState]
      /\ \A d \in Consumers : consumer'[d] = IF d = c THEN held ELSE consumer[d]
  BY DEF ChargeInv, ConsumerState
<1>4. payment'[p].request # None => ConsumerInv(c)'
  BY <1>3 DEF ConsumerInv, Held
<1>5. CASE Resumable(p, o) /\ UNCHANGED payment
  <2>1. payment'[p].request # None
    BY <1>2, <1>5 DEF Resumable
  <2>2. ledger' \subseteq LedgerRow /\ Charges' = Charges
    BY <1>1 DEF ChargeInv, LedgerInv, Charges
  <2>3. \A s \in Settlers : settler'[s] = settler[s]
    BY <1>1
  <2>4. \A d \in Consumers : consumer'[d] = consumer[d] \/ ConsumerInv(d)'
    BY <1>3, <1>4, <2>1
  <2>5. bound' \subseteq PaymentIds /\ settler' \in [Settlers -> SettlerState]
    BY <1>1 DEF ChargeInv
  <2> QED
    BY <1>1, <1>3, <1>5, <2>2, <2>3, <2>4, <2>5, QuietStep
<1>6. CASE Unclaimed(o) /\ payment[p] = NoPayment /\ payment' = [payment EXCEPT ![p] = r]
  <2>1. r \in PaymentRow /\ r.request = o /\ r.status = "REQUESTED"
    BY DEF PaymentRow, Statuses
  <2>2. \A q \in PaymentIds : payment'[q] = IF q = p THEN r ELSE payment[q]
    BY <1>6 DEF ChargeInv
  <2>3. payment[p].request = None
    BY <1>6 DEF NoPayment
  <2>12. payment[p].status = "NONE"
    BY <1>6 DEF NoPayment
  <2>4. Steady
    BY <1>1, <2>2, <2>3, <2>12 DEF Steady, Charges, Terminal
  <2> HIDE DEF r, held
  <2>5. ASSUME NEW q \in PaymentIds PROVE PaymentInv(q)'
    <3>1. CASE q = p
      BY <1>2, <2>1, <2>2, <3>1 DEF PaymentInv
    <3>2. CASE q # p
      BY <2>2, <2>4, <3>2, PaymentKept DEF ChargeInv
    <3> QED
      BY <3>1, <3>2
  <2>6. \A q \in PaymentIds : IntentInv(q)'
    BY <1>1, <2>4, IntentKept
  <2>7. \A d \in Consumers : ConsumerInv(d)'
    BY <1>2, <1>3, <1>4, <2>1, <2>2, <2>4, ConsumerKept
  <2>8. \A s \in Settlers : SettlerInv(s)'
    BY <1>1, <2>4, SettlerKept
  <2>9. LedgerInv'
    BY <1>1, <2>4, LedgerKept DEF Charges, ChargeInv, LedgerInv
  <2>10. OneRowPerRequest'
    BY <1>6, <2>1, <2>2 DEF ChargeInv, OneRowPerRequest, Unclaimed
  <2>11. payment' \in [PaymentIds -> PaymentRow]
    BY <1>6, <2>1 DEF ChargeInv
  <2> QED
    BY <1>1, <1>3, <2>4, <2>5, <2>6, <2>7, <2>8, <2>9, <2>10, <2>11 DEF ChargeInv
<1> QED
  BY <1>5, <1>6

\* LedgerCharge: an operation that is there is kept, so there is one for a payment.
LEMMA ChargeInserted ==
  ASSUME ChargeInv, NEW p \in PaymentIds, payment[p].request # None, ~IsStripe(p),
         NEW approved \in BOOLEAN, LedgerInsert("CHARGE", p, p, approved),
         UNCHANGED <<payment, intent>>
  PROVE  Steady /\ LedgerInv' /\ Refunds' = Refunds
<1> DEFINE new == [operation |-> "CHARGE", key |-> p, payment |-> p, approved |-> approved]
<1>1. CASE LedgerRows("CHARGE", p) = {} /\ ledger' = ledger \cup {new}
  <2>1. new \in LedgerRow /\ new.operation = "CHARGE" /\ new.payment = p
    BY DEF LedgerRow
  <2>2. Charges' = Charges \cup {new} /\ Refunds' = Refunds
    BY <1>1 DEF Charges, Refunds
  <2>3. \A e \in Charges : e.payment # p
    BY <1>1 DEF LedgerRows, Charges
  <2> HIDE DEF new
  <2>4. Steady
    BY <2>2 DEF Steady
  <2>5. LedgerInv'
    BY <1>1, <2>1, <2>2, <2>3 DEF ChargeInv, LedgerInv, IsStripe
  <2> QED
    BY <2>2, <2>4, <2>5
<1>2. CASE UNCHANGED ledger
  BY <1>2 DEF Steady, ChargeInv, LedgerInv, IsStripe, Charges, Refunds
<1> QED
  BY <1>1, <1>2 DEF LedgerInsert

\* A step of a consumer at the provider: rows and settlers stay.
LEMMA ProviderStep ==
  ASSUME ChargeInv, Steady, UNCHANGED <<payment, settler>>, LedgerInv',
         bound' \subseteq PaymentIds,
         intent' \in [PaymentIds -> Intents], \A p \in PaymentIds : IntentInv(p)',
         consumer' \in [Consumers -> ConsumerState],
         \A c \in Consumers : consumer'[c] = consumer[c] \/ ConsumerInv(c)'
  PROVE  ChargeInv'
<1>1. \A p \in PaymentIds : PaymentInv(p)'
  BY PaymentKept DEF ChargeInv
<1>2. \A c \in Consumers : ConsumerInv(c)'
  BY ConsumerKept
<1>3. \A s \in Settlers : SettlerInv(s)'
  BY SettlerKept
<1>4. OneRowPerRequest'
  BY RowsKept
<1> QED
  BY <1>1, <1>2, <1>3, <1>4 DEF ChargeInv

\* The simulated provider decides a payment once.
LEMMA ChargeSimulatedKeeps ==
  ASSUME ChargeInv, NEW c \in Consumers, ChargeSimulated(c)
  PROVE  ChargeInv' /\ Steady /\ Refunds' = Refunds
<1> PICK p \in PaymentIds : p = Held(c) /\ payment[p].request # None
  BY DEF ChargeInv, ConsumerInv, ChargeSimulated
<1>1. /\ UNCHANGED <<payment, bound, intent, settler>> /\ ~IsStripe(p)
      /\ LedgerInsert("CHARGE", p, p, payment[p].request \notin Declining)
  BY DEF ChargeSimulated
<1>2. Steady /\ LedgerInv' /\ Refunds' = Refunds
  <2>1. (payment[p].request \notin Declining) \in BOOLEAN
    OBVIOUS
  <2> QED
    BY <1>1, <2>1, ChargeInserted
<1>3. PICK e \in ledger' :
        /\ e.operation = "CHARGE" /\ e.payment = p
        /\ consumer' = [consumer EXCEPT ![c].pc = "record", ![c].approved = e.approved]
  BY DEF ChargeSimulated
<1>4. e.approved \in BOOLEAN
  BY <1>2 DEF LedgerInv, LedgerRow
<1>5. /\ consumer'[c].pc = "record" /\ consumer'[c].approved = e.approved
      /\ consumer'[c].payment = p /\ consumer'[c] \in ConsumerState
  BY <1>3, <1>4 DEF ChargeInv, ConsumerState, Held
<1>6. \A d \in Consumers : d # c => consumer'[d] = consumer[d]
  BY <1>3 DEF ChargeInv
<1>7. ConsumerInv(c)'
  <2>1. ChargeOf(p, e.approved)'
    BY <1>3 DEF ChargeOf, Charges
  <2>2. ~IsStripe(p)' /\ payment'[p].request # None
    BY <1>1 DEF IsStripe
  <2>3. Held(c)' = p
    BY <1>5 DEF Held
  <2> QED
    BY <1>5, <2>1, <2>2, <2>3 DEF ConsumerInv, ChargeOf, IsStripe
<1>8. consumer' \in [Consumers -> ConsumerState]
  <2>1. consumer' = [consumer EXCEPT ![c] = consumer'[c]]
    BY <1>3 DEF ChargeInv
  <2> QED
    BY <1>5, <2>1 DEF ChargeInv
<1>9. \A q \in PaymentIds : IntentInv(q)'
  BY <1>1, <1>2, IntentKept
<1> QED
  BY <1>1, <1>2, <1>6, <1>7, <1>8, <1>9, ProviderStep DEF ChargeInv

\* createPaymentIntent with the key of the payment.
LEMMA IntentCreated ==
  ASSUME ChargeInv, NEW p \in PaymentIds, IsStripe(p), CreateIntent(p), UNCHANGED <<payment, ledger>>
  PROVE  Steady /\ LedgerInv' /\ intent' \in [PaymentIds -> Intents] /\ \A q \in PaymentIds : IntentInv(q)'
<1>1. CASE intent[p] = NoIntent /\ intent' = [intent EXCEPT ![p].state = "open"]
  <2>1. \A q \in PaymentIds : q # p => intent'[q] = intent[q]
    BY <1>1 DEF ChargeInv
  <2>2. intent'[p] \in Intents /\ intent[p].state = "none" /\ intent' \in [PaymentIds -> Intents]
    BY <1>1 DEF ChargeInv, Intents, IntentRecord, NoIntent
  <2>3. Steady
    BY <2>1, <2>2 DEF Steady, Final, Charges
  <2>4. LedgerInv'
    BY <2>3, LedgerKept DEF Charges, ChargeInv, LedgerInv
  <2>5. IntentInv(p)'
    BY <2>2 DEF IntentInv, IsStripe
  <2> QED
    BY <2>1, <2>2, <2>3, <2>4, <2>5, IntentKept
<1>2. CASE UNCHANGED intent
  <2>1. Steady
    BY <1>2 DEF Steady, Charges
  <2>2. LedgerInv'
    BY <2>1, LedgerKept DEF Charges, ChargeInv, LedgerInv
  <2> QED
    BY <1>2, <2>1, <2>2, IntentKept DEF ChargeInv
<1> QED
  BY <1>1, <1>2 DEF CreateIntent

\* Creating an intent, or reading it again, and binding it.
LEMMA AwaitStripeKeeps ==
  ASSUME ChargeInv, NEW c \in Consumers, AwaitStripe(c)
  PROVE  ChargeInv' /\ Steady /\ Refunds' = Refunds
<1> PICK p \in PaymentIds : p = Held(c)
  BY DEF ChargeInv, ConsumerInv, AwaitStripe
<1>1. /\ UNCHANGED <<payment, ledger, settler>> /\ IsStripe(p) /\ CreateIntent(p)
      /\ bound' = bound \cup {p} /\ consumer' = [consumer EXCEPT ![c] = Idle]
  BY DEF AwaitStripe, Release
<1>2. consumer' \in [Consumers -> ConsumerState]
      /\ \A d \in Consumers : consumer'[d] = consumer[d] \/ consumer'[d] = Idle
  BY <1>1 DEF ChargeInv, ConsumerState, Idle
<1>3. \A d \in Consumers : consumer'[d] = consumer[d] \/ ConsumerInv(d)'
  BY <1>2, IdleConsumer
<1>4. bound' \subseteq PaymentIds /\ Refunds' = Refunds
  BY <1>1 DEF ChargeInv, Refunds
<1> QED
  BY <1>1, <1>2, <1>3, <1>4, IntentCreated, ProviderStep

\* A provider call that looks like a failure, whether or not it took effect.
LEMMA ChargeErrorKeeps ==
  ASSUME ChargeInv, NEW c \in Consumers, ChargeError(c)
  PROVE  ChargeInv' /\ Steady /\ Refunds' = Refunds
<1> PICK p \in PaymentIds : p = Held(c) /\ payment[p].request # None
  BY DEF ChargeInv, ConsumerInv, ChargeError
<1>1. UNCHANGED <<payment, bound, settler>> /\ consumer' = [consumer EXCEPT ![c].pc = "unknown"]
  BY DEF ChargeError, Goto
<1>2. /\ consumer' \in [Consumers -> ConsumerState]
      /\ \A d \in Consumers : d # c => consumer'[d] = consumer[d]
      /\ consumer'[c].pc = "unknown" /\ consumer'[c].payment = p /\ consumer'[c] \in ConsumerState
  BY <1>1 DEF ChargeInv, ConsumerState, Held
<1>3. \A d \in Consumers : consumer'[d] = consumer[d] \/ ConsumerInv(d)'
  BY <1>1, <1>2 DEF ConsumerInv, Held
<1>4. (payment[p].request \notin Declining) \in BOOLEAN
  OBVIOUS
<1>5. CASE UNCHANGED <<ledger, intent>>
  <2>1. ledger' \subseteq LedgerRow /\ Charges' = Charges /\ Refunds' = Refunds
    BY <1>5 DEF ChargeInv, LedgerInv, Charges, Refunds
  <2> QED
    BY <1>1, <1>2, <1>3, <1>5, <2>1, QuietStep DEF ChargeInv
<1>6. CASE /\ ~IsStripe(p) /\ UNCHANGED intent
           /\ LedgerInsert("CHARGE", p, p, payment[p].request \notin Declining)
  <2>1. Steady /\ LedgerInv' /\ Refunds' = Refunds
    BY <1>1, <1>4, <1>6, ChargeInserted
  <2>2. \A q \in PaymentIds : IntentInv(q)'
    BY <1>6, <2>1, IntentKept
  <2> QED
    BY <1>1, <1>2, <1>3, <1>6, <2>1, <2>2, ProviderStep DEF ChargeInv
<1>7. CASE IsStripe(p) /\ CreateIntent(p) /\ UNCHANGED ledger
  <2>1. Refunds' = Refunds
    BY <1>7 DEF Refunds
  <2> QED
    BY <1>1, <1>2, <1>3, <1>7, <2>1, IntentCreated, ProviderStep DEF ChargeInv
<1> QED
  BY <1>5, <1>6, <1>7 DEF ChargeError

\* What RecordPaymentResult and RecordPaymentUnresolved make of a row.
LEMMA RowRecorded ==
  ASSUME ChargeInv, NEW p \in PaymentIds,
         \/ Decided(p, TRUE) /\ RecordPaymentResult(p, "SUCCEEDED", "payment.succeeded")
         \/ Decided(p, FALSE) /\ RecordPaymentResult(p, "FAILED", "payment.failed")
         \/ \E reason : RecordPaymentUnresolved(p, reason)
         \/ UNCHANGED payment
  PROVE  \/ UNCHANGED payment
         \/ \E r \in PaymentRow :
              /\ payment' = [payment EXCEPT ![p] = r]
              /\ payment[p].status = "REQUESTED" /\ r.request = payment[p].request /\ r.request # None
              /\ \/ r.status = payment[p].status
                 \/ r.status = "SUCCEEDED" /\ Decided(p, TRUE)
                 \/ r.status = "FAILED" /\ Decided(p, FALSE)
<1>1. payment[p] \in PaymentRow /\ (payment[p].status = "REQUESTED" => payment[p].request # None)
  BY DEF ChargeInv, PaymentInv
<1>2. ASSUME NEW status \in {"SUCCEEDED", "FAILED"}, payment[p].status = "REQUESTED",
             payment' = [payment EXCEPT ![p].status = status],
             Decided(p, status = "SUCCEEDED")
      PROVE  \E r \in PaymentRow :
               /\ payment' = [payment EXCEPT ![p] = r]
               /\ payment[p].status = "REQUESTED" /\ r.request = payment[p].request /\ r.request # None
               /\ \/ r.status = "SUCCEEDED" /\ Decided(p, TRUE)
                  \/ r.status = "FAILED" /\ Decided(p, FALSE)
  <2> DEFINE r == [payment[p] EXCEPT !.status = status]
  <2>1. r \in PaymentRow /\ r.request = payment[p].request /\ r.status = status
    BY <1>1 DEF PaymentRow, Statuses
  <2>2. payment' = [payment EXCEPT ![p] = r]
    BY <1>2
  <2>3. \/ r.status = "SUCCEEDED" /\ Decided(p, TRUE)
        \/ r.status = "FAILED" /\ Decided(p, FALSE)
    <3>1. CASE status = "SUCCEEDED"
      <4>1. (status = "SUCCEEDED") = TRUE
        BY <3>1
      <4> QED
        BY <1>2, <2>1, <3>1, <4>1
    <3>2. CASE status = "FAILED"
      <4>1. (status = "SUCCEEDED") = FALSE
        BY <3>2
      <4> QED
        BY <1>2, <2>1, <3>2, <4>1
    <3> QED
      BY <3>1, <3>2
  <2> HIDE DEF r
  <2> QED
    BY <1>1, <1>2, <2>1, <2>2, <2>3
<1>3. CASE Decided(p, TRUE) /\ RecordPaymentResult(p, "SUCCEEDED", "payment.succeeded")
  <2>1. ("SUCCEEDED" = "SUCCEEDED") = TRUE
    OBVIOUS
  <2>2. CASE payment[p].status = "REQUESTED"
    <3>1. payment' = [payment EXCEPT ![p].status = "SUCCEEDED"] /\ Decided(p, "SUCCEEDED" = "SUCCEEDED")
      BY <1>3, <2>1, <2>2 DEF RecordPaymentResult
    <3> QED
      BY <1>2, <2>2, <3>1
  <2> QED
    BY <1>3, <2>2 DEF RecordPaymentResult
<1>4. CASE Decided(p, FALSE) /\ RecordPaymentResult(p, "FAILED", "payment.failed")
  <2>1. ("FAILED" = "SUCCEEDED") = FALSE
    OBVIOUS
  <2>2. CASE payment[p].status = "REQUESTED"
    <3>1. payment' = [payment EXCEPT ![p].status = "FAILED"] /\ Decided(p, "FAILED" = "SUCCEEDED")
      BY <1>4, <2>1, <2>2 DEF RecordPaymentResult
    <3> QED
      BY <1>2, <2>2, <3>1
  <2> QED
    BY <1>4, <2>2 DEF RecordPaymentResult
<1>5. CASE \E reason : RecordPaymentUnresolved(p, reason)
  <2> DEFINE r == [payment[p] EXCEPT !.notified = TRUE]
  <2>1. r \in PaymentRow /\ r.request = payment[p].request /\ r.status = payment[p].status
    BY <1>1 DEF PaymentRow
  <2>2. UNCHANGED payment
        \/ (payment[p].status = "REQUESTED" /\ payment' = [payment EXCEPT ![p] = r])
    BY <1>5 DEF RecordPaymentUnresolved
  <2> HIDE DEF r
  <2> QED
    BY <1>1, <2>1, <2>2
<1> QED
  BY <1>3, <1>4, <1>5

\* A transaction of the store, by whoever knows the answer it records.
LEMMA RecordKeeps ==
  ASSUME ChargeInv, NEW p \in PaymentIds,
         \/ Decided(p, TRUE) /\ RecordPaymentResult(p, "SUCCEEDED", "payment.succeeded")
         \/ Decided(p, FALSE) /\ RecordPaymentResult(p, "FAILED", "payment.failed")
         \/ \E reason : RecordPaymentUnresolved(p, reason)
         \/ UNCHANGED payment,
         UNCHANGED <<intent, ledger>>, bound' \subseteq PaymentIds,
         consumer' \in [Consumers -> ConsumerState], settler' \in [Settlers -> SettlerState],
         \A c \in Consumers : consumer'[c] = consumer[c] \/ consumer'[c] = Idle,
         \A s \in Settlers : settler'[s] = settler[s] \/ settler'[s] = SettlerIdle
  PROVE  ChargeInv' /\ Steady
<1>1. CASE UNCHANGED payment
  <2>1. ledger' \subseteq LedgerRow /\ Charges' = Charges
    BY DEF ChargeInv, LedgerInv, Charges
  <2> QED
    BY <1>1, <2>1, QuietStep, IdleConsumer, IdleSettler
<1>2. ASSUME NEW r \in PaymentRow, payment' = [payment EXCEPT ![p] = r],
             payment[p].status = "REQUESTED" /\ r.request = payment[p].request /\ r.request # None,
             \/ r.status = payment[p].status
             \/ r.status = "SUCCEEDED" /\ Decided(p, TRUE)
             \/ r.status = "FAILED" /\ Decided(p, FALSE)
      PROVE  ChargeInv' /\ Steady
  BY <1>2, StoreStep
<1> QED
  BY <1>1, <1>2, RowRecorded

\* A consumer records an answer or an uncertainty, or crashes before it does.
LEMMA ConsumerRecords ==
  ASSUME ChargeInv, NEW c \in Consumers, RecordResult(c) \/ ReportUnresolved(c) \/ Crash(c)
  PROVE  ChargeInv' /\ Steady /\ Refunds' = Refunds
<1> PICK p \in PaymentIds : p = Held(c)
  BY DEF ChargeInv, ConsumerInv, RecordResult, ReportUnresolved, Crash
<1>1. /\ UNCHANGED <<intent, ledger, bound, settler>> /\ consumer' = [consumer EXCEPT ![c] = Idle]
  BY DEF RecordResult, ReportUnresolved, Crash, Release, refundVars
<1>2. consumer' \in [Consumers -> ConsumerState]
      /\ \A d \in Consumers : consumer'[d] = consumer[d] \/ consumer'[d] = Idle
  BY <1>1 DEF ChargeInv, ConsumerState, Idle
<1>3. \/ Decided(p, TRUE) /\ RecordPaymentResult(p, "SUCCEEDED", "payment.succeeded")
      \/ Decided(p, FALSE) /\ RecordPaymentResult(p, "FAILED", "payment.failed")
      \/ \E reason : RecordPaymentUnresolved(p, reason)
      \/ UNCHANGED payment
  <2>1. CASE RecordResult(c)
    <3>1. consumer[c].pc = "record" /\ ConsumerInv(c)
      BY <2>1 DEF RecordResult, ChargeInv
    <3>2. consumer[c].approved \in BOOLEAN /\ ~IsStripe(p) /\ ChargeOf(p, consumer[c].approved)
      BY <3>1 DEF ConsumerInv, ConsumerState
    <3>3. CASE consumer[c].approved = TRUE
      BY <2>1, <3>2, <3>3 DEF RecordResult, Decided
    <3>4. CASE consumer[c].approved = FALSE
      BY <2>1, <3>2, <3>4 DEF RecordResult, Decided
    <3> QED
      BY <3>2, <3>3, <3>4
  <2>2. CASE ReportUnresolved(c)
    BY <2>2 DEF ReportUnresolved
  <2>3. CASE Crash(c)
    BY <2>3 DEF Crash
  <2> QED
    BY <2>1, <2>2, <2>3
<1>4. bound' \subseteq PaymentIds /\ settler' \in [Settlers -> SettlerState] /\ Refunds' = Refunds
      /\ \A s \in Settlers : settler'[s] = settler[s]
  BY <1>1 DEF ChargeInv, Refunds
<1> QED
  BY <1>1, <1>2, <1>3, <1>4, RecordKeeps

-----------------------------------------------------------------------------
(* Cards and settlers.                                                      *)

\* The customer's card moves only an intent that is not final.
LEMMA CardKeeps ==
  ASSUME ChargeInv, NEW p \in PaymentIds,
         CardAnswer(p) \/ CancelIntent(p) \/ (\E a \in Attempts : CardAttempt(p, a))
  PROVE  ChargeInv' /\ Steady /\ Refunds' = Refunds
<1>1. PICK i \in Intents : intent' = [intent EXCEPT ![p] = i]
  <2>1. intent[p] \in Intents
    BY DEF ChargeInv
  <2> QED
    BY <2>1 DEF CardAnswer, CancelIntent, CardAttempt, SetIntent, Intents, IntentRecord
<1>2. intent[p].state \notin Final /\ intent[p].state # "none"
  BY DEF CardAnswer, CancelIntent, CardAttempt, Final
<1>3. UNCHANGED <<payment, bound, consumer, ledger, settler>>
  BY DEF CardAnswer, CancelIntent, CardAttempt, SetIntent
<1>4. \A q \in PaymentIds : intent'[q] = IF q = p THEN i ELSE intent[q]
  BY <1>1 DEF ChargeInv
<1>5. Steady /\ Refunds' = Refunds
  BY <1>2, <1>3, <1>4 DEF Steady, Charges, Refunds
<1>6. IntentInv(p)'
  BY <1>2, <1>3, <1>4 DEF ChargeInv, IntentInv, IsStripe
<1>7. \A q \in PaymentIds : IntentInv(q)'
  BY <1>4, <1>5, <1>6, IntentKept
<1>8. LedgerInv'
  BY <1>3, <1>5, LedgerKept DEF Charges, ChargeInv, LedgerInv
<1>9. intent' \in [PaymentIds -> Intents]
  BY <1>1 DEF ChargeInv
<1> QED
  BY <1>3, <1>5, <1>7, <1>8, <1>9, ProviderStep DEF ChargeInv

\* Reading an intent, and forgetting it in a crash.
LEMMA FetchKeeps ==
  ASSUME ChargeInv, NEW s \in Settlers,
         SettlerCrash(s) \/ (\E p \in PaymentIds : FetchIntent(s, p))
  PROVE  ChargeInv' /\ Steady /\ Refunds' = Refunds
<1>1. UNCHANGED <<payment, bound, consumer, ledger, intent>>
  BY DEF SettlerCrash, FetchIntent, chargeVars
<1>2. ledger' \subseteq LedgerRow /\ Charges' = Charges /\ Refunds' = Refunds
  BY <1>1 DEF ChargeInv, LedgerInv, Charges, Refunds
<1>3. ASSUME SettlerCrash(s) PROVE ChargeInv' /\ Steady
  <2>1. settler' \in [Settlers -> SettlerState]
        /\ \A t \in Settlers : settler'[t] = settler[t] \/ settler'[t] = SettlerIdle
    BY <1>3 DEF SettlerCrash, ChargeInv, SettlerIdle, SettlerState, NoIntent, Intents, IntentRecord
  <2> QED
    BY <1>1, <1>2, <2>1, IdleSettler, QuietStep DEF ChargeInv
<1>4. ASSUME NEW p \in PaymentIds, FetchIntent(s, p)
      PROVE  ChargeInv' /\ Steady
  <2> DEFINE read == [payment |-> p, intent |-> intent[p]]
  <2>1. read \in SettlerState /\ settler' = [settler EXCEPT ![s] = read]
    BY <1>4 DEF FetchIntent, SettlerState, ChargeInv
  <2>2. SettlerInv(s)'
    <3>1. settler'[s] = read
      BY <2>1 DEF ChargeInv
    <3>2. intent'[p] = intent[p]
      BY <1>1
    <3> QED
      BY <2>1, <3>1, <3>2 DEF SettlerInv
  <2> HIDE DEF read
  <2>3. settler' \in [Settlers -> SettlerState]
        /\ \A t \in Settlers : settler'[t] = settler[t] \/ SettlerInv(t)'
    BY <2>1, <2>2 DEF ChargeInv
  <2> QED
    BY <1>1, <1>2, <2>3, QuietStep DEF ChargeInv
<1> QED
  BY <1>2, <1>3, <1>4

\* Recording an intent that was read earlier.
LEMMA SettleKeeps ==
  ASSUME ChargeInv, NEW s \in Settlers, Settle(s)
  PROVE  ChargeInv' /\ Steady /\ Refunds' = Refunds
<1> DEFINE i == settler[s].intent
<1> PICK p \in PaymentIds : p = settler[s].payment
  BY DEF ChargeInv, SettlerInv, Settle
<1>1. /\ UNCHANGED <<intent, consumer, ledger>> /\ bound' = bound \cup {p}
      /\ settler' = [settler EXCEPT ![s] = SettlerIdle]
  BY DEF Settle
<1>2. i.state \in Final => intent[p].state = i.state
  BY DEF ChargeInv, SettlerInv, Settle
<1>3. intent[p].state \in Final => IsStripe(p)
  BY DEF ChargeInv, IntentInv, Final
<1>4. \/ Decided(p, TRUE) /\ RecordPaymentResult(p, "SUCCEEDED", "payment.succeeded")
      \/ Decided(p, FALSE) /\ RecordPaymentResult(p, "FAILED", "payment.failed")
      \/ \E reason : RecordPaymentUnresolved(p, reason)
      \/ UNCHANGED payment
  <2>1. CASE i.state = "succeeded" /\ RecordPaymentResult(p, "SUCCEEDED", "payment.succeeded")
    <3>1. Decided(p, TRUE)
      BY <1>2, <1>3, <2>1 DEF Decided, Final
    <3> QED
      BY <2>1, <3>1
  <2>2. CASE i.state = "canceled" /\ RecordPaymentResult(p, "FAILED", "payment.failed")
    <3>1. Decided(p, FALSE)
      BY <1>2, <1>3, <2>2 DEF Decided, Final
    <3> QED
      BY <2>2, <3>1
  <2> QED
    BY <2>1, <2>2 DEF Settle
<1>5. bound' \subseteq PaymentIds /\ consumer' \in [Consumers -> ConsumerState] /\ Refunds' = Refunds
      /\ \A c \in Consumers : consumer'[c] = consumer[c]
  BY <1>1 DEF ChargeInv, Refunds
<1>6. settler' \in [Settlers -> SettlerState]
      /\ \A t \in Settlers : settler'[t] = settler[t] \/ settler'[t] = SettlerIdle
  BY <1>1 DEF ChargeInv, SettlerIdle, SettlerState, NoIntent, Intents, IntentRecord
<1> QED
  BY <1>1, <1>4, <1>5, <1>6, RecordKeeps

-----------------------------------------------------------------------------
(* Refunds.                                                                 *)

RefundRow == [payment : PaymentIds \cup {None}, status : Statuses, notified : BOOLEAN]
RefundConsumerState == [pc : {"idle", "refund", "record", "unknown"},
                        refund : RefundIds \cup {None}, approved : BOOLEAN]
StripeRefunds == {"none", "pending", "succeeded", "failed"}

\* The refund r of payment p is in the ledger.
Booked(r, p) == \E e \in Refunds : e.key = r /\ e.payment = p

\* The provider has answered for refund r, once and for all.
Returned(r, approved) ==
  IF IsStripe(refund[r].payment)
    THEN stripeRefund[r] = IF approved THEN "succeeded" ELSE "failed"
    ELSE approved /\ Booked(r, refund[r].payment)

RowOfRefund(r) ==
  /\ refund[r] \in RefundRow
  /\ stripeRefund[r] \in StripeRefunds
  /\ refund[r].payment = None <=> refund[r].status = "NONE"
  /\ refund[r].payment # None => payment[refund[r].payment].status = "SUCCEEDED"
  /\ stripeRefund[r] # "none" => refund[r].payment # None /\ IsStripe(refund[r].payment)
  /\ refund[r].status = "SUCCEEDED" => Returned(r, TRUE)
  /\ refund[r].status = "FAILED" => Returned(r, FALSE)

RefundConsumerInv(c) ==
  /\ refundConsumer[c] \in RefundConsumerState
  /\ refundConsumer[c].pc # "idle" => InHand(c) \in RefundIds /\ refund[InHand(c)].payment # None
  /\ refundConsumer[c].pc = "record" => Returned(InHand(c), refundConsumer[c].approved)

\* An entry of the ledger is the refund of the row with its key.
BookedInv ==
  \A e \in Refunds :
    /\ e.key \in RefundIds /\ refund[e.key].payment = e.payment
    /\ ~IsStripe(e.payment) /\ e.approved

OneRefundPerPayment ==
  \A r, s \in RefundIds :
    refund[r].payment # None /\ refund[r].payment = refund[s].payment => r = s

RefundInv ==
  /\ refund \in [RefundIds -> RefundRow]
  /\ stripeRefund \in [RefundIds -> StripeRefunds]
  /\ refundConsumer \in [RefundConsumers -> RefundConsumerState]
  /\ dlq \subseteq RefundIds /\ declined \subseteq PaymentIds \X Attempts
  /\ \A r \in RefundIds : RowOfRefund(r)
  /\ \A c \in RefundConsumers : RefundConsumerInv(c)
  /\ BookedInv
  /\ OneRefundPerPayment

ServiceInv == ChargeInv /\ RefundInv

\* What every step keeps of refunds.
RefundsSteady ==
  /\ \A r \in RefundIds : refund[r].payment # None => refund'[r].payment = refund[r].payment
  /\ \A r \in RefundIds : refund[r].status \in Terminal => refund'[r] = refund[r]
  /\ Refunds \subseteq Refunds'
  /\ \A r \in RefundIds : stripeRefund[r] \in {"succeeded", "failed"} => stripeRefund'[r] = stripeRefund[r]

\* A refund has a payment that succeeded.
LEMMA RefundedPayment ==
  ASSUME ServiceInv, NEW r \in RefundIds, refund[r].payment # None
  PROVE  /\ refund[r].payment \in PaymentIds
         /\ payment[refund[r].payment].status = "SUCCEEDED"
         /\ payment[refund[r].payment].request # None
BY DEF ServiceInv, ChargeInv, PaymentInv, RefundInv, RowOfRefund, RefundRow

\* A refund the provider has decided stays decided.
LEMMA ReturnedKept ==
  ASSUME ServiceInv, Steady, RefundsSteady, NEW r \in RefundIds, NEW approved \in BOOLEAN,
         refund[r].payment # None, Returned(r, approved)
  PROVE  Returned(r, approved)'
<1> PICK p \in PaymentIds : p = refund[r].payment /\ payment[p].request # None
  BY RefundedPayment
<1>1. refund'[r].payment = p /\ payment'[p].request = payment[p].request
  BY DEF Steady, RefundsSteady
<1>2. CASE IsStripe(p)
  <2>1. stripeRefund'[r] = stripeRefund[r]
    BY <1>2 DEF Returned, RefundsSteady
  <2> QED
    BY <1>1, <1>2, <2>1 DEF Returned, IsStripe
<1>3. CASE ~IsStripe(p)
  <2>1. approved /\ Booked(r, p)'
    BY <1>3 DEF Returned, Booked, RefundsSteady
  <2> QED
    BY <1>1, <1>3, <2>1 DEF Returned, IsStripe, Booked
<1> QED
  BY <1>2, <1>3

\* A row keeps its invariant when its status and its refund at Stripe stay.
LEMMA RefundKept ==
  ASSUME ServiceInv, Steady, RefundsSteady, NEW r \in RefundIds,
         refund'[r] \in RefundRow, refund'[r].payment = refund[r].payment,
         refund'[r].status = refund[r].status, stripeRefund'[r] = stripeRefund[r]
  PROVE  RowOfRefund(r)'
<1>1. RowOfRefund(r)
  BY DEF ServiceInv, RefundInv
<1>2. refund[r].status = "SUCCEEDED" => Returned(r, TRUE)'
  BY <1>1, ReturnedKept DEF RowOfRefund
<1>3. refund[r].status = "FAILED" => Returned(r, FALSE)'
  BY <1>1, ReturnedKept DEF RowOfRefund
<1>4. CASE refund[r].payment = None
  BY <1>1, <1>2, <1>3, <1>4 DEF RowOfRefund
<1>5. CASE refund[r].payment # None
  <2> PICK p \in PaymentIds : p = refund[r].payment /\ payment[p].status = "SUCCEEDED"
    BY <1>5, RefundedPayment
  <2>1. payment'[p] = payment[p]
    BY DEF Steady, Terminal
  <2>2. refund'[r].payment = p /\ payment'[p].status = "SUCCEEDED" /\ (IsStripe(p) <=> IsStripe(p)')
    BY <2>1 DEF IsStripe
  <2>3. stripeRefund[r] # "none" => IsStripe(p)'
    BY <1>1, <2>2 DEF RowOfRefund
  <2> QED
    BY <1>1, <1>2, <1>3, <1>5, <2>2, <2>3 DEF RowOfRefund, IsStripe
<1> QED
  BY <1>4, <1>5

\* A refund consumer that is left alone remembers what is still true.
LEMMA RefundConsumerKept ==
  ASSUME ServiceInv, Steady, RefundsSteady, NEW c \in RefundConsumers,
         refundConsumer'[c] = refundConsumer[c]
  PROVE  RefundConsumerInv(c)'
<1>1. RefundConsumerInv(c)
  BY DEF ServiceInv, RefundInv
<1>2. CASE refundConsumer[c].pc = "idle"
  BY <1>1, <1>2 DEF RefundConsumerInv
<1>3. CASE refundConsumer[c].pc # "idle"
  <2> PICK r \in RefundIds : r = InHand(c) /\ refund[r].payment # None
    BY <1>1, <1>3 DEF RefundConsumerInv
  <2>1. refund'[r].payment # None /\ InHand(c)' = r
    BY DEF RefundsSteady, InHand
  <2>2. refundConsumer[c].approved \in BOOLEAN
    BY <1>1 DEF RefundConsumerInv, RefundConsumerState
  <2>3. ASSUME refundConsumer[c].pc = "record"
        PROVE  Returned(InHand(c), refundConsumer[c].approved)'
    <3> PICK approved \in BOOLEAN : approved = refundConsumer[c].approved
      BY <2>2
    <3>1. Returned(r, approved)
      BY <1>1, <2>3 DEF RefundConsumerInv
    <3>2. Returned(r, approved)'
      BY <3>1, ReturnedKept
    <3> QED
      BY <2>1, <3>2 DEF Returned, Booked, IsStripe
  <2> QED
    BY <1>1, <2>1, <2>3 DEF RefundConsumerInv
<1> QED
  BY <1>2, <1>3

\* A refund consumer between two messages remembers nothing.
LEMMA IdleRefundConsumer ==
  ASSUME NEW c \in RefundConsumers, refundConsumer'[c] = RefundIdle
  PROVE  RefundConsumerInv(c)'
BY DEF RefundConsumerInv, RefundConsumerState, RefundIdle

\* A step that leaves the refunds alone keeps them backed by their payments.
LEMMA BookedKept ==
  ASSUME ServiceInv, Steady, RefundsSteady, Refunds' = Refunds
  PROVE  BookedInv'
<1> SUFFICES ASSUME NEW e \in Refunds
             PROVE  e.key \in RefundIds /\ refund'[e.key].payment = e.payment /\ ~IsStripe(e.payment)' /\ e.approved
  BY DEF BookedInv
<1>1. e.payment \in PaymentIds /\ e.key \in RefundIds /\ refund[e.key].payment = e.payment
      /\ ~IsStripe(e.payment) /\ e.approved
  BY DEF ServiceInv, ChargeInv, LedgerInv, LedgerRow, RefundInv, BookedInv, Refunds
<1>2. refund[e.key].payment # None
  BY <1>1, ConstantsAssumption
<1>3. payment'[e.payment].request = payment[e.payment].request
  BY <1>1, <1>2, RefundedPayment DEF Steady
<1> QED
  BY <1>1, <1>2, <1>3 DEF RefundsSteady, IsStripe

\* The invariant of refunds holds initially.
LEMMA InitRefund == Init => RefundInv
<1> SUFFICES ASSUME Init PROVE RefundInv
  OBVIOUS
<1>1. NoRefund \in RefundRow /\ RefundIdle \in RefundConsumerState
  BY DEF NoRefund, RefundRow, Statuses, RefundIdle, RefundConsumerState
<1>2. \A r \in RefundIds : RowOfRefund(r)
  BY <1>1 DEF Init, RowOfRefund, NoRefund, StripeRefunds
<1>3. \A c \in RefundConsumers : RefundConsumerInv(c)
  BY <1>1 DEF Init, RefundConsumerInv, RefundIdle
<1>4. BookedInv /\ OneRefundPerPayment
  BY DEF Init, BookedInv, Refunds, OneRefundPerPayment, NoRefund
<1> QED
  BY <1>1, <1>2, <1>3, <1>4 DEF Init, RefundInv, StripeRefunds

\* A step of a charge leaves the refunds alone.
LEMMA RefundsUndisturbed ==
  ASSUME ServiceInv, Steady, UNCHANGED refundVars, Refunds' = Refunds,
         declined' \subseteq PaymentIds \X Attempts
  PROVE  RefundInv' /\ RefundsSteady
<1>1. UNCHANGED <<refund, stripeRefund, dlq, refundConsumer>>
  BY DEF refundVars
<1>2. RefundsSteady
  BY <1>1 DEF RefundsSteady
<1>3. \A r \in RefundIds : RowOfRefund(r)'
  BY <1>1, <1>2, RefundKept DEF ServiceInv, RefundInv
<1>4. \A c \in RefundConsumers : RefundConsumerInv(c)'
  BY <1>1, <1>2, RefundConsumerKept
<1>5. BookedInv'
  BY <1>2, BookedKept
<1>6. OneRefundPerPayment'
  BY <1>1 DEF ServiceInv, RefundInv, OneRefundPerPayment
<1> QED
  BY <1>1, <1>2, <1>3, <1>4, <1>5, <1>6 DEF ServiceInv, RefundInv

-----------------------------------------------------------------------------
(* The steps of a refund.                                                   *)

\* What a step of a refund leaves of the charges.
LEMMA ChargesUndisturbed ==
  ASSUME ServiceInv, UNCHANGED <<chargeVars, settler>>, Charges' = Charges, ledger' \subseteq LedgerRow
  PROVE  ChargeInv' /\ Steady
<1>1. UNCHANGED <<payment, intent, bound, consumer, settler>>
  BY DEF chargeVars
<1>2. /\ bound' \subseteq PaymentIds /\ consumer' \in [Consumers -> ConsumerState]
      /\ settler' \in [Settlers -> SettlerState]
      /\ \A c \in Consumers : consumer'[c] = consumer[c]
      /\ \A s \in Settlers : settler'[s] = settler[s]
  BY <1>1 DEF ServiceInv, ChargeInv
<1> QED
  BY <1>1, <1>2, QuietStep DEF ServiceInv

\* A step of a refund: it rewrites row r, or the refund of r at Stripe, or books it.
LEMMA RefundRewritten ==
  ASSUME ServiceInv, Steady, NEW r \in RefundIds,
         NEW n \in RefundRow, refund' = [refund EXCEPT ![r] = n],
         NEW state \in StripeRefunds, stripeRefund' = [stripeRefund EXCEPT ![r] = state],
         declined' \subseteq PaymentIds \X Attempts, dlq' \subseteq RefundIds,
         RowOfRefund(r)', BookedInv', OneRefundPerPayment', Refunds \subseteq Refunds',
         refund[r].payment # None => n.payment = refund[r].payment,
         refund[r].status \in Terminal => n = refund[r],
         stripeRefund[r] \in {"succeeded", "failed"} => state = stripeRefund[r],
         refundConsumer' \in [RefundConsumers -> RefundConsumerState],
         \A c \in RefundConsumers : \/ refundConsumer'[c] = refundConsumer[c]
                                   \/ refundConsumer'[c] = RefundIdle
                                   \/ RefundConsumerInv(c)'
  PROVE  RefundInv' /\ RefundsSteady
<1>1. \A q \in RefundIds : /\ refund'[q] = IF q = r THEN n ELSE refund[q]
                           /\ stripeRefund'[q] = IF q = r THEN state ELSE stripeRefund[q]
  BY DEF ServiceInv, RefundInv
<1>2. RefundsSteady
  BY <1>1 DEF RefundsSteady
<1>3. \A q \in RefundIds : RowOfRefund(q)'
  BY <1>1, <1>2, RefundKept DEF ServiceInv, RefundInv
<1>4. \A c \in RefundConsumers : RefundConsumerInv(c)'
  BY <1>2, RefundConsumerKept, IdleRefundConsumer
<1>5. refund' \in [RefundIds -> RefundRow] /\ stripeRefund' \in [RefundIds -> StripeRefunds]
  BY DEF ServiceInv, RefundInv
<1> QED
  BY <1>2, <1>3, <1>4, <1>5 DEF RefundInv

\* A step that leaves the rows and the provider alone.
LEMMA RefundConsumerStep ==
  ASSUME ServiceInv, UNCHANGED <<chargeVars, settler, ledger, refund, stripeRefund>>,
         dlq' \subseteq RefundIds,
         refundConsumer' \in [RefundConsumers -> RefundConsumerState],
         \A c \in RefundConsumers : \/ refundConsumer'[c] = refundConsumer[c]
                                   \/ refundConsumer'[c] = RefundIdle
                                   \/ RefundConsumerInv(c)'
  PROVE  ServiceInv' /\ Steady /\ RefundsSteady
<1>1. Charges' = Charges /\ Refunds' = Refunds /\ ledger' \subseteq LedgerRow
  BY DEF Charges, Refunds, ServiceInv, ChargeInv, LedgerInv
<1>2. ChargeInv' /\ Steady
  BY <1>1, ChargesUndisturbed
<1>3. RefundsSteady
  BY <1>1 DEF RefundsSteady
<1>4. \A r \in RefundIds : RowOfRefund(r)'
  BY <1>2, <1>3, RefundKept DEF ServiceInv, RefundInv
<1>5. \A c \in RefundConsumers : RefundConsumerInv(c)'
  BY <1>2, <1>3, RefundConsumerKept, IdleRefundConsumer
<1>6. BookedInv'
  BY <1>1, <1>2, <1>3, BookedKept
<1>7. OneRefundPerPayment' /\ declined' = declined
  BY DEF ServiceInv, RefundInv, OneRefundPerPayment, chargeVars
<1> QED
  BY <1>2, <1>3, <1>4, <1>5, <1>6, <1>7 DEF ServiceInv, RefundInv

\* A crash, or a request that goes to the dead letter topic, changes no books.
LEMMA RefundRelaxes ==
  ASSUME ServiceInv, NEW c \in RefundConsumers,
         RefundCrash(c) \/ (\E m \in RefundRequest : RefuseRefund(c, m))
  PROVE  ServiceInv' /\ Steady /\ RefundsSteady
<1>1. UNCHANGED <<chargeVars, settler, ledger, refund, stripeRefund>>
  BY DEF RefundCrash, RefuseRefund
<1>2. CASE RefundCrash(c)
  <2>1. /\ refundConsumer' \in [RefundConsumers -> RefundConsumerState] /\ dlq' \subseteq RefundIds
        /\ \A d \in RefundConsumers : refundConsumer'[d] = refundConsumer[d] \/ refundConsumer'[d] = RefundIdle
    BY <1>2 DEF RefundCrash, RefundRelease, ServiceInv, RefundInv, RefundIdle, RefundConsumerState
  <2> QED
    BY <1>1, <2>1, RefundConsumerStep
<1>3. ASSUME NEW m \in RefundRequest, RefuseRefund(c, m)
      PROVE  ServiceInv' /\ Steady /\ RefundsSteady
  <2>1. /\ refundConsumer' \in [RefundConsumers -> RefundConsumerState] /\ dlq' \subseteq RefundIds
        /\ \A d \in RefundConsumers : refundConsumer'[d] = refundConsumer[d]
    BY <1>3 DEF RefuseRefund, DeadLetter, RefundRequest, ServiceInv, RefundInv
  <2> QED
    BY <1>1, <2>1, RefundConsumerStep
<1> QED
  BY <1>2, <1>3

\* Taking a refund request saves one row for its payment or finds it.
LEMMA HandleRefundKeeps ==
  ASSUME ServiceInv, NEW c \in RefundConsumers, NEW m \in RefundRequest, HandleRefund(c, m)
  PROVE  ServiceInv' /\ Steady /\ RefundsSteady
<1> PICK r \in RefundIds, p \in PaymentIds : r = m.refund /\ p = m.payment
  BY DEF RefundRequest
<1> DEFINE n == [refund[r] EXCEPT !.payment = p, !.status = "REQUESTED"]
           held == [pc |-> "refund", refund |-> r, approved |-> FALSE]
<1>1. /\ UNCHANGED <<chargeVars, settler, ledger, stripeRefund, dlq>>
      /\ payment[p].status = "SUCCEEDED" /\ refund[r].status \notin Terminal
      /\ refund[r].payment = p \/ (refund[r] = NoRefund /\ Unrefunded(p))
      /\ refund' = [refund EXCEPT ![r] = n]
      /\ refundConsumer' = [refundConsumer EXCEPT ![c] = held]
  BY DEF HandleRefund, Refundable
<1>2. n \in RefundRow /\ n.payment = p /\ n.status = "REQUESTED"
  BY DEF ServiceInv, RefundInv, RefundRow, Statuses
<1>3. held \in RefundConsumerState /\ held.pc = "refund" /\ held.refund = r
  BY DEF RefundConsumerState
<1> HIDE DEF n, held
<1>4. /\ Charges' = Charges /\ Refunds' = Refunds /\ ledger' \subseteq LedgerRow
  BY <1>1 DEF Charges, Refunds, ServiceInv, ChargeInv, LedgerInv
<1>5. ChargeInv' /\ Steady
  BY <1>1, <1>4, ChargesUndisturbed
<1>6. refund'[r] = n /\ p # None /\ payment'[p] = payment[p]
      /\ \A q \in RefundIds : q # r => refund'[q] = refund[q]
  BY <1>1, <1>2, ConstantsAssumption DEF ServiceInv, RefundInv, chargeVars
<1>7. RowOfRefund(r)
  BY DEF ServiceInv, RefundInv
<1>8. stripeRefund[r] # "none" => IsStripe(p)'
  <2>1. stripeRefund[r] # "none" => refund[r].payment = p
    BY <1>1, <1>7 DEF RowOfRefund, NoRefund
  <2> QED
    BY <1>6, <1>7, <2>1 DEF RowOfRefund, IsStripe
<1>9. RowOfRefund(r)'
  BY <1>1, <1>2, <1>6, <1>7, <1>8 DEF RowOfRefund, IsStripe
<1>10. BookedInv'
  <2> SUFFICES ASSUME NEW e \in Refunds
               PROVE  e.key \in RefundIds /\ refund'[e.key].payment = e.payment /\ ~IsStripe(e.payment)' /\ e.approved
    BY <1>4 DEF BookedInv
  <2>1. e.payment \in PaymentIds /\ e.key \in RefundIds /\ refund[e.key].payment = e.payment
        /\ ~IsStripe(e.payment) /\ e.approved
    BY DEF ServiceInv, ChargeInv, LedgerInv, LedgerRow, RefundInv, BookedInv, Refunds
  <2>2. refund'[e.key].payment = refund[e.key].payment
    BY <1>1, <1>2, <1>6, <2>1, ConstantsAssumption DEF NoRefund
  <2> QED
    BY <1>1, <2>1, <2>2 DEF chargeVars, IsStripe
<1>11. OneRefundPerPayment'
  BY <1>1, <1>2, <1>6 DEF OneRefundPerPayment, ServiceInv, RefundInv, Unrefunded
<1>12. /\ refundConsumer' \in [RefundConsumers -> RefundConsumerState]
       /\ \A d \in RefundConsumers : refundConsumer'[d] = IF d = c THEN held ELSE refundConsumer[d]
  BY <1>1, <1>3 DEF ServiceInv, RefundInv
<1>13. RefundConsumerInv(c)'
  BY <1>2, <1>3, <1>6, <1>12 DEF RefundConsumerInv, InHand
<1>14. /\ declined' \subseteq PaymentIds \X Attempts /\ dlq' \subseteq RefundIds
       /\ stripeRefund' = [stripeRefund EXCEPT ![r] = stripeRefund[r]]
       /\ stripeRefund[r] \in StripeRefunds
  BY <1>1 DEF ServiceInv, RefundInv, chargeVars
<1>15. refund[r].payment # None => n.payment = refund[r].payment
  BY <1>1, <1>2 DEF NoRefund
<1>16. /\ refund[r].status \in Terminal => n = refund[r]
       /\ Refunds \subseteq Refunds'
       /\ \A d \in RefundConsumers : \/ refundConsumer'[d] = refundConsumer[d]
                                    \/ refundConsumer'[d] = RefundIdle
                                    \/ RefundConsumerInv(d)'
  BY <1>1, <1>4, <1>12, <1>13
<1>17. RefundInv' /\ RefundsSteady
  BY <1>1, <1>2, <1>5, <1>9, <1>10, <1>11, <1>12, <1>14, <1>15, <1>16, RefundRewritten
<1> QED
  BY <1>5, <1>17 DEF ServiceInv

\* LedgerRefund books the refund of a row, unless the payment has one.
LEMMA RefundBooked ==
  ASSUME ServiceInv, NEW r \in RefundIds, refund[r].payment # None, ~IsStripe(refund[r].payment),
         LedgerRefund(r), UNCHANGED <<chargeVars, refund>>
  PROVE  Charges' = Charges /\ ledger' \subseteq LedgerRow /\ Refunds \subseteq Refunds' /\ BookedInv'
<1> PICK p \in PaymentIds : p = refund[r].payment
  BY RefundedPayment
<1> DEFINE new == [operation |-> "REFUND", key |-> r, payment |-> p, approved |-> TRUE]
<1>1. ledger' = ledger \/ ledger' = ledger \cup {new}
  BY DEF LedgerRefund, LedgerInsert
<1>2. new \in LedgerRow /\ new.operation = "REFUND" /\ new.payment = p /\ new.key = r /\ new.approved
  BY DEF LedgerRow
<1> HIDE DEF new
<1>3. Charges' = Charges /\ ledger' \subseteq LedgerRow /\ Refunds \subseteq Refunds'
      /\ Refunds' \subseteq Refunds \cup {new}
  BY <1>1, <1>2 DEF Charges, Refunds, ServiceInv, ChargeInv, LedgerInv
<1>4. BookedInv'
  BY <1>2, <1>3 DEF BookedInv, ServiceInv, RefundInv, IsStripe, chargeVars
<1> QED
  BY <1>3, <1>4

\* A call of the provider for refund r, or Stripe's own change of it.
LEMMA RefundProviderStep ==
  ASSUME ServiceInv, UNCHANGED <<chargeVars, settler, refund>>,
         Charges' = Charges, ledger' \subseteq LedgerRow, Refunds \subseteq Refunds', BookedInv',
         NEW r \in RefundIds, NEW state \in StripeRefunds,
         stripeRefund' = [stripeRefund EXCEPT ![r] = state],
         stripeRefund[r] \in {"succeeded", "failed"} => state = stripeRefund[r],
         state # "none" => refund[r].payment # None /\ IsStripe(refund[r].payment),
         dlq' \subseteq RefundIds,
         refundConsumer' \in [RefundConsumers -> RefundConsumerState],
         \A c \in RefundConsumers : \/ refundConsumer'[c] = refundConsumer[c]
                                   \/ refundConsumer'[c] = RefundIdle
                                   \/ RefundConsumerInv(c)'
  PROVE  ServiceInv' /\ Steady /\ RefundsSteady
<1>1. ChargeInv' /\ Steady
  BY ChargesUndisturbed
<1>2. stripeRefund'[r] = state /\ refund' = [refund EXCEPT ![r] = refund[r]] /\ refund[r] \in RefundRow
  BY DEF ServiceInv, RefundInv
<1>3. RefundsSteady
  BY <1>2 DEF RefundsSteady, ServiceInv, RefundInv
<1>4. RowOfRefund(r)
  BY DEF ServiceInv, RefundInv
<1>5. refund[r].status = "SUCCEEDED" => Returned(r, TRUE)'
  BY <1>1, <1>3, <1>4, ReturnedKept DEF RowOfRefund
<1>6. refund[r].status = "FAILED" => Returned(r, FALSE)'
  BY <1>1, <1>3, <1>4, ReturnedKept DEF RowOfRefund
<1>7. UNCHANGED <<payment, declined>> /\ refund'[r] = refund[r]
  BY DEF chargeVars
<1>8. RowOfRefund(r)'
  BY <1>2, <1>4, <1>5, <1>6, <1>7 DEF RowOfRefund, IsStripe
<1>9. OneRefundPerPayment' /\ declined' \subseteq PaymentIds \X Attempts
  BY <1>7 DEF ServiceInv, RefundInv, OneRefundPerPayment
<1>10. RefundInv'
  BY <1>1, <1>2, <1>8, <1>9, RefundRewritten
<1> QED
  BY <1>1, <1>3, <1>10 DEF ServiceInv

\* A consumer that goes on, and nobody else.
LEMMA RefundConsumerGoes ==
  ASSUME ServiceInv, NEW c \in RefundConsumers, refundConsumer[c].pc # "idle",
         \/ refundConsumer' = [refundConsumer EXCEPT ![c].pc = "unknown"]
         \/ \E approved \in BOOLEAN :
              /\ refundConsumer' = [refundConsumer EXCEPT ![c].pc = "record", ![c].approved = approved]
              /\ \A r \in RefundIds : r = InHand(c) => Returned(r, approved)',
         UNCHANGED refund
  PROVE  /\ refundConsumer' \in [RefundConsumers -> RefundConsumerState]
         /\ \A d \in RefundConsumers : refundConsumer'[d] = refundConsumer[d] \/ RefundConsumerInv(d)'
<1> PICK r \in RefundIds : r = InHand(c) /\ refund[r].payment # None
  BY DEF ServiceInv, RefundInv, RefundConsumerInv
<1>1. refundConsumer[c] \in RefundConsumerState
  BY DEF ServiceInv, RefundInv
<1>2. CASE refundConsumer' = [refundConsumer EXCEPT ![c].pc = "unknown"]
  <2>1. /\ refundConsumer' \in [RefundConsumers -> RefundConsumerState]
        /\ \A d \in RefundConsumers : d # c => refundConsumer'[d] = refundConsumer[d]
        /\ refundConsumer'[c].pc = "unknown" /\ refundConsumer'[c].refund = r
    BY <1>1, <1>2 DEF ServiceInv, RefundInv, RefundConsumerState, InHand
  <2>2. RefundConsumerInv(c)'
    BY <2>1 DEF RefundConsumerInv, InHand
  <2> QED
    BY <2>1, <2>2
<1>3. ASSUME NEW approved \in BOOLEAN, Returned(r, approved)',
             refundConsumer' = [refundConsumer EXCEPT ![c].pc = "record", ![c].approved = approved]
      PROVE  /\ refundConsumer' \in [RefundConsumers -> RefundConsumerState]
             /\ \A d \in RefundConsumers : refundConsumer'[d] = refundConsumer[d] \/ RefundConsumerInv(d)'
  <2>1. /\ refundConsumer' \in [RefundConsumers -> RefundConsumerState]
        /\ \A d \in RefundConsumers : d # c => refundConsumer'[d] = refundConsumer[d]
        /\ refundConsumer'[c].pc = "record" /\ refundConsumer'[c].refund = r
        /\ refundConsumer'[c].approved = approved
    BY <1>1, <1>3 DEF ServiceInv, RefundInv, RefundConsumerState, InHand
  <2>2. Returned(InHand(c), refundConsumer[c].approved)'
    <3>1. InHand(c)' = r
      BY <2>1 DEF InHand
    <3>2. Returned(r, approved)'
      BY <1>3
    <3>3. refundConsumer'[c].approved = approved
      BY <2>1
    <3> QED
      BY ONLY <3>1, <3>2, <3>3 DEF Returned, Booked, IsStripe
  <2>3. RefundConsumerInv(c)'
    BY <2>1, <2>2 DEF RefundConsumerInv, InHand
  <2> QED
    BY <2>1, <2>3
<1> QED
  BY <1>2, <1>3

\* The simulated provider returns a payment once.
LEMMA RefundSimulatedKeeps ==
  ASSUME ServiceInv, NEW c \in RefundConsumers, RefundSimulated(c)
  PROVE  ServiceInv' /\ Steady /\ RefundsSteady
<1> PICK r \in RefundIds : r = InHand(c) /\ refund[r].payment # None
  BY DEF ServiceInv, RefundInv, RefundConsumerInv, RefundSimulated
<1> PICK p \in PaymentIds : p = refund[r].payment
  BY RefundedPayment
<1>1. /\ UNCHANGED <<chargeVars, settler, refund, stripeRefund>> /\ ~IsStripe(p) /\ LedgerRefund(r)
      /\ IF \E e \in ledger' : e.operation = "REFUND" /\ e.payment = p /\ e.key = r
         THEN RefundAnswer(c, TRUE) /\ UNCHANGED dlq
         ELSE RefundRelease(c) /\ DeadLetter(r)
      /\ refundConsumer[c].pc # "idle"
  BY DEF RefundSimulated
<1>2. Charges' = Charges /\ ledger' \subseteq LedgerRow /\ Refunds \subseteq Refunds' /\ BookedInv'
  BY <1>1, RefundBooked
<1>3. stripeRefund[r] \in StripeRefunds /\ stripeRefund' = [stripeRefund EXCEPT ![r] = stripeRefund[r]]
      /\ (stripeRefund[r] # "none" => IsStripe(refund[r].payment))
  BY <1>1 DEF ServiceInv, RefundInv, RowOfRefund
<1>4. dlq' \subseteq RefundIds
  BY <1>1 DEF DeadLetter, ServiceInv, RefundInv
<1>5. /\ refundConsumer' \in [RefundConsumers -> RefundConsumerState]
      /\ \A d \in RefundConsumers : \/ refundConsumer'[d] = refundConsumer[d]
                                   \/ refundConsumer'[d] = RefundIdle
                                   \/ RefundConsumerInv(d)'
  <2>1. CASE RefundRelease(c)
    BY <2>1 DEF RefundRelease, ServiceInv, RefundInv, RefundIdle, RefundConsumerState
  <2>2. CASE /\ RefundAnswer(c, TRUE)
             /\ \E e \in ledger' : e.operation = "REFUND" /\ e.payment = p /\ e.key = r
    <3>1. Booked(r, p)' /\ refund'[r].payment = p /\ ~IsStripe(p)'
      BY <1>1, <2>2 DEF Booked, Refunds, IsStripe, chargeVars
    <3>2. Returned(r, TRUE)'
      BY <3>1 DEF Returned, Booked, IsStripe
    <3>3. refundConsumer' = [refundConsumer EXCEPT ![c].pc = "record", ![c].approved = TRUE]
      BY <2>2 DEF RefundAnswer
    <3> QED
      BY <1>1, <3>2, <3>3, RefundConsumerGoes
  <2> QED
    BY <1>1, <2>1, <2>2
<1> QED
  BY <1>1, <1>2, <1>3, <1>4, <1>5, RefundProviderStep

\* Stripe takes a refund under its idempotency key.
LEMMA RefundStripeKeeps ==
  ASSUME ServiceInv, NEW c \in RefundConsumers, RefundStripe(c)
  PROVE  ServiceInv' /\ Steady /\ RefundsSteady
<1> PICK r \in RefundIds : r = InHand(c) /\ refund[r].payment # None
  BY DEF ServiceInv, RefundInv, RefundConsumerInv, RefundStripe
<1>1. /\ UNCHANGED <<chargeVars, settler, refund, ledger, dlq>> /\ IsStripe(refund[r].payment)
      /\ refundConsumer[c].pc # "idle"
  BY DEF RefundStripe
<1>2. PICK state \in StripeRefunds :
        /\ stripeRefund' = [stripeRefund EXCEPT ![r] = state] /\ state # "none"
        /\ stripeRefund[r] # "none" => state = stripeRefund[r]
  <2>1. stripeRefund[r] \in StripeRefunds
    BY DEF ServiceInv, RefundInv
  <2>2. CASE stripeRefund[r] # "none" /\ UNCHANGED stripeRefund
    BY <2>1, <2>2 DEF ServiceInv, RefundInv
  <2>3. CASE stripeRefund[r] = "none"
    BY <2>3 DEF RefundStripe, StripeRefunds
  <2> QED
    BY <2>2, <2>3 DEF RefundStripe
<1>3. stripeRefund'[r] = state
  BY <1>2 DEF ServiceInv, RefundInv
<1>4. /\ refundConsumer' \in [RefundConsumers -> RefundConsumerState]
      /\ \A d \in RefundConsumers : refundConsumer'[d] = refundConsumer[d] \/ RefundConsumerInv(d)'
  <2>1. CASE state = "pending"
    <3>1. refundConsumer' = [refundConsumer EXCEPT ![c].pc = "unknown"]
      BY <1>3, <2>1 DEF RefundStripe, RefundGoto
    <3> QED
      BY <1>1, <3>1, RefundConsumerGoes
  <2>2. CASE state # "pending"
    <3>1. PICK approved \in BOOLEAN : approved = (state = "succeeded")
      OBVIOUS
    <3>2. refundConsumer' = [refundConsumer EXCEPT ![c].pc = "record", ![c].approved = approved]
      BY <1>3, <2>2, <3>1 DEF RefundStripe, RefundAnswer
    <3>3. state = IF approved THEN "succeeded" ELSE "failed"
      BY <1>2, <2>2, <3>1 DEF StripeRefunds
    <3>4. Returned(r, approved)'
      BY <1>1, <1>3, <3>3 DEF Returned, IsStripe, chargeVars
    <3> QED
      BY <1>1, <3>2, <3>4, RefundConsumerGoes
  <2> QED
    BY <2>1, <2>2
<1>5. Charges' = Charges /\ ledger' \subseteq LedgerRow /\ Refunds \subseteq Refunds' /\ BookedInv'
      /\ dlq' \subseteq RefundIds
  BY <1>1 DEF Charges, Refunds, ServiceInv, ChargeInv, LedgerInv, RefundInv, BookedInv, IsStripe, chargeVars
<1>6. stripeRefund[r] \in {"succeeded", "failed"} => state = stripeRefund[r]
  BY <1>2
<1> QED
  BY <1>1, <1>2, <1>4, <1>5, <1>6, RefundProviderStep

\* A refund call that looks like a failure, whether or not it took effect.
LEMMA RefundErrorKeeps ==
  ASSUME ServiceInv, NEW c \in RefundConsumers, RefundError(c)
  PROVE  ServiceInv' /\ Steady /\ RefundsSteady
<1> PICK r \in RefundIds : r = InHand(c) /\ refund[r].payment # None
  BY DEF ServiceInv, RefundInv, RefundConsumerInv, RefundError
<1>1. /\ UNCHANGED <<chargeVars, settler, refund, dlq>> /\ refundConsumer[c].pc # "idle"
      /\ refundConsumer' = [refundConsumer EXCEPT ![c].pc = "unknown"]
  BY DEF RefundError, RefundGoto
<1>2. /\ refundConsumer' \in [RefundConsumers -> RefundConsumerState] /\ dlq' \subseteq RefundIds
      /\ \A d \in RefundConsumers : refundConsumer'[d] = refundConsumer[d] \/ RefundConsumerInv(d)'
  BY <1>1, RefundConsumerGoes DEF ServiceInv, RefundInv
<1>3. stripeRefund[r] \in StripeRefunds /\ (UNCHANGED stripeRefund => stripeRefund' = [stripeRefund EXCEPT ![r] = stripeRefund[r]])
      /\ (stripeRefund[r] # "none" => IsStripe(refund[r].payment))
  BY DEF ServiceInv, RefundInv, RowOfRefund
<1>4. ledger' = ledger => Charges' = Charges /\ ledger' \subseteq LedgerRow /\ Refunds \subseteq Refunds' /\ BookedInv'
  BY <1>1 DEF Charges, Refunds, ServiceInv, ChargeInv, LedgerInv, RefundInv, BookedInv, IsStripe, chargeVars
<1>5. CASE UNCHANGED <<ledger, stripeRefund>>
  BY <1>1, <1>2, <1>3, <1>4, <1>5, RefundProviderStep
<1>6. CASE ~IsStripe(refund[r].payment) /\ LedgerRefund(r) /\ UNCHANGED stripeRefund
  <2>1. Charges' = Charges /\ ledger' \subseteq LedgerRow /\ Refunds \subseteq Refunds' /\ BookedInv'
    BY <1>1, <1>6, RefundBooked
  <2> QED
    BY <1>1, <1>2, <1>3, <1>6, <2>1, RefundProviderStep
<1>7. CASE /\ IsStripe(refund[r].payment) /\ stripeRefund[r] = "none" /\ UNCHANGED ledger
           /\ stripeRefund' = [stripeRefund EXCEPT ![r] = "pending"]
  <2>1. "pending" \in StripeRefunds
    BY DEF StripeRefunds
  <2> QED
    BY <1>1, <1>2, <1>4, <1>7, <2>1, RefundProviderStep
<1> QED
  BY <1>5, <1>6, <1>7 DEF RefundError

\* Stripe decides a refund it has taken.
LEMMA StripeRefundSettlesKeeps ==
  ASSUME ServiceInv, NEW r \in RefundIds, StripeRefundSettles(r)
  PROVE  ServiceInv' /\ Steady /\ RefundsSteady
<1>1. /\ UNCHANGED <<chargeVars, settler, refund, dlq, refundConsumer, ledger>> /\ stripeRefund[r] = "pending"
  BY DEF StripeRefundSettles
<1>2. PICK state \in StripeRefunds : stripeRefund' = [stripeRefund EXCEPT ![r] = state]
  BY DEF StripeRefundSettles, StripeRefunds
<1>3. refund[r].payment # None /\ IsStripe(refund[r].payment)
  BY <1>1 DEF ServiceInv, RefundInv, RowOfRefund
<1>4. Charges' = Charges /\ ledger' \subseteq LedgerRow /\ Refunds \subseteq Refunds' /\ BookedInv'
  BY <1>1 DEF Charges, Refunds, ServiceInv, ChargeInv, LedgerInv, RefundInv, BookedInv, IsStripe, chargeVars
<1>5. /\ refundConsumer' \in [RefundConsumers -> RefundConsumerState] /\ dlq' \subseteq RefundIds
      /\ \A d \in RefundConsumers : refundConsumer'[d] = refundConsumer[d]
  BY <1>1 DEF ServiceInv, RefundInv
<1> QED
  BY <1>1, <1>2, <1>3, <1>4, <1>5, RefundProviderStep

\* The transactions that record an outcome of a refund, or that there is none yet.
LEMMA RefundRecorded ==
  ASSUME ServiceInv, NEW c \in RefundConsumers, ReportRefundUnresolved(c) \/ RecordRefundResult(c)
  PROVE  ServiceInv' /\ Steady /\ RefundsSteady
<1> PICK r \in RefundIds : r = InHand(c) /\ refund[r].payment # None
  BY DEF ServiceInv, RefundInv, RefundConsumerInv, ReportRefundUnresolved, RecordRefundResult
<1>1. /\ UNCHANGED <<chargeVars, settler, ledger, stripeRefund>>
      /\ refundConsumer' = [refundConsumer EXCEPT ![c] = RefundIdle] /\ dlq' \subseteq RefundIds
  BY DEF ReportRefundUnresolved, RecordRefundResult, RefundRelease, DeadLetter, ServiceInv, RefundInv
<1>2. /\ refundConsumer' \in [RefundConsumers -> RefundConsumerState]
      /\ \A d \in RefundConsumers : refundConsumer'[d] = refundConsumer[d] \/ refundConsumer'[d] = RefundIdle
  BY <1>1 DEF ServiceInv, RefundInv, RefundIdle, RefundConsumerState
<1>3. RowOfRefund(r) /\ RefundConsumerInv(c)
  BY DEF ServiceInv, RefundInv
<1>4. CASE UNCHANGED refund
  BY <1>1, <1>2, <1>4, RefundConsumerStep
<1>5. ASSUME NEW n \in RefundRow, refund' = [refund EXCEPT ![r] = n], refund[r].status = "REQUESTED",
             n.payment = refund[r].payment,
             \/ n.status = "REQUESTED"
             \/ n.status = "SUCCEEDED" /\ Returned(r, TRUE)
             \/ n.status = "FAILED" /\ Returned(r, FALSE)
      PROVE  ServiceInv' /\ Steady /\ RefundsSteady
  <2>1. Charges' = Charges /\ Refunds' = Refunds /\ ledger' \subseteq LedgerRow
    BY <1>1 DEF Charges, Refunds, ServiceInv, ChargeInv, LedgerInv
  <2>2. ChargeInv' /\ Steady
    BY <1>1, <2>1, ChargesUndisturbed
  <2>3. refund'[r] = n /\ UNCHANGED <<payment, declined>>
        /\ \A q \in RefundIds : refund'[q].payment = refund[q].payment
    BY <1>1, <1>5 DEF ServiceInv, RefundInv, chargeVars
  <2>4. \A yes \in BOOLEAN : Returned(r, yes) => Returned(r, yes)'
    BY <1>1, <2>1, <2>3 DEF Returned, Booked, IsStripe
  <2>5. RowOfRefund(r)'
    <3>1. n.status = "SUCCEEDED" => Returned(r, TRUE)'
      BY <1>5, <2>4
    <3>2. n.status = "FAILED" => Returned(r, FALSE)'
      BY <1>5, <2>4
    <3> QED
      BY <1>1, <1>3, <1>5, <2>3, <3>1, <3>2 DEF RowOfRefund, IsStripe
  <2>6. BookedInv' /\ OneRefundPerPayment'
    BY <2>1, <2>3 DEF BookedInv, OneRefundPerPayment, ServiceInv, RefundInv, IsStripe
  <2>7. /\ stripeRefund[r] \in StripeRefunds /\ declined' \subseteq PaymentIds \X Attempts
        /\ stripeRefund' = [stripeRefund EXCEPT ![r] = stripeRefund[r]]
        /\ refund[r].status \notin Terminal /\ Refunds \subseteq Refunds'
    BY <1>1, <1>5, <2>1, <2>3 DEF ServiceInv, RefundInv, Terminal
  <2>8. RefundInv' /\ RefundsSteady
    BY <1>1, <1>2, <1>5, <2>2, <2>5, <2>6, <2>7, RefundRewritten
  <2> QED
    BY <2>2, <2>8 DEF ServiceInv
<1>6. UNCHANGED refund \/ \E n \in RefundRow :
        /\ refund' = [refund EXCEPT ![r] = n] /\ refund[r].status = "REQUESTED"
        /\ n.payment = refund[r].payment
        /\ \/ n.status = "REQUESTED"
           \/ n.status = "SUCCEEDED" /\ Returned(r, TRUE)
           \/ n.status = "FAILED" /\ Returned(r, FALSE)
  <2>1. CASE ReportRefundUnresolved(c)
    <3> DEFINE n == [refund[r] EXCEPT !.notified = TRUE]
    <3>1. n \in RefundRow /\ n.payment = refund[r].payment /\ n.status = refund[r].status
      BY <1>3 DEF RowOfRefund, RefundRow
    <3>2. UNCHANGED refund \/ (refund[r].status = "REQUESTED" /\ refund' = [refund EXCEPT ![r] = n])
      BY <2>1 DEF ReportRefundUnresolved
    <3> HIDE DEF n
    <3> QED
      BY <3>1, <3>2
  <2>2. CASE RecordRefundResult(c)
    <3> DEFINE status == IF refundConsumer[c].approved THEN "SUCCEEDED" ELSE "FAILED"
               n == [refund[r] EXCEPT !.status = status]
    <3>1. n \in RefundRow /\ n.payment = refund[r].payment /\ n.status = status
      BY <1>3 DEF RowOfRefund, RefundRow, Statuses
    <3>2. UNCHANGED refund \/ (refund[r].status = "REQUESTED" /\ refund' = [refund EXCEPT ![r] = n])
      BY <2>2 DEF RecordRefundResult
    <3>3. \/ status = "SUCCEEDED" /\ Returned(r, TRUE)
          \/ status = "FAILED" /\ Returned(r, FALSE)
      <4>1. refundConsumer[c].approved \in BOOLEAN /\ Returned(r, refundConsumer[c].approved)
        BY <1>3, <2>2 DEF RecordRefundResult, RefundConsumerInv, RefundConsumerState
      <4>2. CASE refundConsumer[c].approved = TRUE
        BY <4>1, <4>2
      <4>3. CASE refundConsumer[c].approved = FALSE
        BY <4>1, <4>3
      <4> QED
        BY <4>1, <4>2, <4>3
    <3> HIDE DEF n, status
    <3> QED
      BY <3>1, <3>2, <3>3
  <2> QED
    BY <2>1, <2>2
<1> QED
  BY <1>4, <1>5, <1>6

-----------------------------------------------------------------------------

\* The invariant of the service holds initially.
LEMMA InitService == Init => ServiceInv
BY InitCharge, InitRefund DEF ServiceInv

\* The steps of a charge, with what they may add to the declines.
LEMMA ChargeStepKeeps ==
  ASSUME ServiceInv,
         \/ \E c \in Consumers : ChargeStep(c) \/ \E o \in Orders : HandleRequest(c, o)
         \/ \E s \in Settlers : SettlerStep(s)
         \/ \E p \in PaymentIds : CardAnswer(p) \/ CancelIntent(p) \/ \E a \in Attempts : CardAttempt(p, a)
  PROVE  ServiceInv' /\ Steady /\ RefundsSteady
<1>1. ChargeInv /\ declined \subseteq PaymentIds \X Attempts
  BY DEF ServiceInv, RefundInv
<1>2. ASSUME ChargeInv', Steady, Refunds' = Refunds, UNCHANGED refundVars,
             declined' \subseteq PaymentIds \X Attempts
      PROVE  ServiceInv' /\ Steady /\ RefundsSteady
  BY <1>2, RefundsUndisturbed DEF ServiceInv
<1>3. ASSUME NEW c \in Consumers, ChargeStep(c) PROVE ServiceInv' /\ Steady /\ RefundsSteady
  <2>1. UNCHANGED <<refundVars, declined>>
    BY <1>3 DEF ChargeStep, ChargeSimulated, RecordResult, AwaitStripe, ChargeError, ReportUnresolved, Crash
  <2>2. ChargeInv' /\ Steady /\ Refunds' = Refunds
    BY <1>1, <1>3, ChargeSimulatedKeeps, AwaitStripeKeeps, ChargeErrorKeeps, ConsumerRecords DEF ChargeStep
  <2> QED
    BY <1>1, <1>2, <2>1, <2>2
<1>4. ASSUME NEW c \in Consumers, NEW o \in Orders, HandleRequest(c, o)
      PROVE  ServiceInv' /\ Steady /\ RefundsSteady
  <2>1. UNCHANGED <<refundVars, declined, ledger>>
    BY <1>4 DEF HandleRequest
  <2>2. ChargeInv' /\ Steady /\ Refunds' = Refunds
    BY <1>1, <1>4, <2>1, HandleRequestKeeps DEF Refunds
  <2> QED
    BY <1>1, <1>2, <2>1, <2>2
<1>5. ASSUME NEW s \in Settlers, SettlerCrash(s) \/ (\E p \in PaymentIds : FetchIntent(s, p))
      PROVE  ServiceInv' /\ Steady /\ RefundsSteady
  <2>1. UNCHANGED <<refundVars, declined>>
    BY <1>5 DEF SettlerCrash, FetchIntent, chargeVars
  <2>2. ChargeInv' /\ Steady /\ Refunds' = Refunds
    BY <1>1, <1>5, FetchKeeps
  <2> QED
    BY <1>1, <1>2, <2>1, <2>2
<1>6. ASSUME NEW s \in Settlers, Settle(s) PROVE ServiceInv' /\ Steady /\ RefundsSteady
  <2>1. UNCHANGED refundVars
    BY <1>6 DEF Settle
  <2>2. ChargeInv' /\ Steady /\ Refunds' = Refunds
    BY <1>1, <1>6, SettleKeeps
  <2>3. settler[s].payment \in PaymentIds /\ settler[s].intent \in Intents
    BY <1>1, <1>6 DEF ChargeInv, SettlerInv, SettlerState, Settle
  <2>4. declined' \subseteq PaymentIds \X Attempts
    BY <1>1, <1>6, <2>3 DEF Settle, RecordPaymentDeclined, Intents, IntentRecord
  <2> QED
    BY <1>2, <2>1, <2>2, <2>4
<1>7. ASSUME NEW p \in PaymentIds,
             CardAnswer(p) \/ CancelIntent(p) \/ (\E a \in Attempts : CardAttempt(p, a))
      PROVE  ServiceInv' /\ Steady /\ RefundsSteady
  <2>1. UNCHANGED <<refundVars, declined>>
    BY <1>7 DEF CardAnswer, CancelIntent, CardAttempt, SetIntent
  <2>2. ChargeInv' /\ Steady /\ Refunds' = Refunds
    BY <1>1, <1>7, CardKeeps
  <2> QED
    BY <1>1, <1>2, <2>1, <2>2
<1> QED
  BY <1>3, <1>4, <1>5, <1>6, <1>7 DEF SettlerStep

\* Every step of the refund side keeps the invariant and every outcome.
LEMMA RefundStepKeeps ==
  ASSUME ServiceInv,
         \/ \E c \in RefundConsumers : RefundStep(c) \/ \E m \in RefundRequest : HandleRefund(c, m) \/ RefuseRefund(c, m)
         \/ \E r \in RefundIds : StripeRefundSettles(r)
  PROVE  ServiceInv' /\ Steady /\ RefundsSteady
<1>1. ASSUME NEW c \in RefundConsumers, RefundStep(c) PROVE ServiceInv' /\ Steady /\ RefundsSteady
  BY <1>1, RefundSimulatedKeeps, RefundStripeKeeps, RefundErrorKeeps, RefundRecorded, RefundRelaxes DEF RefundStep
<1>2. ASSUME NEW c \in RefundConsumers, NEW m \in RefundRequest, HandleRefund(c, m) \/ RefuseRefund(c, m)
      PROVE  ServiceInv' /\ Steady /\ RefundsSteady
  BY <1>2, HandleRefundKeeps, RefundRelaxes
<1> QED
  BY <1>1, <1>2, StripeRefundSettlesKeeps

\* A stuttering step keeps everything.
LEMMA StutterKeeps == ASSUME ServiceInv, UNCHANGED vars PROVE ServiceInv' /\ Steady /\ RefundsSteady
<1>1. UNCHANGED <<chargeVars, refundVars, ledger, settler>> /\ UNCHANGED <<refund, stripeRefund, dlq, refundConsumer, declined>>
  BY DEF vars, refundVars, chargeVars
<1>2. Charges' = Charges /\ Refunds' = Refunds /\ ledger' \subseteq LedgerRow /\ declined' \subseteq PaymentIds \X Attempts
  BY <1>1 DEF Charges, Refunds, ServiceInv, ChargeInv, LedgerInv, RefundInv
<1>3. ChargeInv' /\ Steady
  BY <1>1, <1>2, ChargesUndisturbed
<1> QED
  BY <1>1, <1>2, <1>3, RefundsUndisturbed DEF ServiceInv

\* Every step keeps the invariant and every outcome.
LEMMA StepService == ServiceInv /\ [Next]_vars => ServiceInv' /\ Steady /\ RefundsSteady
<1> SUFFICES ASSUME ServiceInv, [Next]_vars PROVE ServiceInv' /\ Steady /\ RefundsSteady
  OBVIOUS
<1>1. CASE UNCHANGED vars
  BY <1>1, StutterKeeps
<1>2. CASE Next
  <2>1. CASE \/ \E c \in Consumers : ChargeStep(c) \/ \E o \in Orders : HandleRequest(c, o)
             \/ \E s \in Settlers : SettlerStep(s)
             \/ \E p \in PaymentIds :
                  CardAnswer(p) \/ CancelIntent(p) \/ \E a \in Attempts : CardAttempt(p, a)
    BY <2>1, ChargeStepKeeps
  <2>2. CASE \/ \E c \in RefundConsumers :
                  RefundStep(c) \/ \E m \in RefundRequest : HandleRefund(c, m) \/ RefuseRefund(c, m)
             \/ \E r \in RefundIds : StripeRefundSettles(r)
    BY <2>2, RefundStepKeeps
  <2> QED
    BY <1>2, <2>1, <2>2 DEF Next, Internal, Stripe
<1> QED
  BY <1>1, <1>2

-----------------------------------------------------------------------------
(* What the invariant says of the money.                                    *)

\* The invariant has the types in it.
LEMMA InvIsTyped == ServiceInv => TypeOK
<1> SUFFICES ASSUME ServiceInv PROVE TypeOK
  OBVIOUS
<1>1. intent \in [PaymentIds -> IntentRecord]
  BY DEF ServiceInv, ChargeInv, Intents
<1> QED
  BY <1>1 DEF ServiceInv, ChargeInv, LedgerInv, RefundInv, TypeOK, PaymentRow, IntentRecord, ConsumerState,
              LedgerRow, RefundRow, StripeRefunds, RefundConsumerState

\* The money of p was taken exactly if its provider has decided so.
LEMMA ChargedIsDecided ==
  ASSUME ServiceInv, NEW p \in PaymentIds
  PROVE  /\ Charged(p) => payment[p].request # None
         /\ Decided(p, TRUE) => Charged(p)
         /\ Decided(p, FALSE) => ~Charged(p) /\ (IsStripe(p) => intent[p].state = "canceled")
<1>1. IntentInv(p) /\ LedgerInv /\ (IsStripe(p) => payment[p].request # None)
  BY StripeIsRequested DEF ServiceInv, ChargeInv
<1>2. Charged(p) <=> intent[p].state = "succeeded" \/ \E e \in Charges : e.payment = p /\ e.approved
  BY DEF Charged, Charges
<1>3. \A e \in Charges : e.approved \in BOOLEAN
  BY <1>1 DEF LedgerInv, LedgerRow, Charges
<1>4. Charged(p) => payment[p].request # None
  BY <1>1, <1>2 DEF IntentInv, LedgerInv
<1>5. Decided(p, TRUE) => Charged(p)
  BY <1>2, <1>3 DEF Decided, ChargeOf
<1>6. ASSUME Decided(p, FALSE) PROVE ~Charged(p) /\ (IsStripe(p) => intent[p].state = "canceled")
  <2>1. CASE IsStripe(p)
    BY <1>1, <1>2, <1>6, <2>1 DEF Decided, LedgerInv
  <2>2. CASE ~IsStripe(p)
    <3>1. PICK e \in Charges : e.payment = p /\ e.approved = FALSE
      BY <1>6, <2>2 DEF Decided, ChargeOf
    <3>2. \A f \in Charges : f.payment = p => f = e
      BY <1>1, <3>1 DEF LedgerInv
    <3> QED
      BY <1>1, <1>2, <2>2, <3>1, <3>2 DEF IntentInv
  <2> QED
    BY <2>1, <2>2
<1> QED
  BY <1>4, <1>5, <1>6

\* Two charges for one request would need two rows of it.
LEMMA OneCharge == ServiceInv => ChargedOnce
<1> SUFFICES ASSUME ServiceInv, NEW p \in PaymentIds, NEW q \in PaymentIds,
                    Charged(p), payment[p].request = payment[q].request
             PROVE  p = q
  BY DEF ChargedOnce
<1>1. payment[p].request # None
  BY ChargedIsDecided
<1> QED
  BY <1>1 DEF ServiceInv, ChargeInv, OneRowPerRequest

\* The outcome in a row is the one the provider has.
LEMMA OutcomesAgree == ServiceInv => OutcomeIsTheProviders
<1> SUFFICES ASSUME ServiceInv, NEW p \in PaymentIds
             PROVE  /\ payment[p].status = "SUCCEEDED" => Charged(p)
                    /\ payment[p].status = "FAILED" =>
                         ~Charged(p) /\ (IsStripe(p) => intent[p].state = "canceled")
  BY DEF OutcomeIsTheProviders
<1>1. PaymentInv(p)
  BY DEF ServiceInv, ChargeInv
<1> QED
  BY <1>1, ChargedIsDecided DEF PaymentInv

\* Money that went back for r went back to the payment of its row.
LEMMA GivenBackIsReturned ==
  ASSUME ServiceInv, NEW r \in RefundIds, NEW p \in PaymentIds
  PROVE  /\ GivenBack(r, p) => refund[r].payment = p
         /\ refund[r].payment = p /\ Returned(r, TRUE) => GivenBack(r, p)
         /\ refund[r].payment = p /\ Returned(r, FALSE) => ~GivenBack(r, p)
<1> DEFINE new == [operation |-> "REFUND", key |-> r, payment |-> p, approved |-> TRUE]
<1>1. BookedInv /\ LedgerInv /\ RowOfRefund(r)
  BY DEF ServiceInv, ChargeInv, RefundInv
<1>2. new \in ledger => refund[r].payment = p /\ ~IsStripe(p)
  <2>1. ASSUME NEW e \in ledger, e = new PROVE refund[r].payment = p /\ ~IsStripe(p)
    <3>1. e.operation = "REFUND" /\ e.key = r /\ e.payment = p
      BY <2>1
    <3> QED
      BY <1>1, <3>1 DEF BookedInv, Refunds
  <2> QED
    BY <2>1
<1>3. ASSUME Booked(r, p) PROVE new \in ledger
  <2>1. PICK e \in ledger : e.operation = "REFUND" /\ e.key = r /\ e.payment = p
    BY <1>3 DEF Booked, Refunds
  <2>2. e \in LedgerRow /\ e.approved = TRUE
    BY <1>1, <2>1 DEF LedgerInv, LedgerRow, BookedInv, Refunds
  <2>3. e = new
    BY <2>1, <2>2 DEF LedgerRow
  <2> QED
    BY <2>1, <2>3
<1> HIDE DEF new
<1>4. GivenBack(r, p) <=> new \in ledger \/ (stripeRefund[r] = "succeeded" /\ refund[r].payment = p)
  BY DEF GivenBack, new
<1> QED
  BY <1>1, <1>2, <1>3, <1>4 DEF Returned

\* The refunds in the rows are the provider's, one for a payment.
LEMMA RefundsAgree == ServiceInv => RefundedOnce
<1> SUFFICES ASSUME ServiceInv, NEW p \in PaymentIds
             PROVE  /\ \A r, s \in RefundIds : GivenBack(r, p) /\ GivenBack(s, p) => r = s
                    /\ \A r \in RefundIds :
                         /\ GivenBack(r, p) => Charged(p) /\ payment[p].status = "SUCCEEDED"
                         /\ refund[r].payment = p /\ refund[r].status = "SUCCEEDED" => GivenBack(r, p)
                         /\ refund[r].payment = p /\ refund[r].status = "FAILED" => ~GivenBack(r, p)
  BY DEF RefundedOnce
<1>1. p # None
  BY ConstantsAssumption
<1>2. ASSUME NEW r \in RefundIds, NEW s \in RefundIds, GivenBack(r, p), GivenBack(s, p) PROVE r = s
  <2>1. refund[r].payment = p /\ refund[s].payment = p
    BY <1>2, GivenBackIsReturned
  <2> QED
    BY <1>1, <2>1 DEF ServiceInv, RefundInv, OneRefundPerPayment
<1>3. ASSUME NEW r \in RefundIds, GivenBack(r, p) PROVE Charged(p) /\ payment[p].status = "SUCCEEDED"
  <2>1. refund[r].payment = p
    BY <1>3, GivenBackIsReturned
  <2>2. payment[p].status = "SUCCEEDED"
    BY <1>1, <2>1, RefundedPayment
  <2> QED
    BY <2>2, OutcomesAgree DEF OutcomeIsTheProviders
<1>4. ASSUME NEW r \in RefundIds, refund[r].payment = p
      PROVE  /\ refund[r].status = "SUCCEEDED" => GivenBack(r, p)
             /\ refund[r].status = "FAILED" => ~GivenBack(r, p)
  <2>1. RowOfRefund(r)
    BY DEF ServiceInv, RefundInv
  <2> QED
    BY <1>4, <2>1, GivenBackIsReturned DEF RowOfRefund
<1> QED
  BY <1>2, <1>3, <1>4

-----------------------------------------------------------------------------
(* What the outbox tells.                                                   *)

RefundTopics == {"refund.succeeded", "refund.failed", "refund.unresolved"}
Reports(p, topic) == \E e \in outbox : e.payment = p /\ e.topic = topic

OutcomeTold(p) ==
  /\ payment[p].status = "SUCCEEDED" <=> Reports(p, "payment.succeeded")
  /\ payment[p].status = "FAILED" <=> Reports(p, "payment.failed")
  /\ Reports(p, "payment.unresolved") => payment[p].notified
UnresolvedOnce(p) ==
  \A e, f \in outbox :
    e.payment = p /\ f.payment = p /\ e.topic = "payment.unresolved" /\ f.topic = e.topic => e = f
DeclinesOnRecord(p) ==
  \A e \in outbox : e.payment = p /\ e.topic = "payment.declined" => <<p, e.detail>> \in declined

OutboxRow(p) == OutcomeTold(p) /\ UnresolvedOnce(p) /\ DeclinesOnRecord(p)
OutboxInv == \A p \in PaymentIds : OutboxRow(p)

\* A transaction on the row of payment p, with its event.
Told(p, e) ==
  /\ payment[p].status = "REQUESTED"
  /\ outbox' = outbox \cup {e} /\ e.payment = p
  /\ \A q \in PaymentIds \ {p} : payment'[q] = payment[q]
  /\ declined \subseteq declined'
  /\ \/ /\ e.topic = "payment.succeeded" /\ payment'[p].status = "SUCCEEDED"
        /\ payment'[p].notified = payment[p].notified
     \/ /\ e.topic = "payment.failed" /\ payment'[p].status = "FAILED"
        /\ payment'[p].notified = payment[p].notified
     \/ /\ e.topic = "payment.unresolved" /\ ~payment[p].notified
        /\ payment'[p].notified /\ payment'[p].status = "REQUESTED"
     \/ /\ e.topic = "payment.declined" /\ <<p, e.detail>> \in declined'
        /\ payment'[p] = payment[p]

\* A transaction on the row of refund r, with its event.
ToldRefund(r, e) ==
  /\ refund[r].status = "REQUESTED" /\ refund[r].payment \in PaymentIds
  /\ outbox' = outbox \cup {e}
  /\ e.topic \in RefundTopics /\ e.payment = refund[r].payment /\ e.detail = r
  /\ UNCHANGED <<payment, declined>>

\* No transaction, or one that says nothing: a new row is neither settled nor notified.
Untold ==
  /\ outbox' = outbox /\ declined \subseteq declined'
  /\ \A p \in PaymentIds :
       \/ payment'[p] = payment[p]
       \/ payment[p] = NoPayment /\ payment'[p].status = "REQUESTED" /\ ~payment'[p].notified

Telling ==
  \/ Untold
  \/ \E p \in PaymentIds, e \in outbox' : Told(p, e)
  \/ \E r \in RefundIds, e \in outbox' : ToldRefund(r, e)

\* A result is recorded together with its message.
LEMMA ResultTold ==
  ASSUME ServiceInv, NEW p \in PaymentIds, UNCHANGED declined,
         \/ RecordPaymentResult(p, "SUCCEEDED", "payment.succeeded")
         \/ RecordPaymentResult(p, "FAILED", "payment.failed")
  PROVE  Telling
<1>1. payment \in [PaymentIds -> PaymentRow]
  BY DEF ServiceInv, ChargeInv
<1>2. CASE payment[p].status # "REQUESTED"
  BY <1>2 DEF RecordPaymentResult, Telling, Untold
<1>3. CASE payment[p].status = "REQUESTED"
  <2>1. PICK status \in {"SUCCEEDED", "FAILED"}, topic \in {"payment.succeeded", "payment.failed"} :
          /\ payment' = [payment EXCEPT ![p].status = status]
          /\ outbox' = outbox \cup {Event(topic, p, None)}
          /\ status = "SUCCEEDED" <=> topic = "payment.succeeded"
    BY <1>3 DEF RecordPaymentResult
  <2>2. PICK e \in outbox' : e = Event(topic, p, None)
    BY <2>1
  <2>3. e.topic = topic /\ e.payment = p
    BY <2>2 DEF Event
  <2>4. /\ \A q \in PaymentIds \ {p} : payment'[q] = payment[q]
        /\ payment'[p].status = status /\ payment'[p].notified = payment[p].notified
    BY <1>1, <2>1 DEF PaymentRow
  <2>5. Told(p, e)
    BY <1>3, <2>1, <2>2, <2>3, <2>4 DEF Told
  <2> QED
    BY <2>5 DEF Telling
<1> QED
  BY <1>2, <1>3

\* An uncertainty is recorded together with its message.
LEMMA UnresolvedTold ==
  ASSUME ServiceInv, NEW p \in PaymentIds, UNCHANGED declined, NEW reason,
         RecordPaymentUnresolved(p, reason)
  PROVE  Telling
<1>1. payment \in [PaymentIds -> PaymentRow]
  BY DEF ServiceInv, ChargeInv
<1>2. CASE UNCHANGED <<payment, outbox>>
  BY <1>2 DEF Telling, Untold
<1>3. CASE /\ payment[p].status = "REQUESTED" /\ ~payment[p].notified
           /\ payment' = [payment EXCEPT ![p].notified = TRUE]
           /\ outbox' = outbox \cup {Event("payment.unresolved", p, reason)}
  <2>1. PICK e \in outbox' : e = Event("payment.unresolved", p, reason)
    BY <1>3
  <2>2. e.topic = "payment.unresolved" /\ e.payment = p
    BY <2>1 DEF Event
  <2>3. /\ \A q \in PaymentIds \ {p} : payment'[q] = payment[q]
        /\ payment'[p].status = "REQUESTED" /\ payment'[p].notified
    BY <1>1, <1>3 DEF PaymentRow
  <2>4. Told(p, e)
    BY <1>3, <2>1, <2>2, <2>3 DEF Told
  <2> QED
    BY <2>4 DEF Telling
<1> QED
  BY <1>2, <1>3 DEF RecordPaymentUnresolved

\* A decline is recorded together with its message.
LEMMA DeclineTold ==
  ASSUME ServiceInv, NEW p \in PaymentIds, UNCHANGED payment, NEW attempt,
         RecordPaymentDeclined(p, attempt)
  PROVE  Telling
<1>1. CASE UNCHANGED <<declined, outbox>>
  BY <1>1 DEF Telling, Untold
<1>2. CASE /\ payment[p].status = "REQUESTED" /\ declined' = declined \cup {<<p, attempt>>}
           /\ outbox' = outbox \cup {Event("payment.declined", p, attempt)}
  <2>1. PICK e \in outbox' : e = Event("payment.declined", p, attempt)
    BY <1>2
  <2>2. e.topic = "payment.declined" /\ e.payment = p /\ e.detail = attempt
    BY <2>1 DEF Event
  <2>3. Told(p, e)
    BY <1>2, <2>1, <2>2 DEF Told
  <2> QED
    BY <2>3 DEF Telling
<1> QED
  BY <1>1, <1>2 DEF RecordPaymentDeclined

\* The outcome of a refund is recorded together with its message.
LEMMA RefundTold ==
  ASSUME ServiceInv, NEW c \in RefundConsumers, ReportRefundUnresolved(c) \/ RecordRefundResult(c)
  PROVE  Telling
<1> PICK r \in RefundIds : r = InHand(c) /\ refund[r].payment \in PaymentIds
  <2>1. InHand(c) \in RefundIds /\ refund[InHand(c)].payment # None
    BY DEF ServiceInv, RefundInv, RefundConsumerInv, ReportRefundUnresolved, RecordRefundResult
  <2> QED
    BY <2>1, RefundedPayment
<1>1. UNCHANGED <<payment, declined>>
  BY DEF ReportRefundUnresolved, RecordRefundResult, chargeVars
<1>2. CASE UNCHANGED outbox
  BY <1>1, <1>2 DEF Telling, Untold
<1>3. ASSUME NEW topic \in RefundTopics, refund[r].status = "REQUESTED",
             outbox' = outbox \cup {Event(topic, refund[r].payment, r)}
      PROVE  Telling
  <2>1. PICK e \in outbox' : e = Event(topic, refund[r].payment, r)
    BY <1>3
  <2>2. e.topic = topic /\ e.payment = refund[r].payment /\ e.detail = r
    BY <2>1 DEF Event
  <2>3. ToldRefund(r, e)
    BY <1>1, <1>3, <2>1, <2>2 DEF ToldRefund
  <2> QED
    BY <2>3 DEF Telling
<1>4. UNCHANGED outbox \/ \E topic \in RefundTopics :
        refund[r].status = "REQUESTED" /\ outbox' = outbox \cup {Event(topic, refund[r].payment, r)}
  BY DEF ReportRefundUnresolved, RecordRefundResult, RefundTopics
<1> QED
  BY <1>2, <1>3, <1>4

\* Every step records together what belongs together.
LEMMA StepTells == ASSUME ServiceInv, [Next]_vars PROVE Telling
<1>1. ASSUME UNCHANGED <<payment, declined, outbox>> PROVE Telling
  BY <1>1 DEF Telling, Untold
<1>2. ASSUME NEW c \in Consumers, ChargeStep(c) PROVE Telling
  <2>1. CASE RecordResult(c)
    <3>1. Held(c) \in PaymentIds /\ UNCHANGED declined
      BY <2>1 DEF RecordResult, ServiceInv, ChargeInv, ConsumerInv
    <3> QED
      BY <2>1, <3>1, ResultTold DEF RecordResult
  <2>2. CASE ReportUnresolved(c)
    <3>1. Held(c) \in PaymentIds /\ UNCHANGED declined
      BY <2>2 DEF ReportUnresolved, ServiceInv, ChargeInv, ConsumerInv
    <3> QED
      BY <2>2, <3>1, UnresolvedTold DEF ReportUnresolved
  <2>3. CASE ChargeSimulated(c) \/ AwaitStripe(c) \/ ChargeError(c) \/ Crash(c)
    BY <1>1, <2>3 DEF ChargeSimulated, AwaitStripe, ChargeError, Crash
  <2> QED
    BY <1>2, <2>1, <2>2, <2>3 DEF ChargeStep
<1>3. ASSUME NEW c \in Consumers, NEW o \in Orders, HandleRequest(c, o) PROVE Telling
  <2>1. outbox' = outbox /\ declined' = declined
    BY <1>3 DEF HandleRequest
  <2>2. PICK p \in PaymentIds :
          \/ UNCHANGED payment
          \/ /\ payment[p] = NoPayment
             /\ payment' = [payment EXCEPT ![p] = [request |-> o, status |-> "REQUESTED", notified |-> FALSE]]
    BY <1>3 DEF HandleRequest
  <2> QED
    BY <2>1, <2>2 DEF ServiceInv, ChargeInv, Telling, Untold
<1>4. ASSUME NEW s \in Settlers, SettlerStep(s) PROVE Telling
  <2>1. CASE Settle(s)
    <3>1. settler[s].payment \in PaymentIds
      BY <2>1 DEF Settle, ServiceInv, ChargeInv, SettlerInv
    <3> QED
      BY <1>1, <2>1, <3>1, ResultTold, UnresolvedTold, DeclineTold DEF Settle
  <2>2. CASE SettlerCrash(s) \/ \E p \in PaymentIds : FetchIntent(s, p)
    BY <1>1, <2>2 DEF SettlerCrash, FetchIntent, chargeVars
  <2> QED
    BY <1>4, <2>1, <2>2 DEF SettlerStep
<1>5. ASSUME Stripe PROVE Telling
  BY <1>1, <1>5 DEF Stripe, CardAnswer, CancelIntent, CardAttempt, SetIntent, StripeRefundSettles, chargeVars
<1>6. ASSUME NEW c \in RefundConsumers,
             RefundStep(c) \/ \E m \in RefundRequest : HandleRefund(c, m) \/ RefuseRefund(c, m)
      PROVE  Telling
  <2>1. CASE RefundSimulated(c) \/ RefundStripe(c) \/ RefundError(c) \/ RefundCrash(c)
             \/ \E m \in RefundRequest : HandleRefund(c, m) \/ RefuseRefund(c, m)
    BY <1>1, <2>1 DEF RefundSimulated, RefundStripe, RefundError, RefundCrash, HandleRefund, RefuseRefund,
                      chargeVars
  <2> QED
    BY <1>6, <2>1, RefundTold DEF RefundStep
<1>7. UNCHANGED vars => UNCHANGED <<payment, declined, outbox>>
  BY DEF vars, chargeVars
<1> QED
  BY <1>1, <1>2, <1>3, <1>4, <1>5, <1>6, <1>7 DEF Next, Internal

-----------------------------------------------------------------------------
(* The outbox follows the rows.                                             *)

\* An empty outbox reports nothing, and there is nothing to report.
LEMMA InitOutbox == Init => OutboxInv
BY DEF Init, OutboxInv, OutboxRow, OutcomeTold, UnresolvedOnce, DeclinesOnRecord, Reports, NoPayment

\* An event about something else, or none, leaves what the outbox says of p.
LEMMA RowUntouched ==
  ASSUME NEW p \in PaymentIds, OutboxRow(p), payment'[p] = payment[p], declined \subseteq declined',
         outbox \subseteq outbox',
         \A e \in outbox' \ outbox : e.payment = p => e.topic \in RefundTopics
  PROVE  OutboxRow(p)'
<1>1. \A topic : topic \notin RefundTopics => (Reports(p, topic)' <=> Reports(p, topic))
  BY DEF Reports
<1>2. \A topic \in {"payment.succeeded", "payment.failed", "payment.unresolved", "payment.declined"} :
        topic \notin RefundTopics
  BY DEF RefundTopics
<1>3. /\ Reports(p, "payment.succeeded")' <=> Reports(p, "payment.succeeded")
      /\ Reports(p, "payment.failed")' <=> Reports(p, "payment.failed")
      /\ Reports(p, "payment.unresolved")' <=> Reports(p, "payment.unresolved")
  BY <1>1, <1>2
<1>4. \A e \in outbox' : e.payment = p /\ e.topic \in {"payment.unresolved", "payment.declined"} => e \in outbox
  BY <1>2
<1>5. OutcomeTold(p)'
  <2>1. OutcomeTold(p) BY DEF OutboxRow
  <2> QED BY <1>3, <2>1 DEF OutcomeTold
<1>6. UnresolvedOnce(p)'
  BY <1>4 DEF OutboxRow, UnresolvedOnce
<1>7. DeclinesOnRecord(p)'
  BY <1>4 DEF OutboxRow, DeclinesOnRecord
<1> QED
  BY <1>5, <1>6, <1>7 DEF OutboxRow

\* A row of the outbox stays true when the payment goes on.
LEMMA ToldKept ==
  ASSUME NEW p \in PaymentIds, OutboxRow(p), NEW e \in outbox', Told(p, e)
  PROVE  OutboxRow(p)'
<1>1. \A topic : Reports(p, topic)' <=> Reports(p, topic) \/ e.topic = topic
  BY DEF Told, Reports
<1>2. ~Reports(p, "payment.succeeded") /\ ~Reports(p, "payment.failed")
  BY DEF Told, OutboxRow, OutcomeTold, UnresolvedOnce, DeclinesOnRecord
<1>3. /\ payment'[p].status = "SUCCEEDED" <=> Reports(p, "payment.succeeded")'
      /\ payment'[p].status = "FAILED" <=> Reports(p, "payment.failed")'
  BY <1>1, <1>2 DEF Told
<1>4. Reports(p, "payment.unresolved")' => payment'[p].notified
  BY <1>1 DEF Told, OutboxRow, OutcomeTold, UnresolvedOnce, DeclinesOnRecord
<1>5. ASSUME NEW f \in outbox', NEW g \in outbox',
             f.payment = p, f.topic = "payment.unresolved", g.payment = p, g.topic = "payment.unresolved"
      PROVE  f = g
  <2>1. CASE e.topic = "payment.unresolved"
    <3>1. ~Reports(p, "payment.unresolved")
      BY <2>1 DEF Told, OutboxRow, OutcomeTold, UnresolvedOnce, DeclinesOnRecord
    <3>2. f = e /\ g = e
      BY <1>5, <3>1 DEF Told, Reports
    <3> QED
      BY <3>2
  <2>2. CASE e.topic # "payment.unresolved"
    BY <1>5, <2>2 DEF Told, OutboxRow, OutcomeTold, UnresolvedOnce, DeclinesOnRecord
  <2> QED
    BY <2>1, <2>2
<1>6. ASSUME NEW f \in outbox', f.payment = p, f.topic = "payment.declined"
      PROVE  <<p, f.detail>> \in declined'
  <2>1. CASE f = e
    BY <1>6, <2>1 DEF Told
  <2>2. CASE f \in outbox
    BY <1>6, <2>2 DEF Told, OutboxRow, OutcomeTold, UnresolvedOnce, DeclinesOnRecord
  <2> QED
    BY <2>1, <2>2 DEF Told
<1>7. OutcomeTold(p)'
  BY <1>3, <1>4 DEF OutcomeTold
<1>8. UnresolvedOnce(p)'
  BY <1>5 DEF UnresolvedOnce
<1>9. DeclinesOnRecord(p)'
  BY <1>6 DEF DeclinesOnRecord
<1> QED
  BY <1>7, <1>8, <1>9 DEF OutboxRow

\* A step that tells what it records keeps the outbox true.
LEMMA OutboxKept ==
  ASSUME OutboxInv, Telling
  PROVE  OutboxInv'
<1> SUFFICES ASSUME NEW p \in PaymentIds PROVE OutboxRow(p)'
  BY DEF OutboxInv
<1>1. OutboxRow(p)
  BY DEF OutboxInv
<1>2. CASE Untold
  <2>1. CASE payment'[p] = payment[p]
    BY <1>1, <1>2, <2>1, RowUntouched DEF Untold
  <2>2. CASE payment[p] = NoPayment /\ payment'[p].status = "REQUESTED"
    <3>1. \A topic : Reports(p, topic)' <=> Reports(p, topic)
      BY <1>2 DEF Untold, Reports
    <3>2. /\ ~Reports(p, "payment.succeeded") /\ ~Reports(p, "payment.failed")
          /\ ~Reports(p, "payment.unresolved")
      BY <1>1, <2>2 DEF OutboxRow, OutcomeTold, NoPayment
    <3>3. OutcomeTold(p)'
      BY <2>2, <3>1, <3>2 DEF OutcomeTold
    <3>4. outbox' = outbox /\ declined \subseteq declined'
      BY <1>2 DEF Untold
    <3>5. UnresolvedOnce(p)' /\ DeclinesOnRecord(p)'
      BY <1>1, <3>4 DEF OutboxRow, UnresolvedOnce, DeclinesOnRecord
    <3> QED
      BY <3>3, <3>5 DEF OutboxRow
  <2> QED
    BY <1>2, <2>1, <2>2 DEF Untold
<1>3. ASSUME NEW q \in PaymentIds, NEW e \in outbox', Told(q, e) PROVE OutboxRow(p)'
  <2>1. CASE p = q
    BY <1>1, <1>3, <2>1, ToldKept
  <2>2. CASE p # q
    BY <1>1, <1>3, <2>2, RowUntouched DEF Told
  <2> QED
    BY <2>1, <2>2
<1>4. ASSUME NEW r \in RefundIds, NEW e \in outbox', ToldRefund(r, e) PROVE OutboxRow(p)'
  <2>1. payment'[p] = payment[p] /\ declined' = declined
    BY <1>4 DEF ToldRefund
  <2>2. outbox \subseteq outbox' /\ \A f \in outbox' \ outbox : f.topic \in RefundTopics
    BY <1>4 DEF ToldRefund
  <2> QED
    BY <1>1, <2>1, <2>2, RowUntouched
<1> QED
  BY <1>2, <1>3, <1>4 DEF Telling

\* The invariant of the outbox contains the property.
LEMMA OutboxIsRight == OutboxInv => OutboxAgrees
<1> SUFFICES ASSUME OutboxInv, NEW p \in PaymentIds
             PROVE  /\ payment[p].status = "SUCCEEDED" <=> EventsOf(p, {"payment.succeeded"}) # {}
                    /\ payment[p].status = "FAILED" <=> EventsOf(p, {"payment.failed"}) # {}
                    /\ Cardinality(EventsOf(p, {"payment.unresolved"})) <= 1
                    /\ \A e \in EventsOf(p, {"payment.declined"}) : <<p, e.detail>> \in declined
  BY DEF OutboxAgrees
<1>1. OutboxRow(p)
  BY DEF OutboxInv
<1>2. \A topic : EventsOf(p, {topic}) # {} <=> Reports(p, topic)
  BY DEF EventsOf, Reports
<1>3. Cardinality(EventsOf(p, {"payment.unresolved"})) <= 1
  <2>1. CASE EventsOf(p, {"payment.unresolved"}) = {}
    BY <2>1, FS_EmptySet
  <2>2. CASE EventsOf(p, {"payment.unresolved"}) # {}
    <3>1. PICK e \in EventsOf(p, {"payment.unresolved"}) : TRUE
      BY <2>2
    <3>2. EventsOf(p, {"payment.unresolved"}) = {e}
      BY <1>1, <3>1 DEF EventsOf, OutboxRow, OutcomeTold, UnresolvedOnce, DeclinesOnRecord
    <3> QED
      BY <3>2, FS_Singleton
  <2> QED
    BY <2>1, <2>2
<1> QED
  BY <1>1, <1>2, <1>3 DEF EventsOf, OutboxRow, OutcomeTold, UnresolvedOnce, DeclinesOnRecord

\* What is settled neither changes nor is spoken of again.
Silence ==
  /\ \A p \in PaymentIds :
       payment[p].status \in Terminal =>
         /\ payment'[p] = payment[p]
         /\ \A e \in outbox' \ outbox : e.payment = p => e.topic \in
               {"refund.unresolved", "refund.succeeded", "refund.failed"}
  /\ \A r \in RefundIds :
       refund[r].status \in Terminal =>
         /\ refund'[r] = refund[r]
         /\ \A e \in outbox' \ outbox : e.payment = refund[r].payment => e.detail # r

\* No step says anything more about a settled payment.
LEMMA StepIsSilent == ServiceInv /\ [Next]_vars => Silence
<1> SUFFICES ASSUME ServiceInv, [Next]_vars PROVE Silence
  OBVIOUS
<1>1. Steady /\ RefundsSteady /\ Telling
  BY StepService, StepTells
<1>2. \A p \in PaymentIds : payment[p].status \in Terminal => payment'[p] = payment[p]
  BY <1>1 DEF Steady
<1>3. \A r \in RefundIds : refund[r].status \in Terminal => refund'[r] = refund[r]
  BY <1>1 DEF RefundsSteady
<1>4. ASSUME NEW p \in PaymentIds, payment[p].status \in Terminal,
             NEW e \in outbox' \ outbox, e.payment = p
      PROVE  e.topic \in {"refund.unresolved", "refund.succeeded", "refund.failed"}
  <2>1. CASE Untold
    BY <1>4, <2>1 DEF Untold
  <2>2. ASSUME NEW q \in PaymentIds, NEW f \in outbox', Told(q, f)
        PROVE  e.topic \in RefundTopics
    BY <1>4, <2>2 DEF Told, Terminal
  <2>3. ASSUME NEW r \in RefundIds, NEW f \in outbox', ToldRefund(r, f)
        PROVE  e.topic \in RefundTopics
    BY <1>4, <2>3 DEF ToldRefund
  <2> QED
    BY <1>1, <2>1, <2>2, <2>3 DEF Telling, RefundTopics
<1>5. ASSUME NEW r \in RefundIds, refund[r].status \in Terminal,
             NEW e \in outbox' \ outbox, e.payment = refund[r].payment
      PROVE  e.detail # r
  <2>1. CASE Untold
    BY <1>5, <2>1 DEF Untold
  <2>2. ASSUME NEW q \in PaymentIds, NEW f \in outbox', Told(q, f)
        PROVE  e.detail # r
    <3>1. refund[r].payment # None
      BY <1>5 DEF ServiceInv, RefundInv, RowOfRefund, Terminal
    <3>2. payment[refund[r].payment].status = "SUCCEEDED"
      BY <3>1, RefundedPayment
    <3>3. e = f /\ f.payment = q /\ payment[q].status = "REQUESTED"
      BY <1>5, <2>2 DEF Told
    <3> QED
      BY <1>5, <3>2, <3>3
  <2>3. ASSUME NEW s \in RefundIds, NEW f \in outbox', ToldRefund(s, f)
        PROVE  e.detail # r
    BY <1>5, <2>3 DEF ToldRefund, Terminal
  <2> QED
    BY <1>1, <2>1, <2>2, <2>3 DEF Telling
<1> QED
  BY <1>2, <1>3, <1>4, <1>5 DEF Silence

-----------------------------------------------------------------------------
(* The theorems.                                                            *)

\* The service's invariant holds in every state.
LEMMA ServiceAlways == Spec => []ServiceInv
<1>1. ServiceInv /\ [Next]_vars => ServiceInv'
  BY StepService
<1> QED
  BY InitService, <1>1, PTL DEF Spec

\* The rows, the ledger, the intents and what every consumer holds in memory
\* are always records of the kinds the code stores there.
THEOREM ServiceTypeCorrect == Spec => []TypeOK
BY ServiceAlways, InvIsTyped, PTL

\* However many consumers are handed a payment request, however often, and
\* wherever they stop, the customer is charged once for it.
THEOREM CustomersAreChargedOnce == Spec => []ChargedOnce
BY ServiceAlways, OneCharge, PTL

\* A payment or refund row never contradicts what the provider did with the
\* money, and money goes back at most once per payment.
THEOREM RowsAreTrue == Spec => []RowsAgreeWithProvider
<1>1. ServiceInv => RowsAgreeWithProvider
  BY OutcomesAgree, RefundsAgree DEF RowsAgreeWithProvider
<1> QED
  BY ServiceAlways, <1>1, PTL

\* A payment row and its outbox events are written together: the backend is
\* told the recorded outcome, and only that one, and one unknown outcome at most.
THEOREM OutboxIsTrue == Spec => []OutboxAgrees
<1>1. ServiceInv /\ OutboxInv /\ [Next]_vars => OutboxInv'
  BY StepTells, OutboxKept
<1>2. Spec => []OutboxInv
  BY InitOutbox, ServiceAlways, <1>1, PTL DEF Spec
<1> QED
  BY <1>2, OutboxIsRight, PTL

\* A settled payment or refund is final: no consumer with an old answer and no
\* settler with an old intent changes its row or reports about it again.
THEOREM SettledStaysSilent == Spec => SettledIsSilent
<1>1. ServiceInv /\ [Next]_vars
        => [/\ \A p \in PaymentIds :
                 payment[p].status \in Terminal =>
                   /\ payment'[p] = payment[p]
                   /\ \A e \in outbox' \ outbox : e.payment = p => e.topic \in
                         {"refund.unresolved", "refund.succeeded", "refund.failed"}
            /\ \A r \in RefundIds :
                 refund[r].status \in Terminal =>
                   /\ refund'[r] = refund[r]
                   /\ \A e \in outbox' \ outbox : e.payment = refund[r].payment => e.detail # r]_vars
  BY StepIsSilent DEF Silence
<1> QED
  BY ServiceAlways, <1>1, PTL DEF Spec, SettledIsSilent

-----------------------------------------------------------------------------
(* What the reader of the topics may rely on, see PaymentSaga.              *)

\* What an event says is so: it names the payment's own order or the refund of
\* that payment, and the outcome it reports is the recorded one.
EventTrue(e) ==
  /\ e.topic \in {"payment.succeeded", "payment.failed", "payment.unresolved", "payment.declined"} \cup RefundTopics
  /\ e.payment \in PaymentIds /\ payment[e.payment].request = e.order /\ e.order \in Orders
  /\ e.topic = "payment.succeeded" => payment[e.payment].status = "SUCCEEDED"
  /\ e.topic = "payment.failed" => payment[e.payment].status = "FAILED"
  /\ e.topic = "payment.unresolved" => e.detail \in {"provider_outcome_unknown", "payment_retry_required"}
  /\ e.topic = "payment.declined" => e.detail \in Attempts
  /\ e.topic \in RefundTopics => e.detail \in RefundIds /\ refund[e.detail].payment = e.payment
  /\ e.topic = "refund.succeeded" => refund[e.detail].status = "SUCCEEDED"
  /\ e.topic = "refund.failed" => refund[e.detail].status = "FAILED"

EventsInv == \A e \in outbox : EventTrue(e)

\* What is true of an outcome stays true.
LEMMA EventStaysTrue ==
  ASSUME ServiceInv, Steady, RefundsSteady, NEW e, EventTrue(e)
  PROVE  EventTrue(e)'
<1>1. e.payment \in PaymentIds /\ payment[e.payment].request \in Orders /\ None \notin Orders \cup PaymentIds
  BY ConstantsAssumption DEF EventTrue
<1>2. payment'[e.payment].request = payment[e.payment].request
      /\ (payment[e.payment].status \in Terminal => payment'[e.payment] = payment[e.payment])
  BY <1>1 DEF Steady
<1>3. e.topic \in RefundTopics =>
        /\ e.detail \in RefundIds /\ refund'[e.detail].payment = e.payment
        /\ refund[e.detail].status \in Terminal => refund'[e.detail] = refund[e.detail]
  BY <1>1 DEF RefundsSteady, EventTrue
<1> QED
  BY <1>1, <1>2, <1>3 DEF EventTrue, RefundTopics, Terminal

\* The event of a transaction on the row of a payment.
LEMMA PaymentEventTrue ==
  ASSUME ServiceInv, Steady, NEW p \in PaymentIds, payment[p].status = "REQUESTED",
         NEW topic, NEW detail, NEW e, e = Event(topic, p, detail),
         \/ topic = "payment.succeeded" /\ payment'[p].status = "SUCCEEDED"
         \/ topic = "payment.failed" /\ payment'[p].status = "FAILED"
         \/ topic = "payment.unresolved" /\ detail \in {"provider_outcome_unknown", "payment_retry_required"}
         \/ topic = "payment.declined" /\ detail \in Attempts
  PROVE  EventTrue(e)'
<1>1. payment[p].request \in Orders /\ payment[p].request # None
  BY ConstantsAssumption DEF ServiceInv, ChargeInv, PaymentInv, PaymentRow
<1>2. payment'[p].request = payment[p].request
  BY <1>1 DEF Steady
<1> QED
  BY <1>1, <1>2 DEF EventTrue, Event, RefundTopics

\* The event of a transaction on the row of a refund.
LEMMA RefundEventTrue ==
  ASSUME ServiceInv, Steady, NEW r \in RefundIds, refund[r].payment # None,
         refund'[r].payment = refund[r].payment,
         NEW topic, NEW e, e = Event(topic, refund[r].payment, r),
         \/ topic = "refund.unresolved"
         \/ topic = "refund.succeeded" /\ refund'[r].status = "SUCCEEDED"
         \/ topic = "refund.failed" /\ refund'[r].status = "FAILED"
  PROVE  EventTrue(e)'
<1> PICK p \in PaymentIds : p = refund[r].payment /\ payment[p].request # None
  BY RefundedPayment
<1>1. payment[p].request \in Orders
  BY DEF ServiceInv, ChargeInv, PaymentInv, PaymentRow
<1>2. payment'[p].request = payment[p].request
  BY DEF Steady
<1> QED
  BY <1>1, <1>2 DEF EventTrue, Event, RefundTopics

\* Every event that a step adds is true.
LEMMA NewEventsAreTrue ==
  ServiceInv /\ [Next]_vars => \A e \in outbox' \ outbox : EventTrue(e)'
<1> SUFFICES ASSUME ServiceInv, [Next]_vars, NEW e \in outbox', e \notin outbox
             PROVE  EventTrue(e)'
  OBVIOUS
<1>0. ServiceInv' /\ Steady /\ RefundsSteady
  BY StepService
<1>1. ASSUME NEW p \in PaymentIds,
             \/ RecordPaymentResult(p, "SUCCEEDED", "payment.succeeded")
             \/ RecordPaymentResult(p, "FAILED", "payment.failed")
      PROVE  EventTrue(e)'
  <2>1. PICK status \in {"SUCCEEDED", "FAILED"}, topic \in {"payment.succeeded", "payment.failed"} :
          /\ payment[p].status = "REQUESTED" /\ payment' = [payment EXCEPT ![p].status = status]
          /\ e = Event(topic, p, None)
          /\ status = "SUCCEEDED" <=> topic = "payment.succeeded"
    BY <1>1 DEF RecordPaymentResult
  <2>2. payment'[p].status = status
    BY <2>1 DEF ServiceInv, ChargeInv, PaymentRow
  <2> QED
    BY <1>0, <2>1, <2>2, PaymentEventTrue
<1>2. ASSUME NEW p \in PaymentIds, NEW reason \in {"provider_outcome_unknown", "payment_retry_required"},
             RecordPaymentUnresolved(p, reason)
      PROVE  EventTrue(e)'
  BY <1>0, <1>2, PaymentEventTrue DEF RecordPaymentUnresolved
<1>3. ASSUME NEW p \in PaymentIds, NEW attempt \in Attempts, RecordPaymentDeclined(p, attempt)
      PROVE  EventTrue(e)'
  BY <1>0, <1>3, PaymentEventTrue DEF RecordPaymentDeclined
<1>4. ASSUME NEW c \in Consumers, ChargeStep(c) PROVE EventTrue(e)'
  <2>1. RecordResult(c) \/ ReportUnresolved(c)
    BY <1>4 DEF ChargeStep, ChargeSimulated, AwaitStripe, ChargeError, Crash
  <2>2. Held(c) \in PaymentIds
    BY <2>1 DEF RecordResult, ReportUnresolved, ServiceInv, ChargeInv, ConsumerInv
  <2> QED
    BY <1>1, <1>2, <2>1, <2>2 DEF RecordResult, ReportUnresolved
<1>5. ASSUME NEW s \in Settlers, SettlerStep(s) PROVE EventTrue(e)'
  <2>1. Settle(s)
    BY <1>5 DEF SettlerStep, SettlerCrash, FetchIntent
  <2>2. settler[s].payment \in PaymentIds /\ settler[s].intent \in Intents
    BY <2>1 DEF Settle, ServiceInv, ChargeInv, SettlerInv, SettlerState
  <2>3. settler[s].intent.state = "declined" => settler[s].intent.attempt \in Attempts
    BY <2>2 DEF Intents
  <2> QED
    BY <1>1, <1>2, <1>3, <2>1, <2>2, <2>3 DEF Settle
<1>6. ASSUME NEW c \in RefundConsumers, RefundStep(c) PROVE EventTrue(e)'
  <2>1. ReportRefundUnresolved(c) \/ RecordRefundResult(c)
    BY <1>6 DEF RefundStep, RefundSimulated, RefundStripe, RefundError, RefundCrash
  <2>2. PICK r \in RefundIds : r = InHand(c) /\ refund[r].payment # None /\ refund[r] \in RefundRow
    BY <2>1 DEF ServiceInv, RefundInv, RefundConsumerInv, ReportRefundUnresolved, RecordRefundResult
  <2>3. refund'[r].payment = refund[r].payment
    BY <1>0, <2>2 DEF RefundsSteady
  <2>4. PICK topic : /\ e = Event(topic, refund[r].payment, r)
                     /\ \/ topic = "refund.unresolved"
                        \/ topic = "refund.succeeded" /\ refund'[r].status = "SUCCEEDED"
                        \/ topic = "refund.failed" /\ refund'[r].status = "FAILED"
    <3>1. CASE ReportRefundUnresolved(c)
      BY <2>2, <3>1 DEF ReportRefundUnresolved
    <3>2. CASE RecordRefundResult(c)
      <4>1. PICK status \in {"SUCCEEDED", "FAILED"}, topic \in {"refund.succeeded", "refund.failed"} :
              /\ refund' = [refund EXCEPT ![r].status = status]
              /\ e = Event(topic, refund[r].payment, r)
              /\ status = "SUCCEEDED" <=> topic = "refund.succeeded"
        BY <2>2, <3>2 DEF RecordRefundResult
      <4>2. refund'[r].status = status
        BY <2>2, <4>1 DEF ServiceInv, RefundInv, RefundRow
      <4> QED
        BY <4>1, <4>2
    <3> QED
      BY <2>1, <3>1, <3>2
  <2> QED
    BY <1>0, <2>2, <2>3, <2>4, RefundEventTrue
<1>7. outbox' # outbox
  OBVIOUS
<1> QED
  BY <1>4, <1>5, <1>6, <1>7 DEF Next, Internal, Stripe, CardAnswer, CancelIntent, CardAttempt, SetIntent,
     StripeRefundSettles, HandleRequest, HandleRefund, RefuseRefund, vars

\* Every event of the outbox is true, as long as it is there.
LEMMA EventsAlways == Spec => []EventsInv
<1>1. Init => EventsInv
  BY DEF Init, EventsInv
<1>2. ServiceInv /\ EventsInv /\ [Next]_vars => EventsInv'
  <2> SUFFICES ASSUME ServiceInv, EventsInv, [Next]_vars, NEW e \in outbox' PROVE EventTrue(e)'
    BY DEF EventsInv
  <2>1. CASE e \in outbox
    BY <2>1, StepService, EventStaysTrue DEF EventsInv
  <2>2. CASE e \notin outbox
    BY <2>2, NewEventsAreTrue
  <2> QED
    BY <2>1, <2>2
<1> QED
  BY <1>1, <1>2, ServiceAlways, PTL DEF Spec

\* What the service does on its own: it neither takes in a request nor refuses
\* one, and no refund that it has accepted turns out to be a mistake.
OnItsOwn ==
  /\ \A p \in PaymentIds : payment'[p].request = payment[p].request
  /\ \A r \in RefundIds : refund'[r].payment = refund[r].payment
  /\ \A r \in RefundIds : refund[r].payment = None => refund'[r] = refund[r]
  /\ dlq' = dlq

\* The simulated provider never finds another refund of the payment.
LEMMA SimulatedRefundFits ==
  ASSUME ServiceInv, NEW c \in RefundConsumers, RefundSimulated(c)
  PROVE  UNCHANGED dlq
<1> PICK r \in RefundIds : r = InHand(c) /\ refund[r].payment # None
  BY DEF ServiceInv, RefundInv, RefundConsumerInv, RefundSimulated
<1> PICK p \in PaymentIds : p = refund[r].payment
  BY RefundedPayment
<1>1. LedgerRefund(r) /\ UNCHANGED refund
  BY DEF RefundSimulated
<1>2. \E e \in ledger' : e.operation = "REFUND" /\ e.payment = p /\ e.key = r
  <2>1. CASE LedgerRows("REFUND", p) = {}
    <3>1. PICK e \in ledger' : e = [operation |-> "REFUND", key |-> r, payment |-> p, approved |-> TRUE]
      BY <1>1, <2>1 DEF LedgerRefund, LedgerInsert
    <3> QED
      BY <3>1
  <2>2. CASE LedgerRows("REFUND", p) # {}
    <3>1. PICK e \in ledger : e.operation = "REFUND" /\ e.payment = p
      BY <2>2 DEF LedgerRows
    <3>2. e.key \in RefundIds /\ refund[e.key].payment = p
      BY <3>1 DEF ServiceInv, RefundInv, BookedInv, Refunds
    <3>3. e.key = r
      BY <3>2, ConstantsAssumption DEF ServiceInv, RefundInv, OneRefundPerPayment
    <3>4. ledger' = ledger
      BY <1>1, <2>2 DEF LedgerRefund, LedgerInsert
    <3> QED
      BY <3>1, <3>3, <3>4
  <2> QED
    BY <2>1, <2>2
<1> QED
  BY <1>2 DEF RefundSimulated

\* A recorded outcome is never contradicted by a later answer of the provider.
LEMMA RefundAnswersAgree ==
  ASSUME ServiceInv, NEW c \in RefundConsumers, RecordRefundResult(c)
  PROVE  UNCHANGED dlq
<1> PICK r \in RefundIds : r = InHand(c) /\ refund[r].payment # None
  BY DEF ServiceInv, RefundInv, RefundConsumerInv, RecordRefundResult
<1>1. /\ refundConsumer[c].approved \in BOOLEAN /\ Returned(r, refundConsumer[c].approved)
      /\ refund[r].status = "SUCCEEDED" => Returned(r, TRUE)
      /\ refund[r].status = "FAILED" => Returned(r, FALSE)
  BY DEF ServiceInv, RefundInv, RefundConsumerInv, RefundConsumerState, RowOfRefund, RecordRefundResult
<1>2. ~(Returned(r, TRUE) /\ Returned(r, FALSE))
  BY DEF Returned
<1>3. refund[r].status \notin Terminal \ {IF refundConsumer[c].approved THEN "SUCCEEDED" ELSE "FAILED"}
  <2>1. CASE refundConsumer[c].approved = TRUE
    BY <1>1, <1>2, <2>1 DEF Terminal
  <2>2. CASE refundConsumer[c].approved = FALSE
    BY <1>1, <1>2, <2>2 DEF Terminal
  <2> QED
    BY <1>1, <2>1, <2>2
<1> QED
  BY <1>3 DEF RecordRefundResult

\* Consumers and settlers only finish what a request has begun.
LEMMA InternalIsOnItsOwn == ServiceInv /\ Internal => OnItsOwn
<1> SUFFICES ASSUME ServiceInv, Internal PROVE OnItsOwn
  OBVIOUS
<1>0. payment \in [PaymentIds -> PaymentRow] /\ refund \in [RefundIds -> RefundRow]
  BY DEF ServiceInv, ChargeInv, RefundInv
<1>1. ASSUME UNCHANGED <<payment, refundVars>> PROVE OnItsOwn
  BY <1>1 DEF OnItsOwn, refundVars
<1>2. ASSUME NEW p \in PaymentIds, UNCHANGED refundVars,
             \/ RecordPaymentResult(p, "SUCCEEDED", "payment.succeeded")
             \/ RecordPaymentResult(p, "FAILED", "payment.failed")
             \/ \E reason : RecordPaymentUnresolved(p, reason)
      PROVE  OnItsOwn
  BY <1>0, <1>2 DEF OnItsOwn, refundVars, RecordPaymentResult, RecordPaymentUnresolved, PaymentRow
<1>3. ASSUME NEW c \in Consumers, ChargeStep(c) PROVE OnItsOwn
  <2>1. CASE RecordResult(c) \/ ReportUnresolved(c)
    <3>1. Held(c) \in PaymentIds
      BY <2>1 DEF RecordResult, ReportUnresolved, ServiceInv, ChargeInv, ConsumerInv
    <3> QED
      BY <1>2, <2>1, <3>1 DEF RecordResult, ReportUnresolved
  <2>2. CASE ChargeSimulated(c) \/ AwaitStripe(c) \/ ChargeError(c) \/ Crash(c)
    BY <1>1, <2>2 DEF ChargeSimulated, AwaitStripe, ChargeError, Crash
  <2> QED
    BY <1>3, <2>1, <2>2 DEF ChargeStep
<1>4. ASSUME NEW s \in Settlers, SettlerStep(s) PROVE OnItsOwn
  <2>1. CASE Settle(s)
    <3>1. settler[s].payment \in PaymentIds
      BY <2>1 DEF Settle, ServiceInv, ChargeInv, SettlerInv
    <3> QED
      BY <1>1, <1>2, <2>1, <3>1 DEF Settle
  <2>2. CASE SettlerCrash(s) \/ \E p \in PaymentIds : FetchIntent(s, p)
    BY <1>1, <2>2 DEF SettlerCrash, FetchIntent, chargeVars
  <2> QED
    BY <1>4, <2>1, <2>2 DEF SettlerStep
<1>5. ASSUME Stripe PROVE OnItsOwn
  BY <1>5 DEF OnItsOwn, Stripe, CardAnswer, CancelIntent, CardAttempt, SetIntent, StripeRefundSettles,
     chargeVars, refundVars
<1>6. ASSUME NEW c \in RefundConsumers, RefundStep(c) PROVE OnItsOwn
  <2>1. CASE RefundSimulated(c) \/ RefundStripe(c) \/ RefundError(c) \/ RefundCrash(c)
    BY <2>1, SimulatedRefundFits DEF OnItsOwn, RefundSimulated, RefundStripe, RefundError, RefundCrash, chargeVars
  <2>2. CASE ReportRefundUnresolved(c) \/ RecordRefundResult(c)
    <3> PICK r \in RefundIds : r = InHand(c) /\ refund[r].payment # None
      BY <2>2 DEF ServiceInv, RefundInv, RefundConsumerInv, ReportRefundUnresolved, RecordRefundResult
    <3>1. UNCHANGED <<payment, dlq>>
      BY <2>2, RefundAnswersAgree DEF ReportRefundUnresolved, RecordRefundResult, chargeVars
    <3>2. \/ UNCHANGED refund
          \/ refund' = [refund EXCEPT ![r].notified = TRUE]
          \/ \E status : refund' = [refund EXCEPT ![r].status = status]
      BY <2>2 DEF ReportRefundUnresolved, RecordRefundResult
    <3> QED
      BY <1>0, <3>1, <3>2 DEF OnItsOwn, RefundRow
  <2> QED
    BY <1>6, <2>1, <2>2 DEF RefundStep
<1> QED
  BY <1>3, <1>4, <1>5, <1>6 DEF Internal

\* The rows of a refund that is not claimed are empty.
FreshRefunds == \A r \in RefundIds : refund[r].payment = None => refund[r] = NoRefund

\* Only a request fills the row of a refund.
LEMMA FreshStaysFresh == ServiceInv /\ FreshRefunds /\ [Next]_vars => FreshRefunds'
<1> SUFFICES ASSUME ServiceInv, FreshRefunds, [Next]_vars, NEW r \in RefundIds, refund'[r].payment = None
             PROVE  refund'[r] = NoRefund
  BY DEF FreshRefunds
<1>1. refund[r].payment = None /\ refund[r] = NoRefund
  BY StepService DEF RefundsSteady, FreshRefunds
<1>2. CASE Internal
  BY <1>1, <1>2, InternalIsOnItsOwn DEF OnItsOwn
<1>3. ASSUME NEW c \in RefundConsumers, NEW m \in RefundRequest, HandleRefund(c, m) \/ RefuseRefund(c, m)
      PROVE  refund'[r] = refund[r]
  <2>1. m.payment # None
    BY ConstantsAssumption DEF RefundRequest
  <2>2. CASE HandleRefund(c, m)
    BY <2>1, <2>2 DEF HandleRefund, ServiceInv, RefundInv, RefundRow, RefundRequest
  <2>3. CASE RefuseRefund(c, m)
    BY <2>3 DEF RefuseRefund
  <2> QED
    BY <1>3, <2>2, <2>3
<1>4. ASSUME NEW c \in Consumers, NEW o \in Orders, HandleRequest(c, o) PROVE refund'[r] = refund[r]
  BY <1>4 DEF HandleRequest, refundVars
<1>5. UNCHANGED vars => refund'[r] = refund[r]
  BY DEF vars, refundVars
<1> QED
  BY <1>1, <1>2, <1>3, <1>4, <1>5 DEF Next

\* The row of an unclaimed refund is always empty.
LEMMA FreshAlways == Spec => []FreshRefunds
<1>1. Init => FreshRefunds
  BY DEF Init, FreshRefunds
<1> QED
  BY <1>1, FreshStaysFresh, ServiceAlways, PTL DEF Spec

\* The provider's books, as a whole and but for one payment.
BooksStand ==
  /\ \A p \in PaymentIds : Charged(p)' <=> Charged(p)
  /\ \A r \in RefundIds, p \in PaymentIds : GivenBack(r, p)' <=> GivenBack(r, p)
MayCharge(q) ==
  /\ payment[q].request # None
  /\ Charged(q) => Charged(q)'
  /\ \A p \in PaymentIds \ {q} : Charged(p)' <=> Charged(p)
  /\ \A r \in RefundIds, p \in PaymentIds : GivenBack(r, p)' <=> GivenBack(r, p)
MayReturn(s, q) ==
  /\ refund[s].payment = q
  /\ GivenBack(s, q) => GivenBack(s, q)'
  /\ \A p \in PaymentIds : Charged(p)' <=> Charged(p)
  /\ \A r \in RefundIds, p \in PaymentIds : r # s \/ p # q => (GivenBack(r, p)' <=> GivenBack(r, p))

\* The provider moves the money of one payment at a time, in one direction.
OneMove ==
  \/ BooksStand
  \/ \E q \in PaymentIds : MayCharge(q)
  \/ \E s \in RefundIds, q \in PaymentIds : MayReturn(s, q)

\* A charge and a return are final.
LEMMA MoneyStays ==
  ASSUME ServiceInv, Steady, RefundsSteady
  PROVE  /\ \A p \in PaymentIds : Charged(p) => Charged(p)'
         /\ \A r \in RefundIds, p \in PaymentIds : GivenBack(r, p) => GivenBack(r, p)'
<1>1. ASSUME NEW p \in PaymentIds, Charged(p) PROVE Charged(p)'
  <2>1. CASE intent[p].state = "succeeded"
    BY <2>1 DEF Steady, Final, Charged
  <2>2. CASE \E e \in ledger : e.operation = "CHARGE" /\ e.payment = p /\ e.approved
    BY <2>2 DEF Steady, Charges, Charged
  <2> QED
    BY <1>1, <2>1, <2>2 DEF Charged
<1>2. ASSUME NEW r \in RefundIds, NEW p \in PaymentIds, GivenBack(r, p) PROVE GivenBack(r, p)'
  <2> DEFINE row == [operation |-> "REFUND", key |-> r, payment |-> p, approved |-> TRUE]
  <2>1. row.operation = "REFUND"
    OBVIOUS
  <2> HIDE DEF row
  <2>2. row \in ledger => row \in ledger'
    BY <2>1 DEF RefundsSteady, Refunds
  <2>3. refund[r].payment = p
    BY <1>2, GivenBackIsReturned
  <2>4. refund'[r].payment = p /\ (stripeRefund[r] = "succeeded" => stripeRefund'[r] = "succeeded")
    BY <2>3, ConstantsAssumption DEF RefundsSteady
  <2> QED
    BY <1>2, <2>2, <2>4 DEF GivenBack, row
<1> QED
  BY <1>1, <1>2

\* The two providers' states with which the books move.
LEMMA BooksStandStill ==
  ASSUME ServiceInv, RefundsSteady, UNCHANGED <<ledger, intent, stripeRefund>>
  PROVE  BooksStand
<1>1. ASSUME NEW r \in RefundIds, stripeRefund[r] = "succeeded"
      PROVE  refund'[r].payment = refund[r].payment
  BY <1>1 DEF ServiceInv, RefundInv, RowOfRefund, RefundsSteady
<1> QED
  BY <1>1 DEF BooksStand, Charged, GivenBack

\* A change of one intent can only be a charge of its payment.
LEMMA IntentMoves ==
  ASSUME ServiceInv, Steady, RefundsSteady, NEW q \in PaymentIds, payment[q].request # None,
         UNCHANGED <<ledger, stripeRefund, refund>>,
         \A p \in PaymentIds \ {q} : intent'[p] = intent[p]
  PROVE  MayCharge(q)
BY MoneyStays DEF MayCharge, Charged, GivenBack

\* A new row of a charge in the ledger, too.
LEMMA LedgerCharges ==
  ASSUME ServiceInv, Steady, RefundsSteady, NEW q \in PaymentIds, payment[q].request # None,
         NEW approved, LedgerInsert("CHARGE", q, q, approved), UNCHANGED <<intent, stripeRefund, refund>>
  PROVE  MayCharge(q)
<1> DEFINE new == [operation |-> "CHARGE", key |-> q, payment |-> q, approved |-> approved]
<1>1. new.operation = "CHARGE" /\ new.payment = q
  OBVIOUS
<1>2. \A r, p : [operation |-> "REFUND", key |-> r, payment |-> p, approved |-> TRUE] # new
  OBVIOUS
<1>3. ledger' = ledger \/ ledger' = ledger \cup {new}
  BY DEF LedgerInsert
<1> HIDE DEF new
<1>4. \A p \in PaymentIds \ {q} : Charged(p)' <=> Charged(p)
  BY <1>1, <1>3 DEF Charged
<1>5. \A r \in RefundIds, p \in PaymentIds : GivenBack(r, p)' <=> GivenBack(r, p)
  BY <1>2, <1>3 DEF GivenBack
<1> QED
  BY <1>4, <1>5, MoneyStays DEF MayCharge

\* A new row of a refund in the ledger returns the money of its payment.
LEMMA LedgerReturns ==
  ASSUME ServiceInv, Steady, RefundsSteady, NEW s \in RefundIds, NEW q \in PaymentIds, refund[s].payment = q,
         LedgerRefund(s), UNCHANGED <<intent, stripeRefund, refund>>
  PROVE  MayReturn(s, q)
<1> DEFINE new == [operation |-> "REFUND", key |-> s, payment |-> q, approved |-> TRUE]
<1>1. new.operation = "REFUND"
  OBVIOUS
<1>2. \A r, p : r # s \/ p # q =>
        [operation |-> "REFUND", key |-> r, payment |-> p, approved |-> TRUE] # new
  <2> SUFFICES ASSUME NEW r, NEW p, r # s \/ p # q
               PROVE  [operation |-> "REFUND", key |-> r, payment |-> p, approved |-> TRUE] # new
    OBVIOUS
  <2>1. /\ new.key = s /\ new.payment = q
        /\ [operation |-> "REFUND", key |-> r, payment |-> p, approved |-> TRUE].key = r
        /\ [operation |-> "REFUND", key |-> r, payment |-> p, approved |-> TRUE].payment = p
    OBVIOUS
  <2> QED
    BY <2>1
<1>3. ledger' = ledger \/ ledger' = ledger \cup {new}
  BY DEF LedgerRefund, LedgerInsert
<1> HIDE DEF new
<1>4. \A p \in PaymentIds : Charged(p)' <=> Charged(p)
  BY <1>1, <1>3 DEF Charged
<1>5. \A r \in RefundIds, p \in PaymentIds : r # s \/ p # q => (GivenBack(r, p)' <=> GivenBack(r, p))
  BY <1>2, <1>3 DEF GivenBack
<1> QED
  BY <1>4, <1>5, MoneyStays DEF MayReturn

\* So does a refund that moves at Stripe.
LEMMA StripeReturns ==
  ASSUME ServiceInv, Steady, RefundsSteady, NEW s \in RefundIds, NEW q \in PaymentIds, refund[s].payment = q,
         UNCHANGED <<ledger, intent, refund>>, \A r \in RefundIds \ {s} : stripeRefund'[r] = stripeRefund[r]
  PROVE  MayReturn(s, q)
BY MoneyStays DEF MayReturn, Charged, GivenBack

\* Every step of the service or of a provider moves the money of one payment at most.
LEMMA StepMovesOne == ServiceInv /\ [Next]_vars => OneMove
<1> SUFFICES ASSUME ServiceInv, [Next]_vars PROVE OneMove
  OBVIOUS
<1>0. Steady /\ RefundsSteady
  BY StepService
<1>1. ASSUME UNCHANGED <<ledger, intent, stripeRefund>> PROVE OneMove
  BY <1>0, <1>1, BooksStandStill DEF OneMove
<1>2. ASSUME NEW c \in Consumers, ChargeStep(c) PROVE OneMove
  <2>1. CASE RecordResult(c) \/ ReportUnresolved(c) \/ Crash(c)
    BY <1>1, <2>1 DEF RecordResult, ReportUnresolved, Crash, refundVars
  <2>2. CASE ChargeSimulated(c) \/ AwaitStripe(c) \/ ChargeError(c)
    <3> PICK q \in PaymentIds : q = Held(c) /\ payment[q].request # None
      BY <2>2 DEF ServiceInv, ChargeInv, ConsumerInv, ChargeSimulated, AwaitStripe, ChargeError
    <3>1. UNCHANGED <<stripeRefund, refund>>
      BY <2>2 DEF ChargeSimulated, AwaitStripe, ChargeError, refundVars
    <3>2. \/ UNCHANGED <<ledger, intent>>
          \/ UNCHANGED intent /\ \E approved : LedgerInsert("CHARGE", q, q, approved)
          \/ UNCHANGED ledger /\ CreateIntent(q)
      BY <2>2 DEF ChargeSimulated, AwaitStripe, ChargeError
    <3>3. CreateIntent(q) => \A p \in PaymentIds \ {q} : intent'[p] = intent[p]
      BY DEF CreateIntent, ServiceInv, ChargeInv
    <3> QED
      BY <1>0, <1>1, <3>1, <3>2, <3>3, LedgerCharges, IntentMoves DEF OneMove
  <2> QED
    BY <1>2, <2>1, <2>2 DEF ChargeStep
<1>3. ASSUME NEW c \in Consumers, NEW o \in Orders, HandleRequest(c, o) PROVE OneMove
  BY <1>1, <1>3 DEF HandleRequest, refundVars
<1>4. ASSUME NEW s \in Settlers, SettlerStep(s) PROVE OneMove
  BY <1>1, <1>4 DEF SettlerStep, Settle, SettlerCrash, FetchIntent, chargeVars, refundVars
<1>5. ASSUME NEW q \in PaymentIds, CardAnswer(q) \/ CancelIntent(q) \/ \E a \in Attempts : CardAttempt(q, a)
      PROVE  OneMove
  <2>1. intent[q].state # "none"
    BY <1>5 DEF CardAnswer, CancelIntent, CardAttempt
  <2>2. payment[q].request # None
    BY <2>1, ConstantsAssumption DEF ServiceInv, ChargeInv, IntentInv, IsStripe
  <2>3. UNCHANGED <<ledger, stripeRefund, refund>> /\ \A p \in PaymentIds \ {q} : intent'[p] = intent[p]
    BY <1>5 DEF CardAnswer, CancelIntent, CardAttempt, SetIntent, refundVars, ServiceInv, ChargeInv
  <2> QED
    BY <1>0, <2>2, <2>3, IntentMoves DEF OneMove
<1>6. ASSUME NEW s \in RefundIds, NEW q \in PaymentIds, refund[s].payment = q,
             UNCHANGED <<intent, refund>>,
             \/ LedgerRefund(s) /\ UNCHANGED stripeRefund
             \/ UNCHANGED ledger /\ \A r \in RefundIds \ {s} : stripeRefund'[r] = stripeRefund[r]
      PROVE  OneMove
  BY <1>0, <1>6, LedgerReturns, StripeReturns DEF OneMove
<1>7. ASSUME NEW s \in RefundIds, StripeRefundSettles(s) PROVE OneMove
  <2>1. refund[s].payment # None
    BY <1>7 DEF StripeRefundSettles, ServiceInv, RefundInv, RowOfRefund
  <2>2. refund[s].payment \in PaymentIds
    BY <2>1, RefundedPayment
  <2>3. UNCHANGED <<intent, refund, ledger>> /\ \A r \in RefundIds \ {s} : stripeRefund'[r] = stripeRefund[r]
    BY <1>7 DEF StripeRefundSettles, chargeVars, ServiceInv, RefundInv
  <2> QED
    BY <1>6, <2>2, <2>3
<1>8. ASSUME NEW c \in RefundConsumers, RefundStep(c) PROVE OneMove
  <2>1. CASE ReportRefundUnresolved(c) \/ RecordRefundResult(c) \/ RefundCrash(c)
    BY <1>1, <2>1 DEF ReportRefundUnresolved, RecordRefundResult, RefundCrash, chargeVars
  <2>2. CASE RefundSimulated(c) \/ RefundStripe(c) \/ RefundError(c)
    <3> PICK s \in RefundIds : s = InHand(c) /\ refund[s].payment # None
      BY <2>2 DEF ServiceInv, RefundInv, RefundConsumerInv, RefundSimulated, RefundStripe, RefundError
    <3>1. refund[s].payment \in PaymentIds
      BY RefundedPayment
    <3>2. UNCHANGED <<intent, refund>>
      BY <2>2 DEF RefundSimulated, RefundStripe, RefundError, chargeVars
    <3>3. \/ UNCHANGED <<ledger, stripeRefund>>
          \/ LedgerRefund(s) /\ UNCHANGED stripeRefund
          \/ UNCHANGED ledger /\ \E state : stripeRefund' = [stripeRefund EXCEPT ![s] = state]
      BY <2>2 DEF RefundSimulated, RefundStripe, RefundError
    <3>4. (\E state : stripeRefund' = [stripeRefund EXCEPT ![s] = state])
            => \A r \in RefundIds \ {s} : stripeRefund'[r] = stripeRefund[r]
      BY DEF ServiceInv, RefundInv
    <3> QED
      BY <1>1, <1>6, <3>1, <3>2, <3>3, <3>4
  <2> QED
    BY <1>8, <2>1, <2>2 DEF RefundStep
<1>9. ASSUME NEW c \in RefundConsumers, NEW m \in RefundRequest, HandleRefund(c, m) \/ RefuseRefund(c, m)
      PROVE  OneMove
  BY <1>1, <1>9 DEF HandleRefund, RefuseRefund, chargeVars
<1>10. UNCHANGED vars => UNCHANGED <<ledger, intent, stripeRefund>>
  BY DEF vars, chargeVars, refundVars
<1> QED
  BY <1>1, <1>2, <1>3, <1>4, <1>5, <1>7, <1>8, <1>9, <1>10 DEF Next, Internal, Stripe
=============================================================================
