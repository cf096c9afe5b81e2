-------------------------- MODULE MCPaymentService --------------------------
(* Values for checking PaymentService with TLC. *)
EXTENDS PaymentService, TLC

CONSTANTS good, bad, card

MCSymmetry ==
    Permutations(PaymentIds) \cup Permutations(RefundIds) \cup Permutations(Consumers)
        \cup Permutations(RefundConsumers) \cup Permutations(Attempts) \cup Permutations(Settlers)

Requested == {payment[p].request : p \in PaymentIds} \ {None}

\* Bound: all payments of a behaviour are with one provider, and a card payment has one
\* consumer at a time.
OneProvider ==
    \/ Requested \cap StripeOrders = {}
    \/ /\ Requested \subseteq StripeOrders
       /\ Cardinality({c \in Consumers : consumer[c] # Idle}) <= 1
=============================================================================
