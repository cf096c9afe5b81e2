-------------------------- MODULE MCOrderLifecycle --------------------------
(* Values for checking OrderLifecycle with TLC. *)
EXTENDS OrderLifecycle, TLC

CONSTANTS o1, o2

\* o1 fits in either row and takes the first; then o2 fits in none, although
\* the two rows together still hold its quantity.
MCRows == {1, 2}
MCInitialStock == (1 :> 3) @@ (2 :> 2)
MCQty == [o \in Orders |-> IF o = o1 THEN 2 ELSE 3]

MCSymmetry == Permutations(PaymentIds) \cup Permutations(RefundRequestIds)
=============================================================================
