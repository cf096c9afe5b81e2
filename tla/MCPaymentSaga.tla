---------------------------- MODULE MCPaymentSaga ----------------------------
(* Values for checking PaymentSaga with TLC. *)
EXTENDS PaymentSaga, TLC

CONSTANT o1

MCRows == {1}
MCInitialStock == 1 :> 1
MCQty == [o \in Orders |-> 1]
=============================================================================
