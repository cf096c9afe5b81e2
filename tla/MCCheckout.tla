---------------------------- MODULE MCCheckout ----------------------------
(* Instances of Checkout for TLC.                                           *)
EXTENDS Checkout, TLC

CONSTANTS t1, u1, r1, r2, g1, c1, c2, p1, p2

OneTab == {t1}
OneUser == {u1}
TwoRequests == {r1, r2}
OneGuest == {g1}
TwoCarts == {c1, c2}
TwoPrices == {p1, p2}
Symmetric ==
  Permutations(TwoRequests) \cup Permutations(TwoCarts) \cup Permutations(TwoPrices)
=============================================================================
