SPECIFICATION Spec
CONSTANTS
  t1 = t1
  u1 = u1
  r1 = r1
  r2 = r2
  g1 = g1
  c1 = c1
  c2 = c2
  p1 = p1
  p2 = p2
  Tabs <- OneTab
  Users <- OneUser
  RequestIds <- TwoRequests
  Proofs <- OneGuest
  GuestCarts <- TwoCarts
  Prices <- TwoPrices
  MaxItems = 2
  MaxCalls = 2
  Faults = TRUE
SYMMETRY Symmetric
INVARIANTS
  TypeOK
  AcceptedIsCharged
  GoodsAreConserved
  UncertainIsRemembered
CHECK_DEADLOCK FALSE
