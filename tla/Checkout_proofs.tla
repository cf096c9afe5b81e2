--------------------------- MODULE Checkout_proofs ---------------------------
(* Theorems about Checkout, for every value of its constants. *)
EXTENDS Checkout, Sums_proofs, TLAPS

-----------------------------------------------------------------------------
(* The inductive invariant, in parts. *)

CookiesOK == jar \in Jars /\ price \in Prices

\* A cart that does not exist is empty.  That no cart holds more than MaxItems is a
\* consequence of GoodsAreConserved.
CartsOK ==
  /\ carts \in [Carts -> Nat]
  /\ open \subseteq GuestCarts
  /\ IsFiniteSet(open)
  /\ added \in 0 .. MaxItems
  /\ removed \in Nat
  /\ \A c \in GuestCarts \ open : carts[c] = 0

\* An order is its request's, and a request has one order.
OrdersOK ==
  /\ orders \subseteq OrderRows
  /\ IsFiniteSet(orders)
  /\ \A o \in orders : o.owner = o.attempt.scope /\ o.quote = o.attempt.quote
  /\ \A o, p \in orders : o.attempt = p.attempt => o = p

\* A page with a request knows its owner and has recovered, and a page that has
\* recovered has nothing saved but its own request.
TabFits(t, p, S) ==
  /\ \A a, b \in S : a.tab = t /\ (a.scope = b.scope => a = b)
  /\ p.attempt # NoAttempt =>
       p.owner # None /\ p.stage = "ready" /\ p.attempt.tab = t /\ p.attempt.scope = p.owner
  /\ p.owner # None /\ p.stage = "ready" => \A a \in S : a.scope = p.owner => a = p.attempt
TabsOK ==
  /\ saved \in [Tabs -> SUBSET Attempts] /\ page \in [Tabs -> Pages]
  /\ \A t \in Tabs : TabFits(t, page[t], saved[t])

\* The one placement a page waits for is that of its request.
CallsOK ==
  /\ calls \subseteq Calls
  /\ \A c \in calls : c.live = "page" => page[c.attempt.tab].attempt = c.attempt
  /\ \A c, d \in calls :
       c.live = "page" /\ d.live = "page" /\ c.attempt.tab = d.attempt.tab => c = d

\* No UUID is given to two requests.
Requests == KnownAttempts \ {NoAttempt}
IdsOK == \A a, b \in Requests : a.id = b.id => a = b

\* Late calls too are remembered while there is no order: they may still place one.
Remembered(a) == a \in saved[a.tab] \cup refused
MemoryOK ==
  /\ refused \subseteq Attempts
  /\ \A o \in orders : o.status = "pending" => Remembered(o.attempt)
  /\ \A c \in calls : OrdersOf(c.attempt) = {} => Remembered(c.attempt)
  /\ \A c \in calls : c.answer = "refused" => c.attempt \in refused

IInv ==
  CookiesOK /\ CartsOK /\ OrdersOK /\ GoodsAreConserved /\ TabsOK /\ CallsOK /\ IdsOK /\ MemoryOK

-----------------------------------------------------------------------------
(* The constants. *)

\* The placeholders are no attempts, quotes, carts, scopes, requests or tabs.
LEMMA NoneIsNothing ==
  /\ NoAttempt \notin Attempts /\ NoQuote \notin Quotes
  /\ None \notin Scopes /\ None \notin Carts /\ None \notin RequestIds /\ None \notin Tabs
  /\ Users \cap (Proofs \cup GuestCarts) = {}
<1>1. NoAttempt.tab = None /\ NoQuote.items = 0
  BY DEF NoAttempt, NoQuote
<1>2. NoAttempt \notin Attempts
  BY <1>1, CheckoutAssumption DEF Attempts
<1>3. NoQuote \notin Quotes
  BY <1>1, CheckoutAssumption DEF Quotes
<1> QED
  BY <1>2, <1>3, CheckoutAssumption DEF Scopes, Carts

\* What a request holds.
LEMMA AttemptShape ==
  \A a \in Attempts : /\ a.id \in RequestIds /\ a.tab \in Tabs /\ a.scope \in Scopes
                      /\ a.quote \in Quotes /\ a # NoAttempt
BY NoneIsNothing DEF Attempts

-----------------------------------------------------------------------------
(* The goods. *)

Shelved == Total(carts, Users \cup open)
Items == [o \in orders |-> o.quote.items]
Sold == Total(Items, orders)

\* The conservation of goods, in the names used below.
LEMMA Conserved == GoodsAreConserved <=> added = removed + Shelved + Sold
BY DEF GoodsAreConserved, Shelved, Sold, Items

\* The carts that exist are finitely many and hold natural numbers.
LEMMA ShelvesAreFinite ==
  CartsOK => /\ IsFiniteSet(Users \cup open) /\ Users \cup open \subseteq Carts
             /\ \A c \in Users \cup open : carts[c] \in Nat
<1> SUFFICES ASSUME CartsOK
             PROVE  /\ IsFiniteSet(Users \cup open) /\ Users \cup open \subseteq Carts
                    /\ \A c \in Users \cup open : carts[c] \in Nat
  OBVIOUS
<1>1. IsFiniteSet(Users \cup open)
  BY CheckoutAssumption, FS_Union DEF CartsOK
<1>2. Users \cup open \subseteq Carts
  BY DEF CartsOK, Carts
<1> QED
  BY <1>1, <1>2 DEF CartsOK

\* The goods of an order are those of its quote.
LEMMA OrderItems == OrdersOK => \A o \in orders : Items[o] = o.quote.items /\ Items[o] \in Nat
BY CheckoutAssumption DEF OrdersOK, OrderRows, Quotes, Items

\* What is in the carts is a number.
LEMMA ShelvedIsNat == CartsOK => Shelved \in Nat
BY ShelvesAreFinite, TotalIsNat DEF Shelved

\* What is in the orders is a number.
LEMMA SoldIsNat == OrdersOK => Sold \in Nat
<1> SUFFICES ASSUME OrdersOK PROVE Sold \in Nat
  OBVIOUS
<1>1. IsFiniteSet(orders) /\ \A o \in orders : Items[o] \in Nat
  BY OrderItems DEF OrdersOK
<1> QED
  BY <1>1, TotalIsNat DEF Sold

\* Nothing holds more than customers have put into carts.
LEMMA Bounded ==
  ASSUME CartsOK, OrdersOK, GoodsAreConserved
  PROVE  /\ carts \in [Carts -> 0 .. MaxItems]
         /\ removed \in 0 .. MaxItems
<1>1. removed \in Nat /\ Shelved \in Nat /\ Sold \in Nat /\ added = removed + Shelved + Sold
      /\ added \in 0 .. MaxItems /\ MaxItems \in Nat
  BY ShelvedIsNat, SoldIsNat, Conserved, CheckoutAssumption DEF CartsOK
<1>2. ASSUME NEW c \in Carts PROVE carts[c] \in 0 .. MaxItems
  <2>1. CASE c \in Users \cup open
    <3>1. carts[c] <= Shelved /\ carts[c] \in Nat
      BY <2>1, ShelvesAreFinite, TotalCovers DEF Shelved
    <3> QED
      BY <1>1, <3>1
  <2>2. CASE c \notin Users \cup open
    BY <1>1, <2>2 DEF CartsOK, Carts
  <2> QED
    BY <2>1, <2>2
<1>3. carts \in [Carts -> 0 .. MaxItems]
  BY <1>2 DEF CartsOK
<1> QED
  BY <1>1, <1>3

\* One cart that exists is filled or emptied.
LEMMA CartChanges ==
  ASSUME CartsOK, NEW c \in Users \cup open, NEW n \in Nat,
         carts' = [carts EXCEPT ![c] = n], UNCHANGED open
  PROVE  /\ carts' \in [Carts -> Nat] /\ \A d \in GuestCarts \ open : carts'[d] = 0
         /\ Shelved' = Shelved + n - carts[c]
<1>1. c \in Carts /\ carts'[c] = n /\ \A d \in Carts \ {c} : carts'[d] = carts[d]
  BY DEF CartsOK, Carts
<1>2. carts' \in [Carts -> Nat] /\ \A d \in GuestCarts \ open : carts'[d] = 0
  BY CheckoutAssumption DEF CartsOK, Carts
<1>3. IsFiniteSet(Users \cup open) /\ \A d \in Users \cup open : carts[d] \in Int
  BY ShelvesAreFinite
<1>4. \A d \in (Users \cup open) \ {c} : carts'[d] = carts[d]
  BY <1>1 DEF CartsOK, Carts
<1>5. carts'[c] \in Int
  BY <1>1
<1> DEFINE S == Users \cup open
<1>6. PICK e : e = carts'
  OBVIOUS
<1>7. Total(e, S) = Total(carts, S) + (e[c] - carts[c])
  <2>1. /\ IsFiniteSet(S) /\ c \in S /\ \A d \in S : carts[d] \in Int
        /\ e[c] \in Int /\ \A d \in S \ {c} : e[d] = carts[d]
    BY <1>3, <1>4, <1>5, <1>6
  <2> HIDE DEF S
  <2> QED
    BY <2>1, TotalChanges
<1> QED
  BY <1>1, <1>2, <1>6, <1>7 DEF Shelved

\* A guest cart ceases to exist.
LEMMA CartCloses ==
  ASSUME CartsOK, NEW c \in open, carts' = [carts EXCEPT ![c] = 0], open' = open \ {c}
  PROVE  /\ carts' \in [Carts -> Nat] /\ \A d \in GuestCarts \ open' : carts'[d] = 0
         /\ IsFiniteSet(open')
         /\ Shelved' = Shelved - carts[c]
<1> DEFINE S == Users \cup open
<1>1. c \in Carts /\ c \notin Users /\ c \in S /\ carts[c] \in Nat
  BY CheckoutAssumption DEF CartsOK, Carts
<1>2. /\ carts' \in [Carts -> Nat]
      /\ \A d \in GuestCarts \ open' : carts'[d] = 0
      /\ \A d \in S \ {c} : carts'[d] = carts[d]
  BY CheckoutAssumption DEF CartsOK, Carts
<1>3. IsFiniteSet(S) /\ \A d \in S : carts[d] \in Int
  BY ShelvesAreFinite
<1>4. IsFiniteSet(open') /\ IsFiniteSet(S \ {c}) /\ Users \cup open' = S \ {c}
  BY <1>1, <1>3, FS_RemoveElement DEF CartsOK
<1> HIDE DEF S
<1>5. Total(carts, S) = carts[c] + Total(carts, S \ {c}) /\ Total(carts, S \ {c}) \in Int
  BY <1>1, <1>3, <1>4, TotalTakes, TotalIsInt
<1>6. Total(carts', S \ {c}) = Total(carts, S \ {c})
  BY <1>2, <1>4, TotalAgrees
<1>7. Shelved = Total(carts, S) /\ Shelved' = Total(carts', S \ {c})
  BY <1>4 DEF Shelved, S
<1> QED
  BY <1>1, <1>2, <1>4, <1>5, <1>6, <1>7

\* A guest's cart is merged into the customer's.
LEMMA CartMerges ==
  ASSUME CartsOK, NEW c \in open, NEW u \in Users, open' = open \ {c},
         carts' = [carts EXCEPT ![u] = @ + carts[c], ![c] = 0]
  PROVE  /\ carts' \in [Carts -> Nat] /\ \A d \in GuestCarts \ open' : carts'[d] = 0
         /\ IsFiniteSet(open')
         /\ Shelved' = Shelved
<1> DEFINE S == Users \cup open
<1>1. /\ c \in Carts /\ c \notin Users /\ c \in S /\ carts[c] \in Nat
      /\ u \in Carts /\ u \in S \ {c} /\ carts[u] \in Nat
  BY CheckoutAssumption DEF CartsOK, Carts
<1>2. /\ carts' \in [Carts -> Nat]
      /\ \A d \in GuestCarts \ open' : carts'[d] = 0
      /\ \A d \in (S \ {c}) \ {u} : carts'[d] = carts[d]
      /\ carts'[u] = carts[u] + carts[c]
  BY <1>1, CheckoutAssumption DEF CartsOK, Carts
<1>3. IsFiniteSet(S) /\ \A d \in S : carts[d] \in Int
  BY ShelvesAreFinite
<1>4. IsFiniteSet(open') /\ IsFiniteSet(S \ {c})
  BY <1>3, FS_RemoveElement DEF CartsOK
<1>5. Users \cup open' = S \ {c}
  BY <1>1
<1> HIDE DEF S
<1>6. Total(carts, S) = carts[c] + Total(carts, S \ {c}) /\ Total(carts, S \ {c}) \in Int
  BY <1>1, <1>3, <1>4, TotalTakes, TotalIsInt
<1>7. carts'[u] \in Int /\ \A d \in S \ {c} : carts[d] \in Int
  BY <1>1, <1>2, <1>3
<1>8. Total(carts', S \ {c}) = Total(carts, S \ {c}) + (carts'[u] - carts[u])
  <2> DEFINE V == S \ {c}
  <2>1. PICK e : e = carts'
    OBVIOUS
  <2>2. /\ IsFiniteSet(V) /\ u \in V /\ \A d \in V : carts[d] \in Int
        /\ e[u] \in Int /\ \A d \in V \ {u} : e[d] = carts[d]
    BY <1>1, <1>2, <1>4, <1>7, <2>1
  <2> HIDE DEF V
  <2>3. Total(e, V) = Total(carts, V) + (e[u] - carts[u])
    BY <2>2, TotalChanges
  <2> QED
    BY <2>1, <2>3 DEF V
<1>9. Shelved = Total(carts, S) /\ Shelved' = Total(carts', S \ {c})
  BY <1>5 DEF Shelved, S
<1>10. Shelved' = Shelved
  <2>1. carts'[u] - carts[u] = carts[c]
    BY <1>1, <1>2
  <2> QED
    BY <1>1, <1>6, <1>8, <1>9, <2>1
<1> QED
  BY <1>2, <1>4, <1>10

\* A guest's cart begins with its first item.
LEMMA CartStarts ==
  ASSUME CartsOK, NEW c \in GuestCarts \ open, open' = open \cup {c},
         carts' = [carts EXCEPT ![c] = 1]
  PROVE  /\ carts' \in [Carts -> Nat] /\ \A d \in GuestCarts \ open' : carts'[d] = 0
         /\ IsFiniteSet(open')
         /\ Shelved' = Shelved + 1
<1> DEFINE S == Users \cup open
<1>1. c \in Carts /\ c \notin S /\ carts'[c] = 1
  BY CheckoutAssumption DEF CartsOK, Carts
<1>2. /\ carts' \in [Carts -> Nat]
      /\ \A d \in GuestCarts \ open' : carts'[d] = 0
      /\ \A d \in S : carts'[d] = carts[d]
  BY <1>1, CheckoutAssumption DEF CartsOK, Carts
<1>3. IsFiniteSet(S) /\ \A d \in S : carts[d] \in Int
  BY ShelvesAreFinite
<1>4. IsFiniteSet(open') /\ Users \cup open' = S \cup {c}
  BY FS_AddElement DEF CartsOK
<1> HIDE DEF S
<1>5. \A d \in S \cup {c} : carts'[d] \in Int
  BY <1>1, <1>2, <1>3
<1>6. Total(carts', S \cup {c}) = carts'[c] + Total(carts', S)
  BY <1>1, <1>3, <1>5, TotalAdds
<1>7. Total(carts', S) = Total(carts, S) /\ Total(carts, S) \in Int
  BY <1>2, <1>3, TotalAgrees, TotalIsInt
<1>8. Shelved = Total(carts, S) /\ Shelved' = Total(carts', S \cup {c})
  BY <1>4 DEF Shelved, S
<1> QED
  BY <1>1, <1>2, <1>4, <1>6, <1>7, <1>8

-----------------------------------------------------------------------------
(* The orders. *)

\* Ending an order changes neither its goods nor whose it is.
LEMMA OrderSettles ==
  ASSUME OrdersOK, NEW o \in orders, orders' = Settled(o)
  PROVE  /\ OrdersOK' /\ Sold' = Sold
         /\ \A a : OrdersOf(a)' = {} <=> OrdersOf(a) = {}
         /\ \A p \in orders' : p.status = "pending" => p \in orders
<1>1. PICK p \in OrderRows :
        /\ p = [o EXCEPT !.status = "settled"]
        /\ p.attempt = o.attempt /\ p.owner = o.owner /\ p.quote = o.quote
        /\ p.status = "settled"
  <2> DEFINE w == [o EXCEPT !.status = "settled"]
  <2>1. o \in OrderRows
    BY DEF OrdersOK
  <2>2. w \in OrderRows /\ w.attempt = o.attempt /\ w.owner = o.owner /\ w.quote = o.quote
        /\ w.status = "settled"
    BY <2>1 DEF OrderRows
  <2> QED
    BY <2>2
<1> DEFINE R == orders \ {o}
<1>2. orders' = R \cup {p}
  BY <1>1 DEF Settled
<1>3. p \notin R
  BY <1>1 DEF OrdersOK
<1>4. IsFiniteSet(R) /\ IsFiniteSet(orders')
  BY <1>2, FS_RemoveElement, FS_AddElement DEF OrdersOK
<1>5. OrdersOK'
  BY <1>1, <1>2, <1>4 DEF OrdersOK
<1>6. \A x \in orders : Items[x] = x.quote.items /\ Items[x] \in Int
  BY OrderItems
<1>7. PICK e : e = Items'
  OBVIOUS
<1>8. \A x \in R \cup {p} : e[x] = x.quote.items
  BY <1>2, <1>7 DEF Items
<1>9. Total(Items, orders) = Items[o] + Total(Items, R)
  BY <1>6, TotalTakes DEF OrdersOK
<1>10. (\A x \in R : e[x] = Items[x]) /\ (\A x \in R \cup {p} : e[x] \in Int) /\ e[p] = Items[o]
  <2>1. \A x \in R : e[x] = Items[x] /\ e[x] \in Int
    BY <1>6, <1>8
  <2>2. e[p] = Items[o] /\ e[p] \in Int
    <3>1. e[p] = p.quote.items
      BY <1>8
    <3>2. p.quote = o.quote
      BY <1>1
    <3> QED
      BY <1>6, <3>1, <3>2
  <2> QED
    BY <2>1, <2>2
<1>11. Total(e, R \cup {p}) = e[p] + Total(e, R)
  BY <1>3, <1>4, <1>10, TotalAdds
<1>12. Total(e, R) = Total(Items, R)
  BY <1>4, <1>10, TotalAgrees
<1>13. Sold' = Sold
  BY <1>2, <1>7, <1>9, <1>10, <1>11, <1>12 DEF Sold
<1>14. \A a : OrdersOf(a)' = {} <=> OrdersOf(a) = {}
  BY <1>1, <1>2 DEF OrdersOf
<1> QED
  BY <1>1, <1>2, <1>5, <1>13, <1>14

\* A new order of a request that had none.
LEMMA OrderAdded ==
  ASSUME OrdersOK, NEW p \in OrderRows, orders' = orders \cup {p}, OrdersOf(p.attempt) = {},
         p.owner = p.attempt.scope, p.quote = p.attempt.quote
  PROVE  OrdersOK' /\ Sold' = Sold + p.quote.items
<1>1. p \notin orders /\ \A o \in orders : o.attempt # p.attempt
  BY DEF OrdersOf
<1>2. IsFiniteSet(orders) /\ IsFiniteSet(orders')
  BY FS_AddElement DEF OrdersOK
<1>3. OrdersOK'
  BY <1>1, <1>2 DEF OrdersOK
<1>4. \A x \in orders : Items[x] = x.quote.items /\ Items[x] \in Int
  BY OrderItems
<1>5. PICK e : e = Items'
  OBVIOUS
<1>6. \A x \in orders \cup {p} : e[x] = x.quote.items
  BY <1>5 DEF Items
<1>7. p.quote.items \in Int
  BY CheckoutAssumption DEF OrderRows, Quotes
<1>8. (\A x \in orders : e[x] = Items[x]) /\ \A x \in orders \cup {p} : e[x] \in Int
  BY <1>4, <1>6, <1>7
<1>9. Total(e, orders \cup {p}) = e[p] + Total(e, orders)
  BY <1>1, <1>2, <1>8, TotalAdds
<1>10. Total(e, orders) = Total(Items, orders) /\ Total(Items, orders) \in Int
  BY <1>2, <1>4, <1>8, TotalAgrees, TotalIsInt
<1> QED
  BY <1>3, <1>5, <1>6, <1>7, <1>9, <1>10 DEF Sold

\* The order that a request places.
OrderOf(c) ==
  [attempt |-> c.attempt, status |-> "pending", owner |-> Buyer(c), source |-> Source(c),
   quote |-> QuoteOf(Source(c))]

\* A request that is admitted places the order of its own identity, with the quote it
\* names, from a cart that exists.
LEMMA Placement ==
  ASSUME NEW c \in Calls, CartsOK, Places(c)
  PROVE  /\ OrderOf(c) \in OrderRows /\ OrderOf(c).attempt = c.attempt
         /\ OrderOf(c).owner = c.attempt.scope /\ OrderOf(c).quote = c.attempt.quote
         /\ OrdersOf(c.attempt) = {} /\ OrderOf(c).status = "pending"
         /\ Source(c) \in Users \cup open
         /\ OrderOf(c).quote.items = carts[Source(c)]
<1>1. /\ c.attempt.scope = Identity(c.jar)
      /\ OrdersOf(c.attempt) = {}
      /\ Source(c) \in Users \cup open
      /\ QuoteOf(Source(c)) = c.attempt.quote
  BY DEF Places, Answer, Admitted, QuoteHolds
<1>2. /\ c.attempt \in Attempts /\ c.attempt.scope \in Scopes /\ c.attempt.quote \in Quotes
      /\ c.jar \in Jars
  BY AttemptShape DEF Calls
<1>3. Buyer(c) = c.attempt.scope
  BY <1>1, <1>2, NoneIsNothing DEF Buyer, Identity, Jars, Scopes
<1>4. Source(c) \in Carts
  BY <1>1, ShelvesAreFinite
<1>5. OrderOf(c) \in OrderRows
  BY <1>1, <1>2, <1>3, <1>4 DEF OrderOf, OrderRows
<1>6. QuoteOf(Source(c)).items = carts[Source(c)]
  BY <1>1 DEF QuoteOf, Goods
<1> QED
  BY <1>1, <1>3, <1>5, <1>6 DEF OrderOf

-----------------------------------------------------------------------------
(* Every step keeps the books. *)

Books == CartsOK /\ OrdersOK /\ GoodsAreConserved
books == <<carts, open, added, removed, orders>>

\* A step that touches no cart and no order keeps the books.
LEMMA BooksStand == Books /\ UNCHANGED books => Books'
<1> SUFFICES ASSUME Books, UNCHANGED books PROVE Books'
  OBVIOUS
<1>1. CartsOK' /\ OrdersOK'
  BY DEF Books, books, CartsOK, OrdersOK
<1>2. Items' = Items
  BY DEF Items, books
<1>3. Shelved' = Shelved /\ Sold' = Sold
  BY <1>2 DEF Shelved, Sold, books
<1>4. GoodsAreConserved'
  BY <1>3 DEF Books, books, GoodsAreConserved, Shelved, Sold, Items
<1> QED
  BY <1>1, <1>4 DEF Books

\* A step that touches no order.
LEMMA OrdersStand == ASSUME OrdersOK, UNCHANGED orders PROVE OrdersOK' /\ Sold' = Sold
<1>1. Items' = Items
  BY DEF Items
<1> QED
  BY <1>1 DEF OrdersOK, Sold

\* A step that touches no cart.
LEMMA CartsStand ==
  ASSUME CartsOK, UNCHANGED <<carts, open, added, removed>> PROVE CartsOK' /\ Shelved' = Shelved
BY DEF CartsOK, Shelved

\* The conservation after a step, in the same names.
LEMMA ConservedNext ==
  ASSUME added' = removed' + Shelved' + Sold' PROVE GoodsAreConserved'
BY DEF GoodsAreConserved, Shelved, Sold, Items

\* The four amounts are integers, which the arithmetic below needs.
LEMMA Amounts ==
  ASSUME Books
  PROVE  /\ added \in Int /\ removed \in Int /\ Shelved \in Int /\ Sold \in Int
         /\ added = removed + Shelved + Sold
BY ShelvedIsNat, SoldIsNat, Conserved, CheckoutAssumption DEF Books, CartsOK

\* An order takes its goods out of the cart.
LEMMA ExecuteBooks == ASSUME Books, NEW c \in Calls, Execute(c) PROVE Books'
<1>1. CASE ~Places(c)
  BY <1>1, BooksStand DEF Execute, books
<1>2. CASE Places(c)
  <2> DEFINE s == Source(c)
             p == OrderOf(c)
  <2>1. /\ orders' = orders \cup {p} /\ UNCHANGED <<added, removed>>
        /\ carts' = [carts EXCEPT ![s] = 0] /\ open' = open \ {s}
    BY <1>2 DEF Execute, Consumed, OrderOf
  <2>2. CartsOK /\ OrdersOK
    BY DEF Books
  <2>3. p \in OrderRows /\ p.owner = p.attempt.scope /\ p.quote = p.attempt.quote
        /\ OrdersOf(p.attempt) = {} /\ s \in Users \cup open /\ p.quote.items = carts[s]
    BY <1>2, <2>2, Placement
  <2> HIDE DEF s, p
  <2>4. OrdersOK' /\ Sold' = Sold + carts[s]
    BY <2>1, <2>2, <2>3, OrderAdded
  <2>5. carts[s] \in Int
    BY <2>2, <2>3, ShelvesAreFinite
  <2>6. CartsOK' /\ Shelved' = Shelved - carts[s]
    <3>1. CASE s \in Users
      <4>1. UNCHANGED open
        BY <2>1, <2>2, <3>1, CheckoutAssumption DEF CartsOK
      <4>2. /\ carts' \in [Carts -> Nat] /\ \A d \in GuestCarts \ open : carts'[d] = 0
            /\ Shelved' = Shelved + 0 - carts[s]
        BY <2>1, <2>2, <2>3, <4>1, CartChanges
      <4> QED
        BY <2>1, <2>2, <2>5, <4>1, <4>2, Amounts DEF CartsOK
    <3>2. CASE s \in open
      <4>1. /\ carts' \in [Carts -> Nat] /\ \A d \in GuestCarts \ open' : carts'[d] = 0
            /\ IsFiniteSet(open') /\ Shelved' = Shelved - carts[s]
        BY <2>1, <2>2, <3>2, CartCloses
      <4> QED
        BY <2>1, <2>2, <4>1 DEF CartsOK
    <3> QED
      BY <2>3, <3>1, <3>2
  <2>7. added' = removed' + Shelved' + Sold'
    BY <2>1, <2>4, <2>5, <2>6, Amounts
  <2> QED
    BY <2>4, <2>6, <2>7, ConservedNext DEF Books
<1> QED
  BY <1>1, <1>2

\* Paying or cancelling an order changes its status and sells nothing.
LEMMA SettleBooks ==
  ASSUME Books, NEW o \in orders, orders' = Settled(o), UNCHANGED <<carts, open, added, removed>>
  PROVE  Books'
<1>1. OrdersOK' /\ Sold' = Sold
  BY OrderSettles DEF Books
<1>2. CartsOK' /\ Shelved' = Shelved
  BY CartsStand DEF Books
<1>3. added' = removed' + Shelved' + Sold'
  BY <1>1, <1>2, Amounts
<1> QED
  BY <1>1, <1>2, <1>3, ConservedNext DEF Books

\* Goods are put into the customer's cart, a guest's, or a new one.
LEMMA AddBooks == ASSUME CookiesOK, Books, AddToCart PROVE Books'
<1>1. /\ added < MaxItems /\ added' = added + 1 /\ UNCHANGED <<removed, orders>>
      /\ CartsOK /\ OrdersOK
  BY DEF AddToCart, Books
<1>2. OrdersOK' /\ Sold' = Sold
  BY <1>1, OrdersStand
<1>3. added' \in 0 .. MaxItems
  BY <1>1, CheckoutAssumption DEF CartsOK
<1>4. ASSUME NEW c \in Users \cup open, carts' = [carts EXCEPT ![c] = @ + 1], UNCHANGED open
      PROVE  CartsOK' /\ Shelved' = Shelved + 1
  <2>1. carts[c] \in Nat
    BY <1>1, ShelvesAreFinite
  <2>2. PICK n \in Nat : n = carts[c] + 1
    BY <2>1
  <2>3. carts' = [carts EXCEPT ![c] = n]
    BY <1>4, <2>2
  <2>4. /\ carts' \in [Carts -> Nat] /\ \A d \in GuestCarts \ open : carts'[d] = 0
        /\ Shelved' = Shelved + n - carts[c]
    BY <1>1, <1>4, <2>3, CartChanges
  <2>5. Shelved' = Shelved + 1
    BY <2>1, <2>2, <2>4, Amounts
  <2> QED
    BY <1>1, <1>3, <1>4, <2>4, <2>5 DEF CartsOK
<1>5. ASSUME NEW c \in GuestCarts \ open, open' = open \cup {c}, carts' = [carts EXCEPT ![c] = 1]
      PROVE  CartsOK' /\ Shelved' = Shelved + 1
  BY <1>1, <1>3, <1>5, CartStarts DEF CartsOK
<1>6. CartsOK' /\ Shelved' = Shelved + 1
  <2>1. CASE AddToUserCart
    <3>1. jar.login \in Users /\ carts' = [carts EXCEPT ![jar.login] = @ + 1] /\ UNCHANGED open
      BY <2>1 DEF AddToUserCart, CookiesOK, Jars
    <3> QED
      BY <1>4, <3>1
  <2>2. CASE AddToGuestCart
    <3>1. CASE jar.cart \in open
      BY <1>4, <2>2, <3>1 DEF AddToGuestCart
    <3>2. CASE jar.cart \notin open
      BY <1>5, <2>2, <3>2 DEF AddToGuestCart, FreshCarts
    <3> QED
      BY <3>1, <3>2
  <2> QED
    BY <2>1, <2>2 DEF AddToCart
<1>7. added' = removed' + Shelved' + Sold'
  BY <1>1, <1>2, <1>6, Amounts
<1> QED
  BY <1>2, <1>6, <1>7, ConservedNext DEF Books

\* A cart that has goods exists.
LEMMA FullCart == \A c : Goods(c) > 0 => c \in Users \cup open /\ Goods(c) = carts[c]
BY DEF Goods

\* Taking goods out of a cart moves them to what was taken out.
LEMMA TakeOutBooks == ASSUME Books, TakeOut PROVE Books'
<1>1. PICK c \in Users \cup open : carts[c] > 0 /\ carts' = [carts EXCEPT ![c] = @ - 1]
  BY FullCart DEF TakeOut
<1>2. removed' = removed + 1 /\ UNCHANGED <<open, added, orders>> /\ CartsOK /\ OrdersOK
  BY DEF TakeOut, Books
<1>3. carts[c] \in Nat /\ carts[c] - 1 \in Nat
  BY <1>1, <1>2, ShelvesAreFinite
<1>4. /\ carts' \in [Carts -> Nat] /\ \A d \in GuestCarts \ open : carts'[d] = 0
      /\ Shelved' = Shelved + (carts[c] - 1) - carts[c]
  BY <1>1, <1>2, <1>3, CartChanges
<1>5. OrdersOK' /\ Sold' = Sold
  BY <1>2, OrdersStand
<1>6. CartsOK'
  BY <1>2, <1>4 DEF CartsOK
<1>7. added' = removed' + Shelved' + Sold'
  BY <1>2, <1>3, <1>4, <1>5, Amounts
<1> QED
  BY <1>5, <1>6, <1>7, ConservedNext DEF Books

\* A merge moves the goods of the guest cart to the customer's and closes it, once.
LEMMA MergeBooks == ASSUME CookiesOK, Books, MergeGuestCart PROVE Books'
<1>1. /\ jar.login \in Users /\ jar.cart \in open /\ open' = open \ {jar.cart}
      /\ carts' = [carts EXCEPT ![jar.login] = @ + carts[jar.cart], ![jar.cart] = 0]
  BY FullCart, NoneIsNothing DEF MergeGuestCart, CookiesOK, Jars, Carts
<1>2. UNCHANGED <<added, removed, orders>> /\ CartsOK /\ OrdersOK
  BY DEF MergeGuestCart, Books
<1>3. /\ carts' \in [Carts -> Nat] /\ \A d \in GuestCarts \ open' : carts'[d] = 0
      /\ IsFiniteSet(open') /\ Shelved' = Shelved
  BY <1>1, <1>2, CartMerges
<1>4. OrdersOK' /\ Sold' = Sold
  BY <1>2, OrdersStand
<1>5. CartsOK'
  BY <1>1, <1>2, <1>3 DEF CartsOK
<1>6. added' = removed' + Shelved' + Sold'
  BY <1>2, <1>3, <1>4, Amounts
<1> QED
  BY <1>4, <1>5, <1>6, ConservedNext DEF Books

\* Goods are in a cart or sold after every step.
LEMMA BooksStep == CookiesOK /\ Books /\ calls \subseteq Calls /\ [Next]_vars => Books'
<1> SUFFICES ASSUME CookiesOK, Books, calls \subseteq Calls, [Next]_vars PROVE Books'
  OBVIOUS
<1>1. ASSUME UNCHANGED books PROVE Books'
  BY <1>1, BooksStand
<1>2. ASSUME NEW c \in calls,
             Execute(c) \/ RefuseUnpayable(c) \/ FailRequest(c) \/ Receive(c) \/ TimeOut(c)
      PROVE  Books'
  BY <1>1, <1>2, ExecuteBooks DEF RefuseUnpayable, FailRequest, Receive, TimeOut, books
<1>3. ASSUME NEW o \in orders, Settle(o) PROVE Books'
  BY <1>3, SettleBooks DEF Settle
<1>4. ASSUME NEW t \in Tabs, CancelOrder(t) PROVE Books'
  <2>1. CASE UNCHANGED orders
    BY <1>1, <1>4, <2>1 DEF CancelOrder, books
  <2>2. CASE \E o \in OrdersOf(page[t].attempt) : orders' = Settled(o)
    BY <1>4, <2>2, SettleBooks DEF CancelOrder, OrdersOf
  <2> QED
    BY <1>4, <2>1, <2>2 DEF CancelOrder
<1>5. ASSUME NEW t \in Tabs,
             \/ VerifyIdentity(t) \/ Reload(t) \/ Recover(t) \/ CheckStatus(t) \/ VerifyPayer(t)
             \/ AcceptQuote(t) \/ RenewProof(t) \/ PlaceNew(t) \/ RetrySaved(t)
      PROVE  Books'
  BY <1>1, <1>5 DEF VerifyIdentity, Reload, Recover, CheckStatus, VerifyPayer, AcceptQuote,
     RenewProof, PlaceNew, RetrySaved, Send, books
<1>6. CASE Reprice \/ Logout \/ (\E u \in Users : Login(u)) \/ UNCHANGED vars
  BY <1>1, <1>6 DEF Reprice, Logout, Login, vars, books
<1> QED
  BY <1>2, <1>3, <1>4, <1>5, <1>6, AddBooks, TakeOutBooks, MergeBooks DEF Next

-----------------------------------------------------------------------------
(* Every step keeps the cookies well-typed. *)

\* A cookie only ever holds what the server has issued.
LEMMA CookiesStep ==
  ASSUME CookiesOK, calls \subseteq Calls, [Next]_vars PROVE CookiesOK'
<1> USE DEF CookiesOK
<1>1. ASSUME UNCHANGED <<jar, price>> PROVE CookiesOK'
  BY <1>1
<1>2. ASSUME NEW c \in calls, Execute(c) \/ RefuseUnpayable(c) \/ FailRequest(c) \/ TimeOut(c)
      PROVE  CookiesOK'
  BY <1>2 DEF Execute, RefuseUnpayable, FailRequest, TimeOut
<1>3. ASSUME NEW c \in calls, Receive(c) PROVE CookiesOK'
  <2>1. c.jar.proof \in Proofs \cup {None} /\ jar \in Jars
    BY DEF Calls, Jars
  <2>2. UNCHANGED price
    BY <1>3 DEF Receive
  <2>3. jar' = jar \/ jar' = [jar EXCEPT !.cart = None, !.proof = c.jar.proof]
    BY <1>3 DEF Receive
  <2> QED
    BY <2>1, <2>2, <2>3 DEF Jars
<1>4. ASSUME NEW t \in Tabs, VerifyIdentity(t) PROVE CookiesOK'
  <2>1. PICK scope : /\ jar' = IF jar.login = None THEN [jar EXCEPT !.proof = scope] ELSE jar
                     /\ scope \in IF Identity(jar) # None THEN {Identity(jar)} ELSE FreshProofs
    BY <1>4 DEF VerifyIdentity
  <2>2. jar.login = None => scope \in Proofs
    BY <2>1 DEF Identity, FreshProofs, Jars
  <2>3. UNCHANGED price
    BY <1>4 DEF VerifyIdentity
  <2> QED
    BY <2>1, <2>2, <2>3 DEF Jars
<1>5. ASSUME NEW t \in Tabs,
             \/ Reload(t) \/ Recover(t) \/ CheckStatus(t) \/ VerifyPayer(t)
             \/ CancelOrder(t) \/ AcceptQuote(t) \/ PlaceNew(t) \/ RetrySaved(t)
      PROVE  CookiesOK'
  BY <1>5 DEF Reload, Recover, CheckStatus, VerifyPayer, CancelOrder, AcceptQuote, PlaceNew,
     RetrySaved, Send
<1>6. CASE AddToCart
  <2>1. jar' = jar \/ \E c \in GuestCarts : jar' = [jar EXCEPT !.cart = c]
    BY <1>6 DEF AddToCart, AddToUserCart, AddToGuestCart, FreshCarts
  <2> QED
    BY <1>6, <2>1 DEF AddToCart, Jars
<1>7. CASE MergeGuestCart
  <2>1. jar' = jar \/ jar' = [jar EXCEPT !.cart = None]
    BY <1>7 DEF MergeGuestCart
  <2> QED
    BY <1>7, <2>1 DEF MergeGuestCart, Jars
<1>8. ASSUME NEW u \in Users, Login(u) PROVE CookiesOK'
  <2>1. jar' = [jar EXCEPT !.login = u, !.proof = None] /\ UNCHANGED price
    BY <1>8 DEF Login
  <2> QED
    BY <2>1 DEF Jars
<1>9. CASE Logout
  <2>1. jar' = [jar EXCEPT !.login = None, !.proof = None] /\ UNCHANGED price
    BY <1>9 DEF Logout
  <2> QED
    BY <2>1 DEF Jars
<1>10. CASE Reprice \/ TakeOut \/ (\E o \in orders : Settle(o)) \/ UNCHANGED vars
  BY <1>10 DEF Reprice, TakeOut, Settle, vars
<1>11. ASSUME NEW t \in Tabs, RenewProof(t) PROVE CookiesOK'
  <2>1. jar' = [jar EXCEPT !.proof = page[t].owner] /\ page[t].owner \in Proofs /\ UNCHANGED price
    BY <1>11 DEF RenewProof
  <2> QED
    BY <2>1 DEF Jars
<1> QED
  BY <1>2, <1>3, <1>4, <1>5, <1>6, <1>7, <1>8, <1>9, <1>10, <1>11 DEF Next

-----------------------------------------------------------------------------
(* The tabs, their placements and what is remembered of them: what a step has *)
(* to show of itself.                                                         *)

Front == TabsOK /\ CallsOK /\ IdsOK /\ MemoryOK

\* The requests that something can still come of.
Live == {c.attempt : c \in calls} \cup {o.attempt : o \in {p \in orders : p.status = "pending"}}

\* A request whose order, if it has one, is ended.
Closed(a) == OrdersOf(a) # {} /\ \A o \in OrdersOf(a) : o.status # "pending"

\* Placements proceed: each comes from one with the same request, and none begins to
\* be waited for.
CallsProceed ==
  \A d \in calls' : /\ d \in Calls /\ (d.live = "page" => d \in calls)
                    /\ \E c \in calls : c.attempt = d.attempt /\ c.answer = d.answer

\* Nothing that matters is forgotten of what the server has refused.
RefusedKept == refused' \subseteq Attempts /\ refused \cap Live' \subseteq refused'

\* Noting refused requests forgets none that was noted before.
LEMMA NotedKeeps ==
  ASSUME MemoryOK, NEW A \in SUBSET Attempts, Noted(A)
  PROVE  RefusedKept /\ A \cap Live' \subseteq refused'
<1>1. refused' = (refused \cup A) \cap Live'
  BY DEF Noted, Live
<1> QED
  BY <1>1 DEF MemoryOK, RefusedKept

\* A step that notes nothing forgets nothing.
LEMMA SameKeeps == MemoryOK /\ UNCHANGED refused => RefusedKept
BY DEF MemoryOK, RefusedKept

\* One tab changes.
LEMMA OneTab ==
  ASSUME TabsOK, NEW t \in Tabs, NEW p \in Pages, NEW S \in SUBSET Attempts, TabFits(t, p, S),
         page' = [page EXCEPT ![t] = p], saved' = [saved EXCEPT ![t] = S]
  PROVE  TabsOK'
<1>1. saved' \in [Tabs -> SUBSET Attempts] /\ page' \in [Tabs -> Pages]
  BY DEF TabsOK
<1>2. ASSUME NEW u \in Tabs PROVE TabFits(u, page'[u], saved'[u])
  <2>1. CASE u = t
    BY <2>1 DEF TabsOK
  <2>2. CASE u # t
    BY <2>2 DEF TabsOK
  <2> QED
    BY <2>1, <2>2
<1>3. \A u \in Tabs : TabFits(u, page[u], saved[u])'
  BY <1>2 DEF TabFits
<1> QED
  BY <1>1, <1>3 DEF TabsOK

\* The page before it has loaded.
LEMMA NoPageShape ==
  /\ NoPage \in Pages /\ NoPage.owner = None /\ NoPage.attempt = NoAttempt
  /\ NoPage.stage = "recovering" /\ NoPage.accepted = NoQuote /\ NoPage.shown = FALSE
BY DEF NoPage, Pages

\* Some tabs show no page any more.
LEMMA TabsLeft ==
  ASSUME TabsOK, NEW T, page' = [t \in Tabs |-> IF t \in T THEN NoPage ELSE page[t]],
         UNCHANGED saved
  PROVE  TabsOK'
<1>1. page' \in [Tabs -> Pages] /\ saved' \in [Tabs -> SUBSET Attempts]
  BY NoPageShape DEF TabsOK
<1>2. ASSUME NEW u \in Tabs PROVE TabFits(u, page'[u], saved'[u])
  <2>1. CASE u \in T
    BY <2>1, NoPageShape DEF TabsOK, TabFits
  <2>2. CASE u \notin T
    BY <2>2 DEF TabsOK
  <2> QED
    BY <2>1, <2>2
<1>3. \A u \in Tabs : TabFits(u, page[u], saved[u])'
  BY <1>2 DEF TabFits
<1> QED
  BY <1>1, <1>3 DEF TabsOK

\* A step that changes no page.
LEMMA TabsStand == TabsOK /\ UNCHANGED <<saved, page>> => TabsOK'
BY DEF TabsOK, TabFits

\* Placements proceed, and a page that still waits for one still has its request.
LEMMA CallsKept ==
  ASSUME CallsOK, CallsProceed,
         \A c \in calls' : c.live = "page" => page'[c.attempt.tab].attempt = c.attempt
  PROVE  CallsOK'
BY DEF CallsOK, CallsProceed

\* No request is new.
LEMMA IdsKept ==
  ASSUME IdsOK,
         \A o \in orders' : o.attempt \in Requests,
         \A c \in calls' : c.attempt \in Requests,
         \A t \in Tabs : saved'[t] \subseteq Requests,
         \A t \in Tabs : page'[t].attempt \in Requests \cup {NoAttempt}
  PROVE  IdsOK'
<1>1. Requests' \subseteq Requests
  BY DEF Requests, KnownAttempts
<1> QED
  BY <1>1 DEF IdsOK

\* Every request an order, a call, a tab or a page refers to is a known one.
LEMMA Known ==
  ASSUME OrdersOK, TabsOK, CallsOK
  PROVE  /\ \A o \in orders : o.attempt \in Requests
         /\ \A c \in calls : c.attempt \in Requests
         /\ \A t \in Tabs : saved[t] \subseteq Requests
         /\ \A t \in Tabs : page[t].attempt \in Requests \cup {NoAttempt}
         /\ Requests \subseteq Attempts
<1>1. \A o \in orders : o.attempt \in Attempts
  BY DEF OrdersOK, OrderRows
<1>2. \A c \in calls : c.attempt \in Attempts
  BY DEF CallsOK, Calls
<1>3. \A t \in Tabs : saved[t] \subseteq Attempts
  BY DEF TabsOK
<1>4. \A t \in Tabs : page[t].attempt \in Attempts \cup {NoAttempt}
  BY DEF TabsOK, Pages
<1> QED
  BY <1>1, <1>2, <1>3, <1>4, NoneIsNothing DEF Requests, KnownAttempts

\* What is given up of the storage was refused by the server, or its order is ended.
LEMMA MemoryKept ==
  ASSUME MemoryOK, RefusedKept,
         \A a \in Attempts : a \in saved[a.tab] => a \in saved'[a.tab] \cup refused \/ Closed(a),
         \A a : OrdersOf(a)' = {} => OrdersOf(a) = {},
         \A o \in orders' : o.status = "pending" =>
            /\ o.attempt \in Attempts
            /\ \/ o \in orders
               \/ OrdersOf(o.attempt) = {} /\ \E c \in calls : c.attempt = o.attempt,
         \A d \in calls' :
            /\ d.attempt \in Attempts
            /\ d.attempt \in saved'[d.attempt.tab] \/ \E c \in calls : c.attempt = d.attempt
            /\ d.answer = "refused" =>
                 \/ d.attempt \in refused'
                 \/ \E c \in calls : c.attempt = d.attempt /\ c.answer = "refused"
  PROVE  MemoryOK'
<1>1. \A o \in orders' : o.status = "pending" => o.attempt \in Live'
  BY DEF Live
<1>2. \A d \in calls' : d.attempt \in Live'
  BY DEF Live
<1>3. ASSUME NEW a \in Attempts, Remembered(a), a \in Live', ~Closed(a) PROVE Remembered(a)'
  BY <1>3 DEF Remembered, RefusedKept
<1>4. ASSUME NEW o \in orders', o.status = "pending" PROVE Remembered(o.attempt)'
  <2>1. Remembered(o.attempt)
    BY <1>4 DEF MemoryOK
  <2>2. ~Closed(o.attempt)
    BY <1>4 DEF Closed, OrdersOf
  <2> QED
    BY <1>1, <1>3, <1>4, <2>1, <2>2
<1>5. ASSUME NEW d \in calls', OrdersOf(d.attempt)' = {} PROVE Remembered(d.attempt)'
  <2>1. OrdersOf(d.attempt) = {}
    BY <1>5
  <2>2. ~Closed(d.attempt)
    BY <2>1 DEF Closed
  <2>3. CASE \E c \in calls : c.attempt = d.attempt
    <3>1. Remembered(d.attempt)
      BY <2>1, <2>3 DEF MemoryOK
    <3> QED
      BY <1>2, <1>3, <2>2, <3>1
  <2>4. CASE d.attempt \in saved'[d.attempt.tab]
    BY <2>4 DEF Remembered
  <2> QED
    BY <2>3, <2>4
<1>6. ASSUME NEW d \in calls', d.answer = "refused" PROVE d.attempt \in refused'
  BY <1>2, <1>6 DEF MemoryOK, RefusedKept
<1> QED
  BY <1>4, <1>5, <1>6 DEF MemoryOK, RefusedKept

\* Orders end, and none begins.
OrdersProceed ==
  /\ \A o \in orders' : /\ \E p \in orders : p.attempt = o.attempt
                        /\ o.status = "pending" => o \in orders
  /\ \A a : OrdersOf(a)' = {} => OrdersOf(a) = {}

\* An order that is settled is an order that proceeds.
LEMMA OrdersProceeded ==
  ASSUME OrdersOK, UNCHANGED orders \/ \E o \in orders : orders' = Settled(o)
  PROVE  OrdersProceed
<1>1. CASE UNCHANGED orders
  BY <1>1 DEF OrdersProceed, OrdersOf
<1>2. ASSUME NEW o \in orders, orders' = Settled(o) PROVE OrdersProceed
  <2>1. PICK p : orders' = (orders \ {o}) \cup {p} /\ p.attempt = o.attempt
    <3> DEFINE w == [o EXCEPT !.status = "settled"]
    <3>1. o \in OrderRows
      BY DEF OrdersOK
    <3>2. w.attempt = o.attempt
      BY <3>1 DEF OrderRows
    <3>3. orders' = (orders \ {o}) \cup {w}
      BY <1>2 DEF Settled
    <3> QED
      BY <3>2, <3>3
  <2>2. \A q \in orders' : \E r \in orders : r.attempt = q.attempt
    BY <2>1
  <2> QED
    BY <1>2, <2>2, OrderSettles DEF OrdersProceed
<1> QED
  BY <1>1, <1>2

\* A step that starts neither an order nor a request.
LEMMA FrontKept ==
  ASSUME OrdersOK, Front, OrdersProceed, CallsProceed, RefusedKept, TabsOK',
         \A c \in calls' : c.live = "page" => page'[c.attempt.tab].attempt = c.attempt,
         \A t \in Tabs : saved'[t] \subseteq Requests
                         /\ page'[t].attempt \in Requests \cup {NoAttempt},
         \A a \in Attempts : a \in saved[a.tab] => a \in saved'[a.tab] \cup refused \/ Closed(a)
  PROVE  Front'
<1>1. CallsOK'
  BY CallsKept DEF Front
<1>2. \A o \in orders : o.attempt \in Requests /\ o.attempt \in Attempts
  BY Known DEF Front
<1>3. \A c \in calls : c.attempt \in Requests /\ c.attempt \in Attempts
  BY Known DEF Front
<1>4. IdsOK'
  <2>1. \A o \in orders' : o.attempt \in Requests
    BY <1>2 DEF OrdersProceed
  <2>2. \A c \in calls' : c.attempt \in Requests
    BY <1>3 DEF CallsProceed
  <2> QED
    BY <2>1, <2>2, IdsKept DEF Front
<1>5. MemoryOK'
  <2>1. \A a : OrdersOf(a)' = {} => OrdersOf(a) = {}
    BY DEF OrdersProceed
  <2>2. \A o \in orders' : o.status = "pending" => o.attempt \in Attempts /\ o \in orders
    BY <1>2 DEF OrdersProceed
  <2>3. \A d \in calls' : /\ d.attempt \in Attempts
                          /\ \E c \in calls : c.attempt = d.attempt /\ c.answer = d.answer
    BY <1>3 DEF CallsProceed
  <2> QED
    BY <2>1, <2>2, <2>3, MemoryKept DEF Front
<1> QED
  BY <1>1, <1>4, <1>5 DEF Front

\* The calls of a page that has left: the same calls, waited for by nobody.
LEMMA OrphanedShape ==
  ASSUME NEW C \in SUBSET Calls, NEW T
  PROVE  \A d \in Orphaned(C, T) :
           /\ d \in Calls /\ (d.live = "page" => d \in C /\ d.attempt.tab \notin T)
           /\ \E c \in C : c.attempt = d.attempt /\ c.answer = d.answer
<1> SUFFICES ASSUME NEW c \in C, NEW d,
                    d = IF c.attempt.tab \in T /\ c.live = "page"
                        THEN [c EXCEPT !.live = "orphan"] ELSE c
             PROVE  /\ d \in Calls /\ (d.live = "page" => d \in C /\ d.attempt.tab \notin T)
                    /\ c.attempt = d.attempt /\ c.answer = d.answer
  BY DEF Orphaned
<1>1. CASE d = c /\ ~(c.attempt.tab \in T /\ c.live = "page")
  BY <1>1
<1>2. CASE d = [c EXCEPT !.live = "orphan"]
  BY <1>2 DEF Calls
<1> QED
  BY <1>1, <1>2

\* Calls that were given up: the same calls, executed late or never.
LEMMA LateShape ==
  ASSUME NEW C \in SUBSET Calls
  PROVE  \A d \in Late(C) :
           d \in Calls /\ d.live = "late" /\ \E c \in C : c.attempt = d.attempt /\ c.answer = d.answer
<1> SUFFICES ASSUME NEW c \in C, NEW d, d = [c EXCEPT !.live = "late"]
             PROVE  d \in Calls /\ d.live = "late" /\ c.attempt = d.attempt /\ c.answer = d.answer
  BY DEF Late
<1> QED
  BY DEF Calls

\* Some placements end, the others go on as they are.
LEMMA SomeProceed == ASSUME CallsOK, calls' \subseteq calls PROVE CallsProceed
BY DEF CallsOK, CallsProceed

\* What every step finds.
LEMMA FrontFacts ==
  ASSUME OrdersOK, Front
  PROVE  /\ TabsOK /\ CallsOK /\ MemoryOK /\ calls \in SUBSET Calls
         /\ saved \in [Tabs -> SUBSET Attempts] /\ page \in [Tabs -> Pages]
         /\ \A t \in Tabs : TabFits(t, page[t], saved[t])
         /\ \A t \in Tabs : /\ saved[t] \subseteq Requests
                            /\ page[t].attempt \in Requests \cup {NoAttempt}
         /\ \A o \in orders : o.attempt \in Requests
         /\ \A c \in calls : c.live = "page" => page[c.attempt.tab].attempt = c.attempt
         /\ \A c \in calls : c.attempt \in Attempts /\ c.attempt.tab \in Tabs
<1>1. TabsOK /\ CallsOK /\ MemoryOK
  BY DEF Front
<1>2. calls \in SUBSET Calls /\ \A c \in calls : c.live = "page" => page[c.attempt.tab].attempt = c.attempt
  BY <1>1 DEF CallsOK
<1>3. /\ saved \in [Tabs -> SUBSET Attempts] /\ page \in [Tabs -> Pages]
      /\ \A t \in Tabs : TabFits(t, page[t], saved[t])
  BY <1>1 DEF TabsOK
<1>4. \A c \in calls : c.attempt \in Attempts
  BY <1>2 DEF Calls
<1> QED
  BY <1>1, <1>2, <1>3, <1>4, Known, AttemptShape

\* The tabs and their placements do not change.
LEMMA FrontStands ==
  ASSUME OrdersOK, Front, OrdersProceed, RefusedKept, UNCHANGED <<saved, page, calls>>
  PROVE  Front'
<1>1. TabsOK' /\ CallsProceed
  BY FrontFacts, TabsStand, SomeProceed
<1>2. /\ \A c \in calls' : c.live = "page" => page'[c.attempt.tab].attempt = c.attempt
      /\ \A t \in Tabs : saved'[t] \subseteq Requests
                         /\ page'[t].attempt \in Requests \cup {NoAttempt}
      /\ \A a \in Attempts : a \in saved[a.tab] => a \in saved'[a.tab]
  BY FrontFacts
<1> QED
  BY <1>1, <1>2, FrontKept

\* Placements proceed while every page and what it saved stays.
LEMMA PagesStand ==
  ASSUME OrdersOK, Front, OrdersProceed, RefusedKept, CallsProceed, UNCHANGED <<saved, page>>
  PROVE  Front'
<1>1. TabsOK'
  BY FrontFacts, TabsStand
<1>2. \A c \in calls' : c.live = "page" => page'[c.attempt.tab].attempt = c.attempt
  BY FrontFacts DEF CallsProceed
<1>3. /\ \A t \in Tabs : saved'[t] \subseteq Requests
                         /\ page'[t].attempt \in Requests \cup {NoAttempt}
      /\ \A a \in Attempts : a \in saved[a.tab] => a \in saved'[a.tab]
  BY FrontFacts
<1> QED
  BY <1>1, <1>2, <1>3, FrontKept

\* One tab changes its page or what it has saved.
LEMMA OneTabFront ==
  ASSUME OrdersOK, Front, OrdersProceed, RefusedKept, CallsProceed,
         NEW t \in Tabs, NEW p \in Pages, NEW S \in SUBSET Requests, TabFits(t, p, S),
         page' = [page EXCEPT ![t] = p], saved' = [saved EXCEPT ![t] = S],
         p.attempt \in Requests \cup {NoAttempt},
         \A c \in calls' : c.live = "page" /\ c.attempt.tab = t => p.attempt = c.attempt,
         \A a \in saved[t] : a \in S \cup refused \/ Closed(a)
  PROVE  Front'
<1>1. S \in SUBSET Attempts
  BY Known DEF Front
<1>2. TabsOK'
  BY <1>1, OneTab, FrontFacts
<1>3. \A u \in Tabs : /\ u # t => page'[u] = page[u] /\ saved'[u] = saved[u]
                      /\ u = t => page'[u] = p /\ saved'[u] = S
  BY FrontFacts
<1>4. ASSUME NEW c \in calls', c.live = "page" PROVE page'[c.attempt.tab].attempt = c.attempt
  <2>1. c \in calls
    BY <1>4 DEF CallsProceed
  <2>2. c.attempt.tab \in Tabs /\ page[c.attempt.tab].attempt = c.attempt
    BY <1>4, <2>1, FrontFacts
  <2> QED
    BY <1>3, <1>4, <2>2
<1>5. \A u \in Tabs : saved'[u] \subseteq Requests /\ page'[u].attempt \in Requests \cup {NoAttempt}
  BY <1>3, FrontFacts
<1>6. \A a \in Attempts : a \in saved[a.tab] => a \in saved'[a.tab] \cup refused \/ Closed(a)
  BY <1>3, AttemptShape
<1> QED
  BY <1>2, <1>4, <1>5, <1>6, FrontKept

\* A tab that shows no page any more.
LEMMA LeftFits == ASSUME NEW t, NEW p, NEW S, TabFits(t, p, S) PROVE TabFits(t, NoPage, S)
BY NoPageShape DEF TabFits

\* Reloading a page leaves its calls behind and its requests saved.
LEMMA ReloadFront == ASSUME OrdersOK, Front, NEW t \in Tabs, Reload(t) PROVE Front'
<1> DEFINE A == {c \in calls : c.attempt.tab # t \/ c.live = "late"}
           B == {c \in calls : c.attempt.tab = t}
<1>1. /\ page' = [page EXCEPT ![t] = NoPage] /\ UNCHANGED <<saved, orders>>
      /\ calls' = A \cup Late(B) /\ Noted({})
  BY DEF Reload
<1>2. A \in SUBSET Calls /\ B \in SUBSET Calls
  BY FrontFacts
<1>3. \A d \in Late(B) : d \in Calls /\ d.live = "late"
                         /\ \E c \in B : c.attempt = d.attempt /\ c.answer = d.answer
  BY <1>2, LateShape
<1>4. CallsProceed
  BY <1>1, <1>2, <1>3 DEF CallsProceed
<1>5. \A c \in calls' : ~(c.live = "page" /\ c.attempt.tab = t)
  BY <1>1, <1>3
<1>6. OrdersProceed /\ RefusedKept
  BY <1>1, OrdersProceeded, NotedKeeps, FrontFacts
<1>7. /\ TabFits(t, NoPage, saved[t]) /\ saved[t] \in SUBSET Requests
      /\ saved' = [saved EXCEPT ![t] = saved[t]]
  BY <1>1, LeftFits, FrontFacts
<1>8. \A a \in saved[t] : a \in saved[t] \cup refused
  OBVIOUS
<1>9. page' = [page EXCEPT ![t] = NoPage]
  BY <1>1
<1> HIDE DEF A, B
<1> QED
  BY <1>4, <1>5, <1>6, <1>7, <1>8, <1>9, OneTabFront, NoPageShape

\* A page that finds out whom it works for.
LEMMA VerifyFront == ASSUME CookiesOK, OrdersOK, Front, NEW t \in Tabs, VerifyIdentity(t) PROVE Front'
<1>1. PICK scope \in Scopes :
        /\ page' = [page EXCEPT ![t] = [NoPage EXCEPT !.owner = scope,
             !.stage = IF Stored(t, scope) = {} THEN "ready" ELSE "recovering"]]
        /\ calls' = Orphaned(calls, {t}) /\ UNCHANGED <<saved, orders, refused>>
  BY DEF VerifyIdentity, CookiesOK, Jars, Identity, FreshProofs, Scopes
<1>2. PICK p : p = [NoPage EXCEPT !.owner = scope,
                      !.stage = IF Stored(t, scope) = {} THEN "ready" ELSE "recovering"]
  OBVIOUS
<1>3. /\ p \in Pages /\ p.owner = scope /\ p.attempt = NoAttempt
      /\ p.stage = "ready" => Stored(t, scope) = {}
  BY <1>2 DEF NoPage, Pages
<1>4. TabFits(t, p, saved[t])
  <2>1. \A a, b \in saved[t] : a.tab = t /\ (a.scope = b.scope => a = b)
    BY FrontFacts DEF TabFits
  <2> QED
    BY <1>3, <2>1 DEF TabFits, Stored
<1>5. \A d \in calls' : /\ d \in Calls /\ (d.live = "page" => d \in calls /\ d.attempt.tab # t)
                        /\ \E c \in calls : c.attempt = d.attempt /\ c.answer = d.answer
  BY <1>1, FrontFacts, OrphanedShape
<1>6. CallsProceed
  BY <1>5 DEF CallsProceed
<1>7. OrdersProceed /\ RefusedKept
  BY <1>1, OrdersProceeded, SameKeeps, FrontFacts
<1>8. saved[t] \in SUBSET Requests /\ saved' = [saved EXCEPT ![t] = saved[t]]
  BY <1>1, FrontFacts
<1>9. page' = [page EXCEPT ![t] = p]
  BY <1>1, <1>2
<1> QED
  BY <1>3, <1>4, <1>5, <1>6, <1>7, <1>8, <1>9, OneTabFront

\* Tabs are told that the identity is another one.
LEMMA InvalidateFront ==
  ASSUME OrdersOK, Front, NEW T, Invalidate(T), UNCHANGED <<saved, orders>>, RefusedKept
  PROVE  Front'
<1>1. /\ page' = [t \in Tabs |-> IF t \in T THEN NoPage ELSE page[t]]
      /\ calls' = Orphaned(calls, T)
  BY DEF Invalidate
<1>2. TabsOK'
  BY <1>1, TabsLeft, FrontFacts
<1>3. \A d \in calls' : /\ d \in Calls /\ (d.live = "page" => d \in calls /\ d.attempt.tab \notin T)
                        /\ \E c \in calls : c.attempt = d.attempt /\ c.answer = d.answer
  BY <1>1, FrontFacts, OrphanedShape
<1>4. CallsProceed
  BY <1>3 DEF CallsProceed
<1>5. \A d \in calls' : d.live = "page" => page'[d.attempt.tab].attempt = d.attempt
  BY <1>1, <1>3, FrontFacts
<1>6. \A u \in Tabs : saved'[u] \subseteq Requests /\ page'[u].attempt \in Requests \cup {NoAttempt}
  BY <1>1, FrontFacts, NoPageShape
<1>7. OrdersProceed
  BY OrdersProceeded
<1>8. \A a \in Attempts : a \in saved[a.tab] => a \in saved'[a.tab]
  OBVIOUS
<1> QED
  BY <1>2, <1>4, <1>5, <1>6, <1>7, <1>8, FrontKept

\* Logging out empties the pages.
LEMMA LogoutFront == ASSUME OrdersOK, Front, Logout PROVE Front'
<1>1. UNCHANGED <<saved, orders, refused>> /\ calls' = Orphaned(calls, Tabs)
  BY DEF Logout
<1>2. page' = [t \in Tabs |-> IF t \in Tabs THEN NoPage ELSE page[t]]
  BY DEF Logout
<1>3. Invalidate(Tabs)
  BY <1>1, <1>2 DEF Invalidate
<1>4. RefusedKept
  BY <1>1, SameKeeps, FrontFacts
<1> QED
  BY <1>1, <1>3, <1>4, InvalidateFront

\* The page shows the order of its own request.
LEMMA ShowFront ==
  ASSUME OrdersOK, Front, RefusedKept, CallsProceed, UNCHANGED orders,
         NEW t \in Tabs, NEW o \in orders, ShowOrder(t, o), page[t].owner # None,
         o.attempt.tab = t, o.attempt.scope = page[t].owner,
         \A b \in saved[t] : b.scope = page[t].owner => b = o.attempt,
         \A c \in calls' : ~(c.live = "page" /\ c.attempt.tab = t)
  PROVE  Front'
<1>1. /\ page[t] \in Pages /\ saved[t] \in SUBSET Requests /\ o.attempt \in Requests
      /\ \A a, b \in saved[t] : a.tab = t /\ (a.scope = b.scope => a = b)
      /\ o.attempt \in Attempts /\ o.attempt # NoAttempt
  BY FrontFacts, Known, AttemptShape DEF TabFits, Front
<1>2. OrdersProceed
  BY OrdersProceeded
<1>3. CASE o.status = "settled"
  <2>1. PICK p : p = [NoPage EXCEPT !.owner = page[t].owner, !.stage = "ready"]
    OBVIOUS
  <2>2. p \in Pages /\ p.owner = page[t].owner /\ p.stage = "ready" /\ p.attempt = NoAttempt
    BY <1>1, <2>1 DEF NoPage, Pages
  <2> DEFINE S == saved[t] \ {o.attempt}
  <2>3. TabFits(t, p, S)
    BY <1>1, <2>2 DEF TabFits
  <2>4. page' = [page EXCEPT ![t] = p] /\ saved' = [saved EXCEPT ![t] = S]
    BY <1>3, <2>1 DEF ShowOrder
  <2>5. Closed(o.attempt)
    BY <1>3 DEF Closed, OrdersOf, OrdersOK
  <2>6. \A a \in saved[t] : a \in S \cup refused \/ Closed(a)
    BY <2>5
  <2>7. S \in SUBSET Requests
    BY <1>1
  <2> HIDE DEF S
  <2> QED
    BY <1>2, <2>2, <2>3, <2>4, <2>6, <2>7, OneTabFront
<1>4. CASE o.status # "settled"
  <2>1. PICK p : p = [page[t] EXCEPT !.stage = "ready", !.attempt = o.attempt, !.shown = TRUE]
    OBVIOUS
  <2>2. p \in Pages /\ p.owner = page[t].owner /\ p.stage = "ready" /\ p.attempt = o.attempt
    BY <1>1, <2>1 DEF Pages
  <2> DEFINE S == saved[t]
  <2>3. TabFits(t, p, S)
    BY <1>1, <2>2 DEF TabFits
  <2>4. page' = [page EXCEPT ![t] = p] /\ saved' = [saved EXCEPT ![t] = S]
    <3>1. page' = [page EXCEPT ![t].stage = "ready", ![t].attempt = o.attempt, ![t].shown = TRUE]
          /\ UNCHANGED saved
      BY <1>4 DEF ShowOrder
    <3> QED
      BY <2>1, <3>1, FrontFacts
  <2>5. \A a \in saved[t] : a \in S \cup refused \/ Closed(a)
    OBVIOUS
  <2>6. S \in SUBSET Requests
    BY <1>1
  <2> HIDE DEF S
  <2>7. p.attempt \in Requests
    BY <1>1, <2>2
  <2> QED
    BY <1>2, <2>2, <2>3, <2>4, <2>5, <2>6, <2>7, OneTabFront
<1> QED
  BY <1>3, <1>4

\* Recovering a saved request shows it or forgets what is known to be settled.
LEMMA RecoverFront == ASSUME OrdersOK, Front, NEW t \in Tabs, Recover(t) PROVE Front'
<1>1. PICK a \in Stored(t, page[t].owner) :
        \/ Invalidate({t}) /\ UNCHANGED saved
        \/ UNCHANGED calls /\ \E o \in Visible(a) : ShowOrder(t, o)
        \/ /\ page' = [page EXCEPT ![t].stage = "ready", ![t].attempt = a]
           /\ UNCHANGED <<saved, calls>>
  BY DEF Recover
<1>2. page[t].owner # None /\ page[t].stage = "recovering" /\ UNCHANGED orders /\ Noted({})
  BY DEF Recover
<1>3. /\ a \in saved[t] /\ a.scope = page[t].owner /\ a.tab = t /\ a \in Requests /\ a \in Attempts
      /\ \A b \in saved[t] : b.scope = page[t].owner => b = a
      /\ \A b, c \in saved[t] : b.tab = t /\ (b.scope = c.scope => b = c)
      /\ page[t] \in Pages /\ page[t].attempt = NoAttempt
  BY <1>2, FrontFacts DEF Stored, TabFits
<1>4. RefusedKept /\ OrdersProceed
  BY <1>2, NotedKeeps, OrdersProceeded, FrontFacts
<1>5. CASE Invalidate({t}) /\ UNCHANGED saved
  BY <1>2, <1>4, <1>5, InvalidateFront
<1>6. ASSUME UNCHANGED calls
      PROVE  CallsProceed /\ \A c \in calls' : ~(c.live = "page" /\ c.attempt.tab = t)
  <2>1. CallsProceed
    BY <1>6, SomeProceed, FrontFacts
  <2>2. \A c \in calls : c.attempt \in Attempts /\ (c.live = "page" => page[c.attempt.tab].attempt = c.attempt)
    BY FrontFacts
  <2> QED
    BY <1>3, <1>6, <2>1, <2>2, NoneIsNothing
<1>7. ASSUME UNCHANGED calls, NEW o \in Visible(a), ShowOrder(t, o) PROVE Front'
  <2>1. o \in orders /\ o.attempt = a
    BY DEF Visible, OrdersOf
  <2> QED
    BY <1>2, <1>3, <1>4, <1>6, <1>7, <2>1, ShowFront
<1>8. ASSUME page' = [page EXCEPT ![t].stage = "ready", ![t].attempt = a], UNCHANGED <<saved, calls>>
      PROVE  Front'
  <2>1. PICK p : p = [page[t] EXCEPT !.stage = "ready", !.attempt = a]
    OBVIOUS
  <2>2. p \in Pages /\ p.owner = page[t].owner /\ p.stage = "ready" /\ p.attempt = a
    BY <1>3, <2>1 DEF Pages
  <2>3. TabFits(t, p, saved[t])
    BY <1>2, <1>3, <2>2 DEF TabFits
  <2>4. page' = [page EXCEPT ![t] = p] /\ saved' = [saved EXCEPT ![t] = saved[t]]
    BY <1>8, <2>1, FrontFacts
  <2>5. saved[t] \in SUBSET Requests /\ p.attempt \in Requests
    BY <1>3, <2>2, FrontFacts
  <2>6. CallsProceed /\ \A c \in calls' : ~(c.live = "page" /\ c.attempt.tab = t)
    BY <1>6, <1>8
  <2>7. \A b \in saved[t] : b \in saved[t] \cup refused
    OBVIOUS
  <2> QED
    BY <1>4, <2>2, <2>3, <2>4, <2>5, <2>6, <2>7, OneTabFront
<1> QED
  BY <1>1, <1>5, <1>7, <1>8

\* Checking the status shows the order as it is.
LEMMA CheckFront == ASSUME OrdersOK, Front, NEW t \in Tabs, CheckStatus(t) PROVE Front'
<1> DEFINE a == page[t].attempt
<1>1. /\ page[t].owner # None /\ page[t].stage = "ready" /\ a # NoAttempt
      /\ UNCHANGED orders /\ Noted({})
  BY DEF CheckStatus, Ready
<1>2. RefusedKept
  BY <1>1, NotedKeeps, FrontFacts
<1>3. CASE Invalidate({t}) /\ UNCHANGED saved
  BY <1>1, <1>2, <1>3, InvalidateFront
<1>4. ASSUME NEW o \in Visible(a), ShowOrder(t, o), calls' = Orphaned(calls, {t}) PROVE Front'
  <2>1. o \in orders /\ o.attempt = a
    BY DEF Visible, OrdersOf
  <2>2. /\ a.tab = t /\ a.scope = page[t].owner
        /\ \A b \in saved[t] : b.scope = page[t].owner => b = a
    BY <1>1, FrontFacts DEF TabFits
  <2>3. \A d \in calls' : /\ d \in Calls /\ (d.live = "page" => d \in calls /\ d.attempt.tab # t)
                          /\ \E c \in calls : c.attempt = d.attempt /\ c.answer = d.answer
    BY <1>4, FrontFacts, OrphanedShape
  <2>4. CallsProceed
    BY <2>3 DEF CallsProceed
  <2> QED
    BY <1>1, <1>2, <1>4, <2>1, <2>2, <2>3, <2>4, ShowFront
<1> QED
  BY <1>3, <1>4 DEF CheckStatus

\* A payer who is another one empties the pages.
LEMMA PayFront == ASSUME OrdersOK, Front, NEW t \in Tabs, VerifyPayer(t) PROVE Front'
<1>1. UNCHANGED <<saved, orders>> /\ Noted({}) /\ Invalidate(Tabs)
  BY DEF VerifyPayer
<1>2. RefusedKept
  BY <1>1, NotedKeeps, FrontFacts
<1> QED
  BY <1>1, <1>2, InvalidateFront

\* Cancelling settles the order that is shown.
LEMMA CancelFront == ASSUME OrdersOK, Front, NEW t \in Tabs, CancelOrder(t) PROVE Front'
<1>1. UNCHANGED saved /\ Noted({})
  BY DEF CancelOrder
<1>2. RefusedKept
  BY <1>1, NotedKeeps, FrontFacts
<1>3. CASE Invalidate({t}) /\ UNCHANGED orders
  BY <1>1, <1>2, <1>3, InvalidateFront
<1>4. ASSUME NEW o \in OrdersOf(page[t].attempt), orders' = Settled(o), UNCHANGED <<page, calls>>
      PROVE  Front'
  <2>1. o \in orders
    BY DEF OrdersOf
  <2>2. OrdersProceed
    BY <1>4, <2>1, OrdersProceeded
  <2> QED
    BY <1>1, <1>2, <1>4, <2>2, FrontStands
<1> QED
  BY <1>3, <1>4 DEF CancelOrder

\* The customer ticks the totals of the cart.
Ticks(t) ==
  /\ page' = [page EXCEPT ![t].accepted = QuoteOf(CartOf(jar))] /\ Goods(CartOf(jar)) > 0
  /\ UNCHANGED <<saved, orders, calls>> /\ Noted({})

\* An accepted quote is one of the quotes there can be.
LEMMA QuoteFront == ASSUME CookiesOK, Books, Front, NEW t \in Tabs, Ticks(t) PROVE Front'
<1> DEFINE q == QuoteOf(CartOf(jar))
<1>1. /\ page' = [page EXCEPT ![t].accepted = q] /\ UNCHANGED <<saved, orders, calls>>
      /\ Noted({}) /\ Goods(CartOf(jar)) > 0 /\ OrdersOK
  BY DEF Ticks, Books
<1>2. q \in Quotes
  <2>1. CartOf(jar) \in Users \cup open /\ Goods(CartOf(jar)) = carts[CartOf(jar)]
    BY <1>1, FullCart
  <2>2. carts[CartOf(jar)] \in 0 .. MaxItems
    BY <2>1, Bounded, ShelvesAreFinite DEF Books
  <2>3. Goods(CartOf(jar)) \in 1 .. MaxItems
    BY <1>1, <2>1, <2>2, CheckoutAssumption
  <2> QED
    BY <2>3 DEF QuoteOf, Quotes, CookiesOK
<1> HIDE DEF q
<1>3. PICK p : p = [page[t] EXCEPT !.accepted = q]
  OBVIOUS
<1>4. page[t] \in Pages
  BY <1>1, FrontFacts
<1>5. /\ p \in Pages /\ p.owner = page[t].owner /\ p.stage = page[t].stage
      /\ p.attempt = page[t].attempt
  BY <1>2, <1>3, <1>4 DEF Pages
<1>6. TabFits(t, p, saved[t])
  <2>1. TabFits(t, page[t], saved[t])
    BY <1>1, FrontFacts
  <2> QED
    BY <1>5, <2>1 DEF TabFits
<1>7. page' = [page EXCEPT ![t] = p] /\ saved' = [saved EXCEPT ![t] = saved[t]]
  BY <1>1, <1>3, FrontFacts
<1>8. OrdersProceed /\ RefusedKept /\ CallsProceed
  BY <1>1, OrdersProceeded, NotedKeeps, SomeProceed, FrontFacts
<1>9. \A c \in calls' : c.live = "page" /\ c.attempt.tab = t => p.attempt = c.attempt
  BY <1>1, <1>5, FrontFacts
<1>10. saved[t] \in SUBSET Requests /\ p.attempt \in Requests \cup {NoAttempt}
  BY <1>1, <1>5, FrontFacts
<1>11. \A a \in saved[t] : a \in saved[t] \cup refused
  OBVIOUS
<1>12. OrdersOK /\ p \in Pages
  BY <1>1, <1>5
<1> QED
  BY <1>6, <1>7, <1>8, <1>9, <1>10, <1>11, <1>12, OneTabFront

\* Asking for the totals finds them, or that the identity is another one.
LEMMA AcceptFront ==
  ASSUME CookiesOK, Books, Front, NEW t \in Tabs, AcceptQuote(t) PROVE Front'
<1>1. UNCHANGED <<saved, orders>> /\ Noted({}) /\ OrdersOK
  BY DEF AcceptQuote, Books
<1>2. CASE Admitted(page[t].owner, jar)
  <2>1. Ticks(t)
    BY <1>2 DEF AcceptQuote, Ticks
  <2> QED
    BY <2>1, QuoteFront
<1>3. CASE ~Admitted(page[t].owner, jar)
  <2>1. Invalidate({t}) /\ RefusedKept
    BY <1>1, <1>3, NotedKeeps, FrontFacts DEF AcceptQuote
  <2> QED
    BY <1>1, <2>1, InvalidateFront
<1> QED
  BY <1>2, <1>3

\* The answer arrives where its request was made, whoever waits for it.
LEMMA ReceiveFront == ASSUME OrdersOK, Front, NEW c \in calls, Receive(c) PROVE Front'
<1> DEFINE rest == calls \ {c}
<1>1. PICK t \in Tabs : t = c.attempt.tab
  BY FrontFacts
<1>2. PICK p : p = IF c.live = "page" \/ c.answer = "unauthenticated"
                   THEN Answered(page[t], c.answer) ELSE page[t]
  OBVIOUS
<1>3. PICK S : S = IF c.answer = "refused" THEN saved[t] \ {c.attempt} ELSE saved[t]
  OBVIOUS
<1>4. /\ page' = [page EXCEPT ![t] = p] /\ saved' = [saved EXCEPT ![t] = S]
      /\ UNCHANGED orders /\ Noted({}) /\ c.live # "late" /\ c.answer # "none"
      /\ calls' = IF c.answer = "unauthenticated" THEN Orphaned(rest, {t}) ELSE rest
  <2>1. /\ saved' = [saved EXCEPT ![t] = IF c.answer = "refused" THEN @ \ {c.attempt} ELSE @]
        /\ page' = [page EXCEPT ![t] =
             IF c.live = "page" \/ c.answer = "unauthenticated" THEN Answered(@, c.answer) ELSE @]
    BY <1>1 DEF Receive
  <2> QED
    BY <1>1, <1>2, <1>3, <2>1 DEF Receive
<1>5. /\ page[t] \in Pages /\ TabFits(t, page[t], saved[t]) /\ saved[t] \in SUBSET Requests
      /\ page[t].attempt \in Requests \cup {NoAttempt}
      /\ c.live = "page" => page[t].attempt = c.attempt
      /\ c.attempt \in Attempts /\ c.attempt # NoAttempt
      /\ c.answer \in {"order", "refused", "unauthenticated"}
      /\ c \in Calls /\ rest \in SUBSET Calls
  <2>1. c \in Calls
    BY FrontFacts
  <2>2. c.answer \in {"none", "order", "refused", "unauthenticated"}
    BY <2>1 DEF Calls
  <2> QED
    BY <1>1, <1>4, <2>1, <2>2, FrontFacts, NoneIsNothing
<1>6. p \in Pages /\ TabFits(t, p, S) /\ p.attempt \in {page[t].attempt, NoAttempt}
      /\ (c.live = "page" \/ c.answer = "unauthenticated" \/ p = page[t])
  <2>1. CASE p = page[t]
    BY <1>3, <1>5, <2>1 DEF TabFits
  <2>2. CASE c.live = "page" /\ c.answer = "order"
    <3>1. p = [page[t] EXCEPT !.shown = TRUE] /\ S = saved[t]
      BY <1>2, <1>3, <2>2 DEF Answered
    <3>2. p \in Pages /\ p.owner = page[t].owner /\ p.stage = page[t].stage
          /\ p.attempt = page[t].attempt
      BY <1>5, <3>1 DEF Pages
    <3> QED
      BY <1>5, <2>2, <3>1, <3>2 DEF TabFits
  <2>3. CASE c.live = "page" /\ c.answer = "refused"
    <3>1. p = [page[t] EXCEPT !.attempt = NoAttempt] /\ S = saved[t] \ {c.attempt}
      BY <1>2, <1>3, <2>3 DEF Answered
    <3>2. p \in Pages /\ p.owner = page[t].owner /\ p.stage = page[t].stage
          /\ p.attempt = NoAttempt
      BY <1>5, <3>1 DEF Pages
    <3>3. TabFits(t, p, S)
      BY <1>5, <2>3, <3>1, <3>2 DEF TabFits
    <3> QED
      BY <2>3, <3>2, <3>3
  <2>4. CASE c.answer = "unauthenticated"
    <3>1. p = NoPage /\ S = saved[t]
      BY <1>2, <1>3, <2>4 DEF Answered
    <3> QED
      BY <1>5, <2>4, <3>1, LeftFits, NoPageShape
  <2> QED
    BY <1>2, <1>5, <2>1, <2>2, <2>3, <2>4
<1>7. \A d \in calls' : /\ d \in Calls /\ (d.live = "page" => d \in rest)
                        /\ (d.live = "page" /\ c.answer = "unauthenticated" => d.attempt.tab # t)
                        /\ \E e \in rest : e.attempt = d.attempt /\ e.answer = d.answer
  <2>1. CASE c.answer = "unauthenticated"
    <3>1. calls' = Orphaned(rest, {t})
      BY <1>4, <2>1
    <3> QED
      BY <1>5, <3>1, OrphanedShape
  <2>2. CASE c.answer # "unauthenticated"
    BY <1>4, <1>5, <2>2
  <2> QED
    BY <2>1, <2>2
<1>8. CallsProceed
  BY <1>7 DEF CallsProceed
<1>9. ASSUME NEW d \in calls', d.live = "page", d.attempt.tab = t PROVE p.attempt = d.attempt
  <2>1. d \in rest /\ c.answer # "unauthenticated"
    BY <1>7, <1>9
  <2>2. c.live # "page"
    BY <1>1, <1>9, <2>1, FrontFacts DEF CallsOK
  <2>3. p = page[t]
    BY <1>6, <2>1, <2>2
  <2> QED
    BY <1>9, <2>1, <2>3, FrontFacts
<1>10. \A a \in saved[t] : a \in S \cup refused
  BY <1>3, FrontFacts DEF MemoryOK
<1>11. S \in SUBSET Requests /\ p.attempt \in Requests \cup {NoAttempt}
  BY <1>3, <1>5, <1>6
<1>12. OrdersProceed /\ RefusedKept
  BY <1>4, OrdersProceeded, NotedKeeps, FrontFacts
<1>13. page' = [page EXCEPT ![t] = p] /\ saved' = [saved EXCEPT ![t] = S]
  BY <1>4
<1>14. p \in Pages /\ TabFits(t, p, S)
  BY <1>6
<1>15. \A d \in calls' : d.live = "page" /\ d.attempt.tab = t => p.attempt = d.attempt
  BY <1>9
<1> HIDE DEF rest
<1> QED
  BY <1>8, <1>14, <1>15, <1>10, <1>11, <1>12, <1>13, OneTabFront

\* A request that is lost, fails or is given up.
LEMMA GivenUpFront ==
  ASSUME OrdersOK, Front, NEW c \in calls, FailRequest(c) \/ TimeOut(c) PROVE Front'
<1>1. UNCHANGED <<orders, saved, page>> /\ Noted({}) /\ calls' \subseteq (calls \ {c}) \cup Late({c})
  BY DEF FailRequest, TimeOut, TimedOut
<1>2. \A d \in Late({c}) : d \in Calls /\ d.live = "late"
                           /\ \E e \in {c} : e.attempt = d.attempt /\ e.answer = d.answer
  <2>1. {c} \in SUBSET Calls
    BY FrontFacts
  <2> QED
    BY <2>1, LateShape
<1>3. CallsProceed
  BY <1>1, <1>2, FrontFacts DEF CallsProceed
<1>4. OrdersProceed /\ RefusedKept
  BY <1>1, OrdersProceeded, NotedKeeps, FrontFacts
<1> QED
  BY <1>1, <1>3, <1>4, PagesStand

\* The placement transaction: what it refuses it remembers, and what it places was
\* remembered before.
LEMMA ExecuteFront ==
  ASSUME Books, Front, NEW c \in calls, Execute(c) PROVE Front'
<1>1. /\ UNCHANGED <<saved, page>> /\ OrdersOK /\ CartsOK
      /\ c \in Calls /\ calls \in SUBSET Calls /\ c.attempt \in Attempts
  BY FrontFacts DEF Execute, Books
<1>2. PICK A \in SUBSET Attempts :
        /\ A = IF Answer(c) = "refused" /\ OrdersOf(c.attempt) = {} THEN {c.attempt} ELSE {}
        /\ Noted(A)
  <2>1. (IF Answer(c) = "refused" /\ OrdersOf(c.attempt) = {} THEN {c.attempt} ELSE {})
           \in SUBSET Attempts
    BY <1>1
  <2> QED
    BY <2>1 DEF Execute
<1>3. RefusedKept /\ A \cap Live' \subseteq refused'
  BY <1>2, NotedKeeps, FrontFacts, <1>1
<1>4. PICK d : d = [c EXCEPT !.answer = Answer(c)]
  OBVIOUS
<1>5. \/ calls' = calls \ {c}
      \/ Answer(c) # "kept" /\ calls' = (calls \ {c}) \cup {d}
  BY <1>4 DEF Execute
<1>6. /\ d.attempt = c.attempt /\ d.live = c.live /\ d.answer = Answer(c)
      /\ Answer(c) # "kept" => d \in Calls
  <2>1. Answer(c) \in {"unauthenticated", "kept", "order", "refused"}
    BY DEF Answer
  <2> QED
    BY <1>1, <1>4, <2>1 DEF Calls
<1>7. Answer(c) = "refused" => OrdersOf(c.attempt) = {}
  BY DEF Answer
<1>8. \/ UNCHANGED orders
      \/ orders' = orders \cup {OrderOf(c)} /\ Places(c)
  BY DEF Execute, OrderOf
<1>9. Places(c) => OrderOf(c).attempt = c.attempt /\ OrdersOf(c.attempt) = {}
  BY <1>1, Placement
<1>10. TabsOK'
  BY <1>1, TabsStand, FrontFacts
<1>11. CallsOK'
  <2>1. calls' \subseteq Calls
    BY <1>1, <1>5, <1>6
  <2>2. \A e \in calls' : e.live = "page" => page'[e.attempt.tab].attempt = e.attempt
    BY <1>1, <1>5, <1>6, FrontFacts
  <2>3. \A e, f \in calls' :
          e.live = "page" /\ f.live = "page" /\ e.attempt.tab = f.attempt.tab => e = f
    BY <1>1, <1>5, <1>6, FrontFacts DEF CallsOK
  <2> QED
    BY <2>1, <2>2, <2>3 DEF CallsOK
<1>12. IdsOK'
  <2>1. \A e \in calls : e.attempt \in Requests
    BY <1>1, Known DEF Front
  <2>2. \A e \in calls' : e.attempt \in Requests
    BY <1>5, <1>6, <2>1
  <2>3. \A o \in orders' : o.attempt \in Requests
    BY <1>1, <1>8, <1>9, <2>1, FrontFacts
  <2>4. /\ \A t \in Tabs : saved'[t] \subseteq Requests
        /\ \A t \in Tabs : page'[t].attempt \in Requests \cup {NoAttempt}
    BY <1>1, FrontFacts
  <2> QED
    BY <2>2, <2>3, <2>4, IdsKept DEF Front
<1>13. MemoryOK'
  <2>1. \A a \in Attempts : a \in saved[a.tab] => a \in saved'[a.tab] \cup refused \/ Closed(a)
    BY <1>1
  <2>2. \A a : OrdersOf(a)' = {} => OrdersOf(a) = {}
    BY <1>8 DEF OrdersOf
  <2>3. ASSUME NEW o \in orders', o.status = "pending"
        PROVE  /\ o.attempt \in Attempts
               /\ \/ o \in orders
                  \/ OrdersOf(o.attempt) = {} /\ \E e \in calls : e.attempt = o.attempt
    <3>1. CASE o \in orders
      BY <1>1, <3>1 DEF OrdersOK, OrderRows
    <3>2. CASE o = OrderOf(c) /\ Places(c)
      BY <1>1, <1>9, <3>2
    <3> QED
      BY <1>8, <3>1, <3>2
  <2>4. ASSUME NEW e \in calls'
        PROVE  /\ e.attempt \in Attempts
               /\ \E f \in calls : f.attempt = e.attempt
               /\ e.answer = "refused" =>
                    \/ e.attempt \in refused'
                    \/ \E f \in calls : f.attempt = e.attempt /\ f.answer = "refused"
    <3>1. CASE e \in calls
      BY <1>1, <3>1, FrontFacts
    <3>2. CASE e = d
      <4>1. e.attempt = c.attempt /\ e.attempt \in Live'
        BY <1>6, <3>2 DEF Live
      <4>2. e.answer = "refused" => e.attempt \in A
        BY <1>2, <1>6, <1>7, <3>2
      <4> QED
        BY <1>1, <1>3, <4>1, <4>2
    <3> QED
      BY <1>5, <3>1, <3>2
  <2>5. MemoryOK /\ RefusedKept
    BY <1>1, <1>3, FrontFacts
  <2> QED
    BY <2>1, <2>2, <2>3, <2>4, <2>5, MemoryKept
<1> QED
  BY <1>10, <1>11, <1>12, <1>13 DEF Front

\* What is refused for want of payments is remembered as refused.
LEMMA UnpayableFront ==
  ASSUME OrdersOK, Front, NEW c \in calls, RefuseUnpayable(c) PROVE Front'
<1>1. /\ UNCHANGED <<saved, page, orders>> /\ c \in Calls /\ calls \in SUBSET Calls
      /\ c.attempt \in Attempts
  BY FrontFacts DEF RefuseUnpayable
<1>2. PICK d \in Calls : /\ d.attempt = c.attempt /\ d.live = c.live /\ d.answer = "refused"
                         /\ calls' = (calls \ {c}) \cup {d}
  <2> DEFINE w == [c EXCEPT !.answer = "refused"]
  <2>1. w \in Calls /\ w.attempt = c.attempt /\ w.live = c.live /\ w.answer = "refused"
    BY <1>1 DEF Calls
  <2>2. calls' = (calls \ {c}) \cup {w}
    BY DEF RefuseUnpayable
  <2> QED
    BY <2>1, <2>2
<1>3. RefusedKept /\ {c.attempt} \cap Live' \subseteq refused'
  <2>1. Noted({c.attempt}) /\ {c.attempt} \in SUBSET Attempts
    BY <1>1 DEF RefuseUnpayable
  <2> QED
    BY <2>1, NotedKeeps, FrontFacts
<1>4. TabsOK'
  BY <1>1, TabsStand, FrontFacts
<1>5. CallsOK'
  <2>1. calls' \subseteq Calls
    BY <1>1, <1>2
  <2>2. \A e \in calls' : e.live = "page" => page'[e.attempt.tab].attempt = e.attempt
    BY <1>1, <1>2, FrontFacts
  <2>3. \A e, f \in calls' :
          e.live = "page" /\ f.live = "page" /\ e.attempt.tab = f.attempt.tab => e = f
    BY <1>1, <1>2, FrontFacts DEF CallsOK
  <2> QED
    BY <2>1, <2>2, <2>3 DEF CallsOK
<1>6. IdsOK'
  <2>1. \A e \in calls' : e.attempt \in Requests
    BY <1>2, Known DEF Front
  <2>2. /\ \A o \in orders' : o.attempt \in Requests
        /\ \A t \in Tabs : saved'[t] \subseteq Requests
        /\ \A t \in Tabs : page'[t].attempt \in Requests \cup {NoAttempt}
    BY <1>1, FrontFacts
  <2> QED
    BY <2>1, <2>2, IdsKept DEF Front
<1>7. MemoryOK'
  <2>1. \A a \in Attempts : a \in saved[a.tab] => a \in saved'[a.tab] \cup refused \/ Closed(a)
    BY <1>1
  <2>2. \A a : OrdersOf(a)' = {} => OrdersOf(a) = {}
    BY <1>1 DEF OrdersOf
  <2>3. \A o \in orders' : o.status = "pending" => o.attempt \in Attempts /\ o \in orders
    BY <1>1, Known DEF Front
  <2>4. ASSUME NEW e \in calls'
        PROVE  /\ e.attempt \in Attempts
               /\ \E f \in calls : f.attempt = e.attempt
               /\ e.answer = "refused" =>
                    \/ e.attempt \in refused'
                    \/ \E f \in calls : f.attempt = e.attempt /\ f.answer = "refused"
    <3>1. CASE e \in calls
      BY <1>1, <3>1, FrontFacts
    <3>2. CASE e = d
      BY <1>1, <1>2, <1>3, <3>2 DEF Live
    <3> QED
      BY <1>2, <3>1, <3>2
  <2>5. MemoryOK /\ RefusedKept
    BY <1>3, FrontFacts
  <2> QED
    BY <2>1, <2>2, <2>3, <2>4, <2>5, MemoryKept
<1> QED
  BY <1>4, <1>5, <1>6, <1>7 DEF Front

\* A request is sent: a new one, whose UUID nothing refers to, or the one of the page.
\* Either way nothing else was saved for its identity.
LEMMA SendFront ==
  ASSUME CookiesOK, OrdersOK, Front, NEW t \in Tabs, NEW a \in Attempts, Ready(t), Send(t, a),
         a.tab = t, a.scope = page[t].owner,
         \/ page[t].attempt = NoAttempt /\ a.id \in FreshIds
         \/ page[t].attempt = a
  PROVE  Front'
<1>1. /\ page' = [page EXCEPT ![t].attempt = a, ![t].accepted = NoQuote]
      /\ saved' = [saved EXCEPT ![t] = (@ \ Stored(t, a.scope)) \cup {a}]
      /\ UNCHANGED orders /\ Noted({}) /\ ~Busy(t)
  BY DEF Send
<1>2. PICK d \in Calls : /\ calls' = calls \cup {d} /\ d.attempt = a
                         /\ d.live = "page" /\ d.answer = "none"
  <2> DEFINE w == [attempt |-> a, jar |-> jar, live |-> "page", answer |-> "none"]
  <2>1. calls' = calls \cup {w}
    BY DEF Send
  <2>2. w \in Calls /\ w.attempt = a /\ w.live = "page" /\ w.answer = "none"
    BY DEF Calls, CookiesOK
  <2> QED
    BY <2>1, <2>2
<1>3. PICK p : p = [page[t] EXCEPT !.attempt = a, !.accepted = NoQuote]
  OBVIOUS
<1>4. PICK S : S = (saved[t] \ Stored(t, a.scope)) \cup {a}
  OBVIOUS
<1>5. /\ page[t] \in Pages /\ TabFits(t, page[t], saved[t]) /\ saved[t] \in SUBSET Attempts
      /\ page[t].owner # None /\ page[t].stage = "ready"
  BY FrontFacts DEF Ready
<1>6. p \in Pages /\ p.owner = page[t].owner /\ p.stage = "ready" /\ p.attempt = a
  BY <1>3, <1>5 DEF Pages
<1>7. S \in SUBSET Attempts /\ a \in S /\ \A b \in S : b = a \/ (b \in saved[t] /\ b.scope # a.scope)
  BY <1>4, <1>5 DEF Stored
<1>8. \A b \in saved[t] : b \in S
  <2>1. \A b \in saved[t] : b.scope = a.scope => b = page[t].attempt /\ b # NoAttempt
    BY <1>5, NoneIsNothing DEF TabFits
  <2>2. \A b \in saved[t] : b.scope = a.scope => b = a
    BY <2>1
  <2> QED
    BY <1>4, <2>2 DEF Stored
<1>9. TabFits(t, p, S)
  BY <1>5, <1>6, <1>7 DEF TabFits
<1>10. page' = [page EXCEPT ![t] = p] /\ saved' = [saved EXCEPT ![t] = S]
  BY <1>1, <1>3, <1>4, FrontFacts
<1>11. TabsOK'
  BY <1>6, <1>7, <1>9, <1>10, OneTab, FrontFacts
<1>12. \A u \in Tabs : /\ u # t => page'[u] = page[u] /\ saved'[u] = saved[u]
                       /\ u = t => page'[u] = p /\ saved'[u] = S
  BY <1>10, FrontFacts
<1>13. CallsOK'
  <2>1. calls' \subseteq Calls
    BY <1>2, FrontFacts
  <2>2. \A c \in calls : c.attempt.tab \in Tabs /\ ~(c.live = "page" /\ c.attempt.tab = t)
    BY <1>1, FrontFacts DEF Busy
  <2>3. \A c \in calls' : c.live = "page" => page'[c.attempt.tab].attempt = c.attempt
    BY <1>2, <1>6, <1>12, <2>2, FrontFacts
  <2>4. \A c, e \in calls' :
          c.live = "page" /\ e.live = "page" /\ c.attempt.tab = e.attempt.tab => c = e
    BY <1>2, <2>2, FrontFacts DEF CallsOK
  <2> QED
    BY <2>1, <2>3, <2>4 DEF CallsOK
<1>14. IdsOK'
  <2>1. Requests' \subseteq Requests \cup {a}
    <3>1. \A o \in orders' : o.attempt \in Requests
      BY <1>1, FrontFacts
    <3>2. \A c \in calls' : c.attempt \in Requests \cup {a}
      BY <1>2, Known DEF Front
    <3>3. \A u \in Tabs : saved'[u] \subseteq Requests \cup {a}
      BY <1>7, <1>12, FrontFacts
    <3>4. \A u \in Tabs : page'[u].attempt \in Requests \cup {a, NoAttempt}
      BY <1>6, <1>12, FrontFacts
    <3> QED
      BY <3>1, <3>2, <3>3, <3>4 DEF Requests, KnownAttempts
  <2>2. a \in Requests \/ \A b \in Requests : b.id # a.id
    <3>1. CASE page[t].attempt = a
      BY <3>1, NoneIsNothing, FrontFacts
    <3>2. CASE a.id \in FreshIds
      BY <3>2 DEF FreshIds, Requests
    <3> QED
      BY <3>1, <3>2
  <2> QED
    BY <2>1, <2>2 DEF IdsOK, Front
<1>15. MemoryOK'
  <2>1. \A b \in Attempts : b \in saved[b.tab] => b \in saved'[b.tab] \cup refused \/ Closed(b)
    BY <1>8, <1>12, AttemptShape
  <2>2. \A b : OrdersOf(b)' = {} => OrdersOf(b) = {}
    BY <1>1 DEF OrdersOf
  <2>3. \A o \in orders' : o.status = "pending" => o.attempt \in Attempts /\ o \in orders
    BY <1>1, Known DEF Front
  <2>4. ASSUME NEW c \in calls'
        PROVE  /\ c.attempt \in Attempts
               /\ c.attempt \in saved'[c.attempt.tab] \/ \E e \in calls : e.attempt = c.attempt
               /\ c.answer = "refused" => \E e \in calls : e.attempt = c.attempt /\ e.answer = "refused"
    BY <1>2, <1>7, <1>12, FrontFacts
  <2>5. MemoryOK /\ RefusedKept
    BY <1>1, NotedKeeps, FrontFacts
  <2> QED
    BY <2>1, <2>2, <2>3, <2>4, <2>5, MemoryKept
<1> QED
  BY <1>11, <1>13, <1>14, <1>15 DEF Front

-----------------------------------------------------------------------------
(* The theorems. *)

\* What tabs, calls and the browser's memory know of the books stays true.
LEMMA FrontStep == CookiesOK /\ Books /\ Front /\ [Next]_vars => Front'
<1> SUFFICES ASSUME CookiesOK, Books, Front, [Next]_vars PROVE Front'
  OBVIOUS
<1>1. OrdersOK
  BY DEF Books
<1>2. ASSUME UNCHANGED <<saved, page, calls, orders, refused>> PROVE Front'
  BY <1>1, <1>2, FrontStands, OrdersProceeded, SameKeeps, FrontFacts
<1>3. ASSUME NEW o \in orders, Settle(o) PROVE Front'
  <2>1. orders' = Settled(o) /\ UNCHANGED <<saved, page, calls>> /\ Noted({})
    BY <1>3 DEF Settle
  <2>2. OrdersProceed /\ RefusedKept
    BY <1>1, <2>1, OrdersProceeded, NotedKeeps, FrontFacts
  <2> QED
    BY <1>1, <2>1, <2>2, FrontStands
<1>4. ASSUME NEW t \in Tabs, PlaceNew(t) PROVE Front'
  <2>1. PICK id \in FreshIds :
          Send(t, [id |-> id, tab |-> t, scope |-> page[t].owner, quote |-> page[t].accepted])
    BY <1>4 DEF PlaceNew
  <2>2. /\ Ready(t) /\ page[t].attempt = NoAttempt /\ page[t].accepted # NoQuote
        /\ page[t].owner # None
    BY <1>4 DEF PlaceNew, CanQuote, Ready
  <2>3. page[t] \in Pages
    BY <1>1, FrontFacts
  <2>4. page[t].owner \in Scopes /\ page[t].accepted \in Quotes /\ id \in RequestIds
    BY <2>2, <2>3 DEF Pages, FreshIds
  <2>5. PICK a \in Attempts :
          /\ a = [id |-> id, tab |-> t, scope |-> page[t].owner, quote |-> page[t].accepted]
          /\ a.id = id /\ a.tab = t /\ a.scope = page[t].owner
    <3> DEFINE w == [id |-> id, tab |-> t, scope |-> page[t].owner, quote |-> page[t].accepted]
    <3>1. w \in Attempts /\ w.id = id /\ w.tab = t /\ w.scope = page[t].owner
      BY <2>4 DEF Attempts
    <3> QED
      BY <3>1
  <2> QED
    BY <1>1, <2>1, <2>2, <2>5, SendFront
<1>5. ASSUME NEW t \in Tabs, RetrySaved(t) PROVE Front'
  <2>1. Ready(t) /\ page[t].attempt # NoAttempt /\ Send(t, page[t].attempt)
    BY <1>5 DEF RetrySaved
  <2>2. /\ page[t].attempt \in Attempts /\ page[t].attempt.tab = t
        /\ page[t].attempt.scope = page[t].owner
    BY <1>1, <2>1, FrontFacts, Known DEF TabFits, Front
  <2> QED
    BY <1>1, <2>1, <2>2, SendFront
<1>6. CASE Reprice \/ AddToCart \/ TakeOut \/ MergeGuestCart \/ (\E u \in Users : Login(u))
           \/ (\E t \in Tabs : RenewProof(t)) \/ UNCHANGED vars
  BY <1>2, <1>6 DEF Reprice, AddToCart, TakeOut, MergeGuestCart, Login, RenewProof, vars
<1>7. ASSUME NEW c \in calls,
             Execute(c) \/ RefuseUnpayable(c) \/ FailRequest(c) \/ Receive(c) \/ TimeOut(c)
      PROVE  Front'
  BY <1>1, <1>7, ExecuteFront, UnpayableFront, ReceiveFront, GivenUpFront
<1>8. ASSUME NEW t \in Tabs,
             \/ VerifyIdentity(t) \/ Reload(t) \/ Recover(t) \/ CheckStatus(t) \/ VerifyPayer(t)
             \/ CancelOrder(t) \/ AcceptQuote(t)
      PROVE  Front'
  BY <1>1, <1>8, VerifyFront, ReloadFront, RecoverFront, CheckFront, PayFront, CancelFront,
     AcceptFront
<1> QED
  BY <1>1, <1>3, <1>4, <1>5, <1>6, <1>7, <1>8, LogoutFront DEF Next

\* The inductive invariant holds initially.
LEMMA InitOK == Init => IInv
<1> SUFFICES ASSUME Init PROVE IInv
  OBVIOUS
<1>1. CookiesOK
  BY DEF Init, CookiesOK, Jars
<1>2. CartsOK
  <2>1. carts \in [Carts -> Nat] /\ \A c \in Carts : carts[c] = 0
    BY DEF Init
  <2>2. open = {} /\ added \in 0 .. MaxItems /\ removed \in Nat
    BY CheckoutAssumption DEF Init
  <2> QED
    BY <2>1, <2>2, FS_EmptySet DEF CartsOK, Carts
<1>3. OrdersOK
  BY FS_EmptySet DEF Init, OrdersOK
<1>4. GoodsAreConserved
  <2>1. Shelved = 0
    <3>1. IsFiniteSet(Users \cup open) /\ \A c \in Users \cup open : carts[c] = 0
      BY <1>2, ShelvesAreFinite DEF Init
    <3> QED
      BY <3>1, TotalOfZeros DEF Shelved
  <2>2. Sold = 0
    BY TotalEmpty DEF Init, Sold
  <2> QED
    BY <2>1, <2>2, Conserved DEF Init
<1>5. TabsOK
  <2>1. \A t \in Tabs : page[t] = NoPage /\ saved[t] = {}
    BY DEF Init
  <2>2. \A t \in Tabs : TabFits(t, page[t], saved[t])
    BY <2>1, NoPageShape DEF TabFits
  <2> QED
    BY <2>2, NoPageShape DEF Init, TabsOK
<1>6. CallsOK
  BY DEF Init, CallsOK
<1>7. IdsOK
  BY NoPageShape DEF Init, IdsOK, Requests, KnownAttempts
<1>8. MemoryOK
  BY DEF Init, MemoryOK
<1> QED
  BY <1>1, <1>2, <1>3, <1>4, <1>5, <1>6, <1>7, <1>8 DEF IInv

\* The inductive invariant holds always.
LEMMA IInvCorrect == Spec => []IInv
<1>1. Init => IInv
  BY InitOK
<1>2. IInv /\ [Next]_vars => IInv'
  <2> SUFFICES ASSUME IInv, [Next]_vars PROVE IInv'
    OBVIOUS
  <2>1. CookiesOK /\ Books /\ Front /\ calls \subseteq Calls
    BY DEF IInv, Books, Front, CallsOK
  <2>2. CookiesOK' /\ Books' /\ Front'
    BY <2>1, CookiesStep, BooksStep, FrontStep
  <2> QED
    BY <2>2 DEF IInv, Books, Front
<1> QED
  BY <1>1, <1>2, PTL DEF Spec

\* The conservation of goods bounds every cart by what may be added.
LEMMA FitsType ==
  ASSUME IInv
  PROVE  /\ carts \in [Carts -> 0 .. MaxItems] /\ added \in 0 .. MaxItems
         /\ removed \in 0 .. MaxItems
BY Bounded DEF IInv, CartsOK

\* Every variable holds what its columns, cookies and storage can hold, a tab saves one
\* request per identity and waits for one placement at a time.
THEOREM TypeCorrect == Spec => []TypeOK
<1>1. IInv => TypeOK
  <2> SUFFICES ASSUME IInv PROVE TypeOK
    OBVIOUS
  <2>1. ASSUME NEW t \in Tabs
        PROVE  Cardinality({c \in calls : c.attempt.tab = t /\ c.live = "page"}) <= 1
    <3> DEFINE W == {c \in calls : c.attempt.tab = t /\ c.live = "page"}
    <3>1. \A c, d \in W : c = d
      BY DEF IInv, CallsOK
    <3>2. CASE W = {}
      BY <3>2, FS_EmptySet
    <3>3. CASE W # {}
      <4>1. PICK c : c \in W
        BY <3>3
      <4>2. W = {c}
        BY <3>1, <4>1
      <4>3. Cardinality({c}) = 1
        BY FS_Singleton
      <4> QED
        BY <4>2, <4>3
    <3> QED
      BY <3>2, <3>3
  <2>2. {added, removed} \subseteq 0 .. MaxItems /\ carts \in [Carts -> 0 .. MaxItems]
    BY FitsType
  <2>3. \A t \in Tabs : \A a, b \in saved[t] : a.tab = t /\ (a.scope = b.scope => a = b)
    BY DEF IInv, TabsOK, TabFits
  <2> QED
    BY <2>1, <2>2, <2>3 DEF IInv, TypeOK, CookiesOK, CartsOK, OrdersOK, TabsOK, CallsOK, MemoryOK
<1> QED
  BY <1>1, IInvCorrect, PTL

\* What is charged is what was accepted, and it is charged once: no change of prices,
\* carts or cookies between the tick, the request and its execution makes an order that
\* its page's customer did not ask for, and no request makes two.
THEOREM ChargedAsAccepted == Spec => []AcceptedIsCharged
<1>1. IInv => AcceptedIsCharged
  <2> SUFFICES ASSUME IInv, NEW o \in orders, NEW p \in orders, p.attempt.id = o.attempt.id
               PROVE  o.owner = o.attempt.scope /\ o.quote = o.attempt.quote /\ p = o
    BY DEF IInv, OrdersOK, AcceptedIsCharged
  <2>1. o.attempt \in Requests /\ p.attempt \in Requests
    BY Known DEF IInv
  <2>2. p.attempt = o.attempt
    BY <2>1 DEF IInv, IdsOK
  <2> QED
    BY <2>2 DEF IInv, OrdersOK
<1> QED
  BY <1>1, IInvCorrect, PTL

\* Goods are sold once, whatever is merged, retried, placed from two tabs or executed late.
THEOREM GoodsAreSoldOnce == Spec => []GoodsAreConserved
<1>1. IInv => GoodsAreConserved
  BY DEF IInv
<1> QED
  BY <1>1, IInvCorrect, PTL

\* A placement whose outcome the customer does not know is never forgotten by its tab,
\* unless the server has refused a copy of it.
THEOREM UncertaintyIsRemembered == Spec => []UncertainIsRemembered
<1>1. IInv => UncertainIsRemembered
  BY DEF IInv, MemoryOK, Remembered, UncertainIsRemembered
<1> QED
  BY <1>1, IInvCorrect, PTL
=============================================================================
