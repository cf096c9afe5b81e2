------------------------------ MODULE Checkout ------------------------------
(***************************************************************************)
(* The checkout of the storefront: the tabs of one browser (the components *)
(* of src/frontend/src/components/checkout and cart), the BFF that accepts *)
(* their GraphQL requests (lib/graphql, lib/checkout) and, of the backend, *)
(* the carts and the placement transaction as far as they decide an answer.*)
(*                                                                         *)
(* The tabs share the cookie jar; each has a session storage of its own.   *)
(* A tab works for the identity it last verified, which the jar may have   *)
(* left since.  A placement is saved in the storage, sent, executed and    *)
(* answered in separate steps; the tab may stop waiting at any of them,    *)
(* and a request it gave up may still be executed later.                   *)
(***************************************************************************)
EXTENDS Integers, FiniteSets, Sums

CONSTANTS Tabs, Users,
          RequestIds,    \* request UUIDs: as many placements as are remembered at a time
          Proofs,        \* guest-order proofs, the identities of guests
          GuestCarts,    \* credentials of guest carts
          Prices,        \* what catalogue, stock and shipping make of a cart
          MaxItems,      \* bound on the goods put into carts
          MaxCalls,      \* bound on the placements under way
          Faults         \* whether requests can fail or go unanswered

None == 0
Scopes == Users \cup Proofs
Carts == Users \cup GuestCarts
Quotes == [items : 1 .. MaxItems, price : Prices]
NoQuote == [items |-> 0, price |-> None]

ASSUME CheckoutAssumption ==
  /\ MaxItems \in Nat /\ MaxCalls \in Nat /\ Faults \in BOOLEAN
  /\ IsFiniteSet(Users)
  /\ None \notin Users \cup Proofs \cup GuestCarts \cup Tabs \cup RequestIds
  /\ Users \cap (Proofs \cup GuestCarts) = {}

VARIABLES
  jar,      \* the cookies: who is signed in, the guest-order proof, the guest cart
  carts,    \* the goods in each cart in the database
  open,     \* the guest carts that exist
  added,    \* how many goods customers have put into carts
  removed,  \* how many they have taken out again
  price,    \* the prices of now
  orders,   \* the orders with their receipts
  saved,    \* the requests in the session storage of each tab
  page,     \* the checkout page of each tab
  calls,    \* placements that have been sent
  refused   \* known requests of which a copy was refused before any order (history)

vars == <<jar, carts, open, added, removed, price, orders, saved, page, calls, refused>>

\* A placement request: its UUID, the tab and the identity that made it, and the
\* quote the customer accepted.
Attempts == [id : RequestIds, tab : Tabs, scope : Scopes, quote : Quotes]
NoAttempt == [id |-> None, tab |-> None, scope |-> None, quote |-> NoQuote]

\* owner: the verified identity of the boundary, None while it shows no page.
\* accepted: the quote on the page that the customer has ticked.
\* attempt, shown: the saved request of the page, and whether its order is shown.
NoPage == [owner |-> None, stage |-> "recovering", accepted |-> NoQuote,
           attempt |-> NoAttempt, shown |-> FALSE]

Init ==
  /\ jar = [login |-> None, proof |-> None, cart |-> None]
  /\ carts = [c \in Carts |-> 0] /\ open = {} /\ added = 0 /\ removed = 0 /\ price \in Prices
  /\ orders = {} /\ calls = {} /\ refused = {}
  /\ saved = [t \in Tabs |-> {}]
  /\ page = [t \in Tabs |-> NoPage]

\* randomUUID and randomBytes: identifiers that nothing refers to any more are as good
\* as new ones.
KnownAttempts ==
  {o.attempt : o \in orders} \cup {c.attempt : c \in calls} \cup (UNION {saved[t] : t \in Tabs})
    \cup {page[t].attempt : t \in Tabs}
FreshIds == RequestIds \ {a.id : a \in KnownAttempts}
FreshProofs ==
  Proofs \ ({jar.proof} \cup {a.scope : a \in KnownAttempts} \cup {page[t].owner : t \in Tabs}
              \cup {o.owner : o \in orders} \cup {c.jar.proof : c \in calls})
FreshCarts ==
  GuestCarts \ ({jar.cart} \cup open \cup {o.source : o \in orders} \cup {c.jar.cart : c \in calls})

\* The history of a request ends when nothing can come of it any more.
Noted(A) ==
  refused' = (refused \cup A) \cap ({c.attempt : c \in calls'} \cup
                                   {o.attempt : o \in {p \in orders' : p.status = "pending"}})

-----------------------------------------------------------------------------
(* The BFF and the backend.                                                 *)

\* checkoutSession: a signed-in customer, else the guest with this proof.
Identity(j) == IF j.login # None THEN j.login ELSE j.proof
\* The cart the storefront shows and previews for these cookies.
CartOf(j) == IF j.login # None THEN j.login ELSE j.cart
Goods(c) == IF c \in Users \cup open THEN carts[c] ELSE 0
QuoteOf(c) == [items |-> Goods(c), price |-> price]

\* validateCheckout: X-Checkout-Scope must be the identity the cookies prove.
\* Mutant: the scope is not checked.
Admitted_Unchecked(scope, j) == scope # None
Admitted(scope, j) == scope = Identity(j)

\* requestHive: a customer's placement goes with the token, a guest's with the two
\* guest cookies.
Buyer(c) == IF c.attempt.scope \in Users THEN c.jar.login ELSE c.jar.proof
Source(c) == IF c.attempt.scope \in Users THEN c.jar.login ELSE c.jar.cart

OrdersOf(a) == {o \in orders : o.attempt = a}

\* authorizeReceipt and the payload: the receipt is this buyer's, and its cart the one
\* of the cookie, if there is one.
Conflicts(c, o) ==
  o.owner # Buyer(c) \/ (c.attempt.scope \in Proofs /\ c.jar.cart \notin {None, o.source})

\* The accepted version is the one of the locked cart.
QuoteHolds(c) == Goods(Source(c)) > 0 /\ QuoteOf(Source(c)) = c.attempt.quote

\* "kept": any failure after which the page keeps its saved request, and does nothing.
Answer(c) ==
  IF ~Admitted(c.attempt.scope, c.jar) THEN "unauthenticated"
  ELSE IF OrdersOf(c.attempt) # {}
    THEN IF \E o \in OrdersOf(c.attempt) : Conflicts(c, o) THEN "kept" ELSE "order"
  ELSE IF Source(c) \notin Users \cup open THEN "kept"
  ELSE IF QuoteHolds(c) THEN "order" ELSE "refused"

Places(c) == Answer(c) = "order" /\ OrdersOf(c.attempt) = {}

\* consumeCheckoutCart: the goods are sold, and a guest cart is deleted.
\* Mutant: the cart is left as it is.
Consumed_Kept(c) == UNCHANGED <<carts, open>>
Consumed(c) == carts' = [carts EXCEPT ![Source(c)] = 0] /\ open' = open \ {Source(c)}

\* The placement transaction of a request that has reached the server.  One that was
\* given up leaves a trace only if it places an order.
Execute(c) ==
  /\ c.answer = "none" /\ (c.live = "late" => Places(c))
  /\ calls' = (calls \ {c}) \cup
       (IF c.live = "late" \/ Answer(c) = "kept" THEN {} ELSE {[c EXCEPT !.answer = Answer(c)]})
  /\ IF Places(c)
     THEN /\ orders' = orders \cup
               {[attempt |-> c.attempt, status |-> "pending", owner |-> Buyer(c),
                 source |-> Source(c), quote |-> QuoteOf(Source(c))]}
          /\ Consumed(c)
     ELSE UNCHANGED <<orders, carts, open>>
  /\ UNCHANGED <<jar, added, removed, price, saved, page>>
  /\ Noted(IF Answer(c) = "refused" /\ OrdersOf(c.attempt) = {} THEN {c.attempt} ELSE {})

\* The quote holds, but payments are not configured: the transaction refuses it too.
RefuseUnpayable(c) ==
  /\ Faults /\ c.answer = "none" /\ c.live # "late" /\ Places(c)
  /\ calls' = (calls \ {c}) \cup {[c EXCEPT !.answer = "refused"]}
  /\ UNCHANGED <<jar, carts, open, added, removed, price, orders, saved, page>>
  /\ Noted({c.attempt})

\* The transaction fails, and rolls back, or the request is limited or lost.
FailRequest(c) ==
  /\ Faults /\ c.answer = "none" /\ c.live # "late"
  /\ calls' = calls \ {c}
  /\ UNCHANGED <<jar, carts, open, added, removed, price, orders, saved, page>>
  /\ Noted({})

Settled(o) == (orders \ {o}) \cup {[o EXCEPT !.status = "settled"]}

\* The shop ends a pending order: the payment, or a cancellation by staff or the deadline.
Settle(o) ==
  /\ o.status = "pending"
  /\ orders' = Settled(o)
  /\ UNCHANGED <<jar, carts, open, added, removed, price, saved, page, calls>>
  /\ Noted({})

\* A price, the stock or a shipping charge changes, or changes back.
Reprice ==
  /\ price' \in Prices \ {price}
  /\ UNCHANGED <<jar, carts, open, added, removed, orders, saved, page, calls, refused>>

-----------------------------------------------------------------------------
(* Carts and sign-in.                                                       *)

\* mutateUserCart: the customer's cart, with the token of the session.
AddToUserCart ==
  /\ jar.login # None
  /\ carts' = [carts EXCEPT ![jar.login] = @ + 1] /\ UNCHANGED <<jar, open>>

\* CartProvider.run: a guest's cart is started, idempotently, before the first add.  A
\* tab that has not noticed a login still adds to it.
AddToGuestCart ==
  IF jar.cart \in open
  THEN carts' = [carts EXCEPT ![jar.cart] = @ + 1] /\ UNCHANGED <<jar, open>>
  ELSE \E c \in FreshCarts : /\ carts' = [carts EXCEPT ![c] = 1] /\ open' = open \cup {c}
                             /\ jar' = [jar EXCEPT !.cart = c]

AddToCart ==
  /\ added < MaxItems /\ added' = added + 1
  /\ AddToUserCart \/ AddToGuestCart
  /\ UNCHANGED <<removed, price, orders, saved, page, calls, refused>>

TakeOut ==
  /\ \E c \in {jar.login, jar.cart} : Goods(c) > 0 /\ carts' = [carts EXCEPT ![c] = @ - 1]
  /\ removed' = removed + 1
  /\ UNCHANGED <<jar, open, added, price, orders, saved, page, calls, refused>>

\* reload: a guest cart that survived sign-in is merged into the customer's, all of
\* it or nothing.  The answer clears the cart cookie, if it arrives.
MergeGuestCart ==
  /\ jar.login # None /\ Goods(jar.cart) > 0
  /\ carts' = [carts EXCEPT ![jar.login] = @ + carts[jar.cart], ![jar.cart] = 0]
  /\ open' = open \ {jar.cart}
  /\ \/ jar' = [jar EXCEPT !.cart = None]
     \/ Faults /\ UNCHANGED jar
  /\ UNCHANGED <<added, removed, price, orders, saved, page, calls, refused>>

\* Tabs whose boundary no longer shows the page that sent a call: the call goes on.
Orphaned(C, T) ==
  {IF c.attempt.tab \in T /\ c.live = "page" THEN [c EXCEPT !.live = "orphan"] ELSE c : c \in C}

\* The login callback clears the guest's proof; the other tabs learn nothing.
Login(u) ==
  /\ jar.login = None
  /\ jar' = [jar EXCEPT !.login = u, !.proof = None]
  /\ UNCHANGED <<carts, open, added, removed, price, orders, saved, page, calls, refused>>

\* Logout clears it too, and invalidateCheckout tells every tab.
Logout ==
  /\ jar.login # None
  /\ jar' = [jar EXCEPT !.login = None, !.proof = None]
  /\ page' = [t \in Tabs |-> NoPage]
  /\ calls' = Orphaned(calls, Tabs)
  /\ UNCHANGED <<carts, open, added, removed, price, orders, saved, refused>>

-----------------------------------------------------------------------------
(* A tab.                                                                   *)

\* readAttempt: what the tab has saved for an identity.
Stored(t, scope) == {a \in saved[t] : a.scope = scope}

\* CheckoutIdentityBoundary: the identity is asked for when a page opens, regains the
\* focus or hears of a change.  The server prepares a guest's proof.  A page for the
\* same identity stays, another one begins with what is saved.
VerifyIdentity(t) ==
  \E scope \in IF Identity(jar) # None THEN {Identity(jar)} ELSE FreshProofs :
    /\ scope # page[t].owner
    /\ page' = [page EXCEPT ![t] = [NoPage EXCEPT !.owner = scope,
         !.stage = IF Stored(t, scope) = {} THEN "ready" ELSE "recovering"]]
    /\ calls' = Orphaned(calls, {t})
    /\ jar' = IF jar.login = None THEN [jar EXCEPT !.proof = scope] ELSE jar
    /\ UNCHANGED <<carts, open, added, removed, price, orders, saved, refused>>

\* An answer says that the identity is another one.
Invalidate(T) ==
  /\ page' = [t \in Tabs |-> IF t \in T THEN NoPage ELSE page[t]]
  /\ calls' = Orphaned(calls, T)

\* Calls nobody waits for any more.  One that would be refused leaves no trace.
Late(C) ==
  {[c EXCEPT !.live = "late"] :
     c \in {d \in C : d.answer = "none" /\ OrdersOf(d.attempt) = {} /\ Admitted(d.attempt.scope, d.jar)}}

\* The document is reloaded, or left.
Reload(t) ==
  /\ page[t].owner # None
  /\ page' = [page EXCEPT ![t] = NoPage]
  /\ calls' = {c \in calls : c.attempt.tab # t \/ c.live = "late"} \cup
              Late({c \in calls : c.attempt.tab = t})
  /\ UNCHANGED <<jar, carts, open, added, removed, price, orders, saved>>
  /\ Noted({})

Ready(t) == page[t].owner # None /\ page[t].stage = "ready"
\* The button of a placement that is waited for is disabled.
\* Mutant: it is not.
Busy_Never(t) == FALSE
Busy(t) == \E c \in calls : c.attempt.tab = t /\ c.live = "page"

\* The page after an answer about its order: only an order that is no longer pending
\* clears the saved request.  Nothing is saved that is not: recovery writes what it read.
ShowOrder(t, o) ==
  IF o.status = "settled"
  THEN /\ saved' = [saved EXCEPT ![t] = @ \ {o.attempt}]
       /\ page' = [page EXCEPT ![t] = [NoPage EXCEPT !.owner = page[t].owner, !.stage = "ready"]]
  ELSE /\ UNCHANGED saved
       /\ page' = [page EXCEPT ![t].stage = "ready", ![t].attempt = o.attempt, ![t].shown = TRUE]

\* checkoutOrder, guestOrder: the order of a request, for the one who placed it.
Visible(a) == {o \in OrdersOf(a) : o.owner = Identity(jar)}

\* Recovery: until the outcome of the saved request is known, nothing but the request
\* is offered.
Recover(t) ==
  /\ page[t].owner # None /\ page[t].stage = "recovering"
  /\ \E a \in Stored(t, page[t].owner) :
       \/ ~Admitted(page[t].owner, jar) /\ Invalidate({t}) /\ UNCHANGED saved
       \/ /\ Admitted(page[t].owner, jar)
          /\ \E o \in Visible(a) : ShowOrder(t, o)
          /\ UNCHANGED calls
       \/ /\ Faults \/ (Admitted(page[t].owner, jar) /\ Visible(a) = {})
          /\ page' = [page EXCEPT ![t].stage = "ready", ![t].attempt = a]
          /\ UNCHANGED <<saved, calls>>
  /\ UNCHANGED <<jar, carts, open, added, removed, price, orders>>
  /\ Noted({})

\* "Check order status": the confirmation page, which has left the checkout, polls.
CheckStatus(t) ==
  /\ Ready(t) /\ page[t].attempt # NoAttempt
  /\ IF Admitted(page[t].owner, jar)
     THEN /\ \E o \in Visible(page[t].attempt) : ShowOrder(t, o)
          /\ calls' = Orphaned(calls, {t})
     ELSE Invalidate({t}) /\ UNCHANGED saved
  /\ UNCHANGED <<jar, carts, open, added, removed, price, orders>>
  /\ Noted({})

\* The customer pays the order on the page.  The identity is verified, the payment is
\* confirmed at Stripe, and the identity is verified again: either time another one is
\* told to every tab.  The payment itself ends the order by Settle, whoever is signed in.
VerifyPayer(t) ==
  /\ Ready(t) /\ page[t].shown /\ Identity(jar) # page[t].owner
  /\ Invalidate(Tabs)
  /\ UNCHANGED <<jar, carts, open, added, removed, price, orders, saved>>
  /\ Noted({})

\* The customer cancels it, with one request that is checked as any other.
CancelOrder(t) ==
  /\ Ready(t) /\ page[t].shown
  /\ IF Admitted(page[t].owner, jar)
     THEN /\ \E o \in OrdersOf(page[t].attempt) : o.status = "pending" /\ orders' = Settled(o)
          /\ UNCHANGED <<page, calls>>
     ELSE Invalidate({t}) /\ UNCHANGED orders
  /\ UNCHANGED <<jar, carts, open, added, removed, price, saved>>
  /\ Noted({})

\* The totals are fetched for the form as it is, and the customer ticks "I accept this
\* current item and shipping total".  A page with newer totals than the ticked ones
\* places nothing, as if it had not asked for them.
CanQuote(t) == Ready(t) /\ page[t].attempt = NoAttempt /\ ~Busy(t)
AcceptQuote(t) ==
  /\ CanQuote(t)
  /\ IF Admitted(page[t].owner, jar)
     THEN /\ Goods(CartOf(jar)) > 0 /\ page[t].accepted # QuoteOf(CartOf(jar))
          /\ page' = [page EXCEPT ![t].accepted = QuoteOf(CartOf(jar))]
          /\ UNCHANGED calls
     ELSE Invalidate({t})
  /\ UNCHANGED <<jar, carts, open, added, removed, price, orders, saved>>
  /\ Noted({})

\* The answer to a guest's request for the totals sets the cookie of the proof it came
\* with, which a login in another tab may have cleared meanwhile.
RenewProof(t) ==
  /\ CanQuote(t) /\ page[t].owner \in Proofs \ {jar.proof}
  /\ jar' = [jar EXCEPT !.proof = page[t].owner]
  /\ UNCHANGED <<carts, open, added, removed, price, orders, saved, page, calls, refused>>

\* saveAttempt for the identity, then the request with the cookies of this moment.
Send(t, a) ==
  /\ ~Busy(t) /\ Cardinality(calls) < MaxCalls
  /\ saved' = [saved EXCEPT ![t] = (@ \ Stored(t, a.scope)) \cup {a}]
  /\ page' = [page EXCEPT ![t].attempt = a, ![t].accepted = NoQuote]
  /\ calls' = calls \cup {[attempt |-> a, jar |-> jar, live |-> "page", answer |-> "none"]}
  /\ UNCHANGED <<jar, carts, open, added, removed, price, orders>>
  /\ Noted({})

PlaceNew(t) ==
  /\ CanQuote(t) /\ page[t].accepted # NoQuote
  /\ \E id \in FreshIds :
       Send(t, [id |-> id, tab |-> t, scope |-> page[t].owner, quote |-> page[t].accepted])

\* The page with a saved request offers its retry and no other placement.
RetrySaved(t) ==
  /\ Ready(t) /\ page[t].attempt # NoAttempt /\ ~page[t].shown
  /\ Send(t, page[t].attempt)

\* The codes CHECKOUT_QUOTE_CHANGED, CHECKOUT_INVALID and PAYMENT_NOT_CONFIGURED say
\* that there is no order: the saved request and its quote are dropped.  No other
\* failure says so.
\* The page after an answer it has waited for.
Answered(p, answer) ==
  CASE answer = "order" -> [p EXCEPT !.shown = TRUE]
    [] answer = "refused" -> [p EXCEPT !.attempt = NoAttempt]
    [] OTHER -> NoPage

\* The answer arrives.  Its cookies are set whoever waits for it: an order of a guest
\* clears the cart cookie and renews the proof it was placed with.
Receive(c) ==
  LET t == c.attempt.tab
      rest == calls \ {c}
  IN /\ c.live # "late" /\ c.answer # "none"
     /\ jar' = IF c.answer = "order" /\ c.attempt.scope \in Proofs
               THEN [jar EXCEPT !.cart = None, !.proof = c.jar.proof] ELSE jar
     /\ saved' = [saved EXCEPT ![t] = IF c.answer = "refused" THEN @ \ {c.attempt} ELSE @]
     /\ page' = [page EXCEPT ![t] =
          IF c.live = "page" \/ c.answer = "unauthenticated" THEN Answered(@, c.answer) ELSE @]
     /\ calls' = IF c.answer = "unauthenticated" THEN Orphaned(rest, {t}) ELSE rest
     /\ UNCHANGED <<carts, open, added, removed, price, orders>>
     /\ Noted({})

\* No answer within ten seconds, or the connection breaks: the request stays saved.
\* Mutant: it is taken for one that failed.
TimedOut_Clears(t, a) == saved' = [saved EXCEPT ![t] = @ \ {a}]
TimedOut(t, a) == UNCHANGED saved

TimeOut(c) ==
  /\ Faults /\ c.live # "late"
  /\ calls' = (calls \ {c}) \cup Late({c})
  /\ TimedOut(c.attempt.tab, c.attempt)
  /\ UNCHANGED <<jar, carts, open, added, removed, price, orders, page>>
  /\ Noted({})

-----------------------------------------------------------------------------
Next ==
  \/ \E c \in calls : Execute(c) \/ RefuseUnpayable(c) \/ FailRequest(c) \/ Receive(c) \/ TimeOut(c)
  \/ \E o \in orders : Settle(o)
  \/ Reprice \/ AddToCart \/ TakeOut \/ MergeGuestCart \/ Logout
  \/ \E u \in Users : Login(u)
  \/ \E t \in Tabs :
       \/ VerifyIdentity(t) \/ Reload(t) \/ Recover(t) \/ CheckStatus(t) \/ VerifyPayer(t)
       \/ CancelOrder(t) \/ AcceptQuote(t) \/ RenewProof(t) \/ PlaceNew(t) \/ RetrySaved(t)

Spec == Init /\ [][Next]_vars

-----------------------------------------------------------------------------
Jars == [login : Users \cup {None}, proof : Proofs \cup {None}, cart : GuestCarts \cup {None}]
OrderRows ==
  [attempt : Attempts, status : {"pending", "settled"}, owner : Scopes, source : Carts,
   quote : Quotes]
Pages ==
  [owner : Scopes \cup {None}, stage : {"recovering", "ready"},
   accepted : Quotes \cup {NoQuote}, attempt : Attempts \cup {NoAttempt}, shown : BOOLEAN]
Calls ==
  [attempt : Attempts, jar : Jars, live : {"page", "orphan", "late"},
   answer : {"none", "order", "refused", "unauthenticated"}]

\* Type correctness, and what the buttons of a page are to keep: a tab saves one request
\* per identity and waits for one placement at a time (checkout-page.tsx, place).
TypeOK ==
  /\ jar \in Jars
  /\ carts \in [Carts -> 0 .. MaxItems] /\ open \subseteq GuestCarts
  /\ {added, removed} \subseteq 0 .. MaxItems /\ price \in Prices
  /\ orders \subseteq OrderRows
  /\ saved \in [Tabs -> SUBSET Attempts] /\ page \in [Tabs -> Pages]
  /\ calls \subseteq Calls /\ refused \subseteq Attempts
  /\ \A t \in Tabs :
       /\ \A a, b \in saved[t] : a.tab = t /\ (a.scope = b.scope => a = b)
       /\ Cardinality({c \in calls : c.attempt.tab = t /\ c.live = "page"}) <= 1

\* What is charged is what was accepted: an order belongs to the identity whose page
\* made the request, and holds the quote its customer ticked, whatever prices, carts
\* and cookies have become between the tick, the request and its execution; and there
\* is one order for a request (OrderService.placeCheckout, proxy.ts validateCheckout).
AcceptedIsCharged ==
  \A o \in orders :
    /\ o.owner = o.attempt.scope /\ o.quote = o.attempt.quote
    /\ \A p \in orders : p.attempt.id = o.attempt.id => p = o

\* Goods are sold once: what customers have put into carts is in a cart that exists or
\* in one order, after merges, retries, two tabs that place the same cart, and requests
\* executed late (CartService.mergeGuestCart, consumeCheckoutCart).
GoodsAreConserved ==
  added = removed + Total(carts, Users \cup open) +
                    Total([o \in orders |-> o.quote.items], orders)

\* An outcome the customer does not know is remembered: as long as a placement is under
\* way or its order is pending, its tab keeps the request in its storage, unless the
\* server has refused a copy of it (checkout-page.tsx place and recover).
UncertainIsRemembered ==
  LET Remembered(a) == a \in saved[a.tab] \cup refused
  IN /\ \A o \in orders : o.status = "pending" => Remembered(o.attempt)
     /\ \A c \in calls : c.live # "late" /\ OrdersOf(c.attempt) = {} => Remembered(c.attempt)
=============================================================================
