# Verification of the shop

TLA+ specifications of the shop in `src/`: a Java backend (GraphQL, Postgres), a
Go Payment Service (Kafka, Postgres, a simulated provider or Stripe) and a
Next.js storefront with its server side (sessions, accounts, checkout, staff
console). TLC checks the specifications on small instances; of the invariants and
action properties that a run finds true, all but two are also proved, with TLAPS, for
every value of the constants (section 4 names the two). Liveness is model-checked only.

    tlc -config MCOrderLifecycle.cfg MCOrderLifecycle      # one run
    tlapm OrderLifecycle_proofs.tla                        # the proofs of one module

## 1. The system

| Component | State | Operations | Talks to |
|---|---|---|---|
| Order lifecycle (`OrderService`, `OrderStatusTransitions`, `OrderRecoveryValues`) | `orders`, `order_refunds`, `refund_requests`, `order_cancellation_requests`, `order_payment_declines` | place, cancel, fulfil, track, request / approve / reject a refund, apply payment outcomes | inventory, outbox, notifications (same transaction) |
| Inventory (`InventoryService`) | `inventory.quantity`, `orders.inventory_released_at` | allocate from the first sufficient row, restore, set | orders, checkout |
| Result listeners (`PaymentResultListener`, `RefundResultListener`) | `payment_result_receipts` | succeeded, failed, unresolved, declined; refund succeeded, failed, unresolved | Kafka in, order lifecycle |
| Backend outbox (`PaymentOutboxPublisher`) | `payment_outbox` | publish at least once | Kafka out |
| Payment Service consumers (`consumer.go`, `refund_consumer.go`) | offsets, memory of the current message | charge, refund, retry in place, dead letter | Kafka in, store, provider |
| Payment Service store and ledger (`internal/store`, `internal/provider`) | `payments`, `refunds`, `payment_declines`, `stripe_operations`, `payment_outbox`, `provider_ledger` | save request, record result / unresolved / decline | Postgres |
| Stripe (`stripe.go`, `stripehttp`) | intents and refunds at Stripe | create, bind, webhook, reconcile | Stripe, store |
| Payment Service publisher (`producer.go`) | `payment_outbox.published_at` | publish at least once | Kafka out |
| Notifications (`OrderNotifications`, `ContactNotifications`) | `order_notifications` with attempts | enqueue once, deliver with backoff, give up after 8 | SMTP |
| Checkout (`checkout-page.tsx`, `proxy.ts`, `placeCheckout`, `CheckoutSupport`) | the saved requests of each tab, cookies, `checkout_requests` receipts | quote, place idempotently, retry, recover, show the order | carts, orders, identity |
| Carts (`cart-provider.tsx`, `CartService`, `GuestCartCleanup`) | carts, merge receipts, the cart cookie | edit, merge guest cart, expire | checkout, login |
| Accounts (`UserService`, Kratos and Hydra clients) | users, roles, reservations | register, change a role, delete | Kratos, Hydra |
| Account security (`lib/auth/account.ts`, `settings.ts`, `social.ts`, `flows.ts`, account pages) | the identity and its sessions at Kratos, the sealed row of each session | step-up, password, authenticator, recovery codes, Google, email change, ending sessions, registration, verification, recovery | Kratos, mail, browser session |
| Staff console and customer pages (`app/(storefront)/admin`, `lib/admin`, `lib/orders`, `lib/reviews`) | the page a user has loaded | every form for products, galleries, categories, delivery options, reviews, orders, refunds, addresses, roles | GraphQL API |
| API authorization (`SecurityConfig`, `HydraTokenIntrospector`) | cached introspections | role, scope and AAL2 of a call | Hydra |
| Rate limiting (`PostgresRateLimiter`, `TokenBucket`, `token-bucket.ts`) | buckets | take a token | — |
| Encryption at rest (`FieldCipher`, `EncryptionBackfill`) | encrypted columns, key ids | encrypt, backfill | — |
| Ratings and reviews | ratings, aggregates, votes | rate, moderate | orders (eligibility) |
| Product import, media | products, files | import, upload, remove | file store |
| Storefront session (`lib/auth/store.ts`, `handlers.ts`, `session.ts`, `attempt.ts`, `auth-maintenance.ts`) | `browser_sessions`, `oauth_transactions`, row locks | start, hand off, consent, callback, refresh, step-up, cancel, logout, release, expire | Kratos, Hydra |
| Catalog, search, wishlist, addresses, API mapping, pages, OAuth glue, build | single rows, or none | — | — |

`PROJECT.json` lists every component with its sources and what is modelled of it.

**How a payment runs.** Checkout writes the order, takes its stock and inserts a
`payment.requested` row in one transaction. The outbox publisher sends the row at
least once. A Payment Service consumer saves a `payments` row, charges through
the provider, and records the outcome together with an outbox row of its own.
The publisher there sends `payment.succeeded`, `.failed`, `.unresolved` or
`.declined`, each on its own topic. A backend listener applies it to the order.
Refunds take the same way on `refund.*`. A card payment differs in that the
consumer only creates and binds an intent; the webhook or the reconciliation
loop records the outcome later.

**What is hard.** Customer, staff and five result topics race on one order. Every
message may be duplicated, and topics are not ordered relative to each other. A
provider call can take effect and still look like a failure. A consumer may stop
between the charge and its record, and after a rebalance two of them may handle
the same message. Webhook and reconciliation act on an intent read earlier. A browser
has several tabs and cookies they share, so a page may act for an identity the
browser has left; the storefront server gives up calls that are executed later.
Handlers keep a row lock while they call Kratos and Hydra, and a rollback undoes
only the row. Two sessions of one account change it side by side, and a check
made before a change may be out of date when the change is applied, whether it is a
settings change, a change of the address that runs through shop and Kratos, or an API
call that waits for row locks. The 40 hazards listed in `PROJECT.json` give the lines.

**What makes each part correct.**
- *Orders*: receipt, payment state and lifecycle state tell one story; no money is
  kept for a cancelled order; a refund exists only for the recorded charge; what
  is settled stays settled; the customer is told nothing the books deny.
- *Inventory*: what left a row is what live orders hold of it.
- *Payment Service*: one charge per request, one refund per payment, never an
  outcome the provider does not share, nothing more about a settled payment, and
  every charge is reported in the end.
- *Both together*: their books agree, no refund is dead-lettered, every order is
  decided and every cancelled charge goes back.
- *Checkout and carts*: what is charged is what was accepted and by whom, goods
  are sold once, and a customer can find out how a placement ended.
- *Browser sessions*: an attempt is either cancelled or signed in; tokens that
  are served are current; what an ended login stands for is released at last and
  never forgotten; a clean-up ends nobody else's session.
- *Accounts*: a second factor guards every change, an address is proven, Google
  is connected on purpose only, and a page offers what its handler accepts.
- *Staff console*: an administrator remains, a decision is not undone from an old
  page, and a role that was taken away opens nothing more from a known moment on.
- *Parts not modelled*: a notice at least once or DEAD, no deadlock between
  multi-line orders, no more requests than tokens.

## 2. Modules

| Module | Content |
|---|---|
| `OrderLifecycle` | Backend: orders, stock, outbox, refunds, requests, listeners, notices |
| `PaymentService` | Go service: consumers, settlers, store, ledger; Stripe as environment |
| `OrderMoney` | Abstract specification: goods against money, for one shop as a whole |
| `PaymentSaga` | `OrderLifecycle` + `PaymentService` + Kafka; implements `OrderMoney` |
| `BrowserSession` | Login attempts and logins of the storefront server, with locks, crashes and the maintenance job |
| `AccountSecurity` | What the sessions of one account may change of it, and the account bridge's change of the address |
| `AccountEntry` | `AccountSecurity` + the forms of login, registration and recovery, up to the callback |
| `AccountPages` | Which forms the account pages show, compared with what the handlers accept |
| `Checkout` | Tabs, cookies, carts and placements, from the page to the placement transaction |
| `StaffConsole` | The forms of staff and customers, their server actions, tokens, roles and account deletion |
| `Sums` | The sum of a quantity over a finite set |
| `OrderLifecycle_proofs`, `PaymentService_proofs`, `PaymentSaga_proofs`, `BrowserSession_proofs`, `AccountEntry_proofs`, `Checkout_proofs`, `StaffConsole_proofs`, `Sums_proofs` | Theorems about these modules; those of `OrderMoney` are in `PaymentSaga_proofs` |
| `MC*` | Values for TLC |

### OrderLifecycle
One action per transaction of the backend; each takes the row locks it needs, so
a transaction is atomic. Variables are named after their columns.

- `PlaceOrder` is `persistOrder` reached through checkout; the order id stands for
  the cart, whose consumption is `status` leaving `"NONE"`. It allocates from the
  first row (ascending id) that holds the whole quantity, or fails.
- `CancelOrder` is customer and staff cancellation with its request UUID: a UUID
  is bound to one order and one actor; a replay on a cancelled order only makes
  sure that the refund exists. `CancelAndRecover` is `updateStatus(CANCELLED)`:
  stock, status and notice.
- `EnsureRefund` is the refund owed by a cancelled order whose charge succeeded,
  with the decision of the customer's open request.
- `Fulfil`, `SetTracking`, `RequestRefund`, `ApproveRefund`, `RejectRefund` are the
  staff and customer operations with the same names.
- `OnPayment...` and `OnRefundResult` are the listeners, from correlation check to
  receipt. A rejected result throws, the transaction rolls back and the offset is
  acknowledged: no change, hence no step.

`Next` lets *any* result arrive at any time, also one naming another order's
request or payment. What holds here holds whatever Kafka and the Payment Service do.

### PaymentService
One step per transaction or provider call, because a crash, a lost answer or a
second consumer can come between. `consumer`, `refundConsumer` and `settler` are
what a process holds in memory and forgets in `Crash`, `RefundCrash` and
`SettlerCrash`.

- `HandleRequest` → `ChargeSimulated` → `RecordResult`, or `ChargeError` (which may
  have taken effect) → `ReportUnresolved` → the request is delivered again.
- `AwaitStripe` creates or re-reads the intent and binds it. `CardAttempt`,
  `CardAnswer`, `CancelIntent` are the customer and Stripe (external).
  `FetchIntent` and `Settle` separate reading an intent from recording it.
- `HandleRefund`, `RefuseRefund`, `RefundSimulated`, `RefundStripe`, `RefundError`,
  `ReportRefundUnresolved`, `RecordRefundResult` are the refund consumer; an
  unmatched request goes to `dlq`.

### PaymentSaga and OrderMoney
`PaymentSaga` instantiates both sides. `kafka` is the set of messages ever
published; a delivery does not remove one, so duplication, delay and any
reordering are included. `Publish` is either outbox publisher; a crash between
send and mark is one more delivery.

`OrderMoney` says what a customer may rely on without messages or databases.
Money is taken at most once and only after an order, goods move only when the
shop knows of the charge, a known charge of a cancelled order is due to be
returned, and only due money is returned. The refinement reads `goods` from the
order status, `money` from the provider's books (ledger and Stripe, not the
services' rows), `known` from the order's payment status and `due` from its
refund row. Messages, retries and crashes are stuttering steps.

### BrowserSession
`rows` is the table `browser_sessions` with the sealed state of each row, `grant`
and `kratos` are what it stands for at Hydra and Kratos. Rows are named by the
identifiers of the cookies, issued in order; a handler may be given any of them.
A handler runs under the lock of its row (`withBrowser`); `busy` says what a
holder is in the middle of, and stands for the lock in `Free`.

- `StartRead`/`StartCreate` are `/auth/start` (two statements, an attempt of the
  flow cookie cancelled in between), `SignIn`, `Handoff`, `Consent` the steps of the
  login form, the login challenge and the consent challenge.
- `CallbackExchange` redeems the code, `CallbackCommit` stores the new login,
  retires the one it replaces and deletes the attempt; `Crash` may come between.
- `Refresh`, then `RefreshCommit` or `RefreshFails`, or a `Crash`: Hydra has rotated
  the token before the row is written. `Reject` is every other end in
  `authenticatedState`.
- `ReleaseProvider`, `ReleaseGrant` are `revokeSession`, called by logout and by the
  maintenance job; `MarkExpired`, `Delete` are the statements of that job.
- `Cancel` and `FinishCancelled` are `cancelLoginAttempt` and its clean-up. The
  guard in the page (`auth-attempt-guard.tsx`) is one of its callers.

Identifiers run out instead of being reused, which bounds the runs; the number of
refreshes and of attempts at a time is bounded by `MaxRefresh` and `MaxAttempts`.

### AccountSecurity, AccountEntry, AccountPages
One account with its identity at Kratos (`acct`), its sessions there (`sess`) and
the sealed row of each (`row`). The handlers of one session are serialized by its
row lock, those of two sessions are not: a settings change is `SettingsCheck`,
which makes every check of `securitySettingsFlow`, and `SettingsApply`, in which
Kratos changes the account as it is by then (`busy` in between, `SettingsFails` when
it does not). Removing the authenticator goes on with `SettingsCleanup` of the
recovery codes, a second call. The other actions are those of `accountAction`:
`StepUpSend`, `StepUpVerify`, `EmailRequest`, `EmailVerify`, `EmailVerifyFails`,
`EmailCancel`, `SessionsRevoke`.

The change of the address is the longest of them. `EmailVerify` is the handler with the
right code, up to the one look the bridge takes at the session; it remembers the address
as `proven`. From then on the bridge works on its own (`call`), step by step:
`EmailRead` reads the address of now and refuses one that is taken, `EmailShop` changes
the shop (`acct.shop`), `EmailPut` gives the address to Kratos unverified and `EmailPatch`
marks it verified. When a call to Kratos fails, or seems to, `_compensate` runs the last
two again for the address it had read (`undoPut`, `undoPatch`) and `EmailUndoShop` puts
the shop back. The bridge may die between any two calls (`EmailCrash`), and the handler
may give up waiting (`EmailTimeOut`) while it goes on. Nothing here looks at the
session again, and the calls of two sessions interleave. `assured` is history: whether
the session had the assurance of the account when the bridge looked.

`AccountEntry` adds one attempt to log in, with the form Kratos is in (`attempt`):
`SubmitPassword`, `SubmitSecondFactor`, `Register`, `Verify`, `Recover`, `Reset`, the
way to Google and back with each of its answers (`GoogleSignsIn`, `GoogleConflict`,
`GoogleContinues`, `GoogleRegisters`, `GoogleFails`), `Handoff` and `Callback`, which
makes the session one of the account.

`AccountPages` has no state. It translates the components (`SecurityPage`,
`ProfilePage`, `ConnectionsPage`, `SessionsPage`, `AdminSecurity`) into the set of
forms they show, next to the handlers' own conditions (`Accepts`, `AcceptsAccount`).

Time only takes away (a sign-in grows old, a step-up lapses, a code expires) and
makes a handler refuse, so there is no clock: a request that is refused is one
that does not happen. Mail arrives or not; a right code is an alternative of the
action and a wrong one another.

### Checkout
The cookies (`jar`) are shared by the tabs of one browser, `saved` is the session
storage of each tab and `page` what it shows and for whom. A placement is a record
in `calls` with the cookies it was sent with: it is executed (`Execute`: the scope
check of `proxy.ts`, the receipt, the cart, the accepted quote, the order), fails
(`FailRequest`), is answered (`Receive`, which also sets cookies) or given up
(`TimeOut`, `Reload`), after which it may still be executed ("late"). A quote that
holds can still be refused, when card payments are not configured
(`RefuseUnpayable`). The page asks who it works for (`VerifyIdentity`), recovers a saved
request (`Recover`), accepts a quote, places, retries and checks the status
(`CheckStatus`, which saves nothing). `VerifyPayer` is the check of the payer before and
after the payment form, `CancelOrder` the cancellation, which invalidates its own tab.
The preview that `AcceptQuote` stands on may issue the guest's proof anew (`RenewProof`),
and its refusal invalidates the page. Carts are filled,
emptied, started for guests, merged after `Login` (with an answer that may be
lost), and consumed by the order. Prices, stock and shipping costs are one value,
`price`, which may change at any time.

An identifier is taken again when nothing refers to it any more, which is as good
as a new one and keeps the state space finite without a bound on placements.

### StaffConsole
One record of a chosen kind (`subject`), and its life as edges (`Edges`): for each
action the states the API allows it in and the state it leads to. A page (`Load`)
holds the forms for the record as it was when loaded; `Submit` is a server action,
which checks the session (`Gate`) and sends a call with its token. A call comes in once
(`Admit`: introspection, role, scope and AAL2) and does its work later: `Change` moves
the record if its state allows (`Allowed`), however long the call has waited and
whatever became of its token. `Refuse` is every end without effect: not authorized, not
allowed, lost, chosen as the victim of a deadlock. `TimeOut` is the abort of the
storefront, after which the call goes on.

With the subject "users" the accounts are the records. A change of a role is
`updateRole`, statement by statement: `FindAdmins` (the active administrators, unless
the new role is ADMIN), `LockRow` for each of them in the order of ids (`Id`; a row that
no longer belongs to an active administrator is locked but not counted) and then for the
user (`findLockedById`), `AssignRole` with the count of what it has locked, and
`RevokeGrants` after the commit. A deletion takes three transactions. `tokens` carries
the role a token was minted with and whether Hydra, or only the introspection cache,
still vouches for it. `lost` is history: the change of the role was reported to an
administrator, then the cache expired. So is `spent` of a call: whether its token was
in that state when it came in.

A refreshed token never has another role, since the session ends first
(`authenticatedState` compares roles). A login takes the role and the token in one step.
Roles that open nothing here are represented by USER. Beside a record one call on it and
one change of the owner's role are under way, of which one may be late; several changes
at once belong to the subject "users".

### Abstractions
- An order has one item of one variant. Several lines change only lock order and
  all-or-nothing allocation.
- Amounts and currencies are fixed per order; results with wrong amounts are
  rejected like other uncorrelated results.
- The backend's refund id stands for its order (unique `order_id`); likewise the
  `payment.requested` event id. `status` and `transition` history rows are left out.
- `Settle` binds the intent and records it in one step: binding changes nothing
  else. The binding of Stripe refund ids is left out: `stripeRefund` is keyed by
  the refund that owns it.
- The parts meet at shared notions, not in one state space: the order of `Checkout`
  is the `PlaceOrder` of `OrderLifecycle`, the session of `AccountEntry` is the row
  of `BrowserSession`, the role of a token in `StaffConsole` is what a login there
  mints. Only the order and the payment side are composed (`PaymentSaga`), because
  there the two act on each other in both directions.
- Consumers take requests in any order, so a message that is retried for ever
  does not block the ones behind it.

## 3. Runs

| Run | Instance | Question |
|---|---|---|
| `order` | 2 orders (guest with pickup, customer), 2 payments, 2 rows holding 3 and 2, quantities 2 and 3, 2 refund requests | All safety properties of the backend |
| `order_decline` | 1 order, 1 payment | Finding 1 |
| `pay` | 3 orders (one declining, one with a card), 2 payments, 2+2 consumers, 2 settlers, 2 attempts, 2 refund ids | Overlap, crash and lost answer with the ledger; old intents, declines and refunds at Stripe (249,412 states) |
| `pay_live` | 1 simulated and 1 card order | Charges are reported, simulated payments settle |
| `saga` | 1 order, 2 payment ids, 1 consumer each | Refinement, books, liveness end to end |
| `browser_session` | 3 identifiers, one of them logged in, 1 refresh, 1 attempt at a time | Cancellation, callback, refresh, release and maintenance with a crash at every step (305,136 states) |
| `account_entry` | 2 sessions, 2 addresses, 2 changes of the address at a time, 1 guess, 2 open challenges, 1 beside an attempt, 1 code | Two sessions and a login attempt change one account; the address is changed, fails and is taken back in two sessions at once (608,355 states) |
| `account_assurance` | 2 sessions, 1 change of the address at a time, confirming an authenticator as the only settings change, no failures | Finding 3 |
| `account_codes` | as `account_entry`, no change of the address | Finding 2 |
| `checkout` | 1 tab, 1 customer, 1 guest, 2 requests, 2 guest carts, 2 prices, 2 goods, 2 calls | Lost, late and repeated placements under changing carts, prices and cookies (1,585,669 states) |
| `console` | 2 users, 2 tokens, 9 kinds of records (the users among them), 2 pages and calls | Old pages, old tokens and admitted calls; concurrent role changes and deletions (2,844,449 states) |
| `console_locks` | 3 users, the one with the lowest id not yet an administrator; no failures | Finding 4 |

**Why the bounds are enough to be interesting.** Two orders are what it takes for a
result to name the wrong order, for a payment id to be claimed twice and for
stock to run out: with rows of 3 and 2, the order for 2 takes it from the first,
and the order for 3 then fits in none, although 3 are left in all. Two
consumers of a kind are what it takes to overlap; a third behaves like one of
them after a crash. Two refund ids are two claims on one payment. Two settlers
are one that has read an old intent and one that has recorded a newer one. Two
payment ids in the saga allow a second charge for the one order, which must not
happen. Nothing else is bounded there: sets of messages and rows are finite because
their keys are.

In `browser_session` the third identifier is what a step-up needs: the login, the
attempt that borrows its provider session, and the login that replaces it. The run
begins with a customer logged in (`LoggedInSpec`), a state every login leads to.
Two sessions are one that changes the account and one that has checked it before.
`checkout` needs two requests and two guest carts, so that one is saved or late
while another is placed, and a cart is started while an older one is merged. In
`account_entry` two changes of the address at a time are one that fails and is taken
back over the other. In `console` two users are two administrators who demote each
other; a token each is enough, as a token nobody presents any more is forgotten.
`console_locks` needs a third user, who is promoted between two statements.

Two runs leave out states by a CONSTRAINT. `OneProvider` (`pay`) keeps the payments of a
behaviour with one provider, and one consumer at a time on a card payment, which it
only creates and binds; `pay_live` has both providers side by side. `AddressAlone`
(`account_entry`) lets the account change in every way until a new address is proven,
and from then on lets the sessions change only addresses and confirm an authenticator,
the one settings change that matters to them. A card payment through both services is
not a run: the refinement was checked with one by hand (272,905 states), and the theorems
on `PaymentSaga` hold for it.

`CHECK_DEADLOCK FALSE` is set everywhere, because the modelled system does stop:
an order that is completed or cancelled and refunded has nothing left to do, and
identifiers, refreshes and goods run out.
That it does not stop too early is what the liveness properties say.

**What each property is about**
- `ReceiptAgrees`, `OutcomesAreFinal`: duplicates, contradictions, late
  uncertainty. `OutcomesAreFinal` also forbids resurrecting a cancelled order.
- `CancelledChargeIsRefunded`, `RefundIsBacked`: cancellation, late success and
  staff approval each may issue the refund; there is one, with its event, for the
  charge that succeeded.
- `StockConserved`: exact, per row, under every race.
- `OpenRequestIsLive`: a customer's request never outlives its order.
- `NoticesAreTrue`: mails that contradict the books.
- `ChargedOnce`, `RowsAgreeWithProvider` (outcomes and refunds are the provider's,
  a payment is refunded once), `OutboxAgrees`, `SettledIsSilent`: the Payment Service
  against the provider's books.
- `BooksAgree`, `NoRefundIsDeadLettered`, `ImplementsOrderMoney`: both services.
- `ChargeIsReported`, `SimulatedSettles`, `PlacedIsDecided`, `CancelledIsRefunded`:
  liveness.
- `CancelledNeverSignsIn`: the cancel button against a callback that has already
  redeemed the code.
- `ServedTokensAreCurrent`: a refresh token that Hydra has rotated and the row has
  not stored is never served, or a retry would make Hydra revoke the grant.
- `NothingIsForgotten`, `EndedLoginsAreReleased`: a row is the only memory of a
  grant and a provider session, so it must outlive them; and they go at last,
  whichever call fails and however often.
- `LiveLoginSurvives`: a borrowed provider session belongs to two rows at a time.
- `AuthenticatorGuardsChanges`: the second factor may be added between the checks
  of a settings change and the change. What guards it then is Kratos' own check of the
  session, which the handler's call depends on. For a change of the address it says less,
  because the code does less: only the session's assurance when the bridge was asked
  counts. Finding 3 is the rest.
- `EmailIsProven`: neither Kratos nor the shop ever holds an address that was not proven
  by a code mailed to it. A code mailed for one address, a second request, a second
  session whose change is under way, a compensation that writes an older address back:
  all of them may change which proven address it is, none brings in another. It does not
  say that shop and Kratos agree: a crash leaves them apart, and so does a compensation
  that fails, which the code only logs (`account.py:328,333`).
- `GoogleIsLinkedOnPurpose`: the form in which Kratos itself would connect a
  matching Google account is left, and a fresh one is started.
- `PagesAgreeWithHandlers`: what a page decides to show and what a handler decides
  to accept are written in different files. A page that has just been loaded shows
  no form that is refused, except two known ones (see *Observations*), and is
  never a dead end.
- `AcceptedIsCharged`, `GoodsAreConserved`, `UncertainIsRemembered`: the promise of
  checkout, of carts, and of the saved request.
- `LastAdminStays`: concurrent demotions; each call counts only the rows it has locked,
  as they are by then. A change that read without locks would lose the last one.
- `LostRoleIsPowerless`: no call that came in after the change was reported and the
  cached answers had expired changes a record or a role. A call that was admitted before
  may (see *Observations*), so the property is about `Admit` and the cache's deadline,
  which a use must not prolong.
- `DecisionsStand`: two people act from pages loaded before the other's decision. What has
  been sold is not deleted, a shipped order not cancelled, a cancelled one not revived, an
  approved refund not rejected, and only staff make a hidden review visible.

Each property of a passing run has a mutant in `PROJECT.json`: a definition of the
model changed as a plausible bug would change the code (an event not inserted, a
status read before the transaction, an unknown outcome taken for a failure, a
dropped unique key ...), under which TLC finds the property violated. Definitions
named `X_Y` next to `X` are these mutants; the specifications do not use them.

### Fairness
- An uncommitted message is offered again until it is handled
  (`consumer.go:132-136` retries in place), and a reconciliation round takes the
  payments in rotation (`handler.go:293-296`), so receiving and fetching are
  strongly fair *per order and payment*.
- A step once begun ends (weak fairness of a consumer's next step), though
  possibly in an error or a crash.
- An attempt that can succeed again and again does so in the end: strong fairness
  of the successful provider call and of its record. Errors and crashes may go on
  for ever in between; what is excluded is only a provider that always fails.
- Publishers and terminal-result listeners are weakly fair: `@Scheduled` and the
  Kafka listener container run as long as the process does.
- Nothing is assumed of customers, cards or Stripe. `pay_live` therefore promises
  nothing about a card payment except that a *taken* charge is reported.
- A holder of a row lock ends or crashes (every call it makes has a timeout), and
  the maintenance job runs every minute (`auth-maintenance.ts`): weak fairness per
  row. A release that is tried again and again succeeds at last: strong fairness of
  `ReleaseGrant` that commits. Customers and Kratos owe nothing.
  `EndedLoginsAreReleased` leaves out the batch size of the job (50 logins whose
  release always fails would keep later ones waiting, `session.ts:105`).

Two things the code does are outside these assumptions and stay open: a listener
that fails three times gives the result to a `-dlt` topic
(`PaymentKafkaConsumerConfig.java:26`), and an unbound Stripe key older than 23 hours
is never sent again (`stripe.go:112`). Liveness holds as long as neither happens.

### Findings
1. *A decline after cancellation.* `docs/api/order-cancellation.md:77` says that a
   card declined after the customer's cancellation leaves the payment state
   "unchanged". `applyPaymentDecline` sets `DECLINED` without looking at the order's
   status (`OrderService.java:864`), so PENDING or UNRESOLVED becomes DECLINED. Run
   `order_decline` shows it. Nothing else depends on it: a later success is still
   recorded and refunded.
2. *Recovery codes without an authenticator.* `settings.ts:330` and
   `docs/auth/account-management.md:92` say that recovery codes are never left as a
   lone second factor. The removal of the authenticator removes the codes, but the
   confirmation of new codes (`settings.ts:293`) does not ask for an authenticator:
   codes generated in one session and activated after another session has removed
   the authenticator stay alone. Run `account_codes` shows it. The customer is then
   asked for a second factor at every login and has only the codes.
3. *A change of the address without the authenticator.* `account-management.md:39-40,48`
   lists the email address among the changes that need an authenticator used within
   the last ten minutes, where one is configured, "server-side on every mutation" (`:60`).
   The code looks at the session once, when the code is entered (`bridge_server.py:178`;
   `email_verify`, `account.ts:336`, asks for no step-up), and the admin call that changes
   Kratos later (`account.py:310`) asks for nothing. A session without second factor
   changes the address although another session has confirmed an authenticator in
   between. Run `account_assurance` shows it.
4. *Role changes in a deadlock.* `UserRepository.java:55` and `UserService.java:420` say
   that the locks in id order avoid deadlocks. The user whose role changes is locked last
   whatever the id (`UserService.java:421-423`), and the administrators are those found
   when the statement began. A call finds A and B, to change C's role; C is promoted by
   another; a third call, which demotes A, finds A, B and C. If C has the lowest id, it
   holds C and waits for A, and the first holds A and B and waits for C. Run
   `console_locks` shows it. Postgres ends one of the two, and nothing is lost but that
   call.

### Observations
Places where the code does something a reader might not expect. The models include
them, and the properties are stated so that they hold with them.
- Ending other sessions asks for neither a fresh sign-in nor a step-up
  (`account.ts:263-279`), although `account-management.md:39-40` lists it among the
  changes that need both; entering the code for a new address asks for neither again
  (`account.ts:336`).
- A customer who leaves for Google and does not come back leaves `state.social`
  pending, and both Google actions are refused from then on (`settings.ts:280`)
  while the page shows their form. "Use Google email" is shown without a step-up
  and refused. These are `KnownRefusals` of `AccountPages`.
- A step-up attempt whose login has ended begins a provider session of its own,
  which nobody signs out when the attempt is cancelled; a callback that fails after
  the code exchange leaves its grant behind (`handlers.ts:186`).
- A saved guest request whose cart is gone is refused with
  GUEST_CART_UNAVAILABLE, which clears nothing: the page offers only its retry.
- A late answer to a placement restores the guest cookies it was sent with, also
  after a logout.
- `createVariant` without "Active" is two calls: a failure of the second leaves the
  variant active (`admin/actions.ts:218-223`).
- Deleting one's hidden review and posting it again makes it visible.
- A call that was admitted with a token still acts after the role is gone, the token
  revoked and its cached answer expired: the token is looked at once
  (`HydraTokenIntrospector.java:100-118`), and a role change may wait for rows, an import
  may run for long. That "all the user's grants become inactive"
  (`browser-contract.md:383`) is about calls to come.
- Between `PUT` and `PATCH` of a change of the address (`kratos.py:128-147`) the account has
  an unverified address: any session that is looked at then is ended, also the one that
  asked for the change, and a crash there leaves the account so until the address is
  verified again.
- A failed change is taken back to the address read at its start (`account.py:289,323`),
  also over one that another session has set since. That address was proven too, but it
  is not the last one the customer chose.
- `deleteUser` does not ask whether an administrator remains
  (`UserService.java:355`); `LastAdminStays` is about changes of roles.

## 4. Proofs

`OrderLifecycle_proofs` proves, assuming only `ConstantsAssumption` (guests and
pickups are orders, quantities are positive, row ids are numbers, the null values
are not ids):

| Theorem | Statement |
|---|---|
| `TypeCorrect` | `Spec => []TypeOK` |
| `ReceiptCorrect` | `Spec => []ReceiptAgrees` |
| `NoCancelledChargeIsKept` | `Spec => []CancelledChargeIsRefunded` |
| `RefundsAreBacked` | `Spec => []RefundIsBacked` |
| `OpenRequestsAreLive` | `Spec => []OpenRequestIsLive` |
| `SettledIsFinal` | `Spec => OutcomesAreFinal` |
| `NoticesCorrect` | `Spec => []NoticesAreTrue` |
| `StockIsConserved` | `Spec => []StockConserved` |

These hold for any number of orders, payments, rows, requests and results, finite
or not, and for results that no Payment Service would send.

The argument. `TypeOK` is inductive by itself; its one arithmetic fact is that the
allocated row holds the quantity (`FirstRowFits`, from the least element of a set
of row ids). The invariant of the rest is

    IInv == TypeOK /\ CartIsUntouched /\ ReceiptAgrees /\ RefundInv

`CartIsUntouched` (an order that is not placed has payment state PENDING) is needed
because `PlaceOrder` writes PENDING: without it, placing could erase a recorded
outcome. `RefundInv` contains the three refund properties and `OpenRequestIsPaid`:
an open request belongs to a charged order. That is what makes
`OpenRequestIsLive` inductive in a cancellation: `EnsureRefund` closes the requests
only when it issues a refund, and an open request shows that it must. The step
lemma treats the order of the step and all others apart (`OtherOrders`), one step
per action. `OutcomesAreFinal` then follows from `IInv` and one look at each action.

`NoticesAreTrue` needs one fact more (`ToldIsSo`): an order that was told to be in
preparation is still being fulfilled, so it cannot be cancelled. Its argument has two
halves: `TellsStep`, a step tells only what it makes so, and `SettledStep`, what is
settled stays.

`StockConserved` needs that a placed order holds a row, that exactly the cancelled
orders have given theirs back, and that finitely many orders are placed:

    StockInv == IsFiniteSet(Placed) /\ HoldingOK /\ StockConserved

A placement adds one order to the holders of one row, a cancellation takes one out,
and all else moves no goods (`MovesNothing`). What that does to the sum comes from
`Sums_proofs`: a sum does not depend on the order in which its members are taken
(`TotalTakes`, `TotalAdds`), is a natural number, changes with one member by what that
member changes, and so on. The library's induction theorems cannot be used, as they
take an operator as a parameter. The lemmas argue with a smallest counterexample
instead: of any non-empty collection of subsets of a finite set one has no other
member inside it (`Smallest`, from the well-foundedness of strict inclusion).

`PaymentService_proofs` proves, from `ConstantsAssumption` (Stripe orders and orders
that decline are different orders, NULL is no id),

| Theorem | Statement |
|---|---|
| `ServiceTypeCorrect` | `Spec => []TypeOK` |
| `CustomersAreChargedOnce` | `Spec => []ChargedOnce` |
| `RowsAreTrue` | `Spec => []RowsAgreeWithProvider` |
| `OutboxIsTrue` | `Spec => []OutboxAgrees` |
| `SettledStaysSilent` | `Spec => SettledIsSilent` |

for any number of consumers, settlers, orders, payments, refunds and card attempts,
finite or not. The invariant is `ServiceInv == ChargeInv /\ RefundInv`. `ChargeInv`
says that a request event has one row; that the answer a consumer is about to record
is in the ledger, so a crash before the record loses nothing; that the ledger has one
CHARGE per payment; and that what a settler has read is still true if it is final
(succeeded or canceled), however old it is. `RefundInv` says that refund rows belong to
successful payments, one to each, and that every REFUND of the ledger has its row. Both
rest on two facts about a step, `Steady` and `RefundsSteady`: requests keep their rows,
settled rows do not change, and what the provider decided stays decided. The outbox is
proved by itself: `Telling` says what a transaction writes together, the change of one
row and its event, or neither; `OutboxInv` (one outcome event if and only if the row
has the outcome, at most one unresolved event, and then the row's flag is set) is kept
by that alone. The theorem on silence is `Steady`, `RefundsSteady` and `Telling` read
at a settled row.

`PaymentSaga_proofs` proves, from `ConstantsAssumption` of `PaymentSaga` (the two
services' assumptions taken together),

| Theorem | Statement |
|---|---|
| `BooksAlwaysAgree` | `Spec => []BooksAgree` |
| `NoRefundIsLost` | `Spec => []NoRefundIsDeadLettered` |
| `SagaImplementsOrderMoney` | `Spec => ImplementsOrderMoney` |
| `SagaKeepsPromise` | `Spec => []Money!Promise` |
| `PromiseKept` | `Any!Spec => []Any!Promise`, with `Any` an instance of `OrderMoney` over variables of its own |

for any number of orders, payments, cards, consumers and settlers. Nothing of the two
services is proved a second time. `ShopP` and `PayP` are the services' proof modules
with the variables of the saga in place of theirs. `PayStepIsOwn` and `ShopStepIsOwn`
show that every step of the saga is a step, or a stutter, of each. The first needs
nothing. The second needs that what a listener reads is what the Payment Service
published: everything on Kafka is in one of the outboxes (`Sent`, `Base`), and every
event of the Payment Service is true and stays so (`EventsAlways`). The invariant is

    SagaInv == Agree /\ PlacedFirst /\ NoRefundIsDeadLettered

`Agree` says, per order, that a payment the shop has bound is one the service made for
that order, that a recorded outcome is the one in the service's row, and that a refund
the service has taken in is owed by the shop, for that payment. `PlacedFirst` says that
only placed orders are charged. That no refund request is refused follows from these:
the backend asks only for a charge it knows as successful (`RefundIsBacked`), so the
service has recorded the success before, and a second refund of the same payment
would belong to a second order with the same payment (`DueIsRefundable`). The parts of
`Agree` and `PlacedFirst` were checked with TLC before they were proved, on instances
with one simulated order, with one card order, and with two orders and two payments
(209,033 states).

The refinement takes one lemma from each side. `StepMovesOne` of
`OrderLifecycle_proofs` says that a step moves the goods, the knowledge and the debts
of one order at most, in one of five ways: these are `Place`, `Learn`, `Cancel`, `Move`
and `Grant`. `StepMovesOne` of `PaymentService_proofs` says that a step moves the money
of one payment at most, and only forward: `Charge` and `Return`. `Learn` requires that
the money was taken and has not gone back; the first is `Agree` after the step, the
second `Agree` before it. `Charge` requires that no other payment of the order was
charged (one row per request), `Return` that the shop owes it (`Agree`).

`PromiseKept` is about `OrderMoney` alone. It needs no assumption; the strengthening is
what the shop must know: it knows only of charges that were made, sells only what it
knows to be paid, and returns only what it knows to be charged.

`BrowserSession_proofs` proves, for any number of rows and refreshes,

| Theorem | Statement |
|---|---|
| `SessionTypeCorrect` | `Spec => []TypeOK` |
| `ServedTokens` | `Spec => []ServedTokensAreCurrent` |
| `NothingForgotten` | `Spec => NothingIsForgotten` |
| `CancelledAttemptsEnd` | `Spec => CancelledNeverSignsIn` |
| `LoginsSurvive` | `Spec => LiveLoginSurvives` |

from `BrowsersAssumption` and `BoundsAssumption`. The invariant `SessionInv` says what
the holder of a lock relies on (`LockInv`): its row is stored; the row a callback
is about to write is unused, its grant fresh, and no other callback waits for
it; a row being refreshed has an old token. The last is what a crash in the
middle of a refresh needs: the row it leaves does not serve its token. Most steps
rewrite rows that nobody holds (`RowsStep`) or the one row of a lock (`LockStep`); the
callback writes three rows and is proved by itself.

The first two action properties need `ReleaseInv`, which adds what an ended login stands
for (`Settled`): a login that is over with nothing pending has its grant revoked and
its provider session out; a release under way has signed that session out; the
attempt of a callback under way is neither a login nor revoked, and its transaction
is open. `ServicesKeep` says that what is out or revoked at Kratos and Hydra stays
so, and `Careful` that a step neither takes a row to one of these situations nor
deletes it outside of them. All steps are `Careful` with every row but the three that
take or use a lock for a release or a callback, which `LockedSettled` treats.

`LoginsSurvive` needs to know whose a provider session is. `TakeoverInv` adds
(`Handed`, `LatestApart`) that the provider session a row holds is its own or was
handed on by a login; that an attempt which will sign its provider session out began
that session itself; and that a replaced login which is still to sign its provider
session out does not hold the one its replacement uses. So what a release signs out
is no session of a live login. Like the other invariants it was checked with TLC first, on the instance
of `browser_session`.

`AccountEntry_proofs` proves, from `AccountAssumption` (there is at least one guess
and one recovery code, and finitely many sessions) and `EntryAssumption`,

| Theorem | Statement |
|---|---|
| `EntryTypeCorrect` | `Spec => []TypeOK` |
| `AddressIsProven` | `Spec => []EmailIsProven` |
| `AccountsAreNotMerged` | `Spec => GoogleIsLinkedOnPurpose` |
| `ChangesAreGuarded` | `Spec => AuthenticatorGuardsChanges` |

for any number of sessions and addresses, with `AccountSecurity` as it runs under the
forms of `AccountEntry`. Of `EntryInv`, three parts go beyond the types. The code a row
waits for was mailed to the address the row would set (`ProvenRow`), which every way to
open, answer, resend or drop a challenge has to keep. Every address that a change could
still write is proven (`ProvenInv`): those that Kratos and the shop have, the one each
call of the bridge is for, and the one it would go back to. That last one is what the
compensation needs: it was read from Kratos, where it was proven already, and
what is proven stays proven. No login form is one in which Kratos would connect Google
(`Plain`). `AddressIsProven` is `ProvenInv` read at the present addresses.
`AccountsAreNotMerged` follows from `Careful`, which says it for one step and is
shown action by action with the invariant. `ChangesAreGuarded` is read off the actions
that change an account, where a change by the bridge needs that an admitted call keeps
what was seen of its session.

`Checkout_proofs` proves, from `CheckoutAssumption`,

| Theorem | Statement |
|---|---|
| `TypeCorrect` | `Spec => []TypeOK` |
| `ChargedAsAccepted` | `Spec => []AcceptedIsCharged` |
| `GoodsAreSoldOnce` | `Spec => []GoodsAreConserved` |
| `UncertaintyIsRemembered` | `Spec => []UncertainIsRemembered` |

for any tabs, customers, identifiers and prices. The invariant has one part for each
place where a request leaves a trace:

    IInv == CookiesOK /\ CartsOK /\ OrdersOK /\ GoodsAreConserved
            /\ TabsOK /\ CallsOK /\ IdsOK /\ MemoryOK

A request has one order (`OrdersOK`), which is what a repeated or late call finds; a
page that has recovered has nothing saved but its own request (`TabsOK`) and waits for
no other (`CallsOK`); no two requests share a UUID (`IdsOK`); and a call that may still
place an order is saved in its tab, or the server has refused a copy of it
(`MemoryOK`). The last is stronger than `UncertainIsRemembered`, which speaks only of
what the customer has to learn: late calls are remembered too, or their order would
be forgotten when it is placed. Goods are sums over carts and orders, with the lemmas
of `Sums_proofs`. TLC checked `IInv` on the instance of the run `checkout` first.

`StaffConsole_proofs` proves, from `ConsoleAssumption`,

| Theorem | Statement |
|---|---|
| `ConsoleTypeCorrect` | `Spec => []TypeOK` |
| `AdministratorRemains` | `Spec => LastAdminStays` |
| `LostRolesArePowerless` | `Spec => LostRoleIsPowerless` |

for any users, tokens, kinds of records and bounds. `AdministratorRemains` needs to know
what a lock is worth (`LocksInv`): a row is held by one call, what a call counts it
holds once nothing is awaited, and an administrator whose row a call holds and counts is
an active administrator still, because every action that would end that waits for the
row. So of more than one, counted in the transaction that demotes one, another is left.
It needs the set of users to be finite, since the code counts. `LostRolesArePowerless`
rests on two other parts of `ConsoleInv`: a spent token is dead, so `Admit` refuses it,
and no admitted call was spent when it came in, which its later steps keep. All of it
needs that forms for roles name a user and a role of the vocabulary, which every page
has to guarantee (`FormsTyped` ...).

Only model-checked are the liveness properties `ChargeIsReported`, `SimulatedSettles`,
`PlacedIsDecided`, `CancelledIsRefunded` and `EndedLoginsAreReleased`: they need
ENABLED and rules for fairness that the prover does not have. So are
`PagesAgreeWithHandlers`, which compares two formulas over one state and needs nothing of
the behaviour, and `DecisionsStand`, which depends on the tables of edges and not on their
interplay with tokens and pages. The four findings are violations and have no theorem.

## 5. Not modelled, and what could come next

- *Several lines in an order*: they add the order in which rows of variants are
  locked and the deadlocks that follow from a different one (`OrderService.java:303`).
  With one variant an order locks one row. Next would be a module for that alone.
- *Absolute stock*: staff set a quantity without a lock while checkouts decrement it
  (`InventoryService.java:56`); it is a lost update by design, and no document
  promises more.
- *Registration in depth*: the reservation that spans the database and Kratos, with
  its expiry. `AccountEntry` has registration as the storefront drives it.
- *Expiry of guest carts* (`GuestCartCleanup`) and stale merge identifiers after a
  lost answer (`cart-provider.tsx:35-47`, `CartService.java:239-251`): such an identifier
  refuses later merges, and moves no goods.
- *Saved requests of an older release*, which carry no identity
  (`checkout-page.tsx:131-135,149-154`): the present program writes none. A request
  UUID that a second tab uses on purpose is not exercised either.
- *Identities of outbox rows*: an outbox is a set of events without ids, so inserting an
  identical event twice is the same as once. `OutboxAgrees` and `SettledIsSilent` see a
  second event that differs, in its reason or outcome, and not a verbatim repetition,
  which the receivers treat as one anyway.
- *The time of a login*: the role is read (`login_consent.py:199`) and the token
  issued in one step. Whether Hydra's revocation reaches a login that is between the two
  is Hydra's affair.
- *Mail*: batches, backoff, DEAD after eight failures. A notice counts as sent when
  it is enqueued.
- *Clocks*: the 23-hour Stripe key, lifetimes of challenges and sessions other than
  by an action that may happen at any time.
- *Partitions*: a message that is retried for ever blocks the ones behind it; the
  dead letter topic of the backend's listeners.
- *Maintenance* of the OAuth service, the pool of database connections and the
  cookies of a browser that the server clears late (`http.ts:128`).
- *Rate limiting* is one row per key and shows here as a request that fails;
  *encryption at rest* is a library function and a backfill repeated until nothing
  is left.
- *Media files* that outlive their rows, and images that are renumbered by two
  changes at once; rating aggregates and eligibility.

Left out for good: page rendering, navigation and validation messages, the GraphQL
documents with their generated types and argument mapping, catalog search and
wishlist (single reads and writes), smoke-test and load-test scripts, build and
deployment, and the ciphers and mail transport as libraries.
