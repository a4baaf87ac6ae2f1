# Buildivo API in TLA+: orders, money, returns, catalogue, accounts and the back office

This directory holds a formal model of the Buildivo shop API (NestJS, Prisma, PostgreSQL; sources
under `src/src`): TLA+ modules, TLC configurations that check them on small instances, and proofs
that TLAPS checks. Paths below are relative to `src/src/`.

1. Inventory of the system
2. Plan
3. Modules and how they correspond to the code
4. Runs: what each one asks and shows, and why its bounds are enough
5. Fairness
6. Proofs
7. Where the code and its comments disagree
8. What the models show besides the properties
9. What is not modelled

## 1. Inventory

The API is a set of stateless application instances over one PostgreSQL database. Every handler is an
`async` function: it may be interleaved with any other at each `await`, on the same instance or
another. Transactions run at READ COMMITTED unless the code asks for more (two do, SERIALIZABLE:
`PaymentStateService.transition` and `GiftCardsService.update`). Nothing is kept in memory between
requests except caches. The outside world is two payment providers (Stripe, PayPal), a mailer, object
storage and AI services.

| Component | State | Operations | Hard behaviour | What makes it correct |
|---|---|---|---|---|
| **Storefront orders** (`modules/storefront/orders`) | `orders`, `order_items`, `order_status_history`, `product_variants.stock_qty`, `coupons.usage_count`, `order_coupons`, the customer's cart | `checkout`, `cancel`, reads, invoice PDF | reads its cart, stock and coupon before the transaction; idempotency key; last unit; partial failure inside the transaction | no overselling, units accounted for, one order per key, coupon counter equals uses |
| **Order expiry** (`order-expiry.service.ts`, `common/lease.ts`) | the same rows | a five-minute sweep under an advisory lock that is given up after ten minutes | overlaps payments, cancels and itself | only unpaid orders expire, units go back once, every waiting order leaves |
| **Payment attempts** (`modules/payments`) | `payment_attempts`, `payment_transactions`, `invoices`, the order row | `create` (opens a provider session), `capture`, `finalizeCapture` | provider calls between transactions, lost answers, crashes between the attempt's and the order's transaction, two attempts for one order | a paid order has a recorded session of its own, one invoice and one captured payment per order, settled attempts stay settled |
| **Payment state machine** | `payment_attempts.status` | `transition` | races on the same attempt | only the transitions of its table |
| **Payment webhooks** | `payment_webhook_logs`, attempts, transactions, orders, refunds | Stripe and PayPal events | duplicated, reordered, early or lost; logged before applied; a session is completed before a delayed payment is in | agree with the capture path whatever the order |
| **Payment reconciliation** | attempts | sweep over unsettled attempts | races with webhooks and captures | money taken is found in the end |
| **Returns** (`modules/returns`, `storefront/returns`, `admin/payment-operations/admin-returns`) | `return_requests`, `return_items`, the order's status | create, cancel, approve, reject, schedule, pick up, receive, inspect, approve refund, close, retry | load-then-write handlers of several admins and the customer; no row lock but one | never more units than ordered, closed requests stay closed, the order follows completed returns |
| **Refunds** (`payment-operations.service.ts`, `refund-settlement.service.ts`) | `payment_refunds`, order payment status | `issueRefund`, settle, refund webhooks | reservation without a lock, lost answers, retries under another key, late webhooks | processed means paid back, never twice, status follows confirmed refunds |
| **Admin orders** | order status, tracking | `updateStatus`, tracking, notes | any status after any other | the row's ledger of restocks survives it |
| **Cart** | `carts`, `cart_items` of customers and guests | add, add bundle, update, remove, merge | every handler writes by a copy; merges and edits overlap; a customer's cart is not unique | a merge neither doubles nor loses units, one cart for each owner, what is shown is charged |
| **Coupons** | limits, counters | validate, CRUD | limits read on a copy | limits hold up to the overlap |
| **Bundles, pricing, tax, shipping rates** | tables read by cart and checkout | quote, price a line, split a bundle | rounding, two places that price | totals add up, refunds fit what was billed |
| **Catalogue (admin)** (`modules/admin/catalog`) | products, variants, slug redirects, compatibility links, categories; stock | CRUD, copies, `updateStock`, CSV import, homepage tiles | looks and writes are separate statements; slugs unique among live rows only; lists replaced both ways | links go both ways, old addresses lead to the product, one default variant, a full grid stays full |
| **Catalogue (storefront)** | the adviser's remembered answers | listing, search, facets, pages, product page, recommendations, comparison | ids first, cards later, with the shop changing in between; several queries that must agree | pages cut one order, facets add up, only what is on sale is shown |
| **Accounts** (`storefront/auth`, `common/customer`, `admin/customers`) | users, refresh tokens, one-time codes, deletion requests | register, verify, log in, refresh, reset, log out, ask for deletion; suspend, erase | a refresh, a reset and a suspension halfway through each other | a reset ends the sessions before it; sessions begin for active accounts only; a suspension is lifted by an admin only |
| **Admins and roles** (`admin/auth`, `admin/rbac`, `common/admin`) | admins, roles, refresh tokens | log in, refresh, log out, admins and roles CRUD, the two guards | removals that cross, a role given out while it is deleted | a role is not deleted under its admins, a removed admin's sessions end, somebody remains |
| **Gift cards** | cards, their transactions | issue, correct | two corrections of one card | the balance is the sum of the transactions |
| **Quotes** | quotes | ask, respond, accept, decline | the office's answer against the customer's, two clients of one account at once | each client answers an offer once |
| **Shipping and shipments** | methods, rate bands, shipments | CRUD, bands, create a shipment | checks without a constraint behind them | bands apart, a flat method has a rate, parcels of paid orders only |
| **Marketing** (`admin/marketing`, `storefront/bundles`) | bundles with items, coupons | CRUD, the shop's list | items replaced by overlapping transactions, coupons checked on a copy | a bundle holds what one save asked for, a coupon stays valid |
| **What customers keep** (addresses, reviews, Q&A) | one row each | CRUD, moderation | look, then write | one default address, verified means bought, published means answered |
| **E-mail, low-stock alerts** | the flag of an announced dip | a floating promise after each stock write | checks of one variant overlap; nobody to write to; a mailer that fails without an error | one attempt to mail for each dip |
| **Reports, customer lists, abandoned carts** | none | figures over orders and carts | several queries, one truth | the figures agree |
| **Wishlist, newsletter, CMS, menus, merchandising, settings, media, AI, audit** | one row each | CRUD | none that interacts | - |

How they interact: checkout is the only maker of order rows. After it, seven writers share a row:
the customer's cancel, the expiry sweep, the admin's `updateStatus`, the capture path, the Stripe
webhook, refund settlement and the completion of a return. They call nothing of each other; they
meet in the row, and most of them write it by id, whatever it has become. Stock is shared by
checkouts, cancels, the sweep and the merchant. An attempt is shared by `create`, `capture`, the
webhooks and the sweep, with the provider's session behind it. A refund is shared by the handler
that issued it, the webhook and the retry. A customer's or admin's sessions meet every request that reads
a refresh token, and the rows of the catalogue meet every list of the storefront, which takes them
in several queries.

`PROJECT.json` lists every component with its files and status, and every hazard found, at its line.

## 2. Plan

In the order of what a mistake costs: stock and money first, then what is returned, then accounts,
then the rules and the back office.

| Step | Modules | State |
|---|---|---|
| 1 | `OrderLifecycle`: the abstract specification of an order row, which every writer implements | done, proved |
| 2 | `Orders`: stock, carts, coupons, cancel, sweep; implements `OrderLifecycle` | done, checked and proved |
| 3 | `Payments`: attempts, sessions, webhooks, reconciliation, over the rows of `OrderLifecycle` | done, checked and proved |
| 4 | `ReturnRules`, `Returns`: requests, refunds, settlement | done, checked and proved |
| 5 | `PriceRules`, `Cart`: carts, merging, bundles, coupons, delivery rates and the bill of a checkout | done, checked and proved |
| 6 | `Sessions`: what signing in promises; `Accounts`, `AdminAccounts`: customers and admins, which implement it | done, checked and proved |
| 7 | `GiftCards`, `Quotes` | done, checked and proved |
| 8 | `Catalogue`, `StockAlerts`, `ImportFile`, `Categories`, `Shipping`, `Shopfront`: the catalogue from both sides | done, checked and proved |
| 9 | `Offers`, `Belongings`, `Figures`: marketing, what customers keep, reports | done, checked and proved |
| 10 | `Sums`: what a sum over a finite set does, by induction over sets | done |
| 11 | proofs about `Orders`: every safety and action property of its runs | done |
| 12 | proofs about `Returns`: every property of its passing runs | done |
| 13 | proofs about the office, the catalogue and the cart | done |
| 14 | `PenniesFit` and `FiguresAgree`, with lemmas about `ReturnRules`, `PriceRules` and sums by class | done |
| 15 | `OnlyOnSaleShown` and `ListingsAgree` of `Shopfront`: first what a fold over a list and a choice of an order return, then the listings, the picks and the pages | done |
| 16 | `SheetReadsBack` of `ImportFile`, by induction over cells, records and sheets | done |

`Orders` and `Payments` both `EXTEND` `OrderLifecycle`, so they share the variable `order`, the row
type and the row-updating operators. `Orders`, whose handlers read a row and write it later, guarded
or not, states `Lifecycle == Spec`, the abstract specification, as a property. `Payments` does not:
each of its writes of an order is one of those operators and has no guard, so that it would hold by
the way it is written. `Orders` contains the payment outcomes as two abstract actions that `Payments`
works out, and `Payments` contains placement and release as abstract actions that `Orders` works out:
`OrderLifecycle` is the interface between them.
`Returns` takes up where a paid order is shipped; its row is the same row with the statuses a return
can meet, and `OrderLifecycle!MarkRefunded` and `SetStatus` are its writes.

`Sessions` is the abstract specification of signing in. `Accounts` and `AdminAccounts` do not extend
it: each has an `INSTANCE` of it with a refinement mapping (standing, sessions and warrants worked
out of accounts, tokens and requests) and states its `SessionsSpec` as a property. `Figures` uses
`PriceRules` for what an abandoned cart is worth, which ties the back office's price to the cart's.

The modules of the catalogue share no rows that interact (stock is in `Orders`), nor do those of the
office; `MCCatalogue` and `MCOffice` play one of them per behaviour, named by `scene`.

## 3. Modules and how they correspond to the code

General rules of the translation:

* A handler is one step per read whose result it acts on after an `await`, and one step per
  transaction or single statement that writes. What it has read is in its local record (`job[p]`,
  `task[p]`), so every stale decision the code can take, the model can take.
* A transaction's writes appear together, at its commit, or not at all. An `UPDATE ... WHERE` is
  evaluated against the row as it is at that moment, as READ COMMITTED does after waiting for the
  row's lock. A transaction that reads without locking and writes later by id is two steps.
* A unique-key violation inside a transaction rolls the whole transaction back, also where the
  code catches P2002 and returns: PostgreSQL has aborted it by then.
* Processes, requests, webhooks and sweeps are interchangeable members of `Process`; a sweep of
  the orders is a `Sweeper`.
* An action whose comment begins with `mutant:` is a wrong version of the one below it. It is
  used by no specification; it shows which mistake a property would notice.

### OrderLifecycle
The row of `orders` as all its writers share it: status, payment status, how often its units were
put back (`releases`) and how often it left CANCELLED (`reopened`). Both counts are what
`order_status_history` records. `Place`, `Release`, `MarkPaid`, `MarkFailed`, `MarkRefunded` and
`SetStatus` are the writes, with the guards the code has and no others: a payment outcome does not
look at the status it replaces, an admin may set any status.

### Orders
| Model | Code |
|---|---|
| `CheckoutLookup`, `CheckoutRead`, `CheckoutCoupon` | `OrdersService.checkout` up to its transaction: key lookup, cart and stock copies, coupon validation |
| `CheckoutCommit`, `CheckoutSoldOut`, `CheckoutLosesRace` | its transaction: order, conditional decrements, coupon, emptied cart; abort on too little stock; abort on the unique `checkout_key` |
| `CancelRead`, `CancelCommit`, `CancelConflict` | `cancel`: guard on the copy, guarded `updateMany`, restock |
| `SweepList`, `SweepExpire`, `SweepSkip`, `SweepAborts` | `OrderExpiryService.expireStale` |
| `PaymentCaptured`, `PaymentFailed` | the order transaction of a payment outcome, as `Payments` details it |
| `AdminSetStatus` | `OrdersService.updateStatus` of the back office |
| `AdjustRead`, `AdjustWrite`, `AdminRecount` | `ProductsService.updateStock` by a delta (read, then write) or to a level |
| `EditCart` | any sequence of cart calls between two checkouts |

`supplied` is a history variable: what the merchant has put up for sale. `MaxReopened` and
`MaxSupplied` bound otherwise unbounded histories; they cut behaviours off and are not guards of
the code.

### Payments
| Model | Code |
|---|---|
| `CreateBegin`, `CreateInsert`, `CreateRaced`, `CreateSession`, `CreateStore`, `CreateFails` | `PaymentAttemptsService.create`, `ensureProviderOrder`, `ensureStripeSession` |
| `CaptureBegin`, `ReconcileBegin`, `AskStripe`, `AskPaypal`, `AskLost` | `capture` and `PaymentReconciliationService.settlePending` up to the provider's answer |
| `FinalizeRead`, `TransitionStep`, `TransitionConflict`, `ReadOrder`, `CommitCaptured`, `CommitFailed` | `finalizeCapture` with `PaymentStateService.transition` |
| `HookLog`, `HookFind`, `HookRead`, `HookCommit` | `PaymentWebhooksService`: log, lookup, Stripe's own transaction; PayPal goes on to `finalizeCapture` |
| `CustomerPays`, `ProviderDecides` | the customer and the provider (external) |
| `Checkout`, `ReleaseStock` | `OrderLifecycle!Place` and `Release`, in one step each (`Orders` splits them) |
| `Crash` | the process dies between two awaits |

A Stripe session that its customer has completed is paid, or `pending`: `createCheckoutSession`
restricts no payment methods, and a delayed one pays later or not at all. `HookLog` delivers Stripe's
event for any completed session, as `payment_status` is not looked at there (`Announced`), and
PayPal's for one whose capture ended. `Hooked` are the attempts for which the Stripe webhook was called.

`Mispaid` are the sessions for which the provider takes another amount than was asked. `SessionLeft`
keeps requests from starting when the instance has no session left for them; `MaxFaults` bounds
crashes and lost or failed calls.

### ReturnRules and Returns
`ReturnRules` is `return-rules.ts`: held and returned quantities, eligibility, the status after a
return, and the money of a line. Amounts are whole pence and quotients are exact with halves
rounded up; the code divides doubles and rounds to pence, so it may differ by a penny where a double
lands next to an exact half.

| Model | Code |
|---|---|
| `CreateRequest` | storefront `ReturnsService.create`, one step: it takes the order's row lock first |
| `Load`, then `MoveOn`, `Approve`, `Receive`, `Inspect` | the admin handlers (and the customer's `cancel`): `require()` a status, then write by id |
| `LoadRefund`, `ApproveRefund`, `Close`, `CloseCommit`, `LoadRetry`, `Send`, `Refused` | `approveRefund`, `retryRefund`, `sendRefund` |
| `RefundOrder`, `ReserveRead`, `ReserveCommit`, `ProviderAnswers`, `ProviderRefuses`, `AnswerLost`, `Record` | `PaymentOperationsService.refundOrder`, `issueRefund`, `refundAtProvider` |
| `Webhook`, `SettleRead`, `SettleSum`, `SettleCommit` | `settleRefund` and `RefundSettlementService.settle` |
| `Deliver` | the admin's `updateStatus` to DELIVERED |

Every handler touches the rows of one order only, so one paid order is modelled. `disturbed` is a
history variable: it becomes true when a handler writes over a request that has changed since it was
loaded, when a repeated inspection raises a quantity, or when a FAILED settlement lands on a row
that already is FAILED. The code does nothing against any of the three (section 8); the properties
that say `disturbed \/ ...` state what holds until then. `GoOn` is a bound: with FALSE, no handler
starts once disturbed, and those under way finish.

### PriceRules and Cart
`PriceRules` has what `CartService.lineOf`, `addBundleItems`, the coupon and the shipping service
compute of prices, in pence and exact as `ReturnRules` is; rates are whole percentages.

| Model | Code |
|---|---|
| `Find`, `MakeCart` | `findCart`, `getOrCreateCart`: any cart of the owner; the guest token is unique, the customer's id is not |
| `Add`, `AddBundle`, `Update`, `Remove` | `addItem`, `addBundleItems`, `updateItem`, `removeItem`: by the copy, one write |
| `MergeInto`, `Join` | `mergeGuestCart`: the customer's cart, then its transaction |
| `Price`, `Commit` | `OrdersService.checkout`: the lines, delivery, coupon and total; the lines removed by its transaction (`Orders` has the rest of it) |
| `Stop` | a 404 or 400, a failed write, a process that stops |

Stock and prices are constants here: `Orders` has the stock that moves. `asked`, how many units
owners have asked for, and `overlapped`, whether two requests of an owner ever ran at once, are
history variables; `MaxAsked` bounds the first.

### Sessions, Accounts and AdminAccounts
`Sessions` says what signing in promises: an account moves between standings, a request is granted a
warrant for an active account only, a session begins on a warrant, and one that ended stays ended and
keeps its owner. Both models implement it, query by query.

| Model | Code |
|---|---|
| `Register`, `CreateAccount`, `WelcomeCode`, `SendOtp`, `AddCode` | `StorefrontAuthService.register`, `sendOtp`, `forgotPassword` |
| `Login`, `IssueTokenPair`, `Logout` | `login`, `issueTokenPair`, `logout` |
| `Refresh`, `Spend`, `Recheck` | `refresh`: read the token, revoke it, look at the account, issue |
| `PresentCode`, `ConsumeOtp`, `Activate`, `Lookup`, `ResetFind`, `ResetWrite` | `verifyOtp`, `resetPassword` with `consumeOtp` |
| `Guard`, `FileDeletion`, `Serve` | `CustomerAuthGuard` in front of a request, `requestDeletion` |
| `AdminUpdate`, `WriteStatus`, `AdminRemove`, `Erase` | `CustomersService.updateStatus`, `remove` |
| `SignIn`, `IssuePass`, `Renew`, `SpendPass`, `RecheckAdmin`, `SignOut` | `AdminAuthService` |
| `Enter`, `Allowed` | `AdminAuthGuard`, `PermissionsGuard` |
| `CreateAdmin`, `FindAdmin`, `UpdateAdmin`, `FindOther`, `RemoveAdmin` | `AdminUsersService` |
| `CreateRole`, `FindRole`, `UpdateRole`, `FindUnassigned`, `DeleteRole` | `RolesService` |

`before`, `late` and `crossed` are history: a token obtained before a reset, a request (and what it
obtained) that a reset or removal met halfway, a removal by an admin removed meanwhile.
A password's value is not modelled; a wrong one ends its request. `MaxDeletions` is a bound.

### GiftCards and Quotes
`IssueCard`, then `ReadCard`, `Commit`, `Abort`: `GiftCardsService.update` is a SERIALIZABLE
transaction, so a correction whose card changed since it was read aborts (`stale`). `MaxBalance` is a
bound. `Ask`, `Respond`, and `Detail` then `Accept`: the customer's answer looks at the quote and
writes it by id (`StorefrontQuotesService.accept`, `decline`). An answer belongs to a client, a tab or
device of the customer's, which sends one at a time; what `Detail` reads is the row as it is when the
answer arrives, not the page the customer decided on. `given`, the clients that have answered since
the office last offered, is history. `Unpriced` is a price that is not there: the office may respond
with a status alone.

### Catalogue, StockAlerts, ImportFile, Categories
| Model | Code |
|---|---|
| `Create`, `Duplicate`, `Delete` | `ProductsService.create`, `duplicate`, `remove` |
| `BeginUpdate`, `Transact`, `EndUpdate` | `update`: what it reads before its transaction; the transaction up to the DELETE of the links it sees (`LinksOf`), holding the locks of the product and of those links (`Locked`, `LinksLocked`); its INSERT of both directions, redirect (`Forwarded`) and commit, or rollback (`Rewrite`) |
| `BeginVariant`, `EndVariant`, `DeleteVariant` | `createVariant`, `updateVariant`, `removeVariant` |
| `BeginImport`, `FindRow`, `ReadRow`, `WriteRow` | `ProductsImportService`: one product after another, found by slug; one that is found goes through the steps of `update`, the others are created |
| `Routes`, `Answer` | `StorefrontProductsService.routeResolution` |
| `Call`, `Read`, `Clear`, `NoAddress`, `Send`, `SendFails`, `Mark`, `Die` | `LowStockAlertService.checkAndNotify`, a promise nobody awaits: no recipient, a mail delivered or not, a process that stops |
| `Sell`, `CancelledOrder`, `UpdateStock`, `ExpiredOrder`, `SaveForm` | the five writers of stock; the last two call no check |
| `CsvRecords`, `ParseCsv` | `csvRecords`, `parseCsv`, character by character |
| `CheckCreate`, `CheckEdit`, `WriteCategory`, `Refused`, `CheckRemove`, `RemoveCategory` | `CategoriesService` |

`ImportFile` is about a conversion: its property writes a sheet out as a spreadsheet program does
(`Doubled`, `Saved`, `Line`, `Text`, which are external) and reads it back. `Concat` is the one fold
that writing and dropping empty records (`Filled`) are built from. `borne`, `stale`, `raced`, `told`,
`failed`, `unaddressed`, `unwatched`, `disturbed` and `slipped` are history; `MaxWrites`, `MaxStock`
and `MaxTold` are bounds.

### Shipping
`CheckUpdate`/`UpdateMethod`, `CheckUnused`/`RemoveMethod`, `CheckBand`/`AddBand` are the two halves of
the handlers of `ShippingMethodsService`, `ReadOrder`/`Ship` those of `ShipmentsService.create`;
`Place` and `Settle` are orders as shipping sees them. `MaxBands` is a bound.

### Shopfront
`Begin`, `Rank`, `CountFacets`, `Page` are `StorefrontProductsService.list`, where the ids of a page are
found in one query and its cards in a later one; `Lists`, `Fetch`, `Compare`, `BySlug` the product
page, recommendations, related products and comparison; `Advise` the product adviser with the
answers it remembers. `Change` is everything the back office may change about what is on sale.
The model takes the language model's reply as any list of at most four candidates. `MaxRows` stands
for the 300 rows that a ranking by words, and the search for fitting parts, read of what matches
(`Rows`: which ones, where the query leaves it open, is any choice); it is a limit of the code and
not a bound. An order by one column has no tie-break, so `Newest` is any order of products made at
one moment. Of the recommendations, the products that embeddings find similar (`similarIds`,
`storefront-recommendations.service.ts:50`) are left out, as a source between two others.
`MaxChanges` is a bound. The operators `Rankings`, `Recommended`, `Facets`, `Searched` are the
queries and the ranking of `storefront-recommendations.service.ts` and its neighbours.

### Offers, Belongings, Figures
`Offers`: `CheckBundle`, `Wipe`, `CommitBundle` are `BundlesService.update`, whose transaction deletes
the items its DELETE sees and inserts the new ones; `CheckCoupon`, `CommitCoupon` are `CouponsService`.
`Belongings`: `ClearDefaults` then `SaveAddress` (the transactions of `StorefrontAddressesService`),
`FindOrderItem` then `CreateReview`, moderation, and questions with their answers. `Figures`: one
step draws every figure of `ReportsService`, `CustomersService.summary` and `abandonedCarts` from a
set of orders; its properties compare them. `LastDay` and `MaxAnswers` are bounds.

## 4. Runs

| Run | Instance | Shows |
|---|---|---|
| `orders_core` | 2 orders, and a third among orders that are unpaid or expired, 2 customers, 1 variant with 1 unit, 2 requests, 1 sweep, a coupon good for one use and for one by each customer, an admin who ships | `OrdersSound`: types, `StockLedger` (units in stock plus units withheld by orders is what was supplied), `CouponLedger` (the counter counts the orders with the coupon); `CouponOverrun`: the limits, in total and by customer, are passed by at most one use for each other request; both are passed here; `ReleaseLedger`: at most one restock per time an order was live; `PlacedOnce`: a key's order never changes its content; `SweepSparesPaid`; `Lifecycle`: refinement of `OrderLifecycle` |
| `orders_fair` | one request at a time, one customer, stock adjusted by one either way and recounted to 2 | `OnlyStaleAdjustmentsDrift`: no other step unbalances the units; `AwaitingOrderLeaves` |
| `payments_core` | 2 orders, a Stripe and a PayPal attempt, 2 sessions, 2 handlers, one session paid with another amount, payments at once and delayed | `PaidIsBacked`: a paid order has a recorded session of its own, taken if the capture path recorded it and announced if the Stripe webhook did; `MoneyRecorded`: types, captured attempts are backed likewise, the capture path records an order once, with its invoice and, of a Stripe attempt, in full; `SettledStays`; `OwnPaymentStands`: no failed outcome undoes the payment of its own attempt, the webhook's exception aside |
| `payments_fair` | 1 order, 1 PayPal attempt, 2 sessions, 2 handlers, one fault anywhere | `ReconciliationSettles`: what was paid is settled in the end; `CapturedIsRecorded` |
| `returns_core` | one line of 2 units, 2 requests for 1 or 2 of them, 2 refunds, deductions, 2 handlers | `ReturnsSound`: types and `HeldWithinOrder`; `OrderStatusFollows`, `ClosedStays` |
| `returns_refunds` | 1 request, 2 refunds, refunds from the order screen, 2 handlers, one fault, disturbed or not | `CompletedInFull` with faults; `RefundsMatchProvider`: processed means paid back, failed means kept, the payment status follows; `OverReservedByOverlap` |
| `cart_core` | a customer, a guest, 2 carts, 2 processes; tiles on sale, up to 3, and a grout, two kits, 2 coupons, delivery bands that share an edge | `CartsSound`: types, no unit is doubled, one cart for each owner while requests do not overlap; `NothingLost`: a merge loses nothing the guest had when it was read, a checkout removes what it ordered and nothing else it had read; `PenniesFit`: rounding stays within half a penny for each unit |
| `catalogue_core` | 2 products among 3 addresses, 2 variants, 2 administrators and an import; 1 variant with up to 3 units and 2 checks; 883 sheets with and without a last line end; 2 categories for 1 tile; 1 method, 3 bands, 1 order; 3 articles in 2 categories, 8 queries, 1 change | `CatalogueSound`: types, links go both ways, one default variant unless two variant writes overlapped; `OldSlugsLead`: every former address of a product on sale still leads to it; `MailPerDip`: one attempt to mail per dip, and the flag stands for it; `SheetReadsBack`; `GridHolds`; `ShippingHolds`; `ListingsAgree`: pages of a sort by price cut one order, facets add up to the listing (which a ranking by words cuts to the rows it reads), the editor's picks come first, the counts match the listing; `OnlyOnSaleShown` |
| `office_core` | 1 customer account with 2 codes, tokens and requests; 2 admins, roles, passes and requests; 2 quotes; 1 card; 2 bundles, 2 coupons; 2 buyers with 3 addresses; all books of 2 orders in a calendar of weeks of 3 days | `ResetEndsSessions`, `SessionsHold`; `StaffSound`, `AdminsKeepPromise`; `OneAnswerEach`; `BalanceIsLedger`; `OffersHold`; `BelongingsHold`; `FiguresAgree` |
| `payments_wrong_amount`, `returns_retry`, `cart_price` | the smallest that shows it | each refutes one sentence that the code says of itself (section 7) |

A module's types are a conjunct of its first invariant (`OrdersSound`, `MoneyRecorded`, `StaffSound`,
...). `ResetEndsSessions` is checked without the types of `Accounts`, which its proof has.

Why the bounds are enough for the cases meant:

* The races are between two: two checkouts for one key or one unit, a cancel or sweep and a payment,
  two attempts of an order, an answer and a webhook, two admins. Two orders (or requests) are there
  so that one's units or amounts can be confused with the other's; handlers are reused, so chains
  longer than two handlers occur one after another.
* One unit of stock and a coupon of one use make every limit bind at once. A second variant adds no
  interaction: checkout commits all lines together, so a partly decremented order would need an abort
  in the middle, which the transaction excludes. With two requests the overlap, and so the excess of
  the coupon, is one use; it takes a third order to go further. The constraint `ThirdOrderJoins` keeps
  that order to where all that goes on is checkouts and sweeps: a coupon's use stays counted when its
  order is cancelled, and the sweep gives the single unit back to the next.
* In `Payments` two sessions allow a second `create()` to replace the session of the first. The
  `_fair` run uses a PayPal attempt because its capture is a call of the shop that can be lost.
* In `Returns` two units in two requests are the least for which over-return, partial return and the
  delivery charge of the completing return differ; amounts are 10 for the line, 1 for delivery.
* In `Cart` two carts are enough for a merge and for a customer's second one; the units asked for let
  a line pass the stock of 2 by a merge or a bundle, and the two processes merge one cart twice.
  With two kits a line may be of one and then of the other, and a cart hold lines of both.
* In `Catalogue` two products trade one address back and forth, with a third to rename to, so that a
  redirect outlives its cause; four writes are a product renamed, renamed back and its address claimed
  by another, or two products made and each then linked to the other by edits that overlap (an import
  makes both in one write). Two rows are read of three articles, so that a ranking is cut. In
  `Shopfront` one change suffices: it falls between any two queries of a request, and a second one at
  another place is a change the request meets in the same way.
* In `ImportFile` two characters in each cell reach every pair of neighbours of the parser's
  alphabet (comma, quote, the two line ends); any other character is appended in every state of the
  parser, as a comma is within quotes. The theorem has no such bound.
* In `Accounts`, `AdminAccounts`, `Quotes`, `GiftCards`, `Offers` and `Belongings` the hazards are of two
  requests over one row; two of everything else lets them mistake one row for the other. What holds
  there holds by proof for any number (section 6), as it does in `Orders`, `Payments`, `Returns`,
  `Cart` and the catalogue's `Catalogue`, `StockAlerts`, `Categories` and `Shipping`.
* One fault is enough to have every step fail once; two at once are two separate stories for
  properties that excuse any behaviour with a fault, and for the others (`ProcessedMeansPaidBack`,
  `PaymentStatusFollows`, `ReconciliationSettles`) a second fault repeats the first one's state.

Deadlock is checked in the orders and cart runs. In the others the system may really stop: every
attempt settled, every request closed, the instance's sessions, refunds, rows or writes used up.

## 5. Fairness

* `Orders!Fairness`: strong fairness, per order, of the sweep listing it and of the sweep handling
  it. The timer fires every five minutes on each instance (`order-expiry.service.ts`, `onModuleInit`);
  an order still unpaid is in the next list; a sweep that aborts is followed by another. Strong,
  because a sweep that is running, or aborts in between, disables the step now and then. Customers,
  admins and payment outcomes have none.
* `Payments!Fairness`: weak fairness of each handler's own steps (a handler runs on unless its
  process dies) and strong fairness of the reconciliation sweep reaching an unsettled attempt:
  it waits for a handler to be free, of which the code has no fixed number. Webhooks, customers and
  capture calls may never come. The sweep gives up on an attempt after 24 hours; time is not
  modelled, so the property speaks of an attempt that the sweep still looks at.
* `Returns` states no liveness: nothing in the code asks the provider again about a refund. `Cart`,
  the catalogue and the office state none: their handlers are requests that nobody else waits for.
  That a dip is announced in the end is not promised: a check that dies with its process is not
  repeated, and two writers of stock call none.

## 6. Proofs

`OrderLifecycleProofs` proves, for any set of orders, that `RowTypeOK` and `ReleaseLedger` are
invariants of the abstract specification (`LifecycleInvariants`). The ledger as stated is
`releases <= reopened + [CANCELLED]`; the inductive form `RowInv` is the same together with the
types, since a release starts from a status other than CANCELLED and so meets
`releases <= reopened`, and every way out of CANCELLED adds to `reopened`.

`PaymentsProofs` proves, for any sets of orders, attempts, sessions and handlers and any bound on
faults, under the named assumptions of `Payments` (the null values are not members of their sets,
`Stripe` and `Mispaid` are subsets, `MaxFaults` is a natural number):

* `PaymentsAreBacked`: `TypeOK`, `PaidIsBacked`, `CapturedIsBacked` and `OneInvoicedPayment` always
  hold;
* `SettledAttempts`: `SettledStays`;
* `OwnPaymentsStand`: `OwnPaymentStands`;
* `MoneyIsRecorded`: `MoneyRecorded`.

None of the payment invariants is inductive by itself: what a handler will write stands in its local
record. `IInv` adds what those records mean at each program counter (`TaskOK`: a handler that is to
finalize `captured = TRUE` has a session that is paid, one of the Stripe webhook a session that was
completed and announced, one that is about to store a session holds one nobody else has), what ties an
attempt to its session (`AttemptOK`, `SessionOK`), what ties a transaction row to a session and its
order, with money taken or announced (`TransactionOK`) and that two handlers never hold the same
unstored session (`StoresApart`). The proof has one lemma per action, built on a few that say what no
step undoes (a made attempt keeps its order, an opened session its attempt, money taken stays taken,
what was announced stays announced).

`OwnPaymentsStand` rests on `OwnInv`: as long as the Stripe webhook was not called for an attempt, its
status tells which outcome got past the status machine. A handler that writes an outcome has put its
attempt into that status (`Decided`), and a capture-path row of the attempt means it is CAPTURED
(`PaidByStatus`); a failed outcome and a payment of one attempt would be two statuses at once.

`MoneyIsRecorded` adds that what is captured was taken in full, on the paths that compare the amount.
It needs one thing more than `IInv`: a handler of a Stripe attempt that is about to decide has compared
the amounts, and one that records a payment holds a session whose amount is right (`TaskFull`).
`FullInv` is that together with the property; each action preserves it because a handler takes up a
session only where it compares it, or records nothing.

`Sums` has the lemmas about `SumFunction` and `SumFunctionOnSet` that totals of stock, units and money
need: a sum exists and is a number, an element can be taken out, two sums that agree or are ordered
term by term are equal or ordered, and one that reaches its bound reaches it in every term. The fold
that defines a sum is a recursive function on sets, so each is an induction over a finite set; the
library's induction theorems take an operator and cannot be used, and `NatSetInduction` and
`SetInduction` state induction with a set in its place (a set that has 0, or {}, and is closed under
the step has everything).

`OrdersProofs` proves, for any orders, customers, variants, requests, sweeps and quantities:

* `OrdersRefineLifecycle`: `Orders` implements `OrderLifecycle`;
* `OrdersInvariants`: types (no stock level is negative), `ReleaseLedger` and `CouponLedger`;
* `BooksBalance`: `OrdersSound`, where `Adjustment = {}`: stock is only ever recounted. With deltas an
  adjustment computed from a stale level unbalances the books, so that `StockLedger` is not an
  invariant there, in the code either; what holds then is
* `StockDrifts`: `OnlyStaleAdjustmentsDrift`, for any `Adjustment`;
* `ItemsAreFinal`: `PlacedOnce`, `SweepsSparePaid`: `SweepSparesPaid`;
* `OverrunIsBounded`: `CouponOverrun`.

`OrdersInv` says what the copies of a request mean (a cancel holds a status that could be cancelled, a
row never placed has no item). The ledgers follow row by row: a step changes one order's row, and
its units move to or from stock in the same step (`BalanceStep`); the sum over the orders then changes
in one term. The limits of the coupon are checked before the transaction, so `OverrunInv` counts, beside
the uses, the requests that hold a coupon they have checked and not yet committed.

`ReturnsProofs` proves, for any lines, amounts, deductions, requests, refunds, handlers and faults
(of an order with finitely many lines, requests and refunds):

* `ReturnsAreSound`: `ReturnsSound`; `OrderFollowsItsReturns`: `OrderStatusFollows`; `ClosedIsFinal`:
  `ClosedStays`;
* `RefundsAreTrue`: `RefundsMatchProvider`; `ReturnsArePaidInFull`: `CompletedInFull`;
  `OverrunsAreOverlaps`: `OverReservedByOverlap`.

The inductive invariant has layers. `Typed` and `Matched` hold of every behaviour: rows and copies are
of the same units, and a refund's row, its handlers and the provider agree; a refund whose provider id
is not stored is in one hand (`Alone`), and the sum of a settlement is of refunds that are processed
(`SumOK`). The others hold until something is decided on an outdated copy: `Orderly` (stages follow
each other, and a return has one refund, or one handler about to reserve it, at a time), `HeldOK`,
`Worthy` (an amount, wherever it stands, is what the units are worth) and `Followed` (so is a status
for the order, from `Close` to `CloseCommit`). What carries them is `RowsStep`: in an undisturbed step
a closed row stays as it is, a decided one keeps its items, and none holds more units. That
`StatusAfter` may say RETURNED when the capped units of all lines reach the units ordered is
`SumTight`: then every line has reached its own.

`OfficeProofs` is about seven components that share no state. Of `Accounts` and `AdminAccounts` it proves,
for any customers, codes, tokens, requests, or admins, roles, passes and requests, under named
assumptions that say what null values are not:

* `ResetsEndSessions`: `ResetEndsSessions`, with the types of `Accounts`;
* `CustomersKeepPromise`: `SessionsHold`, the refinement of `Sessions` and `SuspensionHolds`;
* `StaffStaysSound`: `StaffSound`;
* `AdminsImplementSessions`: `AdminsKeepPromise`, the refinement of `Sessions`.

Both go by what a request carries: the account it looked up exists (`RequestOK`, `ErrandOK`), the token
it came with has that account as its owner, and if it would open a session after a reset or a
removal it is marked as late. For customers, live accounts have different e-mails (`MailsUnique`), without
which a code of one could activate another. `TokensOwned` and `PassesOwned` say that a token has an
owner. The refinement is then one lemma per action, which names the abstract step or the stutter.

Of the others it proves:

* `CardsBalance`: `BalanceIsLedger` with the types. The inductive part is `CopiesAreCurrent`: a
  correction that may still commit works on the card as it is;
* `OffersAnsweredOnce`: `OneAnswerEach`, for any quotes, customers, clients and responses. Two facts
  carry it: a quote that is QUOTED has had no answer since its offer (`OfferIsOpen`), so a client that
  finds it so has not answered it, and stays so until its answer lands (`AnswersAreNew`), since nobody
  else adds it to `given`;
* `OffersSound`: `OffersHold`, for any bundles, coupons, edits and days. A save between its deletion and
  its commit has deleted every item there is, or is crossed, so that what it leaves is its own items;
  what a checked request would make of its coupon is valid, or the request is crossed.
  It needs that a request never names a null slug or code (the DTOs' `@IsString`), and that dates
  are dates or cleared;
* `BelongingsSound`: `BelongingsHold`, for any customers, addresses, reviews and questions
  (`SavesKnowTheirRow`: the row a save is about to write is of its customer, removed or its alone);
* `FiguresAddUp`: `FiguresAgree`, for any finite books, any range, grouping and calendar. A report is
  drawn in one step, so the invariant only says that it is the drawing of its query; the rest is
  arithmetic. Each report splits the same orders into classes, and what is summed class by class is
  the sum (`SumByClass`, `ClassesAddUp`) once every order is shown to have a class: of the sales report
  that is `PeriodIsListed`, that the cursor meets the period of every day of the range. That a cart
  left behind is worth what its customer sees needs that a variant has one tier for a minimum
  (`schema.prisma:2009`), which `BookAssumption` says.

`CatalogueProofs` proves, of components that share no state:

* `CatalogueIsSound`: `CatalogueSound`, and `FormerSlugsLead`: `OldSlugsLead`, for any products,
  variants, edits, import files and administrators. `CatalogueInv` says of each request that is between
  its look and its write what it may still rely on (`JobFits`: also that what an open transaction
  has deleted goes both ways, and that an update that found no variant meets no default unless
  variant writes overlapped), of each product that two defaults are
  the mark of overlapping writes, and of each slug ever borne (`borne`) that it leads to its product
  unless another bore it (`Leads`): only that form survives a rename, which both writes and drops
  redirects;
* `DipsAreAnnouncedOnce`: `MailPerDip`, for any threshold, stock and checks, with recipients that are
  missing and mails that fail. Undisturbed, one check runs at a time, and where it is says what the
  flag and the attempts of this dip are (`CheckOK`);
* `GridSound`: `GridHolds`, for any finite set of categories and any limit: what was counted for a
  request still leaves room for it as long as nobody wrote (`CountHolds`);
* `ShippingSound`: `ShippingHolds`, for any methods, bands, orders and administrators (`UpdateFits`,
  `BandFits`: what a request was checked for still holds of the row, or the request is crossed);
* `ListingsStayTrue`: `ListingsAgree`, and `ShopShowsOnSale`: `OnlyOnSaleShown`, for any finite set of
  products, any facts about them, variants, queries, questions, clients and number of changes, and any
  number of rows that a ranking reads.

A listing takes four requests of the database, and the shop may change between any two. `ShopInv` says
of a request under way that, unless the shop has changed since it began, what it has found so far
is what the shop would find now (`UpToDate`), and of an answer that its cards are those of its page.
A change only has to make a request one of an earlier shop, which it does by counting; two pages
of one listing then come from one list (`ListingOfAnyPage`), of which they are parts that do not
meet (`SlicesApart`). That holds of the sorts by price, which are made in memory, with the id to
break a tie; of newest, where the database breaks ties as it likes, only the order within a page and
its length are stated. The total of a ranking by words is that of the rows it reads (`Listed`).
Underneath are three layers of lemmas. A fold over a list is a chain of
intermediate results (`FoldExists`), which gives what `Fetched` keeps and in which order `Pick` picks;
the model writes these folds where the code filters. A choice of an order returns one: a finite set
of products can be listed by any relation that orders them (`SortExists`), and by price, by reduction
- cross-multiplied, so that transitivity is an argument about products of integers (`Cross`) -, by
score or by age they are ordered (`ByValueRuns`, `ByFractionRuns`). And the facets and the menu are
sums by class (`SumByClass`). The theorems rest on the assumptions of `Shopfront`: products are numbers,
the category tree is a function, every product has a category in it, a variant has a price and
perhaps a sale price, both natural numbers. That the tree has two levels is not assumed: it is a
hypothesis inside `CountsMatchListing`, which quotes the code's comment.

* `SheetsReadBack`: `SheetReadsBack`, for any set of characters, any cells, however long, and any number
  of records.

The reader is a fold over the characters (`Ran`), and reading a text and then another is reading
both (`RanConcat`). So it is enough to say where the reader is after a cell: past it, with what the cell
held and not within quotes (`CellRead`, from `BareCellRead` and `DoubledRead`); then where it is
after a record, with all cells but the last put away (`LineRead`), and after a sheet, with all records
but the last (`LinesRead`). What is left is the end of the text: a line end, or none, or none after a
record of one empty cell, which makes no record and would be dropped for having no content
(`BlankDropped`). It rests on `MarkAssumption`, that the four marks differ, and `SheetAssumption`, that a
record has a cell and that no character but the line ends is blank.

`CartProofs` proves, for any owners, variants, prices, bundles, coupons and processes, and any finite
sets of carts and variants:

* `CartsAreSound`: `CartsSound`, for any bound on what is asked for;
* `UnitsAreKept`: `NothingLost`, the two action properties of merges and checkouts.

That carts hold no more than was asked for is about their sum, and copies of lines may be written back
long after they were read. `Shared` says that the units asked for can be divided among the carts so
that each line, and each copy of it some request still has, is within its cart's share: an addition
adds to the share what it adds to `asked`, a merge moves the share of the guest's cart to the
customer's, and a merge or write that comes late finds its copy covered. The share of a removed cart
is nothing, and a merge of a cart that is gone rolls back, which is why a repeated one doubles
nothing. `OneCart` rests on `Alone`: until two requests of an owner overlap, a request that has found
no cart is the only one to make it (`StillNone`). The types of a bill follow from lemmas about each
price (`BillIsBill`).

* `PenniesAreFew`: `PenniesFit`, for any prices, bundles, coupons and numbers of lines. A rounding is
  within half of what it rounds (`RoundedIsNear`), and a sum of roundings within half a penny for each
  (`SumWithin` in `Sums`). About the carts it needs that a line keeps its bundle's share
  (`LinesAtShare`), copies of lines included, and that a bill is worked out from the lines its
  checkout has seen, with a discount no larger than what it reduces (`BillFits`).

Only model-checked:

* liveness, and everything that depends on fairness.

## 7. Where the code and its comments disagree

The first three have a run of their own, which ends in a counterexample.

* `PaidInFull`: "never trust 'paid' alone: what the provider actually took must match what we asked
  for" (`payment-attempts.service.ts:136`). Neither webhook path compares the amount.
* `RetryRefundsOnce`: "The idempotency key makes a retry safe (no double refund)"
  (`stripe-gateway.service.ts:50`). A retry has a new refund row and so a new key; a refund whose
  answer was lost is paid twice.
* `ChargedAsShown`: the cart's lines are "exposed for the coupon-validate and shipping-quote endpoints,
  and checkout, so they price against the same live cart data" (`cart.service.ts:130-131`). Checkout
  prices each line anew by `salePrice ?? price` (`orders.service.ts:88`): neither a bundle's price nor
  a bulk price is ever charged.

Of six more the property is in its module, and a run finds it violated when it takes the place of
the properties in the cfg that is named:

* `RetrySeesItsOrder` (`MCOrders_core.cfg`): "a retried/double-submitted checkout with the same key
  returns the order it already created" (`orders.service.ts:62`). A second submission that overlaps the
  first may read the emptied cart, or find the units sold to itself, and is rejected.
* `UnpaidOrdersExpire` (`MCOrders_fair.cfg`): "Releases stock held by orders that were never paid ...
  abandoned checkouts must expire" (`order-expiry.service.ts:8-9`). After one declined payment the
  order is FAILED / FAILED and no sweep looks at it again.
* `NextDipAlerts` (`MCCatalogue_core.cfg`): the flag of an announced dip is "cleared once stock rises back
  above the threshold, so restocking allows the next dip to alert again instead of staying silent forever"
  (`schema.prisma:602-604`). Only a check clears it, and the expiry sweep, which puts units back,
  calls none.
* `RecordedIsTaken` (`MCPayments_core.cfg`): "never trust 'paid' alone", of the same comment as
  `PaidInFull`. The Stripe webhook takes `checkout.session.completed` for the money without reading
  `payment_status` (`payment-webhooks.service.ts:119`), which a session completed with a delayed method
  does not have yet. The order is paid, may ship, and stays paid when the money never comes: the events
  that tell of it are ignored.
* `FlagMeansMail` (`MCCatalogue_core.cfg`): the flag is "Set when a low-stock alert email has gone out
  for the current dip" (`schema.prisma:602`). `email.send()` does not throw but returns false, without
  SMTP settings or when the relay refuses, and the dip is marked all the same
  (`low-stock-alert.service.ts:49-50`).
* `OnlyPricedAnswered` (`MCOffice_core.cfg`, as a PROPERTY): "Only a priced quote can be accepted"
  (storefront `quotes.service.ts:67`). What is looked at is the status, which the office may set to
  QUOTED without a price.

## 8. What the models show besides the properties

Behaviours of the code that the models contain, and that the properties are worded around. None has
a run of its own.

* A payment outcome is written over whatever the order has become: a late capture brings a cancelled
  or expired order back to PROCESSING although its units are back in stock, a late failure turns it
  into FAILED / FAILED, which may be cancelled and restocked again (`reopened` counts these).
* Two attempts of one order: a failure that read the order as unpaid commits after a success and
  leaves FAILED over PAID, with invoice and transaction in place.
* A webhook and the capture path record one payment under two provider ids; a webhook-paid order has no
  invoice, and both rows may stand on one order; the Stripe webhook's transaction row carries the
  session's id, which the refund call later sends as a payment intent.
* `capture` before the customer has paid makes the attempt FAILED, which the sweep no longer visits:
  money taken afterwards is recorded only if the webhook comes.
* A crash between the attempt's and the order's transaction leaves a captured attempt that nothing
  looks at again; a webhook logged and not applied is dropped when it is repeated.
* Two `create` calls with one key both open a session, and the one stored last replaces the other
  ("Idempotent no-op", `payment-attempts.service.ts:209`): money paid on the replaced one is not
  found by the sweep (`ReconciliationSettles` excuses it).
* Overlapping checkouts pass a coupon limit together; an adjustment computed from a stale level
  loses a sale or a restock.
* An admin's write over a request that changed since it was loaded revives a cancelled or rejected
  return, and an upward re-inspection takes units that another request holds by now: together more
  units may be returned than ordered ("so two submissions can't over-return",
  storefront `returns.service.ts:112`, is about the customer's side only).
* Two refunds reserved at once exceed the captured amount in the shop's books
  (`payment-operations.service.ts:57` says they cannot); the provider refuses the second.
* A refund webhook that comes before the provider id is stored is dropped, and a crash in between
  leaves the refund PENDING: both stay so for good.
* Two settlements at once may leave PARTIALLY_REFUNDED on an order paid back in full; a FAILED
  settlement that lands after a retry's success reopens a completed return.
* The delivery charge that a retry works out anew is not stored with the request.
* `checkout` empties the whole cart, also of lines added while it ran.
* Two first requests of a customer that overlap make two carts, and each later request finds either.
* `addItem` writes over what a merge or a bundle added since its copy; a merge that read the guest's
  cart before the guest's checkout brings the units bought back into the customer's cart.
* A merge drops bundle prices and may take a line beyond stock, as a bundle may: only `addItem`,
  `updateItem` and checkout compare with it. What is added to a line saved for later stays saved.
* At the edge that two delivery bands share, the rate is that of the band the database returns first.

In the catalogue:

* The slug of a variant is unique over all products, while the services look for duplicates within one
  (`products.service.ts:639`): a second product with an initial variant meets the index and is refused
  with a message about related categories, and so is every copy of a product with variants.
* `routeResolution` looks an address up without asking whether its product was removed, in no order: a
  removed and a live product of one address are found by chance.
* Products that an editor picked and that are off sale take up slots of the recommendations, where the
  comment speaks of headroom (`storefront-recommendations.service.ts:30`); the count of a category adds
  what its children hold although products in several are listed once
  (`storefront-categories.service.ts:17-20`); brands are counted by active variants only.
* Listings by newest and by name have no tie-break, so that two pages may show one product twice.
* A search whose words are ranked reads 300 of what matches (`storefront-products.service.ts:238`), in no
  order: beyond that its total is 300 while its facets count all.
* Of two edits that link products at once, links that one inserts after the other's DELETE stay, so
  that a product may have more than its last edit asked for; both directions are always there.
* A dip that finds no recipient is not marked and tried again by the next check only; one whose mail
  failed is marked and never tried again in that dip.
* A category may become its own ancestor, and both then vanish from the tree; children of a removed
  category become roots. A category moved to the top level without naming `showOnHomepage` takes a tile
  beyond the limit, as do two edits that overlap.
* Completed returns put nothing back in stock; the product form writes stock without a check.
* A quoted last cell that ends in a carriage return loses it.
* A FLAT delivery method may be saved without a rate and is then never quoted; at the weight that two
  bands share, the first band the database returns decides.

In accounts and the office:

* A new password by `changePassword` ends no session, and two requests may use one code, rotate one
  token or file two requests for deletion when they overlap.
* An account that an admin activated by hand has no confirmed e-mail: a later suspension counts as
  pending, which `verifyOtp` lifts.
* The sales report counts REFUNDED orders, the others those PAID or PARTIALLY_REFUNDED; the products
  report leaves products out that were deleted since, the categories report counts them; a customer
  whose one earlier order was refunded counts as new.
* The address of a removed bundle stays taken, though the check does not see it; two saves of one bundle
  that overlap may leave the items of both; a bundle may start after it ends, and is then scheduled
  and expired at once. Coupon edits that cross may leave more than 100 per cent.
* Two requests of a customer that overlap may leave two default addresses.
* An answer to a quote takes the price as it is when it arrives: one that the office changed after the
  customer opened the page, and before the answer, is accepted unseen. So is one changed, or a quote
  taken back, between the answer's look and its write.

## 9. What is not modelled

* Time: the hour an unpaid order is held, the five-minute timers, the ten-minute lease and the 24 hours
  of reconciliation are choices that may happen at any moment, or bounds left out.
* Parsing (other than of the product sheet), validation of single requests, presentation, e-mail, the
  invoice PDF, order numbers, audit and history rows: nothing reads them back to decide anything.
* Webhook signatures are taken as valid. `payment_intent.*` events of Stripe carry an id that no
  attempt stores and change nothing, so `HookCommit` has no failed branch.
* `Figures` draws a report at one moment, where the code's queries may meet an order placed in between,
  and keeps all customers where the report shows the first ten (`reports.service.ts:73`).
* Prices, discounts and tax of a checkout are not in `Orders` but in `Cart`, where stock stands still
  and variants are always on offer; whether a coupon is in date, active or used up is in `Orders` or
  left out. The quote endpoints, which only read, are not actions.
* Refunds at a provider other than Stripe and PayPal: no transaction of another provider is ever
  created.
* In `Returns` a deadline or a product that cannot be returned only takes the returnable quantity to
  zero; photos, addresses and reasons are left out.
* Provider gateways are what their answers mean to the callers, disputes and lists of the back office
  are left out.
* Of the catalogue: media, price tiers as edited, specifications, brands, attributes, collections,
  suppliers, conditions, tax rates, exports and sitemaps; of the office: lists, exports and filters
  that no figure is drawn from; of shipping: labels and tracking.
* The wishlist and the newsletter: rows that their owner alone writes and reads.
* CMS, menus, merchandising, homepage sections, calculators and settings: content served as stored.
* Media, AI and notifications: storage and external models; the audit log only grows.
* The application shell: bootstrap, filters, interceptors, pagination; the e-mail templates; the seeds.
