------------------------------- MODULE Orders -------------------------------
(***************************************************************************)
(* Stock, carts, coupon usage and order rows, as the handlers of           *)
(* OrdersService, OrderExpiryService, the admin OrdersService.updateStatus *)
(* and ProductsService.updateStock change them.                            *)
(*                                                                         *)
(* A handler is a chain of awaits. Everything it reads before its          *)
(* transaction is a copy that may be out of date when the transaction      *)
(* runs, so a handler is one step per read that it acts on later and one   *)
(* step for its transaction, which commits as a whole or not at all.       *)
(* Transactions run at READ COMMITTED: an UPDATE with a WHERE clause looks *)
(* at the row again when it gets the row's lock, so its guard is evaluated *)
(* in the commit step.                                                     *)
(*                                                                         *)
(*   job[p]     the request that p is serving (any app instance)           *)
(*   sweep[s]   the orders listed by a running expiry sweep and not yet    *)
(*              handled. The advisory lock admits one sweep at a time,     *)
(*              but is given up after ten minutes while the job goes on    *)
(*              (lease.ts), so several sweepers may be running.            *)
(*   item[o]    owner, lines and coupon of an order, written once          *)
(*   stock      product_variants.stock_qty                                 *)
(*   cart       the active lines of each customer's cart                   *)
(*   couponUse  coupons.usage_count of the one coupon modelled             *)
(*   supplied   units the merchant has put up for sale so far; a history   *)
(*              variable that no step reads                                *)
(***************************************************************************)
EXTENDS OrderLifecycle, Integers, FiniteSets, FiniteSetsExt

CONSTANTS
    Variant,        \* product variants
    Customer,       \* customers, each with a cart
    Process,        \* concurrent requests
    Sweeper,        \* concurrent expiry sweeps
    Carts,          \* cart contents considered: functions from Variant to Nat
    InitialStock,   \* [Variant -> Nat]
    MaxTotalUsage,  \* coupons.max_total_usage
    MaxUsagePerUser,\* coupons.max_usage_per_user
    AdminStatus,    \* statuses an admin assigns by hand
    Adjustment,     \* stock deltas an admin sends to updateStock
    Recount,        \* absolute levels an admin sends to updateStock
    MaxReopened,    \* bound: how often an order may leave CANCELLED again
    MaxSupplied,    \* bound: units per variant an admin may bring in
    NoOrder, NoCustomer, NoVariant

ASSUME CartsAssumption == Carts \subseteq [Variant -> Nat]
ASSUME StockAssumption == InitialStock \in [Variant -> Nat]
ASSUME CouponAssumption == MaxTotalUsage \in Nat /\ MaxUsagePerUser \in Nat
ASSUME AdminAssumption == AdminStatus \subseteq OrderStatus /\ Adjustment \subseteq Int
ASSUME RecountAssumption == Recount \subseteq Nat
ASSUME BoundAssumption == MaxReopened \in Nat /\ MaxSupplied \in Nat
ASSUME FiniteAssumption == IsFiniteSet(Order) /\ IsFiniteSet(Process) /\ Process # {}
ASSUME NullAssumption ==
    NoOrder \notin Order /\ NoCustomer \notin Customer /\ NoVariant \notin Variant

VARIABLES item, stock, cart, couponUse, job, sweep, supplied

vars == <<order, item, stock, cart, couponUse, job, sweep, supplied>>

-----------------------------------------------------------------------------
(* Types and null values.                                                  *)

Lines == [Variant -> Nat]

EmptyLines == [v \in Variant |-> 0]

Item == [owner : Customer \cup {NoCustomer}, lines : Lines, coupon : BOOLEAN]

NoItem == [owner |-> NoCustomer, lines |-> EmptyLines, coupon |-> FALSE]

Job == [pc : {"idle", "rejected", "cart", "coupon", "commit", "cancel", "adjust"},
        order : Order \cup {NoOrder},
        customer : Customer \cup {NoCustomer},
        lines : Lines,
        coupon : BOOLEAN,
        seen : [status : OrderStatus \cup {"NONE"},
                pay : PaymentStatus \cup {"NONE"}],
        variant : Variant \cup {NoVariant},
        delta : Int,
        value : Nat]

Idle == [pc |-> "idle", order |-> NoOrder, customer |-> NoCustomer,
         lines |-> EmptyLines, coupon |-> FALSE,
         seen |-> [status |-> "NONE", pay |-> "NONE"],
         variant |-> NoVariant, delta |-> 0, value |-> 0]

Rejected == [Idle EXCEPT !.pc = "rejected"]

Free(p) == job[p].pc \in {"idle", "rejected"}

(* The units of lines taken from, or put back into, the stock levels.      *)
Take(levels, lines) == [v \in Variant |-> levels[v] - lines[v]]

PutBack(levels, lines) == [v \in Variant |-> levels[v] + lines[v]]

InStock(levels, lines) == \A v \in Variant : lines[v] <= levels[v]

-----------------------------------------------------------------------------
OrdersInit ==
    /\ Init
    /\ item = [o \in Order |-> NoItem]
    /\ stock = InitialStock
    /\ cart = [c \in Customer |-> EmptyLines]
    /\ couponUse = 0
    /\ job = [p \in Process |-> Idle]
    /\ sweep = [s \in Sweeper |-> {}]
    /\ supplied = InitialStock

(* Any sequence of cart endpoints between two checkouts: the customer's    *)
(* active lines become one of the contents considered.                     *)
EditCart(c) ==
    /\ \E lines \in Carts : cart' = [cart EXCEPT ![c] = lines]
    /\ UNCHANGED <<order, item, stock, couponUse, job, sweep, supplied>>

-----------------------------------------------------------------------------
(* checkout                                                                *)

(* The Idempotency-Key lookup finds no order (finding one, it answers      *)
(* without a change).                                                      *)
CheckoutLookup(p, c, o) ==
    /\ Free(p)
    /\ ~Placed(order[o])
    /\ job' = [job EXCEPT ![p] = [Idle EXCEPT !.pc = "cart", !.order = o,
                                              !.customer = c]]
    /\ UNCHANGED <<order, item, stock, cart, couponUse, sweep, supplied>>

(* Orders of this customer that carry the coupon, cancelled ones included. *)
CouponOrders(c) == {o \in Order : item[o].owner = c /\ item[o].coupon}

CouponValidPerUser(c) ==                 \* mutant: the total limit is not checked
    Cardinality(CouponOrders(c)) < MaxUsagePerUser

CouponValid(c) ==
    /\ couponUse < MaxTotalUsage
    /\ Cardinality(CouponOrders(c)) < MaxUsagePerUser

(* Reads the cart with its stock levels; a coupon may have been sent along.*)
(* The checks work on these copies.                                        *)
CheckoutRead(p) ==
    /\ job[p].pc = "cart"
    /\ LET lines == cart[job[p].customer] IN
       \E next \in {"coupon", "commit"} :
          job' = [job EXCEPT ![p] =
                    IF lines # EmptyLines /\ InStock(stock, lines)
                    THEN [@ EXCEPT !.pc = next, !.lines = lines] ELSE Rejected]
    /\ UNCHANGED <<order, item, stock, cart, couponUse, sweep, supplied>>

(* The coupon's counter and the customer's earlier uses are read, not      *)
(* locked, before the transaction.                                         *)
CheckoutCoupon(p) ==
    /\ job[p].pc = "coupon"
    /\ job' = [job EXCEPT ![p] = IF CouponValid(@.customer)
                                 THEN [@ EXCEPT !.pc = "commit", !.coupon = TRUE]
                                 ELSE Rejected]
    /\ UNCHANGED <<order, item, stock, cart, couponUse, sweep, supplied>>

CheckoutOverwrites(p) ==                 \* mutant: the create is an upsert
    /\ job[p].pc = "commit"
    /\ Placed(order[job[p].order])
    /\ item' = [item EXCEPT ![job[p].order].lines = job[p].lines,
                            ![job[p].order].owner = job[p].customer]
    /\ job' = [job EXCEPT ![p] = Idle]
    /\ UNCHANGED <<order, stock, cart, couponUse, sweep, supplied>>

(* The unique checkout_key makes a second insert fail; the handler then    *)
(* answers with the winner's order when that order is this customer's.     *)
CheckoutLosesRace(p) ==
    /\ job[p].pc = "commit"
    /\ Placed(order[job[p].order])
    /\ job' = [job EXCEPT ![p] = IF item[@.order].owner = @.customer
                                 THEN Idle ELSE Rejected]
    /\ UNCHANGED <<order, item, stock, cart, couponUse, sweep, supplied>>

CheckoutSoldOutCounted(p) ==             \* mutant: usage counted outside the transaction
    /\ job[p].pc = "commit"
    /\ ~Placed(order[job[p].order])
    /\ ~InStock(stock, job[p].lines)
    /\ couponUse' = couponUse + (IF job[p].coupon THEN 1 ELSE 0)
    /\ job' = [job EXCEPT ![p] = Rejected]
    /\ UNCHANGED <<order, item, stock, cart, sweep, supplied>>

(* A conditional decrement that finds too few units aborts the whole       *)
(* transaction.                                                            *)
CheckoutSoldOut(p) ==
    /\ job[p].pc = "commit"
    /\ ~Placed(order[job[p].order])
    /\ ~InStock(stock, job[p].lines)
    /\ job' = [job EXCEPT ![p] = Rejected]
    /\ UNCHANGED <<order, item, stock, cart, couponUse, sweep, supplied>>

(* Order, decrements, coupon usage and the emptied cart commit together.   *)
(* All active lines of the cart go, also those added after the read.       *)
CheckoutCommit(p) ==
    LET o == job[p].order IN
    /\ job[p].pc = "commit"
    /\ Place(o)
    /\ InStock(stock, job[p].lines)
    /\ stock' = Take(stock, job[p].lines)
    /\ item' = [item EXCEPT ![o] = [owner |-> job[p].customer,
                                    lines |-> job[p].lines,
                                    coupon |-> job[p].coupon]]
    /\ couponUse' = couponUse + (IF job[p].coupon THEN 1 ELSE 0)
    /\ cart' = [cart EXCEPT ![job[p].customer] = EmptyLines]
    /\ job' = [job EXCEPT ![p] = Idle]
    /\ UNCHANGED <<sweep, supplied>>

-----------------------------------------------------------------------------
(* cancel                                                                  *)

CancelReadAny(p, o) ==                   \* mutant: any placed order is cancelled
    /\ Free(p)
    /\ Placed(order[o])
    /\ job' = [job EXCEPT ![p] = [Idle EXCEPT !.pc = "cancel", !.order = o,
                                              !.seen = [status |-> order[o].status,
                                                         pay |-> order[o].pay]]]
    /\ UNCHANGED <<order, item, stock, cart, couponUse, sweep, supplied>>

CancelRead(p, o) ==
    /\ Free(p)
    /\ Cancellable(order[o])
    /\ job' = [job EXCEPT ![p] = [Idle EXCEPT !.pc = "cancel", !.order = o,
                                              !.seen = [status |-> order[o].status,
                                                         pay |-> order[o].pay]]]
    /\ UNCHANGED <<order, item, stock, cart, couponUse, sweep, supplied>>

StillPlaced(o, seen) == Placed(order[o]) \* mutant: updates by id alone

(* The UPDATE only matches while status and payment status are those the   *)
(* handler read.                                                           *)
StillAsSeen(o, seen) == order[o].status = seen.status /\ order[o].pay = seen.pay

CancelConflict(p) ==
    /\ job[p].pc = "cancel"
    /\ ~StillAsSeen(job[p].order, job[p].seen)
    /\ job' = [job EXCEPT ![p] = Rejected]
    /\ UNCHANGED <<order, item, stock, cart, couponUse, sweep, supplied>>

CancelCommit(p) ==
    LET o == job[p].order IN
    /\ job[p].pc = "cancel"
    /\ StillAsSeen(o, job[p].seen)
    /\ order' = [order EXCEPT ![o] = Released(@)]
    /\ stock' = PutBack(stock, item[o].lines)
    /\ job' = [job EXCEPT ![p] = Idle]
    /\ UNCHANGED <<item, cart, couponUse, sweep, supplied>>

-----------------------------------------------------------------------------
(* The expiry sweep.                                                       *)

(* findMany: the unpaid orders placed before the cut-off. Time is not      *)
(* modelled, so any of the unpaid orders may be old enough.                *)
SweepList(s, list) ==
    /\ sweep[s] = {}
    /\ list # {}
    /\ \A o \in list : Expirable(order[o])
    /\ sweep' = [sweep EXCEPT ![s] = list]
    /\ UNCHANGED <<order, item, stock, cart, couponUse, job, supplied>>

(* The row changed since it was listed: nothing happens to it.             *)
SweepSkip(s, o) ==
    /\ o \in sweep[s]
    /\ ~Expirable(order[o])
    /\ sweep' = [sweep EXCEPT ![s] = @ \ {o}]
    /\ UNCHANGED <<order, item, stock, cart, couponUse, job, supplied>>

SweepExpireAny(s, o) ==                  \* mutant: the guard on the row is gone
    /\ o \in sweep[s]
    /\ order' = [order EXCEPT ![o] = Released(@)]
    /\ stock' = PutBack(stock, item[o].lines)
    /\ sweep' = [sweep EXCEPT ![s] = @ \ {o}]
    /\ UNCHANGED <<item, cart, couponUse, job, supplied>>

SweepExpireNothing(s, o) ==              \* mutant: the guarded update matches no row
    /\ o \in sweep[s]
    /\ sweep' = [sweep EXCEPT ![s] = @ \ {o}]
    /\ UNCHANGED <<order, item, stock, cart, couponUse, job, supplied>>

SweepExpire(s, o) ==
    /\ o \in sweep[s]
    /\ Expirable(order[o])
    /\ order' = [order EXCEPT ![o] = Released(@)]
    /\ stock' = PutBack(stock, item[o].lines)
    /\ sweep' = [sweep EXCEPT ![s] = @ \ {o}]
    /\ UNCHANGED <<item, cart, couponUse, job, supplied>>

(* A failing transaction, or a restart, ends the sweep: what it had listed *)
(* waits for a later one.                                                  *)
SweepAborts(s) ==
    /\ sweep[s] # {}
    /\ sweep' = [sweep EXCEPT ![s] = {}]
    /\ UNCHANGED <<order, item, stock, cart, couponUse, job, supplied>>

-----------------------------------------------------------------------------
(* Writers outside the customer's and the sweep's control.                 *)

(* The bound on reopenings cuts off behaviours, never a guard of the code. *)
MayReopen(o) == order[o].status = "CANCELLED" => order[o].reopened < MaxReopened

(* The order transaction of a payment outcome, as Payments describes it:   *)
(* written over whatever status the order has by then.                     *)
PaymentCaptured(o) ==
    /\ MayReopen(o)
    /\ MarkPaid(o)
    /\ UNCHANGED <<item, stock, cart, couponUse, job, sweep, supplied>>

PaymentFailed(o) ==
    /\ MayReopen(o)
    /\ MarkFailed(o)
    /\ UNCHANGED <<item, stock, cart, couponUse, job, sweep, supplied>>

(* updateStatus: any status may follow any other; stock is left alone. The *)
(* row it read first decides only what the history says, so the            *)
(* unconditional write is the one step.                                    *)
AdminSetStatus(o, status) ==
    /\ Placed(order[o])
    /\ order[o].status # status
    /\ MayReopen(o)
    /\ order' = [order EXCEPT ![o] = WithStatus(@, status)]
    /\ UNCHANGED <<item, stock, cart, couponUse, job, sweep, supplied>>

(* updateStock with a delta: reads the level, then writes level + delta.   *)
AdjustRead(p, v, delta) ==
    /\ Free(p)
    /\ stock[v] + delta >= 0
    /\ supplied[v] + delta <= MaxSupplied
    /\ job' = [job EXCEPT ![p] = [Idle EXCEPT !.pc = "adjust", !.variant = v,
                                              !.delta = delta,
                                              !.value = stock[v] + delta]]
    /\ UNCHANGED <<order, item, stock, cart, couponUse, sweep, supplied>>

AdjustWriteTwice(p) ==                   \* mutant: the delta is added once more
    /\ job[p].pc = "adjust"
    /\ stock' = [stock EXCEPT ![job[p].variant] = job[p].value + job[p].delta]
    /\ supplied' = [supplied EXCEPT ![job[p].variant] = @ + job[p].delta]
    /\ job' = [job EXCEPT ![p] = Idle]
    /\ UNCHANGED <<order, item, cart, couponUse, sweep>>

AdjustWrite(p) ==
    LET v == job[p].variant IN
    /\ job[p].pc = "adjust"
    /\ stock' = [stock EXCEPT ![v] = job[p].value]
    /\ supplied' = [supplied EXCEPT ![v] = @ + job[p].delta]
    /\ job' = [job EXCEPT ![p] = Idle]
    /\ UNCHANGED <<order, item, cart, couponUse, sweep>>

(* updateStock with an absolute level: whatever is withheld, the merchant  *)
(* now has n units more to sell.                                           *)
AdminRecount(p, v, n) ==
    /\ Free(p)
    /\ stock[v] # n
    /\ stock' = [stock EXCEPT ![v] = n]
    /\ supplied' = [supplied EXCEPT ![v] = @ + n - stock[v]]
    /\ UNCHANGED <<order, item, cart, couponUse, job, sweep>>

-----------------------------------------------------------------------------
CheckoutStep(p) ==
    \/ CheckoutRead(p)
    \/ CheckoutCoupon(p)
    \/ CheckoutLosesRace(p)
    \/ CheckoutSoldOut(p)
    \/ CheckoutCommit(p)

CancelStep(p) == CancelConflict(p) \/ CancelCommit(p)

SweepStep(s) == \E o \in Order : SweepSkip(s, o) \/ SweepExpire(s, o)

OrdersNext ==
    \/ \E c \in Customer : EditCart(c)
    \/ \E p \in Process :
          \/ \E c \in Customer, o \in Order : CheckoutLookup(p, c, o)
          \/ CheckoutStep(p)
          \/ \E o \in Order : CancelRead(p, o)
          \/ CancelStep(p)
          \/ \E v \in Variant, delta \in Adjustment : AdjustRead(p, v, delta)
          \/ AdjustWrite(p)
          \/ \E v \in Variant, n \in Recount : AdminRecount(p, v, n)
    \/ \E s \in Sweeper :
          \/ \E list \in SUBSET Order : SweepList(s, list)
          \/ SweepStep(s)
          \/ SweepAborts(s)
    \/ \E o \in Order :
          \/ PaymentCaptured(o)
          \/ PaymentFailed(o)
          \/ \E status \in AdminStatus : AdminSetStatus(o, status)

OrdersSpec == OrdersInit /\ [][OrdersNext]_vars

(* The five-minute timer keeps listing an order that stays unpaid, and     *)
(* sweeps that have it on their list do not fail every single time.        *)
(* Customers, admins and payment outcomes are not obliged to do anything.  *)
Fairness ==
    \A s \in Sweeper, o \in Order :
        /\ SF_vars(\E list \in SUBSET Order : o \in list /\ SweepList(s, list))
        /\ SF_vars(SweepSkip(s, o) \/ SweepExpire(s, o))

FairSpec == OrdersSpec /\ Fairness

-----------------------------------------------------------------------------
(* Properties.                                                             *)

TypeOK ==
    /\ RowTypeOK
    /\ item \in [Order -> Item]
    /\ stock \in [Variant -> Nat]
    /\ cart \in [Customer -> Lines]
    /\ couponUse \in Nat
    /\ job \in [Process -> Job]
    /\ sweep \in [Sweeper -> SUBSET Order]
    /\ supplied \in [Variant -> Int]

(* Units of v that each order keeps out of the stock: its line, less every *)
(* time the line was put back. Negative once it was put back twice.        *)
Withheld(v) ==
    [o \in Order |-> IF Placed(order[o])
                     THEN item[o].lines[v] * (1 - order[o].releases)
                     ELSE 0]

(* Every unit put up for sale is in stock or withheld by an order: no      *)
(* checkout oversells, and a transaction never decrements without an order *)
(* or restocks without a cancellation.                                     *)
StockLedger == \A v \in Variant : stock[v] + SumFunction(Withheld(v)) = supplied[v]

(* Only one writer can unbalance the ledger: an adjustment whose level was *)
(* read before a sale, a restock or another adjustment that it overwrites. *)
Balance(v) == stock[v] - supplied[v] + SumFunction(Withheld(v))

OnlyStaleAdjustmentsDrift ==
    [][\A v \in Variant : Balance(v)' # Balance(v) =>
          \E p \in Process :
              /\ job[p].pc = "adjust" /\ job'[p].pc = "idle"
              /\ job[p].variant = v
              /\ job[p].value # stock[v] + job[p].delta]_vars

(* The coupon's counter counts exactly the orders that used the coupon,    *)
(* however checkouts roll back, lose races or are cancelled later.         *)
CouponLedger == couponUse = Cardinality({o \in Order : item[o].coupon})

(* The coupon's limits are checked on copies, so checkouts that overlap can *)
(* pass them together: by at most the other requests being served, and not *)
(* at all when requests come one at a time.                                *)
CouponOverrun ==
    LET others == Cardinality(Process) - 1 IN
    /\ couponUse <= MaxTotalUsage + others
    /\ \A c \in Customer :
          Cardinality(CouponOrders(c)) <= MaxUsagePerUser + others

(* The books of the shop: rows are rows, and stock and coupons balance.    *)
OrdersSound == TypeOK /\ StockLedger /\ CouponLedger

(* What an order was placed with never changes: a second submission of the *)
(* same key adds nothing to it and takes nothing from stock.               *)
PlacedOnce ==
    [][\A o \in Order : Placed(order[o]) => item'[o] = item[o]]_vars

(* A sweep only ever cancels an order that is unpaid at that moment: a     *)
(* payment, or an admin's decision, that landed since it was listed wins.  *)
SweepSparesPaid ==
    [][\A s \in Sweeper : \A o \in sweep[s] \ sweep'[s] :
          order'[o] = order[o] \/ Expirable(order[o])]_vars

(* Whatever happens, a row changes only the way OrderLifecycle allows.     *)
Lifecycle == Spec

(* An order that waits for its payment does not wait for ever.             *)
AwaitingOrderLeaves ==
    \A o \in Order : Expirable(order[o]) ~> ~Expirable(order[o])

-----------------------------------------------------------------------------
(* What the code says of itself and does not keep: TLC refutes each of the *)
(* two when a configuration checks it alone (see README).                  *)

(* "a retried/double-submitted checkout with the same key returns the      *)
(* order it already created" (orders.service.ts:62): once the customer's   *)
(* order with this key exists, no request carrying the key is rejected.    *)
RetrySeesItsOrder ==
    [][\A p \in Process :
          (/\ job[p].pc \in {"cart", "coupon", "commit"}
           /\ Placed(order[job[p].order])
           /\ item[job[p].order].owner = job[p].customer)
          => job'[p].pc # "rejected"]_vars

(* "Releases stock held by orders that were never paid ... abandoned       *)
(* checkouts must expire" (order-expiry.service.ts:8-9): an order is paid, *)
(* cancelled or expired in the end.                                        *)
UnpaidOrdersExpire ==
    \A o \in Order : Placed(order[o]) ~>
        order[o].pay = "PAID" \/ order[o].status = "CANCELLED"
=============================================================================
