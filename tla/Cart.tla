-------------------------------- MODULE Cart --------------------------------
(***************************************************************************)
(* The carts of customers and guests, and what a checkout charges for one: *)
(* CartService (addItem, addBundleItems, updateItem, removeItem,           *)
(* mergeGuestCart) and the pricing half of OrdersService.checkout with the *)
(* coupon and shipping services. Orders has the other half: stock, coupon  *)
(* limits and the order row.                                               *)
(*                                                                         *)
(* Every handler loads a cart with its lines, decides by that copy and     *)
(* then writes, by cart and variant. Nothing is locked, and nothing but    *)
(* the guest token makes a cart unique: a customer may come to have two,   *)
(* and findFirst then takes either.                                        *)
(*                                                                         *)
(*   cart        carts and cart_items; a line of quantity 0 does not exist *)
(*   job         the handler each process is in, with its copy             *)
(*   asked       units of a variant that owners have asked for so far, a   *)
(*               history variable bounded by MaxAsked                      *)
(*   overlapped  whether two requests of one owner have been under way at  *)
(*               once, a history variable no step reads                    *)
(***************************************************************************)
EXTENDS PriceRules, FiniteSets

CONSTANTS
    Variant, Customer, Guest,   \* guests are named by their tokens
    CartId, Process,
    Product,        \* [Variant -> product], see PriceRules
    Bundle,         \* the bundles on offer
    Coupon,         \* the coupons a checkout may name
    Method,         \* the delivery methods
    Quantity,       \* quantities owners ask for
    MaxAsked,       \* bound on asked, for each variant
    NoCart, NoOwner, NoBundle

Owner == Customer \cup Guest

ASSUME ProductAssumption ==
    Product \in [Variant -> [price : Nat, sale : Nat \cup {None},
                             tiers : SUBSET [min : Nat, price : Nat],
                             vat : 0..100, weight : Nat, stock : Nat]]
ASSUME BundleAssumption == Bundle \subseteq [price : Nat, quantity : [Variant -> Nat]]
ASSUME CouponAssumption ==
    \A coupon \in Coupon :
        /\ coupon.type \in {"PERCENT", "FIXED", "FREE_SHIPPING"}
        /\ coupon.amount \in Nat /\ coupon.minTotal \in Nat
        /\ coupon.type = "PERCENT" => coupon.amount <= 100
        /\ coupon.cap \in Nat \cup {None} /\ coupon.excludeSale \in BOOLEAN
ASSUME MethodAssumption ==
    \A method \in Method :
        /\ {method.flat, method.freeOver} \subseteq Nat \cup {None}
        /\ method.bands \subseteq [min : Nat, max : Nat, rate : Nat]
ASSUME BoundAssumption == Quantity \subseteq Nat \ {0} /\ MaxAsked \in [Variant -> Nat]
ASSUME FiniteAssumption == IsFiniteSet(Variant) /\ IsFiniteSet(CartId)
ASSUME NullAssumption ==
    /\ NoCart \notin CartId /\ NoOwner \notin Owner /\ NoBundle \notin Bundle
    /\ Customer \cap Guest = {}

VARIABLES cart, job, asked, overlapped

vars == <<cart, job, asked, overlapped>>

-----------------------------------------------------------------------------
(* Rows.                                                                   *)

Line == [quantity : Nat, saved : BOOLEAN, override : Nat \cup {None},
         bundle : Bundle \cup {NoBundle}]

NoLine == [quantity |-> 0, saved |-> FALSE, override |-> None, bundle |-> NoBundle]

Empty == [v \in Variant |-> NoLine]

CartRow == [state : {"unused", "live", "gone"},
            owner : Owner \cup {NoOwner},
            line : [Variant -> Line]]

NoCartRow == [state |-> "unused", owner |-> NoOwner, line |-> Empty]

(* What checkout works out before its transaction.                         *)
Bill == [line : [Variant -> [quantity : Nat, subtotal : Nat, vat : Nat]],
         subtotal : Nat, discount : Nat, shipping : Nat, total : Int]

NoBill == [line |-> [v \in Variant |-> [quantity |-> 0, subtotal |-> 0, vat |-> 0]],
           subtotal |-> 0, discount |-> 0, shipping |-> 0, total |-> 0]

(* add is a request that makes a cart when it finds none (addItem and      *)
(* addBundleItems), edit one that does not (updateItem and removeItem).    *)
Job == [pc : {"idle", "add", "edit", "merge", "join", "checkout", "commit"},
        owner : Owner \cup {NoOwner},
        cart : CartId \cup {NoCart},    \* the cart found, NoCart: none
        seen : [Variant -> Line],       \* its lines as they were then
        from : CartId \cup {NoCart},    \* merge: the guest's cart
        bill : Bill]

Idle == [pc |-> "idle", owner |-> NoOwner, cart |-> NoCart, seen |-> Empty,
         from |-> NoCart, bill |-> NoBill]

CartsOf(w) == {k \in CartId : cart[k].state = "live" /\ cart[k].owner = w}

Return(p) == job' = [job EXCEPT ![p] = Idle]

-----------------------------------------------------------------------------
CartInit ==
    /\ cart = [k \in CartId |-> NoCartRow]
    /\ job = [p \in Process |-> Idle]
    /\ asked = [v \in Variant |-> 0]
    /\ overlapped = FALSE

(* Two requests of one owner; a merge is also one of the guest's.          *)
Busy(w) == \E p \in Process :
    \/ job[p].owner = w
    \/ job[p].from # NoCart /\ cart[job[p].from].owner = w

(* findCart: any cart of the owner, if there is one.                       *)
Find(p, w, pc) ==
    /\ job[p].pc = "idle"
    /\ \/ /\ CartsOf(w) = {}
          /\ job' = [job EXCEPT ![p] = [Idle EXCEPT !.pc = pc, !.owner = w]]
       \/ \E k \in CartsOf(w) :
             job' = [job EXCEPT ![p] = [Idle EXCEPT !.pc = pc, !.owner = w, !.cart = k,
                                                    !.seen = cart[k].line]]
    /\ overlapped' = (overlapped \/ Busy(w))
    /\ UNCHANGED <<cart, asked>>

(* getOrCreateCart, when none was found. A guest's token is unique.        *)
MakeCart(p) ==
    LET w == job[p].owner IN
    /\ job[p].pc \in {"add", "join"}
    /\ job[p].cart = NoCart
    /\ w \in Guest => CartsOf(w) = {}
    /\ \E k \in CartId :
          /\ cart[k].state = "unused"
          /\ cart' = [cart EXCEPT ![k] = [NoCartRow EXCEPT !.state = "live", !.owner = w]]
          /\ job' = [job EXCEPT ![p].cart = k]
    /\ UNCHANGED <<asked, overlapped>>

(* A request ends before its write: what it looks for is not there (a cart,*)
(* a line, something to order), it is refused (beyond stock, no rate, a    *)
(* coupon turned down), the write fails (a cart or line removed meanwhile, *)
(* a token taken), or the process stops.                                   *)
Stop(p) ==
    /\ job[p].pc # "idle"
    /\ Return(p)
    /\ UNCHANGED <<cart, asked, overlapped>>

-----------------------------------------------------------------------------
(* The owner's changes. Each is the request's last step.                   *)

Writing(p, pc) ==
    /\ job[p].pc = pc
    /\ job[p].cart # NoCart
    /\ Return(p)
    /\ UNCHANGED overlapped

Ask(units) ==
    /\ \A v \in Variant : asked[v] + units[v] <= MaxAsked[v]
    /\ asked' = [v \in Variant |-> asked[v] + units[v]]

Units(v, n) == [x \in Variant |-> IF x = v THEN n ELSE 0]

(* addItem: the new quantity is that of the copy and n, and is written     *)
(* over the line's; a line that is not there now is created with n.        *)
Add(p, v, n) ==
    LET k == job[p].cart
        sum == job[p].seen[v].quantity + n
    IN  /\ Writing(p, "add")
        /\ sum <= Product[v].stock
        /\ cart[k].state = "live"
        /\ cart' = [cart EXCEPT ![k].line[v] =
               IF @.quantity = 0 THEN [NoLine EXCEPT !.quantity = n]
               ELSE [@ EXCEPT !.quantity = sum]]
        /\ Ask(Units(v, n))

WithBundle(line, v, b) ==
    IF b.quantity[v] = 0 THEN line
    ELSE [line EXCEPT !.quantity = @ + b.quantity[v], !.override = UnitShare(Product, b, v),
                      !.bundle = b]

(* addBundleItems: all lines in one transaction, at the bundle's prices.   *)
(* What the cart already holds does not count against the stock.           *)
AddBundle(p, b) ==
    LET k == job[p].cart IN
    /\ Writing(p, "add")
    /\ \A v \in Variant : b.quantity[v] <= Product[v].stock
    /\ cart[k].state = "live"
    /\ cart' = [cart EXCEPT ![k].line = [v \in Variant |-> WithBundle(@[v], v, b)]]
    /\ Ask(b.quantity)

Edited(line, n, saved) ==
    [line EXCEPT !.quantity = IF n = 0 THEN @ ELSE n, !.saved = saved]

(* updateItem: a quantity within stock (n = 0: none is given), and saved   *)
(* for later or not (none given: as it is). The line must still be there.  *)
Update(p, v, n, saved) ==
    LET k == job[p].cart IN
    /\ Writing(p, "edit")
    /\ job[p].seen[v].quantity > 0
    /\ n <= Product[v].stock
    /\ cart[k].line[v].quantity > 0
    /\ cart' = [cart EXCEPT ![k].line[v] = Edited(@, n, saved)]
    /\ Ask(Units(v, AtLeastZero(n - job[p].seen[v].quantity)))

Remove(p, v) ==
    /\ Writing(p, "edit")
    /\ cart' = [cart EXCEPT ![job[p].cart].line[v] = NoLine]
    /\ UNCHANGED asked

-----------------------------------------------------------------------------
(* mergeGuestCart.                                                         *)

(* The guest's cart was found with lines; now the customer's.              *)
MergeInto(p, c) ==
    /\ job[p].pc = "merge"
    /\ job[p].cart # NoCart
    /\ job[p].seen # Empty
    /\ \E k \in IF CartsOf(c) = {} THEN {NoCart} ELSE CartsOf(c) :
          job' = [job EXCEPT ![p].pc = "join", ![p].owner = c, ![p].cart = k,
                             ![p].from = job[p].cart]
    /\ overlapped' = (overlapped \/ Busy(c))
    /\ UNCHANGED <<cart, asked>>

Joined(line, other) ==
    IF other.quantity = 0 THEN line
    ELSE IF line.quantity = 0
         THEN [NoLine EXCEPT !.quantity = other.quantity, !.saved = other.saved]
    ELSE [line EXCEPT !.quantity = @ + other.quantity]

JoinTwice(p) ==                          \* mutant: the guest's cart may be gone already
    /\ Writing(p, "join")
    /\ cart' = [cart EXCEPT
          ![job[p].cart].line = [v \in Variant |-> Joined(@[v], job[p].seen[v])],
          ![job[p].from] = [@ EXCEPT !.state = "gone", !.line = Empty]]
    /\ UNCHANGED asked

JoinActive(p) ==                         \* mutant: saved lines are left behind
    /\ Writing(p, "join")
    /\ cart[job[p].from].state = "live"
    /\ cart' = [cart EXCEPT
          ![job[p].cart].line = [v \in Variant |-> IF job[p].seen[v].saved THEN @[v]
                                                  ELSE Joined(@[v], job[p].seen[v])],
          ![job[p].from] = [@ EXCEPT !.state = "gone", !.line = Empty]]
    /\ UNCHANGED asked

(* The copied lines go over and the guest's cart goes, with whatever it    *)
(* holds by then. If it is gone already, deleting it fails and all of this *)
(* rolls back.                                                             *)
Join(p) ==
    /\ Writing(p, "join")
    /\ cart[job[p].from].state = "live"
    /\ cart' = [cart EXCEPT
          ![job[p].cart].line = [v \in Variant |-> Joined(@[v], job[p].seen[v])],
          ![job[p].from] = [@ EXCEPT !.state = "gone", !.line = Empty]]
    /\ UNCHANGED asked

-----------------------------------------------------------------------------
(* checkout                                                                *)

Active(lines) == {v \in Variant : lines[v].quantity > 0 /\ ~lines[v].saved}

(* Checkout charges the regular price of every line.                       *)
OrderLine(v, line) ==
    LET subtotal == RegularPrice(Product[v]) * line.quantity IN
    [quantity |-> line.quantity, subtotal |-> subtotal,
     vat |-> VatWithin(subtotal, Product[v].vat)]

Cost(lines) == [v \in Variant |-> RegularPrice(Product[v]) * lines[v].quantity]

SubtotalOf(lines) == SumFunctionOnSet(Cost(lines), Active(lines))

(* The part of the goods that the coupon may reduce.                       *)
Discountable(lines, coupon) ==
    SumFunctionOnSet(Cost(lines),
                     {v \in Active(lines) : ~(coupon.excludeSale /\ Product[v].sale # None)})

WeightOf(lines) ==
    SumFunctionOnSet([v \in Variant |-> Product[v].weight * lines[v].quantity], Active(lines))

BillFor(lines, rate, discount, freeShipping) ==
    LET shipping == IF freeShipping THEN 0 ELSE rate IN
    [line |-> [v \in Variant |-> IF v \in Active(lines) THEN OrderLine(v, lines[v])
                                 ELSE NoBill.line[v]],
     subtotal |-> SubtotalOf(lines), discount |-> discount, shipping |-> shipping,
     total |-> SubtotalOf(lines) - discount + shipping]

(* A method that has a rate for the goods, and a coupon that is accepted.  *)
Price(p, method) ==
    LET lines == job[p].seen
        subtotal == SubtotalOf(lines)
    IN  /\ job[p].pc = "checkout"
        /\ Active(lines) # {}
        /\ \A v \in Active(lines) : lines[v].quantity <= Product[v].stock
        /\ \E rate \in Rates(method, WeightOf(lines), subtotal) :
             \/ job' = [job EXCEPT ![p].pc = "commit", ![p].bill = BillFor(lines, rate, 0, FALSE)]
             \/ \E coupon \in {c \in Coupon : subtotal >= c.minTotal} :
                   job' = [job EXCEPT ![p].pc = "commit",
                       ![p].bill = BillFor(lines, rate,
                                           Discount(coupon, Discountable(lines, coupon)),
                                           coupon.type = "FREE_SHIPPING")]
        /\ UNCHANGED <<cart, asked, overlapped>>

(* All active lines of the cart go, as in Orders!CheckoutCommit.           *)
Commit(p) ==
    /\ Writing(p, "commit")
    /\ cart' = [cart EXCEPT ![job[p].cart].line =
          [v \in Variant |-> IF @[v].saved THEN @[v] ELSE NoLine]]
    /\ UNCHANGED asked

-----------------------------------------------------------------------------
CartNext ==
    \E p \in Process :
        \/ \E w \in Owner, pc \in {"add", "edit", "checkout"} : Find(p, w, pc)
        \/ \E g \in Guest : Find(p, g, "merge")
        \/ MakeCart(p)
        \/ \E v \in Variant, n \in Quantity : Add(p, v, n)
        \/ \E v \in Variant, n \in Quantity \cup {0}, saved \in BOOLEAN : Update(p, v, n, saved)
        \/ \E v \in Variant : Remove(p, v)
        \/ \E b \in Bundle : AddBundle(p, b)
        \/ \E c \in Customer : MergeInto(p, c)
        \/ Join(p)
        \/ \E method \in Method : Price(p, method)
        \/ Commit(p) \/ Stop(p)

CartSpec == CartInit /\ [][CartNext]_vars

-----------------------------------------------------------------------------
(* Properties.                                                             *)

(* Rows are rows; a cart that is not live has no lines.                    *)
TypeOK ==
    /\ cart \in [CartId -> CartRow]
    /\ \A k \in CartId : cart[k].state # "live" => cart[k].line = Empty
    /\ job \in [Process -> Job]
    /\ asked \in [Variant -> Nat]
    /\ overlapped \in BOOLEAN

Held(v) == SumFunction([k \in CartId |-> cart[k].line[v].quantity])

(* Carts never hold more units than their owners asked for: a merge sent   *)
(* twice, or racing the guest's own changes, brings no unit over twice.    *)
UnitsWereAskedFor == \A v \in Variant : Held(v) <= asked[v]

(* A guest has one cart, and so has a customer as long as no two of the    *)
(* customer's requests overlap: no unit is out of sight in another.        *)
OneCart ==
    /\ \A g \in Guest : Cardinality(CartsOf(g)) <= 1
    /\ overlapped \/ \A c \in Customer : Cardinality(CartsOf(c)) <= 1

(* The carts of a shop: rows are rows, and owners find what they asked for.*)
CartsSound == TypeOK /\ UnitsWereAskedFor /\ OneCart

(* The cart of a guest goes only by a merge, which brings every unit over, *)
(* unless the guest changed it since the merge read it.                    *)
MergeKeepsUnits ==
    [][\A k \in CartId : cart[k].state = "live" /\ cart'[k].state # "live" =>
          \/ \A v \in Variant : Held(v)' = Held(v)
          \/ \E p \in Process : job[p].from = k /\ job'[p] = Idle
                                 /\ job[p].seen # cart[k].line]_vars

(* A checkout takes out of the cart the units it has ordered, all of them  *)
(* and no others, line by line, but for lines that changed since it read   *)
(* the cart: deleteMany takes whatever is not saved for later by then      *)
(* (OrdersService.checkout).                                               *)
CheckoutTakesItsLines ==
    [][\A p \in Process : job[p].pc = "commit" /\ job'[p] = Idle /\ cart' # cart =>
          LET was == cart[job[p].cart].line
              is == cart'[job[p].cart].line
          IN  \A v \in Variant :
                 \/ was[v] # job[p].seen[v]
                 \/ was[v].quantity - is[v].quantity = job[p].bill.line[v].quantity]_vars

(* No unit is lost on the way from a cart to another or to an order.       *)
NothingLost == MergeKeepsUnits /\ CheckoutTakesItsLines

(* A cart that holds a bundle and nothing else shows the bundle's price, to*)
(* within half a penny for each unit, however its lines came about.        *)
BundlePrice ==
    \A k \in CartId, b \in Bundle :
        LET lines == cart[k].line
            shown == SumFunctionOnSet([v \in Variant |-> lines[v].override * lines[v].quantity],
                                      Variant)
            units == SumFunctionOnSet(b.quantity, Variant)
        IN  /\ \A v \in Variant : /\ lines[v].quantity = b.quantity[v]
                                  /\ b.quantity[v] > 0 => lines[v].bundle = b
            /\ RegularTotal(Product, b) > 0
            => 2 * (shown - b.price) \in (-units)..units

Money(bill) == [subtotal |-> bill.subtotal, discountTotal |-> bill.discount,
                shippingCharge |-> bill.shipping]

(* What an order is charged for its goods is what its lines give back when *)
(* all of them are returned, to within half a penny for each line, or each *)
(* unit when they come back one by one; and the VAT is within the price.   *)
RefundsFitBill ==
    \A p \in Process :
        LET bill == job[p].bill
            goods == bill.total - bill.shipping
            bought == {v \in Variant : bill.line[v].quantity > 0}
            row(v) == [quantity |-> bill.line[v].quantity, subtotal |-> bill.line[v].subtotal,
                       discount |-> 0]
            Refund(v, n) == UnitsRefund(row(v), Money(bill), n)
            whole == SumFunctionOnSet([v \in Variant |-> Refund(v, bill.line[v].quantity)], bought)
            single == SumFunctionOnSet([v \in Variant |-> bill.line[v].quantity * Refund(v, 1)],
                                       bought)
            lines == Cardinality(bought)
            units == SumFunctionOnSet([v \in Variant |-> bill.line[v].quantity], bought)
        IN  job[p].pc = "commit" =>
                /\ 2 * (whole - goods) \in (-lines)..lines
                /\ 2 * (single - goods) \in (-units)..units
                /\ \A v \in bought : 2 * bill.line[v].vat <= bill.line[v].subtotal + 1

(* Pennies lost in rounding stay within their bounds: the two above.       *)
PenniesFit == BundlePrice /\ RefundsFitBill

-----------------------------------------------------------------------------
(* What the code says of itself and does not keep: a run of its own refutes*)
(* it (see README).                                                        *)

(* "... so they price against the same live cart data"                     *)
(* (cart.service.ts:130-131): the lines a checkout charges cost what the cart  *)
(* shows for the very same lines.                                          *)
ChargedAsShown ==
    \A p \in Process :
        job[p].pc = "commit" =>
            job[p].bill.subtotal = MapThenSumSet(
                LAMBDA v : CartPrice(Product[v], job[p].seen[v]) * job[p].seen[v].quantity,
                Active(job[p].seen))
=============================================================================
