----------------------------- MODULE PriceRules -----------------------------
(***************************************************************************)
(* What a cart line costs, what a bundle's units cost, what a coupon takes *)
(* off, what delivery costs and the VAT within a price. Money is in pence, *)
(* as in ReturnRules; rates are whole percentages.                         *)
(*                                                                         *)
(*   product   [price, sale, tiers, vat, weight, stock] of a variant; sale *)
(*             is None when there is none, tiers are [min, price]          *)
(*   line      [quantity, saved, override] of a cart; override is the price*)
(*             of a unit within a bundle, or None                          *)
(*   bundle    [price, quantity], quantity a function on the variants      *)
(*   coupon    [type, amount, cap, excludeSale, minTotal]                  *)
(*   method    [flat, bands, freeOver], bands are [min, max, rate]         *)
(***************************************************************************)
EXTENDS ReturnRules, FiniteSetsExt

(* The price of a unit without bulk prices or bundles.                     *)
RegularPrice(product) == IF product.sale # None THEN product.sale ELSE product.price

(* The tier with the highest minimum that the quantity reaches.            *)
TierPrice(product, quantity) ==
    LET reached == {tier \in product.tiers : quantity >= tier.min} IN
    IF reached = {} THEN None
    ELSE (CHOOSE tier \in reached : \A other \in reached : other.min <= tier.min).price

(* A bundle's price wins outright; else the cheaper of tier and regular.   *)
CartPrice(product, line) ==
    LET tier == TierPrice(product, line.quantity) IN
    IF line.override # None THEN line.override
    ELSE IF tier # None /\ tier < RegularPrice(product) THEN tier
    ELSE RegularPrice(product)

RegularTotal(products, bundle) ==
    SumFunction([v \in DOMAIN products |-> RegularPrice(products[v]) * bundle.quantity[v]])

(* The bundle's price split by the regular prices, rounded for each unit.  *)
UnitShare(products, bundle, v) ==
    IF RegularTotal(products, bundle) = 0 THEN 0
    ELSE Rounded(RegularPrice(products[v]) * bundle.price, RegularTotal(products, bundle))

(* VAT is inside the price.                                                *)
VatWithin(subtotal, rate) == Rounded(subtotal * rate, 100 + rate)

(* What a coupon takes off goods: base counts the lines it may reduce.     *)
DiscountUncapped(coupon, base) ==        \* mutant: an amount is not held to the base
    IF coupon.type = "FREE_SHIPPING" THEN 0
    ELSE LET taken == IF coupon.type = "PERCENT" THEN Rounded(base * coupon.amount, 100)
                      ELSE coupon.amount
         IN  IF coupon.cap = None THEN taken ELSE Least(taken, coupon.cap)

Discount(coupon, base) ==
    IF coupon.type = "FREE_SHIPPING" THEN 0
    ELSE LET taken == IF coupon.type = "PERCENT" THEN Rounded(base * coupon.amount, 100)
                      ELSE Least(coupon.amount, base)
         IN  IF coupon.cap = None THEN taken ELSE Least(taken, coupon.cap)

(* The rates a method may quote: at the edge of two bands the code takes   *)
(* whichever the database returns first. None when it has no rate.         *)
Rates(method, weight, subtotal) ==
    LET fitting == {band \in method.bands : band.min <= weight /\ weight <= band.max}
        found == IF method.flat # None THEN {method.flat} ELSE {band.rate : band \in fitting}
    IN  IF found # {} /\ method.freeOver # None /\ subtotal >= method.freeOver
        THEN {0} ELSE found
=============================================================================
