---------------------------- MODULE ReturnRules ----------------------------
(***************************************************************************)
(* The pure rules of return-rules.ts: how many units of an order line a    *)
(* return holds, how many it gave back, and what they are worth.           *)
(*                                                                         *)
(* Money is counted in pence. The code computes in pounds with doubles and *)
(* rounds to pence; here the same quotient is exact and its half rounds    *)
(* up, as Math.round does. Where a double lands next to an exact half the  *)
(* code may round the other way: by a penny, like the rounding itself.     *)
(***************************************************************************)
EXTENDS Integers

None == -1                          \* a column that is null

ReturnStatus == {"RETURN_REQUESTED", "RETURN_APPROVED", "RETURN_REJECTED",
                 "PICKUP_SCHEDULED", "PICKED_UP", "RETURN_RECEIVED", "INSPECTION",
                 "REFUND_APPROVED", "REFUND_PROCESSING", "COMPLETED", "CANCELLED"}

(* Requests that no longer hold any units.                                 *)
ReleasedStatus == {"RETURN_REJECTED", "CANCELLED"}

DeliveredStatus == {"DELIVERED", "PARTIALLY_RETURNED", "RETURNED"}

AtLeastZero(n) == IF n < 0 THEN 0 ELSE n

Least(m, n) == IF m <= n THEN m ELSE n

-----------------------------------------------------------------------------
(* Quantities of one return item: [quantity, approved, received, accepted].*)
(* accepted is written together with inspectionResult and never without it.*)

(* The units it holds, at the most advanced stage it has reached.          *)
HeldQuantity(item, status) ==
    IF status \in ReleasedStatus THEN 0
    ELSE IF item.accepted # None THEN item.accepted
    ELSE IF item.received # None THEN item.received
    ELSE IF item.approved # None THEN item.approved
    ELSE item.quantity

ReturnedQuantity(item, status) ==
    IF status = "COMPLETED" /\ item.accepted # None THEN item.accepted ELSE 0

(* What itemEligibility leaves to return of a line. The deadline, and the  *)
(* products that cannot be returned, only ever take this to zero.          *)
Returnable(orderStatus, ordered, held) ==
    IF orderStatus \in DeliveredStatus THEN AtLeastZero(ordered - held) ELSE 0

OrderStatusAfterReturns(current, ordered, returned) ==
    IF returned = 0 THEN current
    ELSE IF returned >= ordered THEN "RETURNED"
    ELSE "PARTIALLY_RETURNED"

-----------------------------------------------------------------------------
(* Money. A line is [quantity, subtotal, discount], an order's money is    *)
(* [subtotal, discountTotal, shippingCharge].                              *)

(* n / d to the nearest whole number, halves up (n >= 0, d > 0).           *)
Rounded(n, d) == (2 * n + d) \div (2 * d)

(* What was paid for a whole line, as a fraction: its subtotal, less its   *)
(* discount and its share of the order's coupon.                           *)
LineNetPaid(line, money) ==
    IF money.subtotal > 0
    THEN [num |-> AtLeastZero((line.subtotal - line.discount) * money.subtotal
                                 - money.discountTotal * line.subtotal),
          den |-> money.subtotal]
    ELSE [num |-> AtLeastZero(line.subtotal - line.discount), den |-> 1]

UnitsRefund(line, money, units) ==
    LET net == LineNetPaid(line, money) IN
    IF units <= 0 \/ line.quantity <= 0 THEN 0
    ELSE Rounded(net.num * Least(units, line.quantity), net.den * line.quantity)

ItemRefund(line, money, accepted, deduction) ==
    AtLeastZero(UnitsRefund(line, money, accepted) - AtLeastZero(deduction))
=============================================================================
