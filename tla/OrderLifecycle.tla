--------------------------- MODULE OrderLifecycle ---------------------------
(***************************************************************************)
(* What the storefront promises about one row of the `orders` table,       *)
(* whichever service writes it: OrdersService (checkout, cancel),          *)
(* OrderExpiryService (sweep), the admin OrdersService (updateStatus), the *)
(* two payment paths (PaymentAttemptsService.finalizeCapture and           *)
(* PaymentWebhooksService.applyEvent), RefundSettlementService.settle and  *)
(* ReturnsCoreService.settleOrderStatus.                                   *)
(*                                                                         *)
(* A row carries                                                           *)
(*   status    the OrderStatus column ("NONE": the row does not exist)     *)
(*   pay       the PaymentStatus column                                    *)
(*   releases  how many times its units were put back into stock           *)
(*   reopened  how many times it left CANCELLED again                      *)
(* The last two are counts of order_status_history rows: every one of      *)
(* these writers adds a history row in the same transaction.               *)
(*                                                                         *)
(* Orders and Payments describe the same rows in detail. Orders is shown  *)
(* to implement this module; Payments writes rows by its operators.        *)
(***************************************************************************)
EXTENDS Naturals

CONSTANT Order          \* order rows, named by the checkout key that makes them

VARIABLE order          \* [Order -> Row]

-----------------------------------------------------------------------------
(* Rows.                                                                   *)

OrderStatus == {"PENDING", "AWAITING_PAYMENT", "PROCESSING", "PACKED",
                "SHIPPED", "DELIVERED", "CANCELLED", "FAILED",
                "PARTIALLY_RETURNED", "RETURNED"}

PaymentStatus == {"PENDING", "PAID", "FAILED", "REFUNDED", "PARTIALLY_REFUNDED"}

Row == [status : OrderStatus \cup {"NONE"},
        pay : PaymentStatus \cup {"NONE"},
        releases : Nat,
        reopened : Nat]

NoRow == [status |-> "NONE", pay |-> "NONE", releases |-> 0, reopened |-> 0]

NewRow == [status |-> "AWAITING_PAYMENT", pay |-> "PENDING",
           releases |-> 0, reopened |-> 0]

Placed(row) == row.status # "NONE"

(* Which rows each writer's guard accepts.                                 *)
Cancellable(row) ==
    \/ row.status \in {"PENDING", "AWAITING_PAYMENT", "PROCESSING"}
    \/ row.status = "FAILED" /\ row.pay = "FAILED"

Expirable(row) == row.status = "AWAITING_PAYMENT" /\ row.pay = "PENDING"

Payable(row) ==
    /\ row.status \in {"PENDING", "AWAITING_PAYMENT", "FAILED"}
    /\ row.pay \notin {"PAID", "PARTIALLY_REFUNDED", "REFUNDED"}

(* The row after each writer. Leaving CANCELLED counts as a reopening.     *)
WithStatus(row, status) ==
    [row EXCEPT !.status = status,
                !.reopened = IF row.status = "CANCELLED" /\ status # "CANCELLED"
                             THEN @ + 1 ELSE @]

Released(row) == [row EXCEPT !.status = "CANCELLED", !.releases = @ + 1]

PaidRow(row) == [WithStatus(row, "PROCESSING") EXCEPT !.pay = "PAID"]

FailedRow(row) == [WithStatus(row, "FAILED") EXCEPT !.pay = "FAILED"]

-----------------------------------------------------------------------------
(* The promise, one action per kind of write.                              *)

Init == order = [o \in Order |-> NoRow]

Place(o) ==
    /\ ~Placed(order[o])
    /\ order' = [order EXCEPT ![o] = NewRow]

(* Units go back to stock only together with the move to CANCELLED.        *)
Release(o) ==
    /\ Cancellable(order[o])
    /\ order' = [order EXCEPT ![o] = Released(@)]

(* Neither payment outcome looks at the status it replaces.                *)
MarkPaid(o) ==
    /\ Placed(order[o])
    /\ order' = [order EXCEPT ![o] = PaidRow(@)]

MarkFailed(o) ==
    /\ Placed(order[o])
    /\ order' = [order EXCEPT ![o] = FailedRow(@)]

(* A confirmed refund sets the payment status, and the status as well when *)
(* it completes a return.                                                  *)
MarkRefunded(o) ==
    /\ Placed(order[o])
    /\ \E pay \in {"REFUNDED", "PARTIALLY_REFUNDED"},
          status \in {order[o].status, "RETURNED", "PARTIALLY_RETURNED"} :
          order' = [order EXCEPT ![o] = [WithStatus(@, status) EXCEPT !.pay = pay]]

SetStatus(o) ==
    /\ Placed(order[o])
    /\ \E status \in OrderStatus :
          order' = [order EXCEPT ![o] = WithStatus(@, status)]

Next ==
    \E o \in Order :
        \/ Place(o) \/ Release(o)
        \/ MarkPaid(o) \/ MarkFailed(o) \/ MarkRefunded(o)
        \/ SetStatus(o)

Spec == Init /\ [][Next]_order

-----------------------------------------------------------------------------
(* A row is a row: an order that was never placed has no payment state.    *)
RowTypeOK ==
    /\ order \in [Order -> Row]
    /\ \A o \in Order : order[o].status = "NONE" => order[o] = NoRow

(* An order's units are put back at most once for every time the order was *)
(* live: once for the original placement and once per later reopening. A   *)
(* cancel racing the expiry sweep, or two cancels, may not both restock.   *)
ReleaseLedger ==
    \A o \in Order :
        order[o].releases <=
            order[o].reopened + (IF order[o].status = "CANCELLED" THEN 1 ELSE 0)
=============================================================================
