------------------------------ MODULE Returns ------------------------------
(***************************************************************************)
(* The returns and refunds of one paid order: the customer's requests      *)
(* (storefront ReturnsService), the admins' decisions on them              *)
(* (AdminReturnsService), the refunds they lead to                         *)
(* (PaymentOperationsService.issueRefund) and their settlement             *)
(* (RefundSettlementService), by an answer or by a webhook.                *)
(* Every handler touches the rows of one order only, so one is modelled.   *)
(*                                                                         *)
(* An admin handler loads the request, looks at the copy, and then writes  *)
(* by id, whatever the row has become: one step to load, one to write.     *)
(* Transactions run at READ COMMITTED and the ones below read what they    *)
(* decide by before they write, with no lock, so those are two steps too.  *)
(* Only a customer's request takes the order's row lock first: one step.   *)
(*                                                                         *)
(*   row        status and payment status of the order                     *)
(*   request    return_requests with their return_items                    *)
(*   refund     payment_refunds, all on the order's captured transaction   *)
(*   paidBack   what the provider made of each refund it was asked for     *)
(*   job        the handler each process is in                             *)
(*   disturbed  whether a decision has been written over a row that had    *)
(*              changed since it was loaded, or an inspection has been     *)
(*              revised upwards; a history variable no step reads          *)
(*   faults     provider answers lost and processes killed so far          *)
(***************************************************************************)
EXTENDS ReturnRules, FiniteSets, FiniteSetsExt

CONSTANTS
    Item,           \* lines of the order
    Line,           \* [Item -> [quantity, subtotal, discount]]
    Money,          \* [subtotal, discountTotal, shippingCharge] of the order
    Captured,       \* amount of the captured transaction, in pence
    Request,        \* ids of return requests
    Refund,         \* ids of refunds
    Process,        \* concurrent handlers
    Asked,          \* quantities asked for, per line: functions from Item to Nat
    Deduction,      \* deductions at inspection, in pence
    Goodwill,       \* amounts refunded from the order screen, in pence
    MaxFaults,      \* bound on faults
    GoOn,           \* bound: whether handlers still start once disturbed
    NoRequest, NoRefund

ASSUME LineAssumption ==
    Line \in [Item -> [quantity : Nat \ {0}, subtotal : Nat, discount : Nat]]
ASSUME MoneyAssumption ==
    /\ Money \in [subtotal : Nat, discountTotal : Nat, shippingCharge : Nat]
    /\ Captured \in Nat
ASSUME AskedAssumption == Asked \subseteq [Item -> Nat]
ASSUME AmountAssumption == Deduction \subseteq Nat /\ Goodwill \subseteq Nat \ {0}
ASSUME FiniteAssumption ==
    IsFiniteSet(Item) /\ IsFiniteSet(Request) /\ IsFiniteSet(Refund)
ASSUME BoundAssumption == MaxFaults \in Nat /\ GoOn \in BOOLEAN
ASSUME NullAssumption == NoRequest \notin Request /\ NoRefund \notin Refund

VARIABLES row, request, refund, paidBack, job, disturbed, faults

vars == <<row, request, refund, paidBack, job, disturbed, faults>>

-----------------------------------------------------------------------------
(* Rows.                                                                   *)

OrderStatus == {"SHIPPED", "DELIVERED", "PARTIALLY_RETURNED", "RETURNED"}

RowType == [status : OrderStatus,
            pay : {"PAID", "PARTIALLY_REFUNDED", "REFUNDED"}]

ReturnItem == [quantity : Nat, approved : Nat \cup {None}, received : Nat \cup {None},
               accepted : Nat \cup {None}, deduction : Nat]

NoItem == [quantity |-> 0, approved |-> None, received |-> None,
           accepted |-> None, deduction |-> 0]

(* A line that is not part of the request has quantity 0.                  *)
RequestRow == [status : ReturnStatus \cup {"NONE"},
               item : [Item -> ReturnItem],
               shipping : Nat]

NoRequestRow == [status |-> "NONE", item |-> [i \in Item |-> NoItem], shipping |-> 0]

Items(r) == {i \in Item : r.item[i].quantity > 0}

RefundRow == [status : {"NONE", "PENDING", "PROCESSING", "PROCESSED", "FAILED"},
              amount : Nat,
              request : Request \cup {NoRequest},
              known : BOOLEAN]      \* provider_refund_id is stored

NoRefundRow == [status |-> "NONE", amount |-> 0, request |-> NoRequest, known |-> FALSE]

Job == [pc : {"idle", "approve", "reject", "schedule", "pickup", "receive", "start",
              "inspect", "refund", "cancel", "close", "closing", "send", "reserve",
              "refused", "create", "call", "record", "settle", "sum", "commit"},
        request : Request \cup {NoRequest},
        seen : RequestRow,
        amount : Nat,
        shipping : Nat,
        refund : Refund \cup {NoRefund},
        outcome : {"NONE", "PROCESSED", "PROCESSING", "FAILED"},
        result : Nat,
        next : OrderStatus \cup {"NONE"}]

Idle == [pc |-> "idle", request |-> NoRequest, seen |-> NoRequestRow, amount |-> 0,
         shipping |-> 0, refund |-> NoRefund, outcome |-> "NONE", result |-> 0, next |-> "NONE"]

-----------------------------------------------------------------------------
(* What the rows add up to.                                                *)

(* Units of line i that the requests hold (an unused id holds none), and   *)
(* those that completed ones have given back.                              *)
Held(i) == SumFunction(
    [r \in Request |-> HeldQuantity(request[r].item[i], request[r].status)])

ReturnedOf(requests, i) == SumFunction(
    [r \in Request |-> ReturnedQuantity(requests[r].item[i], requests[r].status)])

Amounts(refunds) == SumFunctionOnSet([f \in Refund |-> refund[f].amount], refunds)

Reserving == {f \in Refund : refund[f].status \in {"PENDING", "PROCESSING", "PROCESSED"}}

Processed == {f \in Refund : refund[f].status = "PROCESSED"}

OfRequest(r) == {f \in Refund : refund[f].request = r}

(* calculation(): the units of an item that count, and the totals.         *)
CountedUnits(item) ==
    IF item.accepted # None THEN item.accepted
    ELSE IF item.received # None THEN item.received
    ELSE IF item.approved # None THEN item.approved
    ELSE item.quantity

Worth(i, item) ==
    IF item.accepted # None
    THEN ItemRefund(Line[i], Money, item.accepted, item.deduction)
    ELSE UnitsRefund(Line[i], Money, CountedUnits(item))

ItemsTotal(r) == SumFunction([i \in Items(r) |-> Worth(i, r.item[i])])

(* The delivery charge goes back once, with the return that completes the  *)
(* order, counting the other returns that are COMPLETED by now.            *)
ShippingDue(r) ==
    LET others == {q \in Request \ {r} : request[q].status = "COMPLETED"}
        elsewhere(i) == SumFunction(
            [q \in others |-> ReturnedQuantity(request[q].item[i], "COMPLETED")])
        here(i) == IF i \in Items(request[r]) THEN CountedUnits(request[r].item[i]) ELSE 0
    IN  IF /\ \A q \in others : request[q].shipping = 0
           /\ \A i \in Item : elsewhere(i) + here(i) >= Line[i].quantity
        THEN Money.shippingCharge ELSE 0

(* The order's status by the returned units, as the requests are then.     *)
StatusAfterInspection(requests) ==       \* mutant: counts returns not completed
    LET accepted == SumFunction([r \in Request |->
            SumFunction([i \in Item |-> AtLeastZero(requests[r].item[i].accepted)])])
    IN  OrderStatusAfterReturns(row.status,
            SumFunction([i \in Item |-> Line[i].quantity]), accepted)

StatusAfter(requests) ==
    OrderStatusAfterReturns(row.status,
        SumFunction([i \in Item |-> Line[i].quantity]),
        SumFunction([i \in Item |-> Least(ReturnedOf(requests, i), Line[i].quantity)]))

-----------------------------------------------------------------------------
ReturnsInit ==
    /\ row = [status |-> "SHIPPED", pay |-> "PAID"]
    /\ request = [r \in Request |-> NoRequestRow]
    /\ refund = [f \in Refund |-> NoRefundRow]
    /\ paidBack = [f \in Refund |-> "none"]
    /\ job = [p \in Process |-> Idle]
    /\ disturbed = FALSE
    /\ faults = 0

(* A process that may take up a request. The bound cuts behaviours off.    *)
Free(p) == job[p].pc = "idle" /\ (disturbed => GoOn)

(* The admin marks the order as delivered.                                 *)
Deliver ==
    /\ row.status = "SHIPPED"
    /\ row' = [row EXCEPT !.status = "DELIVERED"]
    /\ UNCHANGED <<request, refund, paidBack, job, disturbed, faults>>

-----------------------------------------------------------------------------
(* The customer.                                                           *)

CreateUnlocked(r) ==                     \* mutant: what other requests hold is not looked at
    \E asked \in Asked :
        /\ request[r].status = "NONE"
        /\ disturbed => GoOn
        /\ \E i \in Item : asked[i] > 0
        /\ \A i \in Item : asked[i] <= Returnable(row.status, Line[i].quantity, 0)
        /\ request' = [request EXCEPT ![r] =
             [NoRequestRow EXCEPT !.status = "RETURN_REQUESTED",
                                  !.item = [i \in Item |-> [NoItem EXCEPT !.quantity = asked[i]]]]]
        /\ UNCHANGED <<row, refund, paidBack, job, disturbed, faults>>

(* The order's row is locked and what is returnable worked out again, then *)
(* the request and its items are inserted.                                 *)
CreateRequest(r) ==
    \E asked \in Asked :
        /\ request[r].status = "NONE"
        /\ disturbed => GoOn
        /\ \E i \in Item : asked[i] > 0
        /\ \A i \in Item : asked[i] <= Returnable(row.status, Line[i].quantity, Held(i))
        /\ request' = [request EXCEPT ![r] =
             [NoRequestRow EXCEPT !.status = "RETURN_REQUESTED",
                                  !.item = [i \in Item |-> [NoItem EXCEPT !.quantity = asked[i]]]]]
        /\ UNCHANGED <<row, refund, paidBack, job, disturbed, faults>>

-----------------------------------------------------------------------------
(* Loading a request: what require() lets each handler start from.         *)

AllowedAnytime ==                        \* mutant: cancel() does not look at the status
    [cancel |-> ReturnStatus,
     approve |-> {"RETURN_REQUESTED"},
     reject |-> {"RETURN_REQUESTED", "RETURN_APPROVED", "PICKUP_SCHEDULED"},
     schedule |-> {"RETURN_APPROVED", "PICKUP_SCHEDULED"},
     pickup |-> {"PICKUP_SCHEDULED"},
     receive |-> {"PICKUP_SCHEDULED", "PICKED_UP"},
     start |-> {"RETURN_RECEIVED"},
     inspect |-> {"INSPECTION"}]

Allowed == [cancel |-> {"RETURN_REQUESTED"},
            approve |-> {"RETURN_REQUESTED"},
            reject |-> {"RETURN_REQUESTED", "RETURN_APPROVED", "PICKUP_SCHEDULED"},
            schedule |-> {"RETURN_APPROVED", "PICKUP_SCHEDULED"},
            pickup |-> {"PICKUP_SCHEDULED"},
            receive |-> {"PICKUP_SCHEDULED", "PICKED_UP"},
            start |-> {"RETURN_RECEIVED"},
            inspect |-> {"INSPECTION"}]

Load(p, r, action) ==
    /\ Free(p)
    /\ request[r].status \in Allowed[action]
    /\ job' = [job EXCEPT ![p] = [Idle EXCEPT !.pc = action, !.request = r,
                                              !.seen = request[r]]]
    /\ UNCHANGED <<row, request, refund, paidBack, disturbed, faults>>

(* The write of a handler: new becomes the row of its request.             *)
Overtaken(p) == request[job[p].request] # job[p].seen

Write(p, new, next) ==
    /\ request' = [request EXCEPT ![job[p].request] = new]
    /\ job' = [job EXCEPT ![p] = next]
    /\ disturbed' = (disturbed \/ Overtaken(p))

(* setStatus and no other column: these writes differ in the status only.  *)
Outcome == [cancel |-> "CANCELLED", reject |-> "RETURN_REJECTED",
            schedule |-> "PICKUP_SCHEDULED", pickup |-> "PICKED_UP",
            start |-> "INSPECTION"]

MoveOn(p) ==
    /\ job[p].pc \in DOMAIN Outcome
    /\ Write(p, [request[job[p].request] EXCEPT !.status = Outcome[job[p].pc]], Idle)
    /\ UNCHANGED <<row, refund, paidBack, faults>>

Approve(p) ==
    LET r == job[p].request
        seen == job[p].seen
    IN  /\ job[p].pc = "approve"
        /\ \E units \in [Items(seen) -> 0..Max({seen.item[i].quantity : i \in Item})] :
             /\ \A i \in Items(seen) : units[i] <= seen.item[i].quantity
             /\ \E i \in Items(seen) : units[i] > 0
             /\ Write(p, [request[r] EXCEPT
                    !.status = "RETURN_APPROVED",
                    !.item = [i \in Item |-> IF i \in Items(seen)
                                             THEN [@[i] EXCEPT !.approved = units[i]]
                                             ELSE @[i]]], Idle)
        /\ UNCHANGED <<row, refund, paidBack, faults>>

(* No more of an item is received than was approved when it was loaded.    *)
Receive(p) ==
    LET r == job[p].request
        seen == job[p].seen
    IN  /\ job[p].pc = "receive"
        /\ \E units \in [Items(seen) -> 0..Max({seen.item[i].quantity : i \in Item})] :
             /\ \A i \in Items(seen) : units[i] <= AtLeastZero(seen.item[i].approved)
             /\ Write(p, [request[r] EXCEPT
                    !.status = "RETURN_RECEIVED",
                    !.item = [i \in Item |-> IF i \in Items(seen)
                                             THEN [@[i] EXCEPT !.received = units[i]]
                                             ELSE @[i]]], Idle)
        /\ UNCHANGED <<row, refund, paidBack, faults>>

(* One item is accepted in full, in part or not at all; a deduction only   *)
(* from units accepted, and no larger than their refund. May be repeated.  *)
Inspect(p, i, accepted, deduction) ==
    LET r == job[p].request
        seen == job[p].seen
        before == request[r].item[i].accepted
    IN  /\ job[p].pc = "inspect"
        /\ i \in Items(seen)
        /\ accepted <= AtLeastZero(seen.item[i].received)
        /\ accepted = 0 => deduction = 0
        /\ deduction <= UnitsRefund(Line[i], Money, accepted)
        /\ request' = [request EXCEPT ![r].item[i] =
                          [@ EXCEPT !.accepted = accepted, !.deduction = deduction]]
        /\ job' = [job EXCEPT ![p] = Idle]
        /\ disturbed' = (disturbed \/ Overtaken(p) \/ (before # None /\ accepted > before))
        /\ UNCHANGED <<row, refund, paidBack, faults>>

-----------------------------------------------------------------------------
(* approveRefund, retryRefund and sendRefund.                              *)

LoadRefundEarly(p, r) ==                 \* mutant: received items need no inspection
    /\ Free(p)
    /\ request[r].status = "INSPECTION"
    /\ job' = [job EXCEPT ![p] =
         [Idle EXCEPT !.pc = "refund", !.request = r, !.seen = request[r],
                      !.shipping = ShippingDue(r),
                      !.amount = ItemsTotal(request[r]) + ShippingDue(r)]]
    /\ UNCHANGED <<row, request, refund, paidBack, disturbed, faults>>

(* Every received item is inspected; the refund is worked out on the copy. *)
LoadRefund(p, r) ==
    /\ Free(p)
    /\ request[r].status = "INSPECTION"
    /\ \A i \in Items(request[r]) :
          request[r].item[i].received > 0 => request[r].item[i].accepted # None
    /\ job' = [job EXCEPT ![p] =
         [Idle EXCEPT !.pc = "refund", !.request = r, !.seen = request[r],
                      !.shipping = ShippingDue(r),
                      !.amount = ItemsTotal(request[r]) + ShippingDue(r)]]
    /\ UNCHANGED <<row, request, refund, paidBack, disturbed, faults>>

(* Items without an inspection are closed as rejected.                     *)
ApproveRefund(p) ==
    LET r == job[p].request
        open == {i \in Items(job[p].seen) : job[p].seen.item[i].accepted = None}
        new == [request[r] EXCEPT
                  !.status = "REFUND_APPROVED",
                  !.shipping = job[p].shipping,
                  !.item = [i \in Item |-> IF i \in open THEN [@[i] EXCEPT !.accepted = 0]
                                           ELSE @[i]]]
    IN  /\ job[p].pc = "refund"
        /\ Write(p, new, [job[p] EXCEPT !.pc = IF job[p].amount > 0 THEN "send" ELSE "close",
                                        !.seen = new])
        /\ UNCHANGED <<row, refund, paidBack, faults>>

(* Nothing is due: the return completes without a refund. The transaction  *)
(* reads the order and the returned units before it writes the status.     *)
Close(p) ==
    LET r == job[p].request
        next == StatusAfter([request EXCEPT ![r].status = "COMPLETED"])
    IN  /\ job[p].pc = "close"
        /\ job' = [job EXCEPT ![p].pc = "closing",
                              ![p].next = IF next = row.status THEN "NONE" ELSE next]
        /\ UNCHANGED <<row, request, refund, paidBack, disturbed, faults>>

CloseCommit(p) ==
    /\ job[p].pc = "closing"
    /\ Write(p, [request[job[p].request] EXCEPT !.status = "COMPLETED"], Idle)
    /\ row' = [row EXCEPT !.status = IF job[p].next = "NONE" THEN @ ELSE job[p].next]
    /\ UNCHANGED <<refund, paidBack, faults>>

(* Worked out anew, less what other refunds of the return have taken.      *)
LoadRetry(p, r) ==
    LET total == ItemsTotal(request[r]) + ShippingDue(r)
        committed == Amounts(OfRequest(r) \cap Reserving)
    IN  /\ Free(p)
        /\ request[r].status = "REFUND_APPROVED"
        /\ total > committed
        /\ job' = [job EXCEPT ![p] = [Idle EXCEPT !.pc = "send", !.request = r,
                                                  !.seen = request[r],
                                                  !.amount = total - committed]]
        /\ UNCHANGED <<row, request, refund, paidBack, disturbed, faults>>

Send(p) ==
    /\ job[p].pc = "send"
    /\ Write(p, [request[job[p].request] EXCEPT !.status = "REFUND_PROCESSING"],
             [job[p] EXCEPT !.pc = "reserve", !.seen = NoRequestRow])
    /\ UNCHANGED <<row, refund, paidBack, faults>>

-----------------------------------------------------------------------------
(* issueRefund. From the order screen it is called with no return.         *)

RefundOrder(p, amount) ==
    /\ Free(p)
    /\ job' = [job EXCEPT ![p] = [Idle EXCEPT !.pc = "reserve", !.amount = amount]]
    /\ UNCHANGED <<row, request, refund, paidBack, disturbed, faults>>

ReserveProcessedOnly(p) ==               \* mutant: refunds under way are not counted
    LET taken == Amounts(Processed) IN
    /\ job[p].pc = "reserve"
    /\ job' = [job EXCEPT ![p] =
         IF taken + @.amount <= Captured
         THEN [@ EXCEPT !.pc = "create", !.result = Amounts(Reserving)]
         ELSE IF @.request = NoRequest THEN Idle ELSE [@ EXCEPT !.pc = "refused"]]
    /\ UNCHANGED <<row, request, refund, paidBack, disturbed, faults>>

(* The transaction that reserves the amount reads what is taken ...        *)
ReserveRead(p) ==
    LET taken == Amounts(Reserving) IN
    /\ job[p].pc = "reserve"
    /\ job' = [job EXCEPT ![p] =
         IF taken + @.amount <= Captured
         THEN [@ EXCEPT !.pc = "create", !.result = taken]
         ELSE IF @.request = NoRequest THEN Idle ELSE [@ EXCEPT !.pc = "refused"]]
    /\ UNCHANGED <<row, request, refund, paidBack, disturbed, faults>>

(* ... and inserts the refund.                                             *)
ReserveCommit(p, f) ==
    /\ job[p].pc = "create"
    /\ refund[f].status = "NONE"
    /\ refund' = [refund EXCEPT ![f] = [status |-> "PENDING", amount |-> job[p].amount,
                                        request |-> job[p].request, known |-> FALSE]]
    /\ job' = [job EXCEPT ![p] = [Idle EXCEPT !.pc = "call", !.refund = f]]
    /\ UNCHANGED <<row, request, paidBack, disturbed, faults>>

(* Refused before reaching the provider: back to approved.                 *)
Refused(p) ==
    /\ job[p].pc = "refused"
    /\ request' = [request EXCEPT ![job[p].request].status = "REFUND_APPROVED"]
    /\ job' = [job EXCEPT ![p] = Idle]
    /\ UNCHANGED <<row, refund, paidBack, disturbed, faults>>

(* The provider never pays back more than it took.                         *)
Accepts(f) ==
    Amounts({g \in Refund : paidBack[g] \in {"pending", "succeeded"}})
        + refund[f].amount <= Captured

AnswerTrusting ==                        \* mutant: an unknown status counts as done
    [pending |-> "PROCESSED", succeeded |-> "PROCESSED", failed |-> "FAILED"]

Answer == [pending |-> "PROCESSING", succeeded |-> "PROCESSED", failed |-> "FAILED"]

ProviderAnswers(p, status) ==
    LET f == job[p].refund IN
    /\ job[p].pc = "call"
    /\ status # "failed" => Accepts(f)
    /\ paidBack' = [paidBack EXCEPT ![f] = status]
    /\ job' = [job EXCEPT ![p].pc = "record", ![p].outcome = Answer[status]]
    /\ UNCHANGED <<row, request, refund, disturbed, faults>>

(* An error status, or no answer in ten seconds: both are caught alike,    *)
(* though an unanswered call may have been carried out.                    *)
ProviderRefuses(p) ==
    /\ job[p].pc = "call"
    /\ job' = [job EXCEPT ![p].pc = "settle", ![p].outcome = "FAILED"]
    /\ UNCHANGED <<row, request, refund, paidBack, disturbed, faults>>

AnswerLost(p, status) ==
    LET f == job[p].refund IN
    /\ faults < MaxFaults
    /\ job[p].pc = "call"
    /\ Accepts(f)
    /\ paidBack' = [paidBack EXCEPT ![f] = status]
    /\ job' = [job EXCEPT ![p].pc = "settle", ![p].outcome = "FAILED"]
    /\ faults' = faults + 1
    /\ UNCHANGED <<row, request, refund, disturbed>>

(* The answer is stored, and with it the id by which webhooks find the row.*)
Record(p) ==
    /\ job[p].pc = "record"
    /\ refund' = [refund EXCEPT ![job[p].refund].status = "PROCESSING",
                                ![job[p].refund].known = TRUE]
    /\ job' = [job EXCEPT ![p] = IF @.outcome = "PROCESSING" THEN Idle
                                 ELSE [@ EXCEPT !.pc = "settle"]]
    /\ UNCHANGED <<row, request, paidBack, disturbed, faults>>

-----------------------------------------------------------------------------
(* Confirmation and settlement.                                            *)

ProviderDecides(f, status) ==
    /\ paidBack[f] = "pending"
    /\ paidBack' = [paidBack EXCEPT ![f] = status]
    /\ UNCHANGED <<row, request, refund, job, disturbed, faults>>

(* A refund event of a final status. Several event types carry it, so it   *)
(* may come more than once; one for an id no row has stored changes        *)
(* nothing.                                                                *)
Webhook(p, f) ==
    /\ job[p].pc = "idle"
    /\ refund[f].known
    /\ paidBack[f] \in {"succeeded", "failed"}
    /\ job' = [job EXCEPT ![p] = [Idle EXCEPT !.pc = "settle", !.refund = f,
                                              !.outcome = Answer[paidBack[f]]]]
    /\ UNCHANGED <<row, request, refund, paidBack, disturbed, faults>>

(* settle: a refund already processed, or in that state, is left alone.    *)
SettleRead(p) ==
    /\ job[p].pc = "settle"
    /\ job' = [job EXCEPT ![p] =
         IF refund[@.refund].status \in {@.outcome, "PROCESSED"} THEN Idle
         ELSE [@ EXCEPT !.pc = IF job[p].outcome = "PROCESSED" THEN "sum" ELSE "commit"]]
    /\ UNCHANGED <<row, request, refund, paidBack, disturbed, faults>>

(* applyPaymentStatus adds up the processed refunds it can see: its own    *)
(* and those committed by now. Only its update of the order waits for      *)
(* another settlement to commit.                                           *)
SettleSum(p) ==
    /\ job[p].pc = "sum"
    /\ job' = [job EXCEPT ![p].pc = "commit",
                          ![p].result = Amounts(Processed \cup {job[p].refund})]
    /\ UNCHANGED <<row, request, refund, paidBack, disturbed, faults>>

Settle(p, r) ==
    LET f == job[p].refund
        open == {g \in OfRequest(r) \ {f} : refund[g].status \in {"PENDING", "PROCESSING"}}
    IN  IF job[p].outcome = "FAILED"
        THEN /\ request' = IF r = NoRequest THEN request
                           ELSE [request EXCEPT ![r].status = "REFUND_APPROVED"]
             /\ UNCHANGED row
        ELSE /\ request' = IF r = NoRequest \/ open # {} THEN request
                           ELSE [request EXCEPT ![r].status = "COMPLETED"]
             /\ row' = [status |-> IF request' = request THEN row.status
                                   ELSE StatusAfter(request'),
                        pay |-> IF job[p].result >= Captured THEN "REFUNDED"
                                ELSE "PARTIALLY_REFUNDED"]

SettleCommit(p) ==
    LET f == job[p].refund IN
    /\ job[p].pc = "commit"
    /\ refund' = [refund EXCEPT ![f].status = job[p].outcome]
    /\ Settle(p, refund[f].request)
    /\ job' = [job EXCEPT ![p] = Idle]
    /\ disturbed' = (disturbed \/ (job[p].outcome = "FAILED" /\ refund[f].status = "FAILED"))
    /\ UNCHANGED <<paidBack, faults>>

(* The process is killed; its open transaction, if any, rolls back. Before *)
(* its first write that is a handler that never was.                       *)
Crash(p) ==
    /\ faults < MaxFaults
    /\ job[p].pc \notin {"idle", "refund"} \cup DOMAIN Allowed
    /\ job' = [job EXCEPT ![p] = Idle]
    /\ faults' = faults + 1
    /\ UNCHANGED <<row, request, refund, paidBack, disturbed>>

-----------------------------------------------------------------------------
Decide(p) ==
    \/ MoveOn(p) \/ Approve(p) \/ Receive(p)
    \/ \E i \in Item, accepted \in 0..Max({Line[j].quantity : j \in Item}),
          deduction \in Deduction : Inspect(p, i, accepted, deduction)
    \/ ApproveRefund(p) \/ Close(p) \/ CloseCommit(p) \/ Send(p)

IssueStep(p) ==
    \/ ReserveRead(p) \/ Refused(p)
    \/ \E f \in Refund : ReserveCommit(p, f)
    \/ \E status \in {"pending", "succeeded", "failed"} : ProviderAnswers(p, status)
    \/ \E status \in {"pending", "succeeded"} : AnswerLost(p, status)
    \/ ProviderRefuses(p) \/ Record(p)

SettleStep(p) == SettleRead(p) \/ SettleSum(p) \/ SettleCommit(p)

ReturnsNext ==
    \/ Deliver
    \/ \E r \in Request : CreateRequest(r)
    \/ \E p \in Process :
          \/ \E r \in Request :
                \/ \E action \in DOMAIN Allowed : Load(p, r, action)
                \/ LoadRefund(p, r) \/ LoadRetry(p, r)
          \/ \E amount \in Goodwill : RefundOrder(p, amount)
          \/ \E f \in Refund : Webhook(p, f)
          \/ Decide(p) \/ IssueStep(p) \/ SettleStep(p)
          \/ Crash(p)
    \/ \E f \in Refund, status \in {"succeeded", "failed"} : ProviderDecides(f, status)

ReturnsSpec == ReturnsInit /\ [][ReturnsNext]_vars

-----------------------------------------------------------------------------
(* Properties.                                                             *)

(* Rows are rows, and no stage counts more units than were asked for.      *)
TypeOK ==
    /\ row \in RowType
    /\ request \in [Request -> RequestRow]
    /\ refund \in [Refund -> RefundRow]
    /\ \A r \in Request, i \in Item :
          LET item == request[r].item[i] IN
          {item.approved, item.received, item.accepted} \subseteq {None} \cup 0..item.quantity
    /\ paidBack \in [Refund -> {"none", "pending", "succeeded", "failed"}]
    /\ job \in [Process -> Job]
    /\ disturbed \in BOOLEAN
    /\ faults \in 0..MaxFaults

(* The requests of an order never hold more units of a line than were      *)
(* ordered, unless an admin wrote over a request that had changed, or      *)
(* accepted units after all that a new request had taken up.               *)
HeldWithinOrder ==
    disturbed \/ \A i \in Item : Held(i) <= Line[i].quantity

(* The requests of an order: rows are rows, and none holds too much.       *)
ReturnsSound == TypeOK /\ HeldWithinOrder

(* A refund counts as processed only when the provider paid it back ...    *)
ProcessedMeansPaidBack ==
    \A f \in Refund : refund[f].status = "PROCESSED" => paidBack[f] = "succeeded"

(* ... and as failed only when it did not, unless an answer was lost.      *)
FailedMeansKept ==
    faults > 0 \/ \A f \in Refund :
        refund[f].status = "FAILED" => paidBack[f] \in {"none", "failed"}

(* The payment status follows confirmed refunds only: REFUNDED never before*)
(* the captured amount is confirmed paid back, PAID as long as nothing is. *)
PaymentStatusFollows ==
    /\ row.pay = "PAID" <=> Processed = {}
    /\ row.pay = "REFUNDED" => Amounts(Processed) >= Captured

(* Refunds say of the provider what is true of it, and the order of them:  *)
(* the three above.                                                        *)
RefundsMatchProvider == ProcessedMeansPaidBack /\ FailedMeansKept /\ PaymentStatusFollows

(* A completed return has no refund open, and what was paid back for it is *)
(* what its inspected units were worth, with or without the delivery.      *)
CompletedInFull ==
    disturbed \/ \A r \in Request :
        request[r].status = "COMPLETED" =>
            /\ OfRequest(r) \cap Reserving \subseteq Processed
            /\ Amounts(OfRequest(r) \cap Processed) - ItemsTotal(request[r])
                  \in {0, Money.shippingCharge}

(* The order is RETURNED only when every unit was, and PARTIALLY_RETURNED  *)
(* only when some unit was.                                                *)
OrderStatusFollows ==
    LET returned == SumFunction([i \in Item |-> ReturnedOf(request, i)]) IN
    disturbed \/
        /\ row.status = "RETURNED" =>
              \A i \in Item : ReturnedOf(request, i) >= Line[i].quantity
        /\ row.status = "PARTIALLY_RETURNED" => returned > 0

(* What is completed, rejected or cancelled stays so, unless a decision    *)
(* was written over one that it had not seen.                              *)
ClosedStays ==
    [][\A r \in Request :
          (request[r].status \in ReleasedStatus \cup {"COMPLETED"} /\ ~disturbed')
             => request'[r] = request[r]]_vars

(* The refunds reserved exceed the captured amount only when one was       *)
(* reserved between another's look at the sum and its insert.              *)
OverReservedByOverlap ==
    [][Amounts(Reserving)' > Captured /\ Amounts(Reserving)' > Amounts(Reserving) =>
          \E p \in Process : job[p].pc = "create" /\ job'[p].pc = "call"
                              /\ job[p].result # Amounts(Reserving)]_vars

(* "The idempotency key makes a retry safe (no double refund)"             *)
(* (stripe-gateway.service.ts:50): for one return, the provider never pays *)
(* back more than its units are worth. The key is made from the refund's   *)
(* id, and a retry makes a new refund.                                     *)
RetryRefundsOnce ==
    disturbed \/ \A r \in Request :
        Amounts({f \in OfRequest(r) : paidBack[f] = "succeeded"})
            <= ItemsTotal(request[r]) + Money.shippingCharge
=============================================================================
