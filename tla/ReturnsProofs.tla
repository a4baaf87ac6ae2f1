---------------------------- MODULE ReturnsProofs ---------------------------
(***************************************************************************)
(* Proofs about Returns, for any lines, amounts, requests, refunds and     *)
(* handlers. The invariant has layers, each resting on those before:       *)
(*                                                                         *)
(*   Typed    rows are rows, and what a handler loaded is of the request   *)
(*            it will write: the same units were asked for;                *)
(*   Matched  a refund's row, the handlers that call or settle it, and     *)
(*            what the provider made of it agree;                          *)
(*                                                                         *)
(* and as long as nothing was written over a changed request,              *)
(*                                                                         *)
(*   Orderly  stages follow each other, and a return has one refund, or    *)
(*            one handler about to reserve it, at a time;                  *)
(*   HeldOK   the requests hold no more units than were ordered;           *)
(*   Worthy   what is to be refunded, and what was, is what the units are  *)
(*            worth, with or without the delivery;                         *)
(*   Followed the status of the order, and the one a handler is about to   *)
(*            write, follow the returned units.                            *)
(***************************************************************************)
EXTENDS Returns, Sums

(* The handlers that decide by a loaded copy, those that reserve a refund, *)
(* and those that call for one or settle it.                               *)
Deciding == DOMAIN Allowed \cup {"refund", "close", "closing", "send"}

Issuing == {"reserve", "create", "refused"}

Calling == {"call", "record", "settle", "sum", "commit"}

SeenStatus(pc) ==
    IF pc \in DOMAIN Allowed THEN Allowed[pc]
    ELSE IF pc = "refund" THEN {"INSPECTION"} ELSE {"REFUND_APPROVED"}

-----------------------------------------------------------------------------
(* Typed.                                                                  *)

UnitsOK(item) ==
    {item.approved, item.received, item.accepted} \subseteq {None} \cup 0..item.quantity

RowOK(r) == r \in RequestRow /\ \A i \in Item : UnitsOK(r.item[i])

SameUnits(r, s) == \A i \in Item : r.item[i].quantity = s.item[i].quantity

JobOK(j) ==
    /\ j \in Job
    /\ j.pc \in Deciding =>
          j.request \in Request /\ RowOK(j.seen) /\ j.seen.status \in SeenStatus(j.pc)
    /\ j.pc = "refused" => j.request \in Request
    /\ j.pc \in Calling => j.refund \in Refund

(* The request of a handler exists, and its units are those loaded.        *)
JobFits(j, requests) ==
    /\ j.pc \in Deciding \cup Issuing /\ j.request \in Request =>
          requests[j.request].status # "NONE"
    /\ j.pc \in Deciding => SameUnits(j.seen, requests[j.request])

RequestsOK ==
    /\ request \in [Request -> RequestRow]
    /\ \A r \in Request :
          RowOK(request[r]) /\ (request[r].status = "NONE" => request[r] = NoRequestRow)

Typed ==
    /\ row \in RowType
    /\ RequestsOK
    /\ refund \in [Refund -> RefundRow]
    /\ paidBack \in [Refund -> {"none", "pending", "succeeded", "failed"}]
    /\ job \in [Process -> Job]
    /\ \A p \in Process : JobOK(job[p]) /\ JobFits(job[p], request)
    /\ disturbed \in BOOLEAN
    /\ faults \in 0..MaxFaults

-----------------------------------------------------------------------------
(* Matched.                                                                *)

RefundOK(x, back, lost) ==
    /\ x.status \in {"NONE", "PENDING"} => ~x.known
    /\ x.status = "NONE" => back = "none"
    /\ x.status = "PROCESSING" => x.known /\ back # "none"
    /\ x.status = "PROCESSED" => x.known /\ back = "succeeded"
    /\ x.status = "FAILED" => IF x.known THEN back = "failed" ELSE back = "none" \/ lost

(* What a handler knows of the refund it calls for or settles.             *)
CallOK(j, x, back, lost) ==
    j.pc \in Calling =>
        /\ x.status # "NONE"
        /\ j.pc \in {"call", "record"} => x.status = "PENDING"
        /\ j.pc = "call" => back = "none"
        /\ j.pc = "record" =>
              /\ j.outcome # "NONE" /\ back # "none"
              /\ j.outcome = "PROCESSED" => back = "succeeded"
              /\ j.outcome = "FAILED" => back = "failed"
        /\ j.pc \in {"settle", "sum", "commit"} =>
              /\ j.outcome \in {"PROCESSED", "FAILED"}
              /\ IF x.known THEN back \in {"succeeded", "failed"} /\ j.outcome = Answer[back]
                 ELSE j.outcome = "FAILED" /\ x.status = "PENDING" /\ (back = "none" \/ lost)

(* Sums over the rows of refunds, whichever they are.                      *)
Total(rows, S) == SumFunctionOnSet([f \in Refund |-> rows[f].amount], S)

Paid(rows) == {f \in Refund : rows[f].status = "PROCESSED"}

SumOK(j, rows) ==
    /\ j.pc = "create" => j.result + j.amount <= Captured
    /\ j.pc = "commit" /\ j.outcome = "PROCESSED" =>
          j.result <= Total(rows, Paid(rows) \cup {j.refund})

(* A refund whose id the provider has not told yet is in one hand.         *)
Alone(p, q) ==
    (/\ job[p].pc \in Calling /\ job[q].pc \in Calling
     /\ job[p].refund = job[q].refund /\ ~refund[job[p].refund].known) => p = q

Matched ==
    /\ \A f \in Refund : RefundOK(refund[f], paidBack[f], faults > 0)
    /\ \A p \in Process :
          /\ CallOK(job[p], refund[job[p].refund], paidBack[job[p].refund], faults > 0)
          /\ SumOK(job[p], refund)
    /\ \A p, q \in Process : Alone(p, q)
    /\ PaymentStatusFollows

-----------------------------------------------------------------------------
(* Orderly.                                                                *)

Before(stage) ==
    CASE stage = "approved" -> {"RETURN_REQUESTED"}
      [] stage = "received" -> {"RETURN_REQUESTED", "RETURN_APPROVED",
                                "PICKUP_SCHEDULED", "PICKED_UP"}
      [] stage = "accepted" -> {"RETURN_REQUESTED", "RETURN_APPROVED",
                                "PICKUP_SCHEDULED", "PICKED_UP", "RETURN_RECEIVED"}

Decided == {"REFUND_APPROVED", "REFUND_PROCESSING", "COMPLETED"}

(* No column is filled before its stage; what was received is, after it.   *)
StagesOK(r) ==
    /\ \A i \in Item :
          /\ r.status \in Before("approved") => r.item[i].approved = None
          /\ r.status \in Before("received") => r.item[i].received = None
          /\ r.status \in Before("accepted") => r.item[i].accepted = None
    /\ r.status \in {"RETURN_RECEIVED", "INSPECTION"} \cup Decided =>
          \A i \in Items(r) : r.item[i].received # None

(* At most one refund of a return counts, and its status tells where the   *)
(* return is.                                                              *)
Reserved(rows) == {f \in Refund : rows[f].status \in {"PENDING", "PROCESSING", "PROCESSED"}}

OneRefund(requests, rows) ==
    \A f \in Reserved(rows) : rows[f].request \in Request =>
        /\ requests[rows[f].request].status =
              IF rows[f].status = "PROCESSED" THEN "COMPLETED" ELSE "REFUND_PROCESSING"
        /\ \A g \in Reserved(rows) : rows[g].request = rows[f].request => g = f

Reserves(j) == j.pc \in Issuing /\ j.request \in Request

(* One handler at a time is about to reserve a refund for a return, and    *)
(* only when it has none.                                                  *)
IssuerOK(j, requests, rows) ==
    Reserves(j) =>
        /\ requests[j.request].status = "REFUND_PROCESSING"
        /\ \A f \in Reserved(rows) : rows[f].request # j.request

OneIssuer(p, q) ==
    Reserves(job[p]) /\ Reserves(job[q]) /\ job[p].request = job[q].request => p = q

(* The items of a return that is being closed stay as they were decided.   *)
ClosingOK(j, requests) ==
    j.pc \in {"close", "closing"} =>
        /\ requests[j.request].status \in Decided
        /\ requests[j.request].item = j.seen.item

(* Amounts are what the units are worth, with or without the delivery.     *)
Fair(amount, r) == amount - ItemsTotal(r) \in {0, Money.shippingCharge}

AmountOK(j, requests) ==
    /\ j.pc \in {"refund", "send", "close", "closing"} => Fair(j.amount, j.seen)
    /\ j.pc = "refund" => \A i \in Items(j.seen) :
          j.seen.item[i].received > 0 => j.seen.item[i].accepted # None
    /\ j.pc \in {"close", "closing"} => j.amount = 0
    /\ j.pc \in {"reserve", "create"} /\ j.request \in Request => Fair(j.amount, requests[j.request])

RefundFair(requests, rows) ==
    /\ \A f \in Reserved(rows) : rows[f].request \in Request =>
          Fair(rows[f].amount, requests[rows[f].request])
    /\ \A r \in Request :
          requests[r].status = "COMPLETED" /\ (\A f \in Reserved(rows) : rows[f].request # r) =>
             Fair(0, requests[r])

(* What the status of the order says of the returned units, and what a     *)
(* handler that closes a return is about to write of it.                   *)
Says(status, requests) ==
    /\ status = "RETURNED" => \A i \in Item : ReturnedOf(requests, i) >= Line[i].quantity
    /\ status = "PARTIALLY_RETURNED" =>
          SumFunction([i \in Item |-> ReturnedOf(requests, i)]) > 0

Completing(r, requests) == [requests EXCEPT ![r].status = "COMPLETED"]

NextOK(j, requests) == j.pc = "closing" => Says(j.next, Completing(j.request, requests))

Orderly ==
    /\ \A r \in Request : StagesOK(request[r])
    /\ OneRefund(request, refund)
    /\ \A p \in Process : IssuerOK(job[p], request, refund) /\ ClosingOK(job[p], request)
    /\ \A p, q \in Process : OneIssuer(p, q)

Worthy ==
    /\ \A p \in Process : AmountOK(job[p], request)
    /\ RefundFair(request, refund)

Followed ==
    /\ \A p \in Process : NextOK(job[p], request)
    /\ Says(row.status, request)

HeldOK == \A i \in Item : Held(i) <= Line[i].quantity

-----------------------------------------------------------------------------
(* Units and money.                                                        *)

LEMMA UnitsAreNat ==
    ASSUME NEW item \in ReturnItem, UnitsOK(item), NEW status
    PROVE  /\ HeldQuantity(item, status) \in Nat /\ ReturnedQuantity(item, status) \in Nat
           /\ CountedUnits(item) \in Nat
           /\ AtLeastZero(item.approved) \in 0..item.quantity
           /\ AtLeastZero(item.received) \in 0..item.quantity
  BY DEF UnitsOK, ReturnItem, HeldQuantity, ReturnedQuantity, CountedUnits, AtLeastZero, None

LEMMA RoundedIsNat ==
    ASSUME NEW n \in Nat, NEW d \in Nat \ {0}
    PROVE  Rounded(n, d) \in Nat
  <1>1. 2 * n + d \in Nat /\ 2 * d \in Nat \ {0}
    OBVIOUS
  <1>2. \A a \in Nat, b \in Nat \ {0} : a \div b \in Nat
    OBVIOUS
  <1> QED
    BY <1>1, <1>2 DEF Rounded

LEMMA ProductIsNat ==
    /\ \A a, b \in Nat : a * b \in Nat
    /\ \A a, b \in Nat \ {0} : a * b \in Nat \ {0}
  OBVIOUS

LEMMA RefundIsNat ==
    ASSUME NEW i \in Item, NEW units \in Nat, NEW deduction \in Nat
    PROVE  /\ UnitsRefund(Line[i], Money, units) \in Nat
           /\ ItemRefund(Line[i], Money, units, deduction) \in Nat
  <1> DEFINE net == LineNetPaid(Line[i], Money)
  <1>1. Line[i].quantity \in Nat \ {0} /\ Line[i].subtotal \in Int /\ Line[i].discount \in Int
    BY LineAssumption
  <1>2. Money.subtotal \in Nat /\ Money.discountTotal \in Int
    BY MoneyAssumption
  <1>3. \A n \in Int : AtLeastZero(n) \in Nat
    BY DEF AtLeastZero
  <1>4. net.num \in Nat /\ net.den \in Nat \ {0}
    <2>1. CASE Money.subtotal > 0
      <3>1. (Line[i].subtotal - Line[i].discount) * Money.subtotal
               - Money.discountTotal * Line[i].subtotal \in Int
        BY <1>1, <1>2
      <3> QED
        BY <1>2, <1>3, <2>1, <3>1 DEF LineNetPaid
    <2>2. CASE ~(Money.subtotal > 0)
      BY <1>1, <1>3, <2>2 DEF LineNetPaid
    <2> QED
      BY <2>1, <2>2
  <1>5. Least(units, Line[i].quantity) \in Nat
    BY <1>1 DEF Least
  <1> HIDE DEF net
  <1>6. /\ net.num * Least(units, Line[i].quantity) \in Nat
        /\ net.den * Line[i].quantity \in Nat \ {0}
    BY <1>1, <1>4, <1>5, ProductIsNat
  <1>7. UnitsRefund(Line[i], Money, units) \in Nat
    BY <1>6, RoundedIsNat DEF UnitsRefund, net
  <1>8. AtLeastZero(deduction) \in Nat
    BY DEF AtLeastZero
  <1> QED
    BY <1>3, <1>7, <1>8 DEF ItemRefund

LEMMA WorthIsNat ==
    ASSUME NEW i \in Item, NEW item \in ReturnItem, UnitsOK(item)
    PROVE  Worth(i, item) \in Nat
  <1>1. item.accepted # None => item.accepted \in Nat
    BY DEF UnitsOK, ReturnItem
  <1>2. CountedUnits(item) \in Nat /\ item.deduction \in Nat
    BY UnitsAreNat DEF ReturnItem
  <1> QED
    BY <1>1, <1>2, RefundIsNat DEF Worth

LEMMA RowFields ==
    ASSUME NEW r, RowOK(r)
    PROVE  /\ r \in RequestRow
           /\ r.status \in ReturnStatus \cup {"NONE"} /\ r.shipping \in Nat
           /\ r.item \in [Item -> ReturnItem]
           /\ \A i \in Item : r.item[i] \in ReturnItem /\ UnitsOK(r.item[i])
           /\ \A i \in Item : r.item[i].quantity \in Nat
           /\ Items(r) \in SUBSET Item /\ IsFiniteSet(Items(r))
  BY FiniteAssumption, FS_Subset DEF RowOK, RequestRow, ReturnItem, Items

LEMMA TotalIsNat ==
    ASSUME NEW r, RowOK(r)
    PROVE  ItemsTotal(r) \in Nat
  <1> DEFINE h == [i \in Items(r) |-> Worth(i, r.item[i])]
  <1>1. \A i \in Items(r) : h[i] \in Nat
    BY RowFields, WorthIsNat
  <1>2. ItemsTotal(r) = SumFunctionOnSet(h, Items(r))
    BY DEF ItemsTotal, SumFunction
  <1> HIDE DEF h
  <1> QED
    BY <1>1, <1>2, RowFields, SumIsNat

(* Requests whose items are worth the same have the same total.            *)
LEMMA TotalSame ==
    ASSUME NEW r, NEW s, Items(r) = Items(s),
           \A i \in Items(r) : Worth(i, r.item[i]) = Worth(i, s.item[i])
    PROVE  ItemsTotal(r) = ItemsTotal(s)
  <1>1. [i \in Items(r) |-> Worth(i, r.item[i])] = [i \in Items(s) |-> Worth(i, s.item[i])]
    OBVIOUS
  <1> QED
    BY <1>1 DEF ItemsTotal

LEMMA ShippingIsNat ==
    ASSUME NEW r
    PROVE  ShippingDue(r) \in {0, Money.shippingCharge} /\ ShippingDue(r) \in Nat
  BY MoneyAssumption DEF ShippingDue

LEMMA AmountsAreNat ==
    ASSUME refund \in [Refund -> RefundRow], NEW S \in SUBSET Refund
    PROVE  Amounts(S) \in Nat
  <1> DEFINE h == [f \in Refund |-> refund[f].amount]
  <1>1. IsFiniteSet(S) /\ \A f \in S : h[f] \in Nat
    BY FiniteAssumption, FS_Subset DEF RefundRow
  <1> HIDE DEF h
  <1>2. SumFunctionOnSet(h, S) \in Nat
    BY <1>1, SumIsNat
  <1> QED
    BY <1>2 DEF Amounts, h

-----------------------------------------------------------------------------
(* Rows and jobs that the steps make.                                      *)

LEMMA NullRows ==
    /\ NoItem \in ReturnItem /\ UnitsOK(NoItem)
    /\ NoRequestRow \in RequestRow /\ RowOK(NoRequestRow) /\ NoRequestRow.status = "NONE"
    /\ \A i \in Item : NoRequestRow.item[i] = NoItem
    /\ NoRefundRow \in RefundRow
    /\ Idle \in Job /\ JobOK(Idle) /\ Idle.pc = "idle"
    /\ \A requests : JobFits(Idle, requests)
  <1>1. NoItem \in ReturnItem /\ UnitsOK(NoItem)
    BY DEF NoItem, ReturnItem, UnitsOK, None
  <1>2. /\ NoRequestRow \in RequestRow /\ NoRequestRow.status = "NONE"
        /\ \A i \in Item : NoRequestRow.item[i] = NoItem
    BY <1>1 DEF NoRequestRow, RequestRow
  <1>3. RowOK(NoRequestRow)
    BY <1>1, <1>2 DEF RowOK
  <1>4. NoRefundRow \in RefundRow
    BY DEF NoRefundRow, RefundRow
  <1>5. Idle \in Job /\ Idle.pc = "idle"
    BY <1>2 DEF Idle, Job
  <1>6. JobOK(Idle) /\ \A requests : JobFits(Idle, requests)
    BY <1>5 DEF JobOK, JobFits, Deciding, Issuing, Calling, Allowed
  <1> QED
    BY <1>1, <1>2, <1>3, <1>4, <1>5, <1>6

(* A change of status alone.                                               *)
LEMMA MovedRow ==
    ASSUME NEW r, RowOK(r), NEW status \in ReturnStatus
    PROVE  LET new == [r EXCEPT !.status = status]
           IN  /\ RowOK(new) /\ SameUnits(r, new)
               /\ new.status = status /\ new.item = r.item /\ new.shipping = r.shipping
  <1> DEFINE new == [r EXCEPT !.status = status]
  <1>1. new \in RequestRow /\ new.item = r.item /\ new.status = status /\ new.shipping = r.shipping
    BY DEF RowOK, RequestRow
  <1> HIDE DEF new
  <1>2. RowOK(new) /\ SameUnits(r, new)
    BY <1>1 DEF RowOK, SameUnits
  <1> QED
    BY <1>1, <1>2 DEF new

(* One item of a row changes within its units.                             *)
LEMMA FilledItem ==
    ASSUME NEW item \in ReturnItem, UnitsOK(item), NEW n \in 0..item.quantity, NEW d \in Nat
    PROVE  /\ LET new == [item EXCEPT !.approved = n]
              IN  new \in ReturnItem /\ UnitsOK(new) /\ new.quantity = item.quantity
           /\ LET new == [item EXCEPT !.received = n]
              IN  new \in ReturnItem /\ UnitsOK(new) /\ new.quantity = item.quantity
           /\ LET new == [item EXCEPT !.accepted = n]
              IN  new \in ReturnItem /\ UnitsOK(new) /\ new.quantity = item.quantity
           /\ LET new == [item EXCEPT !.accepted = n, !.deduction = d]
              IN  new \in ReturnItem /\ UnitsOK(new) /\ new.quantity = item.quantity
  <1>1. n \in Nat \cup {None}
    BY DEF ReturnItem
  <1> QED
    BY <1>1 DEF ReturnItem, UnitsOK

-----------------------------------------------------------------------------
(* Typed is kept.                                                          *)

(* Requests are only added to, and the units asked for stay.               *)
RowsGrow ==
    \A r \in Request : request[r].status # "NONE" =>
        request'[r].status # "NONE" /\ SameUnits(request[r], request'[r])

LEMMA FitsKept ==
    ASSUME RowsGrow, NEW j, JobFits(j, request), j.pc \in Deciding => j.request \in Request
    PROVE  JobFits(j, request')
  BY DEF RowsGrow, JobFits, SameUnits

LEMMA TypedMoves ==
    ASSUME Typed, RowsGrow, row' \in RowType, RequestsOK',
           refund' \in [Refund -> RefundRow],
           paidBack' \in [Refund -> {"none", "pending", "succeeded", "failed"}],
           disturbed' \in BOOLEAN, faults' \in 0..MaxFaults,
           NEW p \in Process, NEW j, JobOK(j), JobFits(j, request'),
           job' = [job EXCEPT ![p] = j]
    PROVE  Typed'
  <1>1. job' \in [Process -> Job]
    BY DEF Typed, JobOK
  <1>2. ASSUME NEW q \in Process PROVE JobOK(job'[q]) /\ JobFits(job'[q], request')
    <2>1. CASE q = p
      BY <2>1 DEF Typed
    <2>2. CASE q # p
      <3>1. job'[q] = job[q] /\ JobOK(job[q]) /\ JobFits(job[q], request)
        BY <2>2 DEF Typed
      <3>2. job[q].pc \in Deciding => job[q].request \in Request
        BY <3>1 DEF JobOK
      <3> QED
        BY <3>1, <3>2, FitsKept
    <2> QED
      BY <2>1, <2>2
  <1> QED
    BY <1>1, <1>2 DEF Typed

(* A step of a handler that leaves the requests alone.                     *)
LEMMA TypedGoesOn ==
    ASSUME Typed, UNCHANGED <<row, request, disturbed>>,
           refund' \in [Refund -> RefundRow],
           paidBack' \in [Refund -> {"none", "pending", "succeeded", "failed"}],
           faults' \in 0..MaxFaults,
           NEW p \in Process, NEW j, JobOK(j), JobFits(j, request),
           job' = [job EXCEPT ![p] = j]
    PROVE  Typed'
  <1>1. RowsGrow
    BY DEF RowsGrow, SameUnits
  <1>2. row' \in RowType /\ RequestsOK' /\ disturbed' \in BOOLEAN
    BY DEF Typed, RequestsOK
  <1>3. JobFits(j, request')
    OBVIOUS
  <1> QED
    BY <1>1, <1>2, <1>3, TypedMoves

(* One that writes its request.                                            *)
LEMMA OneRequestWritten ==
    ASSUME Typed, NEW r \in Request,
           NEW new, RowOK(new), SameUnits(request[r], new), new.status # "NONE",
           request' = [request EXCEPT ![r] = new]
    PROVE  RowsGrow /\ RequestsOK'
  <1>1. new \in RequestRow
    BY DEF RowOK
  <1>2. request' \in [Request -> RequestRow] /\ request'[r] = new
        /\ \A q \in Request \ {r} : request'[q] = request[q]
    BY <1>1 DEF Typed, RequestsOK
  <1>3. RequestsOK'
    BY <1>2 DEF Typed, RequestsOK
  <1>4. RowsGrow
    BY <1>2 DEF RowsGrow, SameUnits
  <1> QED
    BY <1>3, <1>4

LEMMA TypedWrites ==
    ASSUME Typed, NEW p \in Process, job[p].pc \in Deciding,
           NEW new, RowOK(new), SameUnits(request[job[p].request], new), new.status # "NONE",
           NEW j, JobOK(j), JobFits(j, [request EXCEPT ![job[p].request] = new]),
           Write(p, new, j), row' \in RowType, UNCHANGED <<refund, paidBack, faults>>
    PROVE  Typed'
  <1>1. job[p].request \in Request /\ request[job[p].request].status # "NONE"
    BY DEF Typed, JobOK, JobFits
  <1>2. RowsGrow /\ RequestsOK'
    BY <1>1, OneRequestWritten DEF Write
  <1>3. /\ refund' \in [Refund -> RefundRow]
        /\ paidBack' \in [Refund -> {"none", "pending", "succeeded", "failed"}]
        /\ faults' \in 0..MaxFaults /\ disturbed' \in BOOLEAN
    BY DEF Typed, Write, Overtaken
  <1>4. job' = [job EXCEPT ![p] = j] /\ JobFits(j, request')
    BY DEF Write
  <1> QED
    BY <1>2, <1>3, <1>4, TypedMoves

(* The jobs that a loaded request starts.                                  *)
LEMMA LoadedJob ==
    ASSUME Typed, NEW r \in Request, NEW pc \in Deciding, request[r].status \in SeenStatus(pc),
           NEW amount \in Nat, NEW shipping \in Nat
    PROVE  /\ LET j == [Idle EXCEPT !.pc = pc, !.request = r, !.seen = request[r]]
              IN  JobOK(j) /\ JobFits(j, request)
           /\ LET j == [Idle EXCEPT !.pc = pc, !.request = r, !.seen = request[r],
                                    !.shipping = shipping, !.amount = amount]
              IN  JobOK(j) /\ JobFits(j, request)
           /\ LET j == [Idle EXCEPT !.pc = pc, !.request = r, !.seen = request[r],
                                    !.amount = amount]
              IN  JobOK(j) /\ JobFits(j, request)
  <1>1. /\ RowOK(request[r]) /\ request[r] \in RequestRow /\ request[r].status # "NONE"
        /\ SameUnits(request[r], request[r])
    <2>1. request[r].status # "NONE"
      BY DEF SeenStatus, Deciding, Allowed
    <2> QED
      BY <2>1 DEF Typed, RequestsOK, SameUnits
  <1>2. pc \notin Calling /\ pc # "refused"
    BY DEF Deciding, Calling, Allowed
  <1>3. ASSUME NEW j \in Job, j.pc = pc, j.request = r, j.seen = request[r]
        PROVE  JobOK(j) /\ JobFits(j, request)
    BY <1>1, <1>2, <1>3 DEF JobOK, JobFits
  <1>4. pc \in {"idle", "approve", "reject", "schedule", "pickup", "receive", "start",
              "inspect", "refund", "cancel", "close", "closing", "send", "reserve",
              "refused", "create", "call", "record", "settle", "sum", "commit"}
    BY DEF Deciding, Allowed
  <1> DEFINE j1 == [Idle EXCEPT !.pc = pc, !.request = r, !.seen = request[r]]
             j2 == [Idle EXCEPT !.pc = pc, !.request = r, !.seen = request[r],
                                    !.shipping = shipping, !.amount = amount]
             j3 == [Idle EXCEPT !.pc = pc, !.request = r, !.seen = request[r],
                                    !.amount = amount]
  <1>5. j1 \in Job /\ j1.pc = pc /\ j1.request = r /\ j1.seen = request[r]
    BY <1>1, <1>4, NullRows DEF Job
  <1>6. j2 \in Job /\ j2.pc = pc /\ j2.request = r /\ j2.seen = request[r]
    BY <1>1, <1>4, NullRows DEF Job
  <1>7. j3 \in Job /\ j3.pc = pc /\ j3.request = r /\ j3.seen = request[r]
    BY <1>1, <1>4, NullRows DEF Job
  <1> HIDE DEF j1, j2, j3
  <1>8. /\ JobOK(j1) /\ JobFits(j1, request)
        /\ JobOK(j2) /\ JobFits(j2, request)
        /\ JobOK(j3) /\ JobFits(j3, request)
    BY <1>3, <1>5, <1>6, <1>7
  <1> QED
    BY <1>8 DEF j1, j2, j3

LEMMA TypedLoads ==
    ASSUME Typed, NEW p \in Process, NEW r \in Request,
           \/ \E action \in DOMAIN Allowed : Load(p, r, action)
           \/ LoadRefund(p, r) \/ LoadRetry(p, r)
    PROVE  Typed'
  <1>0. /\ refund \in [Refund -> RefundRow] /\ faults \in 0..MaxFaults
        /\ paidBack \in [Refund -> {"none", "pending", "succeeded", "failed"}]
    BY DEF Typed
  <1>1. ItemsTotal(request[r]) \in Nat /\ ShippingDue(r) \in Nat
    BY TotalIsNat, ShippingIsNat DEF Typed, RequestsOK
  <1>2. ASSUME NEW action \in DOMAIN Allowed, Load(p, r, action) PROVE Typed'
    <2>1. action \in Deciding /\ request[r].status \in SeenStatus(action)
      BY <1>2 DEF Load, Deciding, SeenStatus
    <2> QED
      BY <1>0, <1>2, <2>1, LoadedJob, TypedGoesOn DEF Load
  <1>3. CASE LoadRefund(p, r)
    <2>1. "refund" \in Deciding /\ request[r].status \in SeenStatus("refund")
      BY <1>3 DEF LoadRefund, Deciding, SeenStatus, Allowed
    <2>2. ItemsTotal(request[r]) + ShippingDue(r) \in Nat
      BY <1>1
    <2> DEFINE j == [Idle EXCEPT !.pc = "refund", !.request = r, !.seen = request[r],
                      !.shipping = ShippingDue(r),
                      !.amount = ItemsTotal(request[r]) + ShippingDue(r)]
    <2>3. JobOK(j) /\ JobFits(j, request)
      BY <1>1, <2>1, <2>2, LoadedJob
    <2>4. job' = [job EXCEPT ![p] = j]
      BY <1>3 DEF LoadRefund
    <2> HIDE DEF j
    <2> QED
      BY <1>0, <1>3, <2>3, <2>4, TypedGoesOn DEF LoadRefund
  <1>4. CASE LoadRetry(p, r)
    <2> DEFINE total == ItemsTotal(request[r]) + ShippingDue(r)
               committed == Amounts(OfRequest(r) \cap Reserving)
    <2>1. "send" \in Deciding /\ request[r].status \in SeenStatus("send")
      BY <1>4 DEF LoadRetry, Deciding, SeenStatus, Allowed
    <2>2. total \in Nat /\ committed \in Nat /\ total > committed
      BY <1>0, <1>1, <1>4, AmountsAreNat DEF LoadRetry, OfRequest
    <2> DEFINE j == [Idle EXCEPT !.pc = "send", !.request = r, !.seen = request[r],
                                 !.amount = total - committed]
    <2>4. job' = [job EXCEPT ![p] = j]
      BY <1>4 DEF LoadRetry
    <2> HIDE DEF total, committed
    <2>5. total - committed \in Nat
      BY <2>2
    <2>3. JobOK(j) /\ JobFits(j, request)
      BY <1>1, <2>1, <2>5, LoadedJob
    <2> HIDE DEF j
    <2> QED
      BY <1>0, <1>4, <2>3, <2>4, TypedGoesOn DEF LoadRetry
  <1> QED
    BY <1>2, <1>3, <1>4

LEMMA MaxUnits ==
    ASSUME NEW r, RowOK(r), NEW i \in Item
    PROVE  0..Max({r.item[x].quantity : x \in Item}) \subseteq Nat
  <1> DEFINE S == {r.item[x].quantity : x \in Item}
  <1>1. S # {} /\ S \subseteq Int
    BY RowFields
  <1>2. IsFiniteSet(S)
    <2> DEFINE h == [x \in Item |-> r.item[x].quantity]
    <2>1. h \in Surjection(Item, S)
      BY DEF Surjection
    <2> QED
      BY <2>1, FiniteAssumption, FS_Surjection
  <1> HIDE DEF S
  <1>3. Max(S) \in Int
    BY <1>1, <1>2, MaxIsMember
  <1> QED
    BY <1>3 DEF S

(* What a handler that decides by a copy starts from.                      *)
LEMMA DecidingJob ==
    ASSUME Typed, NEW p \in Process, job[p].pc \in Deciding
    PROVE  /\ job[p].request \in Request /\ job[p] \in Job
           /\ RowOK(request[job[p].request]) /\ request[job[p].request].status # "NONE"
           /\ RowOK(job[p].seen) /\ job[p].seen.status \in SeenStatus(job[p].pc)
           /\ SameUnits(job[p].seen, request[job[p].request])
           /\ Items(job[p].seen) = Items(request[job[p].request])
           /\ row \in RowType
  BY DEF Typed, RequestsOK, JobOK, JobFits, SameUnits, Items

(* The rows that Approve, Receive, Inspect and ApproveRefund write.        *)
Approved(r, seen, units) ==
    [r EXCEPT !.status = "RETURN_APPROVED",
              !.item = [i \in Item |-> IF i \in Items(seen) THEN [r.item[i] EXCEPT !.approved = units[i]]
                                       ELSE r.item[i]]]

Received(r, seen, units) ==
    [r EXCEPT !.status = "RETURN_RECEIVED",
              !.item = [i \in Item |-> IF i \in Items(seen) THEN [r.item[i] EXCEPT !.received = units[i]]
                                       ELSE r.item[i]]]

Inspected(r, i, accepted, deduction) ==
    [r EXCEPT !.item = [r.item EXCEPT ![i] = [r.item[i] EXCEPT !.accepted = accepted,
                                                                !.deduction = deduction]]]

Open(seen) == {i \in Items(seen) : seen.item[i].accepted = None}

RefundedRow(r, seen, shipping) ==
    [r EXCEPT !.status = "REFUND_APPROVED", !.shipping = shipping,
              !.item = [i \in Item |-> IF i \in Open(seen) THEN [r.item[i] EXCEPT !.accepted = 0]
                                       ELSE r.item[i]]]

LEMMA ApprovedRow ==
    ASSUME NEW r, RowOK(r), NEW seen, NEW units,
           \A i \in Items(seen) : units[i] \in 0..r.item[i].quantity
    PROVE  LET new == Approved(r, seen, units)
           IN  /\ RowOK(new) /\ SameUnits(r, new) /\ new.status = "RETURN_APPROVED"
               /\ new.item \in [Item -> ReturnItem]
               /\ \A i \in Item : new.item[i] =
                     IF i \in Items(seen) THEN [r.item[i] EXCEPT !.approved = units[i]] ELSE r.item[i]
  <1> DEFINE items == [i \in Item |-> IF i \in Items(seen) THEN [r.item[i] EXCEPT !.approved = units[i]]
                                      ELSE r.item[i]]
  <1>1. ASSUME NEW i \in Item
        PROVE  items[i] \in ReturnItem /\ UnitsOK(items[i]) /\ items[i].quantity = r.item[i].quantity
    <2>1. r.item[i] \in ReturnItem /\ UnitsOK(r.item[i]) /\ r.item[i].quantity \in Nat
      BY RowFields
    <2>2. CASE i \in Items(seen)
      <3>1. units[i] \in 0..r.item[i].quantity
        BY <2>1, <2>2
      <3>2. 0 \in Nat
        OBVIOUS
      <3> QED
        BY <2>1, <2>2, <3>1, <3>2, FilledItem
    <2>3. CASE i \notin Items(seen)
      BY <2>1, <2>3
    <2> QED
      BY <2>2, <2>3
  <1>2. /\ items \in [Item -> ReturnItem]
        /\ \A i \in Item : UnitsOK(items[i]) /\ items[i].quantity = r.item[i].quantity
    BY <1>1
  <1> DEFINE new == Approved(r, seen, units)
  <1>3. new = [r EXCEPT !.status = "RETURN_APPROVED", !.shipping = r.shipping, !.item = items]
    BY DEF Approved, RowOK, RequestRow
  <1>4. \A i \in Item : items[i] =
           IF i \in Items(seen) THEN [r.item[i] EXCEPT !.approved = units[i]] ELSE r.item[i]
    OBVIOUS
  <1> HIDE DEF items, new
  <1>5. "RETURN_APPROVED" \in ReturnStatus /\ r.shipping \in Nat
    BY RowFields DEF ReturnStatus
  <1>6. new \in RequestRow /\ new.status = "RETURN_APPROVED" /\ new.item = items
    BY <1>2, <1>3, <1>5 DEF RowOK, RequestRow
  <1>7. RowOK(new) /\ SameUnits(r, new)
    BY <1>2, <1>6 DEF RowOK, SameUnits
  <1> QED
    BY <1>2, <1>4, <1>6, <1>7 DEF new

LEMMA ReceivedRow ==
    ASSUME NEW r, RowOK(r), NEW seen, NEW units,
           \A i \in Items(seen) : units[i] \in 0..r.item[i].quantity
    PROVE  LET new == Received(r, seen, units)
           IN  /\ RowOK(new) /\ SameUnits(r, new) /\ new.status = "RETURN_RECEIVED"
               /\ new.item \in [Item -> ReturnItem]
               /\ \A i \in Item : new.item[i] =
                     IF i \in Items(seen) THEN [r.item[i] EXCEPT !.received = units[i]] ELSE r.item[i]
  <1> DEFINE items == [i \in Item |-> IF i \in Items(seen) THEN [r.item[i] EXCEPT !.received = units[i]]
                                      ELSE r.item[i]]
  <1>1. ASSUME NEW i \in Item
        PROVE  items[i] \in ReturnItem /\ UnitsOK(items[i]) /\ items[i].quantity = r.item[i].quantity
    <2>1. r.item[i] \in ReturnItem /\ UnitsOK(r.item[i]) /\ r.item[i].quantity \in Nat
      BY RowFields
    <2>2. CASE i \in Items(seen)
      <3>1. units[i] \in 0..r.item[i].quantity
        BY <2>1, <2>2
      <3>2. 0 \in Nat
        OBVIOUS
      <3> QED
        BY <2>1, <2>2, <3>1, <3>2, FilledItem
    <2>3. CASE i \notin Items(seen)
      BY <2>1, <2>3
    <2> QED
      BY <2>2, <2>3
  <1>2. /\ items \in [Item -> ReturnItem]
        /\ \A i \in Item : UnitsOK(items[i]) /\ items[i].quantity = r.item[i].quantity
    BY <1>1
  <1> DEFINE new == Received(r, seen, units)
  <1>3. new = [r EXCEPT !.status = "RETURN_RECEIVED", !.shipping = r.shipping, !.item = items]
    BY DEF Received, RowOK, RequestRow
  <1>4. \A i \in Item : items[i] =
           IF i \in Items(seen) THEN [r.item[i] EXCEPT !.received = units[i]] ELSE r.item[i]
    OBVIOUS
  <1> HIDE DEF items, new
  <1>5. "RETURN_RECEIVED" \in ReturnStatus /\ r.shipping \in Nat
    BY RowFields DEF ReturnStatus
  <1>6. new \in RequestRow /\ new.status = "RETURN_RECEIVED" /\ new.item = items
    BY <1>2, <1>3, <1>5 DEF RowOK, RequestRow
  <1>7. RowOK(new) /\ SameUnits(r, new)
    BY <1>2, <1>6 DEF RowOK, SameUnits
  <1> QED
    BY <1>2, <1>4, <1>6, <1>7 DEF new

LEMMA RefundedRows ==
    ASSUME NEW r, RowOK(r), NEW seen, NEW shipping \in Nat
    PROVE  LET new == RefundedRow(r, seen, shipping)
           IN  /\ RowOK(new) /\ SameUnits(r, new) /\ new.status = "REFUND_APPROVED"
               /\ new.item \in [Item -> ReturnItem]
               /\ \A i \in Item : new.item[i] =
                     IF i \in Open(seen) THEN [r.item[i] EXCEPT !.accepted = 0] ELSE r.item[i]
  <1> DEFINE items == [i \in Item |-> IF i \in Open(seen) THEN [r.item[i] EXCEPT !.accepted = 0]
                                      ELSE r.item[i]]
  <1>1. ASSUME NEW i \in Item
        PROVE  items[i] \in ReturnItem /\ UnitsOK(items[i]) /\ items[i].quantity = r.item[i].quantity
    <2>1. r.item[i] \in ReturnItem /\ UnitsOK(r.item[i]) /\ r.item[i].quantity \in Nat
      BY RowFields
    <2>2. CASE i \in Open(seen)
      <3>1. 0 \in 0..r.item[i].quantity
        BY <2>1, <2>2
      <3>2. 0 \in Nat
        OBVIOUS
      <3> QED
        BY <2>1, <2>2, <3>1, <3>2, FilledItem
    <2>3. CASE i \notin Open(seen)
      BY <2>1, <2>3
    <2> QED
      BY <2>2, <2>3
  <1>2. /\ items \in [Item -> ReturnItem]
        /\ \A i \in Item : UnitsOK(items[i]) /\ items[i].quantity = r.item[i].quantity
    BY <1>1
  <1> DEFINE new == RefundedRow(r, seen, shipping)
  <1>3. new = [r EXCEPT !.status = "REFUND_APPROVED", !.shipping = shipping, !.item = items]
    BY DEF RefundedRow, RowOK, RequestRow
  <1>4. \A i \in Item : items[i] =
           IF i \in Open(seen) THEN [r.item[i] EXCEPT !.accepted = 0] ELSE r.item[i]
    OBVIOUS
  <1> HIDE DEF items, new
  <1>5. "REFUND_APPROVED" \in ReturnStatus /\ shipping \in Nat
    BY RowFields DEF ReturnStatus
  <1>6. new \in RequestRow /\ new.status = "REFUND_APPROVED" /\ new.item = items
    BY <1>2, <1>3, <1>5 DEF RowOK, RequestRow
  <1>7. RowOK(new) /\ SameUnits(r, new)
    BY <1>2, <1>6 DEF RowOK, SameUnits
  <1> QED
    BY <1>2, <1>4, <1>6, <1>7 DEF new

LEMMA InspectedRow ==
    ASSUME NEW r, RowOK(r), r.status # "NONE", NEW i \in Item,
           NEW accepted, NEW deduction, accepted \in 0..r.item[i].quantity, deduction \in Nat
    PROVE  LET new == Inspected(r, i, accepted, deduction)
           IN  /\ RowOK(new) /\ SameUnits(r, new) /\ new.status = r.status
               /\ new.item \in [Item -> ReturnItem]
               /\ new.item[i].accepted = accepted /\ new.item[i].deduction = deduction
               /\ new.item[i].received = r.item[i].received
               /\ \A x \in Item \ {i} : new.item[x] = r.item[x]
  <1> DEFINE item == [r.item[i] EXCEPT !.accepted = accepted, !.deduction = deduction]
             items == [r.item EXCEPT ![i] = item]
  <1>1. r.item \in [Item -> ReturnItem] /\ \A x \in Item : UnitsOK(r.item[x])
    BY RowFields
  <1>2. item \in ReturnItem /\ UnitsOK(item) /\ item.quantity = r.item[i].quantity
        /\ item.accepted = accepted /\ item.deduction = deduction
        /\ item.received = r.item[i].received
    <2>1. r.item[i] \in ReturnItem /\ UnitsOK(r.item[i])
      BY <1>1
    <2> QED
      BY <2>1, FilledItem DEF ReturnItem
  <1> DEFINE new == Inspected(r, i, accepted, deduction)
  <1>3. new = [r EXCEPT !.status = r.status, !.shipping = r.shipping, !.item = items]
    BY DEF Inspected, RowOK, RequestRow
  <1> HIDE DEF item
  <1>4. /\ items \in [Item -> ReturnItem] /\ items[i] = item
        /\ \A x \in Item \ {i} : items[x] = r.item[x]
        /\ \A x \in Item : UnitsOK(items[x]) /\ items[x].quantity = r.item[x].quantity
    BY <1>1, <1>2
  <1>5. r.status \in ReturnStatus /\ r.shipping \in Nat
    BY RowFields
  <1> HIDE DEF items, new
  <1>6. new \in RequestRow /\ new.status = r.status /\ new.item = items
    BY <1>3, <1>4, <1>5 DEF RowOK, RequestRow
  <1>7. RowOK(new) /\ SameUnits(r, new)
    BY <1>4, <1>6 DEF RowOK, SameUnits
  <1> QED
    BY <1>2, <1>4, <1>6, <1>7 DEF new

LEMMA ApproveWrites ==
    ASSUME Typed, NEW p \in Process, Approve(p)
    PROVE  \E units :
              /\ Write(p, Approved(request[job[p].request], job[p].seen, units), Idle)
              /\ \A i \in Items(job[p].seen) :
                    units[i] \in 0..request[job[p].request].item[i].quantity
  <1> DEFINE r == request[job[p].request]
             seen == job[p].seen
  <1>1. job[p].pc \in Deciding
    BY DEF Approve, Deciding, Allowed
  <1>2. RowOK(r) /\ RowOK(seen) /\ SameUnits(seen, r)
    BY <1>1, DecidingJob
  <1>3. PICK units \in [Items(seen) -> 0..Max({seen.item[i].quantity : i \in Item})] :
           /\ \A i \in Items(seen) : units[i] <= seen.item[i].quantity
           /\ Write(p, Approved(r, seen, units), Idle)
    BY DEF Approve, Approved
  <1>4. ASSUME NEW i \in Items(seen) PROVE units[i] \in 0..r.item[i].quantity
    <2>1. i \in Item
      BY DEF Items
    <2>2. units[i] \in Nat
      BY <1>2, <1>3, <2>1, MaxUnits
    <2>3. seen.item[i].quantity = r.item[i].quantity /\ r.item[i].quantity \in Nat
      BY <1>2, <2>1, RowFields DEF SameUnits
    <2> QED
      BY <1>3, <2>2, <2>3
  <1> QED
    BY <1>3, <1>4

LEMMA ReceiveWrites ==
    ASSUME Typed, NEW p \in Process, Receive(p)
    PROVE  \E units :
              /\ Write(p, Received(request[job[p].request], job[p].seen, units), Idle)
              /\ \A i \in Items(job[p].seen) :
                    /\ units[i] \in 0..request[job[p].request].item[i].quantity
                    /\ units[i] <= AtLeastZero(job[p].seen.item[i].approved)
  <1> DEFINE r == request[job[p].request]
             seen == job[p].seen
  <1>1. job[p].pc \in Deciding
    BY DEF Receive, Deciding, Allowed
  <1>2. RowOK(r) /\ RowOK(seen) /\ SameUnits(seen, r)
    BY <1>1, DecidingJob
  <1>3. PICK units \in [Items(seen) -> 0..Max({seen.item[i].quantity : i \in Item})] :
           /\ \A i \in Items(seen) : units[i] <= AtLeastZero(seen.item[i].approved)
           /\ Write(p, Received(r, seen, units), Idle)
    BY DEF Receive, Received
  <1>4. ASSUME NEW i \in Items(seen) PROVE units[i] \in 0..r.item[i].quantity
    <2>1. i \in Item
      BY DEF Items
    <2>2. units[i] \in Nat
      BY <1>2, <1>3, <2>1, MaxUnits
    <2>3. seen.item[i].quantity = r.item[i].quantity /\ r.item[i].quantity \in Nat
      BY <1>2, <2>1, RowFields DEF SameUnits
    <2>4. AtLeastZero(seen.item[i].approved) \in 0..seen.item[i].quantity
      <3>1. seen.item[i] \in ReturnItem /\ UnitsOK(seen.item[i])
        BY <1>2, <2>1, RowFields
      <3> QED
        BY <3>1, UnitsAreNat
    <2> HIDE DEF r, seen
    <2>5. units[i] <= AtLeastZero(seen.item[i].approved)
      BY <1>3
    <2> QED
      BY <2>2, <2>3, <2>4, <2>5
  <1> QED
    BY <1>3, <1>4

LEMMA InspectWrites ==
    ASSUME Typed, NEW p \in Process, NEW i \in Item, NEW accepted \in Nat, NEW deduction \in Deduction,
           Inspect(p, i, accepted, deduction)
    PROVE  LET r == request[job[p].request]
           IN  /\ request' = [request EXCEPT ![job[p].request] = Inspected(r, i, accepted, deduction)]
               /\ accepted \in 0..r.item[i].quantity /\ deduction \in Nat
  <1> DEFINE r == request[job[p].request]
             seen == job[p].seen
  <1>1. job[p].pc \in Deciding
    BY DEF Inspect, Deciding, Allowed
  <1>2. RowOK(r) /\ RowOK(seen) /\ SameUnits(seen, r) /\ job[p].request \in Request
    BY <1>1, DecidingJob
  <1>3. accepted \in 0..r.item[i].quantity /\ deduction \in Nat
    <2>1. seen.item[i].quantity = r.item[i].quantity /\ r.item[i].quantity \in Nat
      BY <1>2, RowFields DEF SameUnits
    <2>2. AtLeastZero(seen.item[i].received) \in 0..seen.item[i].quantity
      <3>1. seen.item[i] \in ReturnItem /\ UnitsOK(seen.item[i])
        BY <1>2, RowFields
      <3> QED
        BY <3>1, UnitsAreNat
    <2>3. accepted <= AtLeastZero(seen.item[i].received)
      BY DEF Inspect
    <2>4. deduction \in Nat
      BY AmountAssumption
    <2> HIDE DEF r, seen
    <2> QED
      BY <2>1, <2>2, <2>3, <2>4
  <1>4. request' = [request EXCEPT ![job[p].request] = Inspected(r, i, accepted, deduction)]
    BY DEF Inspect, Inspected
  <1> QED
    BY <1>3, <1>4

LEMMA ApproveRefundWrites ==
    ASSUME NEW p \in Process, ApproveRefund(p)
    PROVE  LET new == RefundedRow(request[job[p].request], job[p].seen, job[p].shipping)
           IN  Write(p, new, [job[p] EXCEPT !.pc = IF job[p].amount > 0 THEN "send" ELSE "close",
                                            !.seen = new])
  BY DEF ApproveRefund, RefundedRow, Open

LEMMA StatusIsStatus ==
    ASSUME row \in RowType, NEW requests
    PROVE  StatusAfter(requests) \in OrderStatus
  BY DEF StatusAfter, OrderStatusAfterReturns, RowType, OrderStatus

(* A handler that has written goes idle.                                   *)
LEMMA TypedEnds ==
    ASSUME Typed, NEW p \in Process, job[p].pc \in Deciding, NEW new, RowOK(new),
           SameUnits(request[job[p].request], new), new.status # "NONE", Write(p, new, Idle),
           row' \in RowType, UNCHANGED <<refund, paidBack, faults>>
    PROVE  Typed'
  BY NullRows, TypedWrites

LEMMA TypedMovesOn ==
    ASSUME Typed, NEW p \in Process, MoveOn(p)
    PROVE  Typed'
  <1>1. job[p].pc \in Deciding /\ Outcome[job[p].pc] \in ReturnStatus /\ Outcome[job[p].pc] # "NONE"
    BY DEF MoveOn, Deciding, Allowed, Outcome, ReturnStatus
  <1> DEFINE r == request[job[p].request]
             new == [r EXCEPT !.status = Outcome[job[p].pc]]
  <1>2. RowOK(r) /\ row \in RowType
    BY <1>1, DecidingJob
  <1>3. RowOK(new) /\ SameUnits(r, new) /\ new.status = Outcome[job[p].pc]
    BY <1>1, <1>2, MovedRow
  <1>4. Write(p, new, Idle) /\ UNCHANGED <<row, refund, paidBack, faults>>
    BY DEF MoveOn
  <1> HIDE DEF new
  <1> QED
    BY <1>1, <1>2, <1>3, <1>4, TypedEnds

LEMMA TypedApproves ==
    ASSUME Typed, NEW p \in Process, Approve(p) \/ Receive(p)
    PROVE  Typed'
  <1>1. job[p].pc \in Deciding
    BY DEF Approve, Receive, Deciding, Allowed
  <1> DEFINE r == request[job[p].request]
             seen == job[p].seen
  <1>2. RowOK(r) /\ row \in RowType
    BY <1>1, DecidingJob
  <1>3. CASE Approve(p)
    <2>1. PICK units : /\ Write(p, Approved(r, seen, units), Idle)
                       /\ \A i \in Items(seen) : units[i] \in 0..r.item[i].quantity
      BY <1>3, ApproveWrites
    <2>2. /\ RowOK(Approved(r, seen, units)) /\ SameUnits(r, Approved(r, seen, units))
          /\ Approved(r, seen, units).status = "RETURN_APPROVED"
      BY <1>2, <2>1, ApprovedRow
    <2> QED
      BY <1>1, <1>2, <1>3, <2>1, <2>2, TypedEnds DEF Approve
  <1>4. CASE Receive(p)
    <2>1. PICK units : /\ Write(p, Received(r, seen, units), Idle)
                       /\ \A i \in Items(seen) : units[i] \in 0..r.item[i].quantity
      BY <1>4, ReceiveWrites
    <2>2. /\ RowOK(Received(r, seen, units)) /\ SameUnits(r, Received(r, seen, units))
          /\ Received(r, seen, units).status = "RETURN_RECEIVED"
      BY <1>2, <2>1, ReceivedRow
    <2> QED
      BY <1>1, <1>2, <1>4, <2>1, <2>2, TypedEnds DEF Receive
  <1> QED
    BY <1>3, <1>4

LEMMA LineUnits ==
    0..Max({Line[j].quantity : j \in Item}) \subseteq Nat \/ Item = {}
  <1> SUFFICES ASSUME Item # {} PROVE 0..Max({Line[j].quantity : j \in Item}) \subseteq Nat
    OBVIOUS
  <1> DEFINE S == {Line[j].quantity : j \in Item}
  <1>1. S # {} /\ S \subseteq Int
    BY LineAssumption
  <1>2. IsFiniteSet(S)
    <2> DEFINE h == [x \in Item |-> Line[x].quantity]
    <2>1. h \in Surjection(Item, S)
      BY DEF Surjection
    <2> QED
      BY <2>1, FiniteAssumption, FS_Surjection
  <1> HIDE DEF S
  <1>3. Max(S) \in Int
    BY <1>1, <1>2, MaxIsMember
  <1> QED
    BY <1>3 DEF S

LEMMA TypedInspects ==
    ASSUME Typed, NEW p \in Process, NEW i \in Item, NEW accepted \in Nat, NEW deduction \in Deduction,
           Inspect(p, i, accepted, deduction)
    PROVE  Typed'
  <1>1. job[p].pc \in Deciding
    BY DEF Inspect, Deciding, Allowed
  <1> DEFINE r == request[job[p].request]
             new == Inspected(r, i, accepted, deduction)
  <1>2. /\ RowOK(r) /\ r.status # "NONE" /\ row \in RowType /\ job[p].request \in Request
        /\ request' = [request EXCEPT ![job[p].request] = new]
        /\ accepted \in 0..r.item[i].quantity /\ deduction \in Nat
    BY <1>1, DecidingJob, InspectWrites
  <1>3. RowOK(new) /\ SameUnits(r, new) /\ new.status = r.status
    <2>1. RowOK(r) /\ r.status # "NONE" /\ accepted \in 0..r.item[i].quantity /\ deduction \in Nat
      BY <1>2
    <2> HIDE DEF r, new
    <2>2. LET x == Inspected(r, i, accepted, deduction)
          IN  RowOK(x) /\ SameUnits(r, x) /\ x.status = r.status
      BY <2>1, InspectedRow
    <2> QED
      BY <2>2 DEF new
  <1> HIDE DEF new
  <1>4. RowsGrow /\ RequestsOK'
    BY <1>2, <1>3, OneRequestWritten
  <1>5. /\ job' = [job EXCEPT ![p] = Idle] /\ UNCHANGED <<row, refund, paidBack, faults>>
        /\ disturbed' \in BOOLEAN
    BY DEF Inspect, Typed, Overtaken
  <1>6. row' \in RowType
    BY <1>2, <1>5
  <1> QED
    BY <1>4, <1>5, <1>6, NullRows, TypedMoves DEF Typed

LEMMA TypedApprovesRefund ==
    ASSUME Typed, NEW p \in Process, ApproveRefund(p)
    PROVE  Typed'
  <1>1. job[p].pc \in Deciding
    BY DEF ApproveRefund, Deciding
  <1> DEFINE r == request[job[p].request]
             new == RefundedRow(r, job[p].seen, job[p].shipping)
             pc == IF job[p].amount > 0 THEN "send" ELSE "close"
             j == [job[p] EXCEPT !.pc = pc, !.seen = new]
  <1>2. RowOK(r) /\ row \in RowType /\ job[p] \in Job /\ job[p].request \in Request
        /\ job[p].shipping \in Nat
    BY <1>1, DecidingJob DEF Job
  <1>3. RowOK(new) /\ SameUnits(r, new) /\ new.status = "REFUND_APPROVED"
    BY <1>2, RefundedRows
  <1>4. Write(p, new, j)
    BY ApproveRefundWrites
  <1> HIDE DEF new
  <1>5. j \in Job /\ j.pc = pc /\ j.seen = new /\ j.request = job[p].request
    BY <1>2, <1>3 DEF Job, RowOK
  <1>6. pc \in {"send", "close"}
    OBVIOUS
  <1> HIDE DEF pc, j
  <1>7. JobOK(j)
    BY <1>2, <1>3, <1>5, <1>6 DEF JobOK, Deciding, Issuing, Calling, Allowed, SeenStatus
  <1>8. JobFits(j, [request EXCEPT ![job[p].request] = new])
    <2>1. [request EXCEPT ![job[p].request] = new][j.request] = new
      BY <1>2, <1>5 DEF Typed, RequestsOK
    <2>2. SameUnits(new, new) /\ new.status # "NONE"
      BY <1>3 DEF SameUnits
    <2> QED
      BY <1>5, <2>1, <2>2 DEF JobFits
  <1>9. row' \in RowType /\ UNCHANGED <<refund, paidBack, faults>>
    BY <1>2 DEF ApproveRefund
  <1>10. new.status # "NONE"
    BY <1>3
  <1> QED
    BY <1>1, <1>3, <1>4, <1>7, <1>8, <1>9, <1>10, TypedWrites

LEMMA TypedCloses ==
    ASSUME Typed, NEW p \in Process, Close(p) \/ CloseCommit(p) \/ Send(p)
    PROVE  Typed'
  <1>1. job[p].pc \in Deciding
    BY DEF Close, CloseCommit, Send, Deciding
  <1> DEFINE r == request[job[p].request]
  <1>2. /\ RowOK(r) /\ row \in RowType /\ job[p] \in Job /\ job[p].request \in Request
        /\ JobOK(job[p]) /\ JobFits(job[p], request) /\ r.status # "NONE"
    BY <1>1, DecidingJob DEF Typed
  <1>3. CASE Close(p)
    <2> DEFINE found == StatusAfter([request EXCEPT ![job[p].request].status = "COMPLETED"])
               next == IF found = row.status THEN "NONE" ELSE found
               j == [job[p] EXCEPT !.pc = "closing", !.next = next]
    <2>1. next \in OrderStatus \cup {"NONE"}
      BY <1>2, StatusIsStatus
    <2>2. job' = [job EXCEPT ![p] = j]
      BY <1>3 DEF Close
    <2> HIDE DEF next
    <2>3. j \in Job /\ j.pc = "closing" /\ j.seen = job[p].seen /\ j.request = job[p].request
      BY <1>2, <2>1 DEF Job
    <2> HIDE DEF j
    <2>4. JobOK(j) /\ JobFits(j, request)
      BY <1>2, <1>3, <2>3 DEF Close, JobOK, JobFits, Deciding, Issuing, Calling, Allowed, SeenStatus
    <2> QED
      BY <1>3, <2>2, <2>4, TypedGoesOn DEF Close, Typed
  <1>4. CASE CloseCommit(p)
    <2> DEFINE new == [r EXCEPT !.status = "COMPLETED"]
    <2>1. RowOK(new) /\ SameUnits(r, new) /\ new.status = "COMPLETED"
      BY <1>2, MovedRow DEF ReturnStatus
    <2>2. Write(p, new, Idle) /\ UNCHANGED <<refund, paidBack, faults>>
      BY <1>4 DEF CloseCommit
    <2>3. row' \in RowType
      BY <1>2, <1>4 DEF CloseCommit, RowType, Job
    <2> HIDE DEF new
    <2>4. new.status # "NONE"
      BY <2>1
    <2> QED
      BY <1>1, <2>1, <2>2, <2>3, <2>4, TypedEnds
  <1>5. CASE Send(p)
    <2> DEFINE new == [r EXCEPT !.status = "REFUND_PROCESSING"]
               j == [job[p] EXCEPT !.pc = "reserve", !.seen = NoRequestRow]
    <2>1. RowOK(new) /\ SameUnits(r, new) /\ new.status = "REFUND_PROCESSING"
      BY <1>2, MovedRow DEF ReturnStatus
    <2>2. Write(p, new, j) /\ UNCHANGED <<row, refund, paidBack, faults>>
      BY <1>5 DEF Send
    <2>3. j \in Job /\ j.pc = "reserve" /\ j.request = job[p].request
      BY <1>2, NullRows DEF Job
    <2> HIDE DEF new, j
    <2>4. new.status # "NONE" /\ row' \in RowType
      BY <1>2, <2>1, <2>2
    <2>5. JobOK(j)
      BY <2>3 DEF JobOK, Deciding, Calling, Allowed
    <2>6. JobFits(j, [request EXCEPT ![job[p].request] = new])
      <3>1. [request EXCEPT ![job[p].request] = new][j.request] = new
        BY <1>2, <2>3 DEF Typed, RequestsOK
      <3> QED
        BY <2>3, <2>4, <3>1 DEF JobFits, Deciding, Allowed
    <2> QED
      BY <1>1, <2>1, <2>2, <2>4, <2>5, <2>6, TypedWrites
  <1> QED
    BY <1>3, <1>4, <1>5

(* A step of nobody's handler.                                             *)
LEMMA TypedStays ==
    ASSUME Typed, RowsGrow, row' \in RowType, RequestsOK', UNCHANGED <<refund, job, disturbed, faults>>,
           paidBack' \in [Refund -> {"none", "pending", "succeeded", "failed"}]
    PROVE  Typed'
  <1>1. ASSUME NEW q \in Process PROVE JobOK(job'[q]) /\ JobFits(job'[q], request')
    <2>1. job'[q] = job[q] /\ JobOK(job[q]) /\ JobFits(job[q], request)
      BY DEF Typed
    <2>2. job[q].pc \in Deciding => job[q].request \in Request
      BY <2>1 DEF JobOK
    <2> QED
      BY <2>1, <2>2, FitsKept
  <1> QED
    BY <1>1 DEF Typed

LEMMA TypedDelivers ==
    ASSUME Typed, Deliver \/ \E f \in Refund, status \in {"succeeded", "failed"} : ProviderDecides(f, status)
    PROVE  Typed'
  <1>1. UNCHANGED <<request, refund, job, disturbed, faults>>
    BY DEF Deliver, ProviderDecides
  <1>2. RowsGrow /\ RequestsOK'
    BY <1>1 DEF RowsGrow, SameUnits, Typed, RequestsOK
  <1>3. row' \in RowType /\ paidBack' \in [Refund -> {"none", "pending", "succeeded", "failed"}]
    BY DEF Typed, Deliver, ProviderDecides, RowType, OrderStatus
  <1> QED
    BY <1>1, <1>2, <1>3, TypedStays

(* The row that CreateRequest inserts.                                     *)
Created(asked) ==
    [NoRequestRow EXCEPT !.status = "RETURN_REQUESTED",
                         !.item = [i \in Item |-> [NoItem EXCEPT !.quantity = asked[i]]]]

LEMMA CreatedRow ==
    ASSUME NEW asked \in Asked
    PROVE  LET new == Created(asked)
           IN  /\ RowOK(new) /\ new.status = "RETURN_REQUESTED" /\ new.shipping = 0
               /\ \A i \in Item : /\ new.item[i].quantity = asked[i] /\ new.item[i].approved = None
                                  /\ new.item[i].received = None /\ new.item[i].accepted = None
  <1> DEFINE items == [i \in Item |-> [NoItem EXCEPT !.quantity = asked[i]]]
             new == Created(asked)
  <1>1. ASSUME NEW i \in Item
        PROVE  /\ items[i] \in ReturnItem /\ UnitsOK(items[i]) /\ items[i].quantity = asked[i]
               /\ items[i].approved = None /\ items[i].received = None /\ items[i].accepted = None
    <2>1. asked[i] \in Nat
      BY AskedAssumption
    <2> QED
      BY <2>1 DEF NoItem, ReturnItem, UnitsOK, None
  <1>2. items \in [Item -> ReturnItem]
    BY <1>1
  <1>3. new = [NoRequestRow EXCEPT !.status = "RETURN_REQUESTED", !.item = items]
    BY DEF Created
  <1>4. NoRequestRow \in RequestRow /\ NoRequestRow.shipping = 0
    BY NullRows DEF NoRequestRow
  <1> HIDE DEF items, new
  <1>5. new \in RequestRow /\ new.status = "RETURN_REQUESTED" /\ new.item = items /\ new.shipping = 0
    BY <1>2, <1>3, <1>4 DEF RequestRow, ReturnStatus
  <1>6. RowOK(new)
    BY <1>1, <1>5 DEF RowOK
  <1> QED
    BY <1>1, <1>5, <1>6 DEF new

LEMMA CreateWrites ==
    ASSUME Typed, NEW r \in Request, CreateRequest(r)
    PROVE  \E asked \in Asked :
              /\ \A i \in Item : asked[i] <= Returnable(row.status, Line[i].quantity, Held(i))
              /\ request' = [request EXCEPT ![r] = Created(asked)]
              /\ request[r].status = "NONE" /\ UNCHANGED <<row, refund, paidBack, job, disturbed, faults>>
  BY DEF CreateRequest, Created

LEMMA TypedCreates ==
    ASSUME Typed, NEW r \in Request, CreateRequest(r)
    PROVE  Typed'
  <1>1. PICK asked \in Asked :
              /\ request' = [request EXCEPT ![r] = Created(asked)]
              /\ request[r].status = "NONE" /\ UNCHANGED <<row, refund, paidBack, job, disturbed, faults>>
    BY CreateWrites
  <1> DEFINE new == Created(asked)
  <1>2. RowOK(new) /\ new.status = "RETURN_REQUESTED"
    BY CreatedRow
  <1> HIDE DEF new
  <1>3. new \in RequestRow
    BY <1>2 DEF RowOK
  <1>4. request' \in [Request -> RequestRow] /\ request'[r] = new
        /\ \A q \in Request \ {r} : request'[q] = request[q]
    BY <1>1, <1>3 DEF Typed, RequestsOK, new
  <1>5. RequestsOK'
    BY <1>2, <1>4 DEF Typed, RequestsOK
  <1>6. RowsGrow
    BY <1>1, <1>4 DEF RowsGrow, SameUnits
  <1>7. row' \in RowType /\ paidBack' \in [Refund -> {"none", "pending", "succeeded", "failed"}]
    BY <1>1 DEF Typed
  <1> QED
    BY <1>1, <1>5, <1>6, <1>7, TypedStays

LEMMA Answers ==
    Answer["pending"] = "PROCESSING" /\ Answer["succeeded"] = "PROCESSED" /\ Answer["failed"] = "FAILED"
  BY DEF Answer

(* Handlers that hold no request to decide on.                             *)
LEMMA PlainJob ==
    ASSUME NEW j \in Job, j.pc \notin Deciding \cup Issuing, j.pc \in Calling => j.refund \in Refund
    PROVE  JobOK(j) /\ \A requests : JobFits(j, requests)
  BY DEF JobOK, JobFits, Issuing

LEMMA TypedStarts ==
    ASSUME Typed, NEW p \in Process,
           \/ \E amount \in Goodwill : RefundOrder(p, amount)
           \/ \E f \in Refund : Webhook(p, f)
    PROVE  Typed'
  <1>0. /\ refund \in [Refund -> RefundRow] /\ faults \in 0..MaxFaults
        /\ paidBack \in [Refund -> {"none", "pending", "succeeded", "failed"}]
    BY DEF Typed
  <1>1. ASSUME NEW amount \in Goodwill, RefundOrder(p, amount) PROVE Typed'
    <2> DEFINE j == [Idle EXCEPT !.pc = "reserve", !.amount = amount]
    <2>1. j \in Job /\ j.pc = "reserve" /\ j.request = NoRequest
      BY AmountAssumption, NullRows DEF Job, Idle
    <2>2. job' = [job EXCEPT ![p] = j]
      BY <1>1 DEF RefundOrder
    <2> HIDE DEF j
    <2>3. JobOK(j) /\ JobFits(j, request)
      BY <2>1, NullAssumption DEF JobOK, JobFits, Deciding, Calling, Allowed
    <2> QED
      BY <1>0, <1>1, <2>2, <2>3, TypedGoesOn DEF RefundOrder
  <1>2. ASSUME NEW f \in Refund, Webhook(p, f) PROVE Typed'
    <2>1. Answer[paidBack[f]] \in {"PROCESSED", "FAILED"}
      BY <1>2, Answers DEF Webhook
    <2> DEFINE j == [Idle EXCEPT !.pc = "settle", !.refund = f, !.outcome = Answer[paidBack[f]]]
    <2>2. j \in Job /\ j.pc = "settle" /\ j.refund = f
      BY <2>1, NullRows DEF Job
    <2>3. job' = [job EXCEPT ![p] = j]
      BY <1>2 DEF Webhook
    <2> HIDE DEF j
    <2>4. JobOK(j) /\ JobFits(j, request)
      BY <2>2, PlainJob DEF Deciding, Issuing, Allowed
    <2> QED
      BY <1>0, <1>2, <2>3, <2>4, TypedGoesOn DEF Webhook
  <1> QED
    BY <1>1, <1>2

LEMMA TypedReserves ==
    ASSUME Typed, NEW p \in Process, ReserveRead(p) \/ \E f \in Refund : ReserveCommit(p, f)
    PROVE  Typed'
  <1>0. /\ refund \in [Refund -> RefundRow] /\ faults \in 0..MaxFaults
        /\ paidBack \in [Refund -> {"none", "pending", "succeeded", "failed"}]
        /\ job \in [Process -> Job] /\ JobOK(job[p]) /\ JobFits(job[p], request)
    BY DEF Typed
  <1>1. CASE ReserveRead(p)
    <2> DEFINE taken == Amounts(Reserving)
    <2>1. taken \in Nat
      BY <1>0, AmountsAreNat DEF Reserving
    <2> HIDE DEF taken
    <2> DEFINE j == IF taken + job[p].amount <= Captured
                    THEN [job[p] EXCEPT !.pc = "create", !.result = taken]
                    ELSE IF job[p].request = NoRequest THEN Idle ELSE [job[p] EXCEPT !.pc = "refused"]
    <2>2. job' = [job EXCEPT ![p] = j]
      BY <1>0, <1>1 DEF ReserveRead, taken
    <2>3. \/ j = Idle
          \/ j \in Job /\ j.pc = "create" /\ j.request = job[p].request
          \/ j \in Job /\ j.pc = "refused" /\ j.request = job[p].request /\ j.request # NoRequest
      BY <1>0, <2>1 DEF Job
    <2> HIDE DEF j
    <2>4. CASE j = Idle
      BY <1>0, <1>1, <2>2, <2>4, NullRows, TypedGoesOn DEF ReserveRead
    <2>5. CASE j # Idle
      <3>1. j.request = job[p].request /\ (j.pc = "refused" => j.request \in Request)
        BY <1>0, <2>3, <2>5 DEF Job
      <3>2. JobOK(j)
        BY <2>3, <2>5, <3>1 DEF JobOK, Deciding, Calling, Allowed
      <3>3. JobFits(j, request)
        BY <1>0, <1>1, <2>3, <2>5 DEF ReserveRead, JobFits, Deciding, Issuing, Allowed
      <3> QED
        BY <1>0, <1>1, <2>2, <3>2, <3>3, TypedGoesOn DEF ReserveRead
    <2> QED
      BY <2>4, <2>5
  <1>2. ASSUME NEW f \in Refund, ReserveCommit(p, f) PROVE Typed'
    <2> DEFINE x == [status |-> "PENDING", amount |-> job[p].amount,
                     request |-> job[p].request, known |-> FALSE]
               j == [Idle EXCEPT !.pc = "call", !.refund = f]
    <2>1. x \in RefundRow
      BY <1>0 DEF Job, RefundRow
    <2>2. refund' = [refund EXCEPT ![f] = x] /\ job' = [job EXCEPT ![p] = j]
          /\ UNCHANGED <<row, request, paidBack, disturbed, faults>>
      BY <1>2 DEF ReserveCommit
    <2>3. j \in Job /\ j.pc = "call" /\ j.refund = f
      BY NullRows DEF Job
    <2> HIDE DEF x, j
    <2>4. JobOK(j) /\ JobFits(j, request)
      BY <2>3, PlainJob DEF Deciding, Issuing, Allowed
    <2>5. refund' \in [Refund -> RefundRow]
      BY <1>0, <2>1, <2>2
    <2> QED
      BY <1>0, <2>2, <2>4, <2>5, TypedGoesOn
  <1> QED
    BY <1>1, <1>2

LEMMA TypedRefuses ==
    ASSUME Typed, NEW p \in Process, Refused(p)
    PROVE  Typed'
  <1> DEFINE r == job[p].request
             new == [request[r] EXCEPT !.status = "REFUND_APPROVED"]
  <1>1. r \in Request /\ RowOK(request[r])
    BY DEF Refused, Typed, JobOK, RequestsOK
  <1>2. RowOK(new) /\ SameUnits(request[r], new) /\ new.status = "REFUND_APPROVED"
    BY <1>1, MovedRow DEF ReturnStatus
  <1>3. request' = [request EXCEPT ![r] = new] /\ job' = [job EXCEPT ![p] = Idle]
        /\ UNCHANGED <<row, refund, paidBack, disturbed, faults>>
    BY DEF Refused
  <1>4. new.status # "NONE"
    BY <1>2
  <1> HIDE DEF r, new
  <1>5. RowsGrow /\ RequestsOK'
    BY <1>1, <1>2, <1>3, <1>4, OneRequestWritten
  <1> QED
    BY <1>3, <1>5, NullRows, TypedMoves DEF Typed

LEMMA TypedCalls ==
    ASSUME Typed, NEW p \in Process,
           \/ \E status \in {"pending", "succeeded", "failed"} : ProviderAnswers(p, status)
           \/ \E status \in {"pending", "succeeded"} : AnswerLost(p, status)
           \/ ProviderRefuses(p)
    PROVE  Typed'
  <1>1. /\ refund' \in [Refund -> RefundRow] /\ faults' \in 0..MaxFaults
        /\ paidBack' \in [Refund -> {"none", "pending", "succeeded", "failed"}]
        /\ UNCHANGED <<row, request, disturbed>>
    BY BoundAssumption DEF Typed, ProviderAnswers, AnswerLost, ProviderRefuses
  <1>2. job[p] \in Job /\ job[p].pc = "call" /\ job[p].refund \in Refund
    BY DEF Typed, JobOK, Calling, ProviderAnswers, AnswerLost, ProviderRefuses
  <1>3. PICK pc \in {"record", "settle"}, outcome \in {"PROCESSED", "PROCESSING", "FAILED"} :
           job' = [job EXCEPT ![p].pc = pc, ![p].outcome = outcome]
    BY DEF ProviderAnswers, AnswerLost, ProviderRefuses, Answer
  <1> DEFINE j == [job[p] EXCEPT !.pc = pc, !.outcome = outcome]
  <1>4. j \in Job /\ j.pc \in {"record", "settle"} /\ j.refund \in Refund
    BY <1>2 DEF Job
  <1>5. job' = [job EXCEPT ![p] = j]
    BY <1>3
  <1> HIDE DEF j
  <1>6. JobOK(j) /\ JobFits(j, request)
    BY <1>4, PlainJob DEF Deciding, Issuing, Allowed
  <1> QED
    BY <1>1, <1>5, <1>6, TypedGoesOn

LEMMA TypedRecords ==
    ASSUME Typed, NEW p \in Process, Record(p)
    PROVE  Typed'
  <1> DEFINE f == job[p].refund
             x == [refund[f] EXCEPT !.status = "PROCESSING", !.known = TRUE]
             j == IF job[p].outcome = "PROCESSING" THEN Idle ELSE [job[p] EXCEPT !.pc = "settle"]
  <1>1. job[p] \in Job /\ f \in Refund /\ refund[f] \in RefundRow /\ job[p].pc = "record"
    BY DEF Record, Typed, JobOK, Calling
  <1>2. x \in RefundRow
    BY <1>1 DEF RefundRow
  <1>3. refund' = [refund EXCEPT ![f] = x] /\ job' = [job EXCEPT ![p] = j]
    BY <1>1 DEF Record, Typed
  <1>4. j = Idle \/ (j \in Job /\ j.pc = "settle" /\ j.refund = f)
    BY <1>1 DEF Job
  <1> HIDE DEF x, j
  <1>5. JobOK(j) /\ JobFits(j, request)
    BY <1>1, <1>4, NullRows, PlainJob DEF Deciding, Issuing, Allowed
  <1>6. refund' \in [Refund -> RefundRow] /\ UNCHANGED <<row, request, paidBack, disturbed, faults>>
    BY <1>1, <1>2, <1>3 DEF Typed, Record
  <1> QED
    BY <1>3, <1>5, <1>6, TypedGoesOn DEF Typed

LEMMA TypedSums ==
    ASSUME Typed, NEW p \in Process, SettleRead(p) \/ SettleSum(p) \/ Crash(p)
    PROVE  Typed'
  <1>1. /\ refund' \in [Refund -> RefundRow] /\ faults' \in 0..MaxFaults
        /\ paidBack' \in [Refund -> {"none", "pending", "succeeded", "failed"}]
        /\ UNCHANGED <<row, request, disturbed>>
    BY BoundAssumption DEF Typed, SettleRead, SettleSum, Crash
  <1>2. job[p] \in Job /\ (job[p].pc \in Calling => job[p].refund \in Refund) /\ job \in [Process -> Job]
    BY DEF Typed, JobOK
  <1>3. \E j : /\ job' = [job EXCEPT ![p] = j]
               /\ j = Idle \/ (j \in Job /\ j.pc \in {"sum", "commit"} /\ j.refund \in Refund)
    <2>1. CASE SettleRead(p)
      <3> DEFINE j == IF refund[job[p].refund].status \in {job[p].outcome, "PROCESSED"} THEN Idle
                      ELSE [job[p] EXCEPT !.pc = IF job[p].outcome = "PROCESSED" THEN "sum" ELSE "commit"]
      <3>1. job' = [job EXCEPT ![p] = j]
        BY <1>2, <2>1 DEF SettleRead
      <3>2. j = Idle \/ (j \in Job /\ j.pc \in {"sum", "commit"} /\ j.refund \in Refund)
        BY <1>2, <2>1 DEF SettleRead, Job, Calling
      <3> QED
        BY <3>1, <3>2
    <2>2. CASE SettleSum(p)
      <3>1. job[p].refund \in Refund /\ Processed \cup {job[p].refund} \in SUBSET Refund
        BY <1>2, <2>2 DEF SettleSum, Calling, Processed
      <3>2. Amounts(Processed \cup {job[p].refund}) \in Nat
        BY <3>1, AmountsAreNat DEF Typed
      <3> DEFINE j == [job[p] EXCEPT !.pc = "commit",
                                     !.result = Amounts(Processed \cup {job[p].refund})]
      <3>3. job' = [job EXCEPT ![p] = j]
        BY <2>2 DEF SettleSum
      <3>4. j \in Job /\ j.pc \in {"sum", "commit"} /\ j.refund \in Refund
        BY <1>2, <3>1, <3>2 DEF Job
      <3> QED
        BY <3>3, <3>4
    <2>3. CASE Crash(p)
      BY <2>3 DEF Crash
    <2> QED
      BY <2>1, <2>2, <2>3
  <1>4. PICK j : /\ job' = [job EXCEPT ![p] = j]
                 /\ j = Idle \/ (j \in Job /\ j.pc \in {"sum", "commit"} /\ j.refund \in Refund)
    BY <1>3
  <1>5. JobOK(j) /\ JobFits(j, request)
    BY <1>4, NullRows, PlainJob DEF Deciding, Issuing, Allowed
  <1> QED
    BY <1>1, <1>4, <1>5, TypedGoesOn

(* What SettleCommit makes of its request and of the order.                *)
LEMMA SettleWrites ==
    ASSUME Typed, NEW p \in Process, SettleCommit(p)
    PROVE  LET f == job[p].refund
               r == refund[f].request
               open == {g \in OfRequest(r) \ {f} : refund[g].status \in {"PENDING", "PROCESSING"}}
           IN  /\ f \in Refund
               /\ refund' = [refund EXCEPT ![f].status = job[p].outcome]
               /\ job' = [job EXCEPT ![p] = Idle]
               /\ UNCHANGED <<paidBack, faults>>
               /\ \/ request' = request
                  \/ /\ r \in Request /\ job[p].outcome = "FAILED"
                     /\ request' = [request EXCEPT ![r].status = "REFUND_APPROVED"]
                  \/ /\ r \in Request /\ job[p].outcome # "FAILED" /\ open = {}
                     /\ request' = [request EXCEPT ![r].status = "COMPLETED"]
               /\ job[p].outcome = "FAILED" => row' = row
               /\ job[p].outcome # "FAILED" =>
                     row' = [status |-> IF request' = request THEN row.status
                                        ELSE StatusAfter(request'),
                             pay |-> IF job[p].result >= Captured THEN "REFUNDED"
                                     ELSE "PARTIALLY_REFUNDED"]
  <1>1. job[p].refund \in Refund /\ refund[job[p].refund].request \in Request \cup {NoRequest}
    BY DEF SettleCommit, Typed, JobOK, Calling, RefundRow
  <1> QED
    BY <1>1 DEF SettleCommit, Settle

LEMMA TypedSettles ==
    ASSUME Typed, NEW p \in Process, SettleCommit(p)
    PROVE  Typed'
  <1> DEFINE f == job[p].refund
             r == refund[f].request
  <1>1. /\ f \in Refund /\ refund' = [refund EXCEPT ![f].status = job[p].outcome]
        /\ job' = [job EXCEPT ![p] = Idle] /\ UNCHANGED <<paidBack, faults>>
    BY SettleWrites
  <1>2. \/ request' = request
        \/ \E status \in {"REFUND_APPROVED", "COMPLETED"} :
              r \in Request /\ request' = [request EXCEPT ![r].status = status]
    BY SettleWrites
  <1>3. job[p] \in Job /\ refund[f] \in RefundRow /\ row \in RowType /\ RequestsOK
    BY <1>1 DEF Typed
  <1>4. refund' \in [Refund -> RefundRow]
    <2>1. job[p].outcome \in {"NONE", "PROCESSED", "PROCESSING", "FAILED"}
      BY <1>3 DEF Job
    <2>2. [refund[f] EXCEPT !.status = job[p].outcome] \in RefundRow
      BY <1>3, <2>1 DEF RefundRow
    <2> QED
      BY <1>1, <2>2 DEF Typed
  <1>5. row' \in RowType
    <2>1. StatusAfter(request') \in OrderStatus /\ row.status \in OrderStatus
      BY <1>3, StatusIsStatus DEF RowType
    <2>2. \/ row' = row
          \/ row' = [status |-> IF request' = request THEN row.status ELSE StatusAfter(request'),
                     pay |-> IF job[p].result >= Captured THEN "REFUNDED" ELSE "PARTIALLY_REFUNDED"]
      BY SettleWrites
    <2> QED
      BY <1>3, <2>1, <2>2 DEF RowType
  <1>6. RowsGrow /\ RequestsOK'
    <2>1. CASE request' = request
      BY <1>3, <2>1 DEF RowsGrow, SameUnits, RequestsOK
    <2>2. CASE request' # request
      <3>1. PICK status \in {"REFUND_APPROVED", "COMPLETED"} :
               r \in Request /\ request' = [request EXCEPT ![r].status = status]
        BY <1>2, <2>2
      <3> DEFINE new == [request[r] EXCEPT !.status = status]
      <3>2. RowOK(request[r]) /\ status \in ReturnStatus /\ status # "NONE"
        BY <1>3, <3>1 DEF RequestsOK, ReturnStatus
      <3>3. RowOK(new) /\ SameUnits(request[r], new) /\ new.status = status
        BY <3>2, MovedRow
      <3>4. request' = [request EXCEPT ![r] = new] /\ r \in Request
        BY <3>1
      <3> HIDE DEF r, new
      <3> QED
        BY <3>2, <3>3, <3>4, OneRequestWritten
    <2> QED
      BY <2>1, <2>2
  <1>7. disturbed' \in BOOLEAN
    BY DEF SettleCommit, Typed
  <1> QED
    BY <1>1, <1>4, <1>5, <1>6, <1>7, NullRows, TypedMoves DEF Typed

LEMMA TypedDecides ==
    ASSUME Typed, NEW p \in Process, Decide(p)
    PROVE  Typed'
  <1>1. ASSUME NEW i \in Item, NEW accepted \in 0..Max({Line[j].quantity : j \in Item}),
               NEW deduction \in Deduction, Inspect(p, i, accepted, deduction)
        PROVE  Typed'
    <2>1. accepted \in Nat
      BY LineUnits
    <2> QED
      BY <1>1, <2>1, TypedInspects
  <1> QED
    BY <1>1, TypedMovesOn, TypedApproves, TypedApprovesRefund, TypedCloses DEF Decide

LEMMA TypedNext ==
    ASSUME Typed, ReturnsNext
    PROVE  Typed'
  <1>1. CASE Deliver \/ \E f \in Refund, status \in {"succeeded", "failed"} : ProviderDecides(f, status)
    BY <1>1, TypedDelivers
  <1>2. CASE \E r \in Request : CreateRequest(r)
    BY <1>2, TypedCreates
  <1>3. ASSUME NEW p \in Process, NEW r \in Request,
               \/ \E action \in DOMAIN Allowed : Load(p, r, action)
               \/ LoadRefund(p, r) \/ LoadRetry(p, r)
        PROVE  Typed'
    BY <1>3, TypedLoads
  <1>4. ASSUME NEW p \in Process,
               \/ \E amount \in Goodwill : RefundOrder(p, amount)
               \/ \E f \in Refund : Webhook(p, f)
        PROVE  Typed'
    BY <1>4, TypedStarts
  <1>5. ASSUME NEW p \in Process, Decide(p) PROVE Typed'
    BY <1>5, TypedDecides
  <1>6. ASSUME NEW p \in Process, IssueStep(p) PROVE Typed'
    BY <1>6, TypedReserves, TypedRefuses, TypedCalls, TypedRecords DEF IssueStep
  <1>7. ASSUME NEW p \in Process, SettleStep(p) \/ Crash(p) PROVE Typed'
    BY <1>7, TypedSums, TypedSettles DEF SettleStep
  <1> QED
    BY <1>1, <1>2, <1>3, <1>4, <1>5, <1>6, <1>7 DEF ReturnsNext

LEMMA TypedStart ==
    ASSUME ReturnsInit
    PROVE  Typed
  <1>1. row \in RowType
    BY DEF ReturnsInit, RowType, OrderStatus
  <1>2. RequestsOK /\ refund \in [Refund -> RefundRow]
    BY NullRows DEF ReturnsInit, RequestsOK
  <1>3. job \in [Process -> Job] /\ \A p \in Process : JobOK(job[p]) /\ JobFits(job[p], request)
    BY NullRows DEF ReturnsInit
  <1>4. paidBack \in [Refund -> {"none", "pending", "succeeded", "failed"}]
    BY DEF ReturnsInit
  <1>5. disturbed \in BOOLEAN
    BY DEF ReturnsInit
  <1>6. faults \in 0..MaxFaults
    BY BoundAssumption DEF ReturnsInit
  <1> QED
    BY <1>1, <1>2, <1>3, <1>4, <1>5, <1>6 DEF Typed

LEMMA TypedStep ==
    ASSUME Typed, [ReturnsNext]_vars
    PROVE  Typed'
  <1>1. CASE UNCHANGED vars
    BY <1>1 DEF vars, Typed, RequestsOK
  <1> QED
    BY <1>1, TypedNext

LEMMA TypedIsTypeOK ==
    ASSUME Typed
    PROVE  TypeOK
  BY DEF Typed, RequestsOK, RowOK, UnitsOK, TypeOK

-----------------------------------------------------------------------------
(* Matched is kept.                                                        *)

LEMMA Totals ==
    ASSUME NEW rows \in [Refund -> RefundRow], NEW T \in SUBSET Refund
    PROVE  /\ Total(rows, T) \in Nat
           /\ \A S \in SUBSET T : Total(rows, S) <= Total(rows, T)
  <1> DEFINE h == [f \in Refund |-> rows[f].amount]
  <1>1. IsFiniteSet(T) /\ \A f \in T : h[f] \in Nat
    BY FiniteAssumption, FS_Subset DEF RefundRow
  <1> HIDE DEF h
  <1>2. SumFunctionOnSet(h, T) \in Nat
    BY <1>1, SumIsNat
  <1>3. \A S \in SUBSET T : SumFunctionOnSet(h, S) <= SumFunctionOnSet(h, T)
    BY <1>1, SumOfSubset
  <1> QED
    BY <1>2, <1>3 DEF Total, h

LEMMA TotalsAgree ==
    ASSUME NEW rows, NEW rows2, NEW T \in SUBSET Refund,
           \A f \in T : rows[f].amount = rows2[f].amount
    PROVE  Total(rows, T) = Total(rows2, T)
  <1> DEFINE h == [f \in Refund |-> rows[f].amount]
             k == [f \in Refund |-> rows2[f].amount]
  <1>1. IsFiniteSet(T) /\ \A f \in T : h[f] = k[f]
    BY FiniteAssumption, FS_Subset
  <1> HIDE DEF h, k
  <1>2. SumFunctionOnSet(h, T) = SumFunctionOnSet(k, T)
    BY <1>1, SumCongruence
  <1> QED
    BY <1>2 DEF Total, h, k

LEMMA PaymentTotals ==
    /\ Amounts(Processed) = Total(refund, Paid(refund)) /\ Processed = Paid(refund)
    /\ Amounts(Processed)' = Total(refund', Paid(refund')) /\ Processed' = Paid(refund')
  BY DEF Amounts, Processed, Total, Paid

(* One handler moves on, and the rest is as it should be.                  *)
LEMMA MatchedMoves ==
    ASSUME Typed, Matched, NEW p \in Process, NEW j, job' = [job EXCEPT ![p] = j],
           \A f \in Refund : RefundOK(refund'[f], paidBack'[f], faults' > 0),
           \A f \in Refund : refund[f].known => refund'[f].known,
           CallOK(j, refund'[j.refund], paidBack'[j.refund], faults' > 0), SumOK(j, refund'),
           \A q \in Process \ {p} :
              /\ CallOK(job[q], refund'[job[q].refund], paidBack'[job[q].refund], faults' > 0)
              /\ SumOK(job[q], refund')
              /\ (j.pc \in Calling /\ job[q].pc \in Calling /\ j.refund = job[q].refund) =>
                    refund'[j.refund].known,
           PaymentStatusFollows'
    PROVE  Matched'
  <1>1. /\ job'[p] = j
        /\ \A q \in Process \ {p} : job'[q] = job[q]
    BY DEF Typed
  <1>2. \A q \in Process :
           /\ CallOK(job'[q], refund'[job'[q].refund], paidBack'[job'[q].refund], faults' > 0)
           /\ SumOK(job'[q], refund')
    BY <1>1
  <1>3. ASSUME NEW a \in Process, NEW b \in Process, a # b, job'[a].pc \in Calling,
               job'[b].pc \in Calling, job'[a].refund = job'[b].refund
        PROVE  refund'[job'[a].refund].known
    <2>1. CASE a = p \/ b = p
      BY <1>1, <1>3, <2>1
    <2>2. CASE a # p /\ b # p
      <3>1. job'[a] = job[a] /\ job'[b] = job[b] /\ job[a].refund \in Refund
        BY <1>1, <1>3, <2>2 DEF Typed, JobOK
      <3>2. refund[job[a].refund].known
        BY <1>3, <3>1 DEF Matched, Alone
      <3> QED
        BY <3>1, <3>2
    <2> QED
      BY <2>1, <2>2
  <1>4. \A a, b \in Process : Alone(a, b)'
    BY <1>3 DEF Alone
  <1> QED
    BY <1>2, <1>4 DEF Matched

LEMMA PaymentStays ==
    ASSUME Matched, refund' = refund, row'.pay = row.pay
    PROVE  PaymentStatusFollows'
  BY DEF Matched, PaymentStatusFollows, Amounts, Processed

(* A handler moves on, and no refund changes.                              *)
LEMMA MatchedGoesOn ==
    ASSUME Typed, Matched, NEW p \in Process, NEW j, job' = [job EXCEPT ![p] = j],
           refund' = refund, paidBack' = paidBack, row'.pay = row.pay,
           faults' = faults \/ faults' = faults + 1,
           CallOK(j, refund[j.refund], paidBack[j.refund], faults' > 0), SumOK(j, refund),
           j.pc \in Calling =>
              \/ refund[j.refund].known
              \/ job[p].pc \in Calling /\ job[p].refund = j.refund
    PROVE  Matched'
  <1>1. faults > 0 => faults' > 0
    BY BoundAssumption DEF Typed
  <1>2. \A f \in Refund : RefundOK(refund'[f], paidBack'[f], faults' > 0)
    BY <1>1 DEF Matched, RefundOK
  <1>3. ASSUME NEW q \in Process \ {p}
        PROVE  /\ CallOK(job[q], refund'[job[q].refund], paidBack'[job[q].refund], faults' > 0)
               /\ SumOK(job[q], refund')
               /\ (j.pc \in Calling /\ job[q].pc \in Calling /\ j.refund = job[q].refund) =>
                    refund'[j.refund].known
    <2>1. CallOK(job[q], refund'[job[q].refund], paidBack'[job[q].refund], faults' > 0)
      BY <1>1 DEF Matched, CallOK
    <2>2. SumOK(job[q], refund')
      BY DEF Matched
    <2>3. Alone(p, q)
      BY DEF Matched
    <2> QED
      BY <2>1, <2>2, <2>3 DEF Alone
  <1> QED
    BY <1>2, <1>3, PaymentStays, MatchedMoves

(* The same, for one that is not about a refund.                           *)
LEMMA MatchedElsewhere ==
    ASSUME Typed, Matched, NEW p \in Process, NEW j, job' = [job EXCEPT ![p] = j],
           refund' = refund, paidBack' = paidBack, row'.pay = row.pay,
           faults' = faults \/ faults' = faults + 1,
           j.pc \notin Calling, j.pc # "create"
    PROVE  Matched'
  BY MatchedGoesOn DEF CallOK, SumOK, Calling

LEMMA MatchedDecides ==
    ASSUME Typed, Matched, NEW p \in Process,
           \/ Decide(p) \/ Refused(p) \/ Crash(p)
           \/ \E amount \in Goodwill : RefundOrder(p, amount)
           \/ \E r \in Request : \/ \E action \in DOMAIN Allowed : Load(p, r, action)
                                 \/ LoadRefund(p, r) \/ LoadRetry(p, r)
    PROVE  Matched'
  <1>1. /\ UNCHANGED <<refund, paidBack>> /\ row'.pay = row.pay
        /\ faults' = faults \/ faults' = faults + 1
    <2>1. Decide(p) => UNCHANGED <<refund, paidBack, faults>> /\ row'.pay = row.pay
      BY DEF Decide, MoveOn, Approve, Receive, Inspect, ApproveRefund, Close, CloseCommit, Send, Typed, RowType
    <2> QED
      BY <2>1 DEF Refused, Crash, RefundOrder, Load, LoadRefund, LoadRetry
  <1>2. Idle.pc = "idle" /\ Idle \in Job /\ job[p] \in Job
    BY NullRows DEF Typed
  <1>3. \E j : job' = [job EXCEPT ![p] = j] /\ j.pc \notin Calling /\ j.pc # "create"
    <2>1. CASE job' = [job EXCEPT ![p] = Idle]
      BY <1>2, <2>1 DEF Calling
    <2>2. CASE Decide(p) /\ job' # [job EXCEPT ![p] = Idle]
      <3>1. ApproveRefund(p) \/ Close(p) \/ Send(p)
        BY <2>2 DEF Decide, MoveOn, Approve, Receive, Inspect, CloseCommit, Write
      <3>2. CASE ApproveRefund(p)
        <4> DEFINE new == RefundedRow(request[job[p].request], job[p].seen, job[p].shipping)
                   j == [job[p] EXCEPT !.pc = IF job[p].amount > 0 THEN "send" ELSE "close", !.seen = new]
        <4>1. job' = [job EXCEPT ![p] = j]
          BY <3>2, ApproveRefundWrites DEF Write
        <4>2. j.pc \in {"send", "close"}
          BY <1>2 DEF Job
        <4> QED
          BY <4>1, <4>2 DEF Calling
      <3>3. CASE Close(p)
        <4> PICK next : job' = [job EXCEPT ![p].pc = "closing", ![p].next = next]
          BY <3>3 DEF Close
        <4> DEFINE j == [job[p] EXCEPT !.pc = "closing", !.next = next]
        <4>1. job' = [job EXCEPT ![p] = j] /\ j.pc = "closing"
          BY <1>2 DEF Job
        <4> QED
          BY <4>1 DEF Calling
      <3>4. CASE Send(p)
        <4> DEFINE j == [job[p] EXCEPT !.pc = "reserve", !.seen = NoRequestRow]
        <4>1. job' = [job EXCEPT ![p] = j] /\ j.pc = "reserve"
          BY <1>2, <3>4 DEF Send, Write, Job
        <4> QED
          BY <4>1 DEF Calling
      <3> QED
        BY <3>1, <3>2, <3>3, <3>4
    <2>3. CASE \E amount \in Goodwill : RefundOrder(p, amount)
      <3>1. PICK amount : job' = [job EXCEPT ![p] = [Idle EXCEPT !.pc = "reserve", !.amount = amount]]
        BY <2>3 DEF RefundOrder
      <3>2. [Idle EXCEPT !.pc = "reserve", !.amount = amount].pc = "reserve"
        BY DEF Idle
      <3> QED
        BY <3>1, <3>2 DEF Calling
    <2>4. ASSUME NEW r \in Request, \/ \E action \in DOMAIN Allowed : Load(p, r, action)
                                    \/ LoadRefund(p, r) \/ LoadRetry(p, r)
          PROVE  \E j : job' = [job EXCEPT ![p] = j] /\ j.pc \notin Calling /\ j.pc # "create"
      <3>1. ASSUME NEW action \in DOMAIN Allowed, Load(p, r, action)
            PROVE  \E j : job' = [job EXCEPT ![p] = j] /\ j.pc \notin Calling /\ j.pc # "create"
        <4> DEFINE j == [Idle EXCEPT !.pc = action, !.request = r, !.seen = request[r]]
        <4>1. job' = [job EXCEPT ![p] = j] /\ j.pc = action
          BY <3>1 DEF Load, Idle
        <4> QED
          BY <4>1 DEF Calling, Allowed
      <3>2. CASE LoadRefund(p, r)
        <4> DEFINE j == [Idle EXCEPT !.pc = "refund", !.request = r, !.seen = request[r],
                      !.shipping = ShippingDue(r),
                      !.amount = ItemsTotal(request[r]) + ShippingDue(r)]
        <4>1. job' = [job EXCEPT ![p] = j] /\ j.pc = "refund"
          BY <3>2 DEF LoadRefund, Idle
        <4> QED
          BY <4>1 DEF Calling
      <3>3. CASE LoadRetry(p, r)
        <4>1. PICK amount :
                 job' = [job EXCEPT ![p] = [Idle EXCEPT !.pc = "send", !.request = r,
                                                        !.seen = request[r], !.amount = amount]]
          BY <3>3 DEF LoadRetry
        <4>2. [Idle EXCEPT !.pc = "send", !.request = r, !.seen = request[r], !.amount = amount].pc = "send"
          BY DEF Idle
        <4> QED
          BY <4>1, <4>2 DEF Calling
      <3> QED
        BY <2>4, <3>1, <3>2, <3>3
    <2>5. CASE Refused(p) \/ Crash(p)
      BY <2>1, <2>5 DEF Refused, Crash
    <2> QED
      BY <2>1, <2>2, <2>3, <2>4, <2>5
  <1> QED
    BY <1>1, <1>3, MatchedElsewhere

LEMMA MatchedStays ==
    ASSUME Typed, Matched, Deliver \/ \E r \in Request : CreateRequest(r)
    PROVE  Matched'
  <1>1. UNCHANGED <<refund, paidBack, job, faults>> /\ row'.pay = row.pay
    BY DEF Deliver, CreateRequest, Typed, RowType
  <1> QED
    BY <1>1, PaymentStays DEF Matched, Alone

LEMMA MatchedReserves ==
    ASSUME Typed, Matched, NEW p \in Process, ReserveRead(p)
    PROVE  Matched'
  <1> DEFINE taken == Amounts(Reserving)
             j == IF taken + job[p].amount <= Captured
                    THEN [job[p] EXCEPT !.pc = "create", !.result = taken]
                    ELSE IF job[p].request = NoRequest THEN Idle ELSE [job[p] EXCEPT !.pc = "refused"]
  <1>1. job' = [job EXCEPT ![p] = j] /\ UNCHANGED <<row, refund, paidBack, faults>>
    BY DEF ReserveRead, Typed
  <1>2. j.pc \notin Calling /\ SumOK(j, refund)
    BY NullRows DEF Typed, Job, Calling, SumOK
  <1> HIDE DEF j
  <1>3. CallOK(j, refund[j.refund], paidBack[j.refund], faults' > 0)
    BY <1>2 DEF CallOK
  <1> QED
    BY <1>1, <1>2, <1>3, MatchedGoesOn

(* The answer of the provider reaches the handler, or does not.            *)
LEMMA MatchedCalls ==
    ASSUME Typed, Matched, NEW p \in Process,
           \/ \E status \in {"pending", "succeeded", "failed"} : ProviderAnswers(p, status)
           \/ \E status \in {"pending", "succeeded"} : AnswerLost(p, status)
           \/ ProviderRefuses(p)
    PROVE  Matched'
  <1> DEFINE f == job[p].refund
  <1>1. /\ job[p].pc = "call" /\ f \in Refund /\ job[p] \in Job /\ refund' = refund /\ row' = row
    BY DEF Typed, JobOK, Calling, ProviderAnswers, AnswerLost, ProviderRefuses
  <1>2. refund[f].status = "PENDING" /\ ~refund[f].known /\ paidBack[f] = "none"
    BY <1>1 DEF Matched, CallOK, RefundOK, Calling
  <1>3. PICK pc \in {"record", "settle"}, outcome \in {"PROCESSED", "PROCESSING", "FAILED"},
             back \in {"none", "pending", "succeeded", "failed"} :
           /\ job' = [job EXCEPT ![p].pc = pc, ![p].outcome = outcome]
           /\ paidBack' = [paidBack EXCEPT ![f] = back]
           /\ pc = "record" => back # "none" /\ outcome = Answer[back] /\ faults' = faults
           /\ pc = "settle" => outcome = "FAILED" /\
                 ((back = "none" /\ faults' = faults) \/ faults' = faults + 1)
    <2>1. CASE \E status \in {"pending", "succeeded", "failed"} : ProviderAnswers(p, status)
      BY <2>1, Answers DEF ProviderAnswers
    <2>2. CASE \E status \in {"pending", "succeeded"} : AnswerLost(p, status)
      BY <2>2 DEF AnswerLost
    <2>3. CASE ProviderRefuses(p)
      <3>1. paidBack' = [paidBack EXCEPT ![f] = "none"]
        BY <1>1, <1>2, <2>3 DEF ProviderRefuses, Typed
      <3> QED
        BY <2>3, <3>1 DEF ProviderRefuses
    <2> QED
      BY <2>1, <2>2, <2>3
  <1> DEFINE j == [job[p] EXCEPT !.pc = pc, !.outcome = outcome]
  <1>4. /\ job' = [job EXCEPT ![p] = j] /\ j.pc = pc /\ j.outcome = outcome /\ j.refund = f
        /\ paidBack'[f] = back /\ \A g \in Refund \ {f} : paidBack'[g] = paidBack[g]
    BY <1>1, <1>3 DEF Job, Typed
  <1>5. (faults > 0 => faults' > 0) /\ (pc = "settle" /\ back # "none" => faults' > 0)
    BY <1>3, BoundAssumption DEF Typed
  <1> HIDE DEF f, j
  <1>6. \A g \in Refund : RefundOK(refund'[g], paidBack'[g], faults' > 0)
    BY <1>1, <1>2, <1>4, <1>5 DEF Matched, RefundOK
  <1>7. CallOK(j, refund'[j.refund], paidBack'[j.refund], faults' > 0) /\ SumOK(j, refund')
    BY <1>1, <1>2, <1>3, <1>4, <1>5, Answers DEF CallOK, SumOK, Calling
  <1>8. ASSUME NEW q \in Process \ {p}
        PROVE  /\ CallOK(job[q], refund'[job[q].refund], paidBack'[job[q].refund], faults' > 0)
               /\ SumOK(job[q], refund')
               /\ ~ (job[q].pc \in Calling /\ f = job[q].refund)
    <2>1. ~ (job[q].pc \in Calling /\ f = job[q].refund)
      <3>1. Alone(p, q)
        BY DEF Matched
      <3> QED
        BY <1>1, <1>2, <3>1 DEF Alone, f, Calling
    <2>2. job[q].pc \in Calling => job[q].refund \in Refund
      BY DEF Typed, JobOK
    <2>3. CallOK(job[q], refund'[job[q].refund], paidBack'[job[q].refund], faults' > 0)
      BY <1>1, <1>4, <1>5, <2>1, <2>2 DEF Matched, CallOK
    <2> QED
      BY <1>1, <2>1, <2>3 DEF Matched
  <1>9. row'.pay = row.pay /\ refund' = refund
    BY <1>1
  <1> QED
    BY <1>4, <1>6, <1>7, <1>8, <1>9, PaymentStays, MatchedMoves

LEMMA MatchedInserts ==
    ASSUME Typed, Matched, NEW p \in Process, NEW f \in Refund, ReserveCommit(p, f)
    PROVE  Matched'
  <1> DEFINE x == [status |-> "PENDING", amount |-> job[p].amount,
                   request |-> job[p].request, known |-> FALSE]
             j == [Idle EXCEPT !.pc = "call", !.refund = f]
  <1>1. /\ refund' = [refund EXCEPT ![f] = x] /\ job' = [job EXCEPT ![p] = j]
        /\ refund[f].status = "NONE" /\ UNCHANGED <<row, paidBack, faults>>
    BY DEF ReserveCommit
  <1>2. j.pc = "call" /\ j.refund = f
    BY DEF Idle
  <1>3. x.status = "PENDING" /\ x.known = FALSE /\ paidBack[f] = "none" /\ ~refund[f].known
    BY <1>1 DEF Matched, RefundOK
  <1>4. refund'[f] = x /\ \A g \in Refund \ {f} : refund'[g] = refund[g]
    BY <1>1 DEF Typed
  <1> HIDE DEF x, j
  <1>5. /\ \A g \in Refund : RefundOK(refund'[g], paidBack'[g], faults' > 0)
        /\ \A g \in Refund : refund[g].known => refund'[g].known
    BY <1>1, <1>3, <1>4 DEF Matched, RefundOK
  <1>6. CallOK(j, refund'[j.refund], paidBack'[j.refund], faults' > 0) /\ SumOK(j, refund')
    BY <1>1, <1>2, <1>3, <1>4 DEF CallOK, SumOK
  <1>7. Paid(refund') = Paid(refund) /\ f \notin Paid(refund)
    BY <1>1, <1>3, <1>4 DEF Paid
  <1>8. ASSUME NEW S \in SUBSET Refund, f \notin S PROVE Total(refund', S) = Total(refund, S)
    BY <1>4, <1>8, TotalsAgree
  <1>9. ASSUME NEW q \in Process \ {p}
        PROVE  /\ CallOK(job[q], refund'[job[q].refund], paidBack'[job[q].refund], faults' > 0)
               /\ SumOK(job[q], refund')
               /\ ~ (job[q].pc \in Calling /\ f = job[q].refund)
    <2>1. /\ job[q].pc \in Calling => job[q].refund \in Refund
          /\ CallOK(job[q], refund[job[q].refund], paidBack[job[q].refund], faults > 0)
          /\ SumOK(job[q], refund)
      BY DEF Typed, JobOK, Matched
    <2>2. ~ (job[q].pc \in Calling /\ f = job[q].refund)
      BY <1>1, <2>1 DEF CallOK
    <2>3. CallOK(job[q], refund'[job[q].refund], paidBack'[job[q].refund], faults' > 0)
      BY <1>1, <1>4, <2>1, <2>2 DEF CallOK
    <2>4. SumOK(job[q], refund')
      <3>1. CASE job[q].pc = "commit"
        <4>1. job[q].refund \in Refund \ {f}
          BY <2>1, <2>2, <3>1 DEF Calling
        <4>2. Paid(refund) \cup {job[q].refund} \in SUBSET Refund /\ f \notin Paid(refund) \cup {job[q].refund}
          BY <1>7, <4>1 DEF Paid
        <4>3. Total(refund', Paid(refund) \cup {job[q].refund}) = Total(refund, Paid(refund) \cup {job[q].refund})
          BY <1>8, <4>2
        <4> QED
          BY <1>7, <2>1, <3>1, <4>3 DEF SumOK
      <3>2. CASE job[q].pc # "commit"
        BY <2>1, <3>2 DEF SumOK
      <3> QED
        BY <3>1, <3>2
    <2> QED
      BY <2>2, <2>3, <2>4
  <1>10. PaymentStatusFollows'
    <2>1. Total(refund', Paid(refund)) = Total(refund, Paid(refund))
      BY <1>7, <1>8 DEF Paid
    <2>2. PaymentStatusFollows /\ row' = row
      BY <1>1 DEF Matched
    <2> QED
      BY <1>7, <2>1, <2>2, PaymentTotals DEF PaymentStatusFollows
  <1>11. \A q \in Process \ {p} :
            (j.pc \in Calling /\ job[q].pc \in Calling /\ j.refund = job[q].refund) =>
                    refund'[j.refund].known
    BY <1>2, <1>9
  <1>12. job' = [job EXCEPT ![p] = j]
    BY <1>1
  <1> QED
    BY <1>5, <1>6, <1>9, <1>10, <1>11, <1>12, MatchedMoves

LEMMA MatchedConfirms ==
    ASSUME Typed, Matched, NEW f \in Refund, NEW status \in {"succeeded", "failed"},
           ProviderDecides(f, status)
    PROVE  Matched'
  <1>1. /\ UNCHANGED <<row, refund, job, faults>> /\ paidBack[f] = "pending"
        /\ paidBack'[f] = status /\ \A g \in Refund \ {f} : paidBack'[g] = paidBack[g]
    BY DEF ProviderDecides, Typed
  <1>2. \A g \in Refund : RefundOK(refund'[g], paidBack'[g], faults' > 0)
    <2>1. RefundOK(refund[f], "pending", faults > 0)
      BY <1>1 DEF Matched
    <2>2. RefundOK(refund[f], status, faults > 0)
      BY <2>1 DEF RefundOK
    <2> QED
      BY <1>1, <2>2 DEF Matched
  <1>3. ASSUME NEW q \in Process
        PROVE  CallOK(job[q], refund[job[q].refund], paidBack'[job[q].refund], faults > 0)
    <2>1. /\ job[q].pc \in Calling => job[q].refund \in Refund
          /\ CallOK(job[q], refund[job[q].refund], paidBack[job[q].refund], faults > 0)
      BY DEF Typed, JobOK, Matched
    <2>2. CASE job[q].refund = f
      <3>1. CallOK(job[q], refund[f], "pending", faults > 0)
        BY <1>1, <2>1, <2>2
      <3>2. CallOK(job[q], refund[f], status, faults > 0)
        BY <3>1, Answers DEF CallOK
      <3> QED
        BY <1>1, <2>2, <3>2
    <2>3. CASE job[q].refund # f
      BY <1>1, <2>1, <2>3 DEF CallOK
    <2> QED
      BY <2>2, <2>3
  <1>4. PaymentStatusFollows' /\ (\A q \in Process : SumOK(job[q], refund))
    BY <1>1, PaymentStays DEF Matched
  <1>5. \A a, b \in Process : Alone(a, b)'
    BY <1>1 DEF Matched, Alone
  <1> QED
    BY <1>1, <1>2, <1>3, <1>4, <1>5 DEF Matched

LEMMA MatchedRecords ==
    ASSUME Typed, Matched, NEW p \in Process, Record(p)
    PROVE  Matched'
  <1> DEFINE f == job[p].refund
             x == [refund[f] EXCEPT !.status = "PROCESSING", !.known = TRUE]
             j == IF job[p].outcome = "PROCESSING" THEN Idle ELSE [job[p] EXCEPT !.pc = "settle"]
  <1>1. /\ job[p] \in Job /\ f \in Refund /\ refund[f] \in RefundRow /\ job[p].pc = "record"
        /\ CallOK(job[p], refund[f], paidBack[f], faults > 0) /\ RefundOK(refund[f], paidBack[f], faults > 0)
    BY DEF Record, Typed, JobOK, Calling, Matched
  <1>2. /\ refund' = [refund EXCEPT ![f] = x] /\ job' = [job EXCEPT ![p] = j]
        /\ UNCHANGED <<row, paidBack, faults>>
    BY <1>1 DEF Record, Typed
  <1>3. x.status = "PROCESSING" /\ x.known = TRUE /\ x.amount = refund[f].amount
    BY <1>1 DEF RefundRow
  <1>4. j = Idle \/ (j.pc = "settle" /\ j.refund = f /\ j.outcome = job[p].outcome
                     /\ j.outcome # "PROCESSING")
    BY <1>1 DEF Job
  <1>5. refund'[f] = x /\ (\A g \in Refund \ {f} : refund'[g] = refund[g])
    BY <1>1, <1>2 DEF Typed
  <1>6. /\ refund[f].status = "PENDING" /\ ~refund[f].known /\ paidBack[f] # "none"
        /\ job[p].outcome # "NONE"
        /\ job[p].outcome = "PROCESSED" => paidBack[f] = "succeeded"
        /\ job[p].outcome = "FAILED" => paidBack[f] = "failed"
    BY <1>1 DEF CallOK, RefundOK, Calling
  <1>7. job[p].outcome \in {"PROCESSED", "PROCESSING", "FAILED"}
    BY <1>1, <1>6 DEF Job
  <1> HIDE DEF f, x, j
  <1>8. /\ \A g \in Refund : RefundOK(refund'[g], paidBack'[g], faults' > 0)
        /\ \A g \in Refund : refund[g].known => refund'[g].known
    BY <1>2, <1>3, <1>5, <1>6 DEF Matched, RefundOK
  <1>9. CallOK(j, refund'[j.refund], paidBack'[j.refund], faults' > 0) /\ SumOK(j, refund')
    BY <1>2, <1>3, <1>4, <1>5, <1>6, <1>7, Answers, NullRows DEF CallOK, SumOK, Calling
  <1>10. Paid(refund') = Paid(refund) /\ \A g \in Refund : refund'[g].amount = refund[g].amount
    BY <1>3, <1>5, <1>6 DEF Paid
  <1>11. ASSUME NEW S \in SUBSET Refund PROVE Total(refund', S) = Total(refund, S)
    BY <1>10, TotalsAgree
  <1>12. ASSUME NEW q \in Process \ {p}
        PROVE  /\ CallOK(job[q], refund'[job[q].refund], paidBack'[job[q].refund], faults' > 0)
               /\ SumOK(job[q], refund')
               /\ ~ (job[q].pc \in Calling /\ f = job[q].refund)
    <2>1. /\ job[q].pc \in Calling => job[q].refund \in Refund
          /\ CallOK(job[q], refund[job[q].refund], paidBack[job[q].refund], faults > 0)
          /\ SumOK(job[q], refund)
      BY DEF Typed, JobOK, Matched
    <2>2. ~ (job[q].pc \in Calling /\ f = job[q].refund)
      <3>1. Alone(p, q)
        BY DEF Matched
      <3> QED
        BY <1>1, <1>6, <3>1 DEF Alone, f, Calling
    <2>3. CallOK(job[q], refund'[job[q].refund], paidBack'[job[q].refund], faults' > 0)
      BY <1>2, <1>5, <2>1, <2>2 DEF CallOK
    <2>4. SumOK(job[q], refund')
      <3>1. CASE job[q].pc = "commit"
        <4>1. Paid(refund) \cup {job[q].refund} \in SUBSET Refund
          BY <2>1, <3>1 DEF Paid, Calling
        <4>2. Total(refund', Paid(refund) \cup {job[q].refund}) = Total(refund, Paid(refund) \cup {job[q].refund})
          BY <1>11, <4>1
        <4> QED
          BY <1>10, <2>1, <3>1, <4>2 DEF SumOK
      <3>2. CASE job[q].pc # "commit"
        BY <2>1, <3>2 DEF SumOK
      <3> QED
        BY <3>1, <3>2
    <2> QED
      BY <2>2, <2>3, <2>4
  <1>13. PaymentStatusFollows'
    <2>1. Total(refund', Paid(refund)) = Total(refund, Paid(refund))
      BY <1>11 DEF Paid
    <2>2. PaymentStatusFollows /\ row' = row
      BY <1>2 DEF Matched
    <2> QED
      BY <1>10, <2>1, <2>2, PaymentTotals DEF PaymentStatusFollows
  <1>14. ASSUME NEW q \in Process \ {p}, j.pc \in Calling, job[q].pc \in Calling, j.refund = job[q].refund
         PROVE  refund'[j.refund].known
    BY <1>4, <1>12, <1>14, NullRows DEF Calling
  <1> QED
    BY <1>2, <1>8, <1>9, <1>12, <1>13, <1>14, MatchedMoves

(* A settlement starts, or looks at the refunds.                           *)
LEMMA MatchedSums ==
    ASSUME Typed, Matched, NEW p \in Process,
           (\E f \in Refund : Webhook(p, f)) \/ SettleRead(p) \/ SettleSum(p)
    PROVE  Matched'
  <1>1. /\ UNCHANGED <<row, refund, paidBack, faults>> /\ job[p] \in Job
        /\ job \in [Process -> Job]
        /\ job[p].pc \in Calling => job[p].refund \in Refund
        /\ CallOK(job[p], refund[job[p].refund], paidBack[job[p].refund], faults > 0)
    BY DEF Webhook, SettleRead, SettleSum, Typed, JobOK, Matched
  <1>2. ASSUME NEW f \in Refund, Webhook(p, f) PROVE Matched'
    <2>1. /\ refund[f].known /\ paidBack[f] \in {"succeeded", "failed"} /\ RefundOK(refund[f], paidBack[f], faults > 0)
          /\ job' = [job EXCEPT ![p] = [Idle EXCEPT !.pc = "settle", !.refund = f,
                                              !.outcome = Answer[paidBack[f]]]]
      BY <1>2 DEF Webhook, Matched
    <2> DEFINE j == [Idle EXCEPT !.pc = "settle", !.refund = f, !.outcome = Answer[paidBack[f]]]
    <2>2. j.pc = "settle" /\ j.refund = f /\ j.outcome = Answer[paidBack[f]]
      BY DEF Idle
    <2>3. job' = [job EXCEPT ![p] = j]
      BY <2>1
    <2> HIDE DEF j
    <2>4. CallOK(j, refund[j.refund], paidBack[j.refund], faults' > 0) /\ SumOK(j, refund)
      BY <1>1, <2>1, <2>2, Answers DEF CallOK, SumOK, RefundOK
    <2> QED
      BY <1>1, <2>1, <2>2, <2>3, <2>4, MatchedGoesOn
  <1>3. CASE SettleRead(p)
    <2> DEFINE pc == IF job[p].outcome = "PROCESSED" THEN "sum" ELSE "commit"
               j == IF refund[job[p].refund].status \in {job[p].outcome, "PROCESSED"} THEN Idle
                    ELSE [job[p] EXCEPT !.pc = pc]
    <2>1. job' = [job EXCEPT ![p] = j] /\ job[p].pc = "settle"
      BY <1>1, <1>3 DEF SettleRead
    <2>2. \/ j = Idle
          \/ /\ j.refund = job[p].refund /\ j.outcome = job[p].outcome
             /\ j.pc \in {"sum", "commit"} /\ (j.pc = "commit" => j.outcome # "PROCESSED")
      BY <1>1 DEF Job
    <2> HIDE DEF j
    <2>3. CASE j = Idle
      BY <1>1, <2>1, <2>3, NullRows, MatchedElsewhere DEF Calling
    <2>4. CASE j # Idle
      <3>1. CallOK(j, refund[j.refund], paidBack[j.refund], faults' > 0)
        BY <1>1, <2>1, <2>2, <2>4 DEF CallOK, Calling
      <3>2. SumOK(j, refund)
        BY <2>2, <2>4 DEF SumOK
      <3> QED
        BY <1>1, <2>1, <2>2, <2>4, <3>1, <3>2, MatchedGoesOn DEF Calling
    <2> QED
      BY <2>3, <2>4
  <1>4. CASE SettleSum(p)
    <2> DEFINE sum == Amounts(Processed \cup {job[p].refund})
               j == [job[p] EXCEPT !.pc = "commit", !.result = sum]
    <2>1. job' = [job EXCEPT ![p] = j] /\ job[p].pc = "sum"
      BY <1>1, <1>4 DEF SettleSum
    <2>2. sum = Total(refund, Paid(refund) \cup {job[p].refund}) /\ sum \in Nat
      <3>1. Paid(refund) \cup {job[p].refund} \in SUBSET Refund
        BY <1>1, <2>1 DEF Paid, Calling
      <3>2. sum = Total(refund, Paid(refund) \cup {job[p].refund})
        BY DEF Amounts, Processed, Total, Paid
      <3> HIDE DEF sum
      <3> QED
        BY <3>1, <3>2, Totals DEF Typed
    <2> HIDE DEF sum
    <2>3. j.pc = "commit" /\ j.refund = job[p].refund /\ j.outcome = job[p].outcome /\ j.result = sum
      BY <1>1 DEF Job
    <2> HIDE DEF j
    <2>4. CallOK(j, refund[j.refund], paidBack[j.refund], faults' > 0)
      BY <1>1, <2>1, <2>3 DEF CallOK, Calling
    <2>5. SumOK(j, refund)
      BY <2>2, <2>3 DEF SumOK
    <2> QED
      BY <1>1, <2>1, <2>3, <2>4, <2>5, MatchedGoesOn DEF Calling
  <1> QED
    BY <1>2, <1>3, <1>4

(* What a settlement makes of the refund: once paid, it stays so.          *)
LEMMA SettledRefund ==
    ASSUME Typed, Matched, NEW p \in Process, SettleCommit(p)
    PROVE  LET f == job[p].refund
           IN  /\ f \in Refund /\ refund[f].status # "NONE"
               /\ refund'[f].status = job[p].outcome /\ refund'[f].amount = refund[f].amount
               /\ refund'[f].known = refund[f].known /\ refund'[f].request = refund[f].request
               /\ \A g \in Refund \ {f} : refund'[g] = refund[g]
               /\ job[p].outcome \in {"PROCESSED", "FAILED"}
               /\ IF refund[f].known
                  THEN paidBack[f] \in {"succeeded", "failed"} /\ job[p].outcome = Answer[paidBack[f]]
                  ELSE job[p].outcome = "FAILED" /\ refund[f].status = "PENDING"
                       /\ (paidBack[f] = "none" \/ faults > 0)
               /\ Paid(refund') = IF job[p].outcome = "PROCESSED" THEN Paid(refund) \cup {f}
                                  ELSE Paid(refund)
               /\ \A S \in SUBSET Refund : Total(refund', S) = Total(refund, S)
  <1> DEFINE f == job[p].refund
  <1>1. /\ f \in Refund /\ refund' = [refund EXCEPT ![f].status = job[p].outcome]
    BY SettleWrites
  <1>2. /\ job[p].pc = "commit" /\ refund[f] \in RefundRow
        /\ CallOK(job[p], refund[f], paidBack[f], faults > 0) /\ RefundOK(refund[f], paidBack[f], faults > 0)
    BY <1>1 DEF SettleCommit, Typed, Matched
  <1>3. /\ refund'[f].status = job[p].outcome /\ refund'[f].amount = refund[f].amount
        /\ refund'[f].known = refund[f].known /\ refund'[f].request = refund[f].request
        /\ \A g \in Refund \ {f} : refund'[g] = refund[g]
    BY <1>1, <1>2 DEF Typed, RefundRow
  <1> HIDE DEF f
  <1>4. /\ refund[f].status # "NONE" /\ job[p].outcome \in {"PROCESSED", "FAILED"}
        /\ IF refund[f].known
           THEN paidBack[f] \in {"succeeded", "failed"} /\ job[p].outcome = Answer[paidBack[f]]
           ELSE job[p].outcome = "FAILED" /\ refund[f].status = "PENDING"
                /\ (paidBack[f] = "none" \/ faults > 0)
    BY <1>2 DEF CallOK, Calling
  <1>5. job[p].outcome = "FAILED" => refund[f].status # "PROCESSED"
    BY <1>2, <1>4, Answers DEF RefundOK
  <1>6. Paid(refund') = IF job[p].outcome = "PROCESSED" THEN Paid(refund) \cup {f} ELSE Paid(refund)
    BY <1>1, <1>3, <1>4, <1>5 DEF Paid
  <1>7. \A g \in Refund : refund'[g].amount = refund[g].amount
    BY <1>3
  <1>8. \A S \in SUBSET Refund : Total(refund', S) = Total(refund, S)
    BY <1>7, TotalsAgree
  <1> QED
    BY <1>1, <1>3, <1>4, <1>6, <1>8 DEF f

LEMMA MatchedSettles ==
    ASSUME Typed, Matched, NEW p \in Process, SettleCommit(p)
    PROVE  Matched'
  <1> DEFINE f == job[p].refund
  <1>1. /\ f \in Refund /\ refund[f].status # "NONE"
        /\ refund'[f].status = job[p].outcome /\ refund'[f].amount = refund[f].amount
        /\ refund'[f].known = refund[f].known
        /\ \A g \in Refund \ {f} : refund'[g] = refund[g]
        /\ job[p].outcome \in {"PROCESSED", "FAILED"}
        /\ IF refund[f].known
           THEN paidBack[f] \in {"succeeded", "failed"} /\ job[p].outcome = Answer[paidBack[f]]
           ELSE job[p].outcome = "FAILED" /\ refund[f].status = "PENDING"
                /\ (paidBack[f] = "none" \/ faults > 0)
        /\ Paid(refund') = IF job[p].outcome = "PROCESSED" THEN Paid(refund) \cup {f} ELSE Paid(refund)
    BY SettledRefund
  <1>2. \A S \in SUBSET Refund : Total(refund', S) = Total(refund, S)
    BY SettledRefund
  <1>3. /\ job' = [job EXCEPT ![p] = Idle] /\ UNCHANGED <<paidBack, faults>> /\ job[p].pc = "commit"
    BY SettleWrites DEF SettleCommit
  <1>4. \A g \in Refund : RefundOK(refund'[g], paidBack'[g], faults' > 0)
    <2>1. RefundOK(refund'[f], paidBack[f], faults > 0)
      BY <1>1, Answers DEF RefundOK
    <2> HIDE DEF f
    <2> QED
      BY <1>1, <1>3, <2>1 DEF Matched
  <1>5. \A g \in Refund : refund[g].known => refund'[g].known
    BY <1>1
  <1>6. ASSUME NEW q \in Process \ {p}
        PROVE  CallOK(job[q], refund'[job[q].refund], paidBack'[job[q].refund], faults' > 0)
    <2>1. /\ job[q].pc \in Calling => job[q].refund \in Refund
          /\ CallOK(job[q], refund[job[q].refund], paidBack[job[q].refund], faults > 0)
          /\ Alone(p, q)
      BY DEF Typed, JobOK, Matched
    <2>2. CASE job[q].pc \in Calling /\ job[q].refund = f
      <3>1. refund[f].known
        BY <1>3, <2>1, <2>2 DEF Alone, Calling
      <3>2. RefundOK(refund[f], paidBack[f], faults > 0)
        BY <1>1 DEF Matched
      <3> HIDE DEF f
      <3> QED
        BY <1>1, <1>3, <2>1, <2>2, <3>1, <3>2, Answers DEF CallOK, RefundOK
    <2>3. CASE ~ (job[q].pc \in Calling /\ job[q].refund = f)
      <3> HIDE DEF f
      <3> QED
        BY <1>1, <1>3, <2>1, <2>3 DEF CallOK
    <2> QED
      BY <2>2, <2>3
  <1>7. ASSUME NEW q \in Process \ {p} PROVE SumOK(job[q], refund')
    <2>1. /\ SumOK(job[q], refund) /\ job[q] \in Job
          /\ job[q].pc \in Calling => job[q].refund \in Refund
      BY DEF Matched, Typed, JobOK
    <2>2. CASE job[q].pc = "commit" /\ job[q].outcome = "PROCESSED"
      <3> DEFINE S == Paid(refund) \cup {job[q].refund}
                 T == Paid(refund') \cup {job[q].refund}
      <3>1. T \in SUBSET Refund /\ S \in SUBSET T
        BY <1>1, <2>1, <2>2 DEF Paid, Calling
      <3>2. job[q].result <= Total(refund, S) /\ job[q].result \in Nat
        BY <2>1, <2>2 DEF SumOK, Job
      <3>3. refund \in [Refund -> RefundRow]
        BY DEF Typed
      <3> HIDE DEF S, T
      <3>4. Total(refund, S) <= Total(refund, T) /\ Total(refund, S) \in Nat /\ Total(refund, T) \in Nat
        BY <3>1, <3>3, Totals
      <3>5. Total(refund', T) = Total(refund, T)
        BY <1>2, <3>1
      <3> QED
        BY <2>2, <3>2, <3>4, <3>5 DEF SumOK, T
    <2>3. CASE ~ (job[q].pc = "commit" /\ job[q].outcome = "PROCESSED")
      BY <2>1, <2>3 DEF SumOK
    <2> QED
      BY <2>2, <2>3
  <1>8. PaymentStatusFollows'
    <2>1. Total(refund', Paid(refund')) = Total(refund, Paid(refund'))
      BY <1>2 DEF Paid
    <2>2. PaymentStatusFollows /\ SumOK(job[p], refund) /\ job[p] \in Job /\ row \in RowType
      BY DEF Matched, Typed
    <2>3. CASE job[p].outcome = "FAILED"
      <3>1. row' = row
        BY <2>3, SettleWrites
      <3>2. Paid(refund') = Paid(refund)
        BY <1>1, <2>3
      <3> QED
        BY <2>1, <2>2, <3>1, <3>2, PaymentTotals DEF PaymentStatusFollows
    <2>4. CASE job[p].outcome = "PROCESSED"
      <3>1. row'.pay = IF job[p].result >= Captured THEN "REFUNDED" ELSE "PARTIALLY_REFUNDED"
        <4>1. job[p].outcome # "FAILED"
          BY <2>4
        <4>2. row' = [status |-> IF request' = request THEN row.status ELSE StatusAfter(request'),
                      pay |-> IF job[p].result >= Captured THEN "REFUNDED" ELSE "PARTIALLY_REFUNDED"]
          BY <4>1, SettleWrites
        <4> QED
          BY <4>2
      <3>2. Paid(refund') = Paid(refund) \cup {f}
        BY <1>1, <2>4
      <3>3. job[p].result <= Total(refund, Paid(refund'))
        BY <1>3, <2>2, <2>4, <3>2 DEF SumOK
      <3>4. Total(refund, Paid(refund')) \in Nat
        BY Totals DEF Typed, Paid
      <3>5. row'.pay = "REFUNDED" => Total(refund, Paid(refund')) >= Captured
        BY <2>2, <3>1, <3>3, <3>4, MoneyAssumption DEF Job
      <3>6. Paid(refund') # {} /\ row'.pay # "PAID"
        BY <3>1, <3>2
      <3> QED
        BY <2>1, <3>5, <3>6, PaymentTotals DEF PaymentStatusFollows
    <2> QED
      BY <1>1, <2>3, <2>4
  <1>9. CallOK(Idle, refund'[Idle.refund], paidBack'[Idle.refund], faults' > 0) /\ SumOK(Idle, refund')
        /\ Idle.pc \notin Calling
    BY NullRows DEF CallOK, SumOK, Calling
  <1> HIDE DEF f
  <1> QED
    BY <1>3, <1>4, <1>5, <1>6, <1>7, <1>8, <1>9, MatchedMoves

LEMMA MatchedNext ==
    ASSUME Typed, Matched, ReturnsNext
    PROVE  Matched'
  <1>1. CASE Deliver \/ \E r \in Request : CreateRequest(r)
    BY <1>1, MatchedStays
  <1>2. CASE \E f \in Refund, status \in {"succeeded", "failed"} : ProviderDecides(f, status)
    BY <1>2, MatchedConfirms
  <1>3. ASSUME NEW p \in Process,
               \/ Decide(p) \/ Refused(p) \/ Crash(p)
               \/ \E amount \in Goodwill : RefundOrder(p, amount)
               \/ \E r \in Request : \/ \E action \in DOMAIN Allowed : Load(p, r, action)
                                     \/ LoadRefund(p, r) \/ LoadRetry(p, r)
        PROVE  Matched'
    BY <1>3, MatchedDecides
  <1>4. ASSUME NEW p \in Process, IssueStep(p) PROVE Matched'
    BY <1>3, <1>4, MatchedReserves, MatchedInserts, MatchedCalls, MatchedRecords DEF IssueStep
  <1>5. ASSUME NEW p \in Process, SettleStep(p) \/ \E f \in Refund : Webhook(p, f) PROVE Matched'
    BY <1>5, MatchedSums, MatchedSettles DEF SettleStep
  <1> QED
    BY <1>1, <1>2, <1>3, <1>4, <1>5 DEF ReturnsNext

LEMMA MatchedStep ==
    ASSUME Typed, Matched, [ReturnsNext]_vars
    PROVE  Matched'
  <1>1. CASE UNCHANGED vars
    BY <1>1, PaymentStays DEF vars, Matched, Alone
  <1> QED
    BY <1>1, MatchedNext

LEMMA MatchedStart ==
    ASSUME ReturnsInit
    PROVE  Matched
  <1>1. /\ \A f \in Refund : refund[f].status = "NONE" /\ refund[f].known = FALSE /\ paidBack[f] = "none"
        /\ \A p \in Process : job[p] = Idle
        /\ row.pay = "PAID"
    BY DEF ReturnsInit, NoRefundRow
  <1>2. \A f \in Refund : RefundOK(refund[f], paidBack[f], faults > 0)
    BY <1>1 DEF RefundOK
  <1>3. \A p \in Process : /\ CallOK(job[p], refund[job[p].refund], paidBack[job[p].refund], faults > 0)
                           /\ SumOK(job[p], refund)
    BY <1>1, NullRows DEF CallOK, SumOK, Calling
  <1>4. \A p, q \in Process : Alone(p, q)
    BY <1>1, NullRows DEF Alone, Calling
  <1>5. PaymentStatusFollows
    BY <1>1 DEF PaymentStatusFollows, Processed
  <1> QED
    BY <1>2, <1>3, <1>4, <1>5 DEF Matched

(* Only the insert of a refund reserves more.                              *)
LEMMA ReservedTotals ==
    /\ Amounts(Reserving) = Total(refund, Reserved(refund)) /\ Reserving = Reserved(refund)
    /\ Amounts(Reserving)' = Total(refund', Reserved(refund')) /\ Reserving' = Reserved(refund')
  BY DEF Amounts, Reserving, Total, Reserved

LEMMA RefundsUntouched ==
    ASSUME [ReturnsNext]_vars
    PROVE  \/ refund' = refund
           \/ \E p \in Process :
                 \/ \E f \in Refund : ReserveCommit(p, f)
                 \/ Record(p) \/ SettleCommit(p)
  <1>1. ASSUME NEW p \in Process, Decide(p) PROVE refund' = refund
    BY <1>1 DEF Decide, MoveOn, Approve, Receive, Inspect, ApproveRefund, Close, CloseCommit, Send
  <1>2. ASSUME NEW p \in Process, IssueStep(p), ~Record(p), ~ \E f \in Refund : ReserveCommit(p, f)
        PROVE  refund' = refund
    BY <1>2 DEF IssueStep, ReserveRead, Refused, ProviderAnswers, AnswerLost, ProviderRefuses
  <1>3. ASSUME NEW p \in Process, SettleStep(p), ~SettleCommit(p) PROVE refund' = refund
    BY <1>3 DEF SettleStep, SettleRead, SettleSum
  <1>4. ASSUME NEW p \in Process, NEW r \in Request,
               \/ \E action \in DOMAIN Allowed : Load(p, r, action)
               \/ LoadRefund(p, r) \/ LoadRetry(p, r)
        PROVE  refund' = refund
    BY <1>4 DEF Load, LoadRefund, LoadRetry
  <1>5. ASSUME NEW p \in Process, \/ \E amount \in Goodwill : RefundOrder(p, amount)
                                  \/ \E f \in Refund : Webhook(p, f)
                                  \/ Crash(p)
        PROVE  refund' = refund
    BY <1>5 DEF RefundOrder, Webhook, Crash
  <1>6. ASSUME \/ Deliver \/ \E r \in Request : CreateRequest(r)
               \/ \E f \in Refund, status \in {"succeeded", "failed"} : ProviderDecides(f, status)
               \/ UNCHANGED vars
        PROVE  refund' = refund
    BY <1>6 DEF Deliver, CreateRequest, ProviderDecides, vars
  <1> QED
    BY <1>1, <1>2, <1>3, <1>4, <1>5, <1>6 DEF ReturnsNext

LEMMA OverlapStep ==
    ASSUME Typed, Matched, [ReturnsNext]_vars,
           Amounts(Reserving)' > Captured, Amounts(Reserving)' > Amounts(Reserving)
    PROVE  \E p \in Process : job[p].pc = "create" /\ job'[p].pc = "call"
                              /\ job[p].result # Amounts(Reserving)
  <1>0. refund \in [Refund -> RefundRow] /\ Reserved(refund) \in SUBSET Refund
    BY DEF Typed, Reserved
  <1>1. Total(refund, Reserved(refund)) \in Nat
    BY <1>0, Totals
  <1>2. Total(refund', Reserved(refund')) > Total(refund, Reserved(refund))
    BY ReservedTotals
  <1>3. ASSUME NEW T \in SUBSET Reserved(refund), Reserved(refund') = T,
               \A f \in T : refund'[f].amount = refund[f].amount
        PROVE  FALSE
    <2>1. Total(refund', T) = Total(refund, T)
      BY <1>0, <1>3, TotalsAgree
    <2>2. Total(refund, T) <= Total(refund, Reserved(refund)) /\ Total(refund, T) \in Nat
      BY <1>0, Totals
    <2> QED
      BY <1>1, <1>2, <1>3, <2>1, <2>2
  <1>4. refund' # refund
    BY <1>3
  <1>5. ASSUME NEW p \in Process, Record(p) PROVE FALSE
    <2> DEFINE f == job[p].refund
    <2>1. f \in Refund /\ refund[f].status = "PENDING" /\ refund[f] \in RefundRow
      BY <1>5 DEF Record, Typed, JobOK, Calling, Matched, CallOK
    <2>2. /\ refund'[f].status = "PROCESSING" /\ refund'[f].amount = refund[f].amount
          /\ \A g \in Refund \ {f} : refund'[g] = refund[g]
      BY <1>5, <2>1 DEF Record, Typed, RefundRow
    <2> HIDE DEF f
    <2>3. Reserved(refund') = Reserved(refund) /\ \A g \in Refund : refund'[g].amount = refund[g].amount
      BY <2>1, <2>2 DEF Reserved
    <2> QED
      BY <1>0, <1>3, <2>3
  <1>6. ASSUME NEW p \in Process, SettleCommit(p) PROVE FALSE
    <2> DEFINE f == job[p].refund
    <2>1. /\ f \in Refund /\ refund[f].status # "NONE"
          /\ refund'[f].status = job[p].outcome /\ refund'[f].amount = refund[f].amount
          /\ \A g \in Refund \ {f} : refund'[g] = refund[g]
          /\ job[p].outcome \in {"PROCESSED", "FAILED"}
          /\ IF refund[f].known THEN job[p].outcome = Answer[paidBack[f]]
             ELSE job[p].outcome = "FAILED"
      BY <1>6, SettledRefund
    <2>2. RefundOK(refund[f], paidBack[f], faults > 0) /\ refund[f] \in RefundRow
      BY <2>1 DEF Matched, Typed
    <2> HIDE DEF f
    <2>3. job[p].outcome = "PROCESSED" => refund[f].status \in {"PENDING", "PROCESSING", "PROCESSED"}
      BY <2>1, <2>2, Answers DEF RefundOK, RefundRow
    <2>4. Reserved(refund') \in SUBSET Reserved(refund)
          /\ \A g \in Refund : refund'[g].amount = refund[g].amount
      BY <2>1, <2>3 DEF Reserved
    <2> QED
      BY <1>0, <1>3, <2>4 DEF Reserved
  <1>7. ASSUME NEW p \in Process, NEW f \in Refund, ReserveCommit(p, f)
        PROVE  job[p].pc = "create" /\ job'[p].pc = "call" /\ job[p].result # Amounts(Reserving)
    <2>1. /\ refund[f].status = "NONE" /\ job[p].pc = "create" /\ job[p] \in Job /\ SumOK(job[p], refund)
          /\ refund'[f].status = "PENDING" /\ refund'[f].amount = job[p].amount
          /\ \A g \in Refund \ {f} : refund'[g] = refund[g]
          /\ job'[p].pc = "call"
      BY <1>7, NullRows DEF ReserveCommit, Typed, Matched, Job
    <2>2. Reserved(refund') = Reserved(refund) \cup {f} /\ f \notin Reserved(refund)
      BY <2>1 DEF Reserved
    <2>3. Total(refund', Reserved(refund) \cup {f}) = job[p].amount + Total(refund', Reserved(refund))
      <3> DEFINE h == [g \in Refund |-> refund'[g].amount]
                 S == Reserved(refund) \cup {f}
      <3>1. IsFiniteSet(S) /\ f \in S /\ S \ {f} = Reserved(refund)
        BY <1>0, <2>2, FiniteAssumption, FS_Subset
      <3>2. \A g \in S : h[g] \in Int
        BY <1>0, <2>1 DEF RefundRow, Job
      <3>3. h[f] = job[p].amount
        BY <2>1
      <3> HIDE DEF h, S
      <3>4. SumFunctionOnSet(h, S) = h[f] + SumFunctionOnSet(h, S \ {f})
        BY <3>1, <3>2, SumTakeOut
      <3> QED
        BY <3>1, <3>3, <3>4 DEF Total, h, S
    <2>4. Total(refund', Reserved(refund)) = Total(refund, Reserved(refund))
      BY <1>0, <2>1, <2>2, TotalsAgree
    <2>5. job[p].result + job[p].amount <= Captured /\ job[p].result \in Nat /\ job[p].amount \in Nat
      BY <2>1 DEF SumOK, Job
    <2>6. job[p].amount + Total(refund, Reserved(refund)) > Captured
      BY <2>2, <2>3, <2>4, ReservedTotals
    <2>7. job[p].result # Total(refund, Reserved(refund))
      BY <1>1, <2>5, <2>6, MoneyAssumption
    <2> QED
      BY <2>1, <2>7, ReservedTotals
  <1> QED
    BY <1>4, <1>5, <1>6, <1>7, RefundsUntouched

-----------------------------------------------------------------------------
(* Orderly is kept as long as nothing is disturbed, and with it a request  *)
(* only ever moves on: what is closed stays as it is, what was decided     *)
(* keeps its items, and none holds more units than before.                 *)

RowStep(old, new) ==
    /\ old.status \in ReleasedStatus \cup {"COMPLETED"} => new = old
    /\ old.status \in Decided => new.status \in Decided /\ new.item = old.item
    /\ old.status # "NONE" => \A i \in Item :
          HeldQuantity(new.item[i], new.status) <= HeldQuantity(old.item[i], old.status)

(* The statuses in which no refund of the request may count.               *)
Early == ReturnStatus \ (ReleasedStatus \cup {"REFUND_PROCESSING", "COMPLETED"})

LEMMA SameRowStep ==
    ASSUME NEW r, RowOK(r)
    PROVE  RowStep(r, r)
  <1>1. \A i \in Item : HeldQuantity(r.item[i], r.status) \in Nat
    BY RowFields, UnitsAreNat
  <1> QED
    BY <1>1 DEF RowStep

LEMMA MovedStep ==
    ASSUME NEW r, RowOK(r), StagesOK(r), NEW new, new.item = r.item, new.status \in ReturnStatus,
           r.status \notin ReleasedStatus \cup {"COMPLETED"} \/ new = r,
           r.status \in Decided => new.status \in Decided
    PROVE  RowStep(r, new)
  <1>1. CASE new = r
    BY <1>1, SameRowStep
  <1>2. CASE new # r
    <2>1. \A i \in Item : /\ HeldQuantity(r.item[i], r.status) \in Nat
                          /\ HeldQuantity(r.item[i], new.status) \in Nat
      BY RowFields, UnitsAreNat
    <2>2. \A i \in Item : HeldQuantity(new.item[i], new.status) <= HeldQuantity(r.item[i], r.status)
      BY <1>2, <2>1 DEF HeldQuantity
    <2> QED
      BY <1>2, <2>2 DEF RowStep
  <1> QED
    BY <1>1, <1>2

(* MoveOn.                                                                 *)
LEMMA MovesInOrder ==
    ASSUME NEW pc \in DOMAIN Outcome, NEW r, RowOK(r), StagesOK(r), r.status \in SeenStatus(pc),
           NEW new, RowOK(new), new.item = r.item, new.status = Outcome[pc]
    PROVE  StagesOK(new) /\ RowStep(r, new) /\ r.status \in Early
  <1>1. /\ pc = "cancel" => r.status = "RETURN_REQUESTED" /\ new.status = "CANCELLED"
        /\ pc = "reject" => /\ r.status \in {"RETURN_REQUESTED", "RETURN_APPROVED", "PICKUP_SCHEDULED"}
                            /\ new.status = "RETURN_REJECTED"
        /\ pc = "schedule" => /\ r.status \in {"RETURN_APPROVED", "PICKUP_SCHEDULED"}
                              /\ new.status = "PICKUP_SCHEDULED"
        /\ pc = "pickup" => r.status = "PICKUP_SCHEDULED" /\ new.status = "PICKED_UP"
        /\ pc = "start" => r.status = "RETURN_RECEIVED" /\ new.status = "INSPECTION"
        /\ pc \in {"cancel", "reject", "schedule", "pickup", "start"}
    BY DEF SeenStatus, Allowed, Outcome
  <1>2. r.status \in Early /\ new.status \in ReturnStatus
    BY <1>1 DEF Early, ReturnStatus, ReleasedStatus
  <1>3. StagesOK(new)
    BY <1>1 DEF StagesOK, Before, Decided, Items
  <1>4. RowStep(r, new)
    BY <1>1, <1>2, MovedStep DEF Early, Decided
  <1> QED
    BY <1>2, <1>3, <1>4

LEMMA ApprovesInOrder ==
    ASSUME NEW r, RowOK(r), StagesOK(r), r.status = "RETURN_REQUESTED",
           NEW units, \A i \in Items(r) : units[i] \in 0..r.item[i].quantity
    PROVE  LET new == Approved(r, r, units)
           IN  StagesOK(new) /\ RowStep(r, new) /\ RowOK(new)
  <1> DEFINE new == Approved(r, r, units)
  <1>1. /\ RowOK(new) /\ SameUnits(r, new) /\ new.status = "RETURN_APPROVED"
        /\ \A i \in Item : new.item[i] =
              IF i \in Items(r) THEN [r.item[i] EXCEPT !.approved = units[i]] ELSE r.item[i]
    BY ApprovedRow
  <1> HIDE DEF new
  <1>2. ASSUME NEW i \in Item
        PROVE  /\ new.item[i].received = None /\ new.item[i].accepted = None
               /\ HeldQuantity(new.item[i], new.status) <= HeldQuantity(r.item[i], r.status)
    <2>1. /\ r.item[i] \in ReturnItem /\ r.item[i].quantity \in Nat /\ new.item[i] \in ReturnItem
          /\ r.item[i].approved = None /\ r.item[i].received = None /\ r.item[i].accepted = None
      BY <1>1, RowFields DEF StagesOK, Before
    <2>2. HeldQuantity(r.item[i], r.status) = r.item[i].quantity
      BY <2>1 DEF HeldQuantity, ReleasedStatus
    <2>3. CASE i \in Items(r)
      <3>1. units[i] \in 0..r.item[i].quantity
        BY <2>3
      <3>2. /\ new.item[i].approved = units[i] /\ new.item[i].received = None /\ new.item[i].accepted = None
        BY <1>1, <2>1, <2>3 DEF ReturnItem
      <3>3. HeldQuantity(new.item[i], new.status) = units[i]
        BY <1>1, <3>1, <3>2 DEF HeldQuantity, ReleasedStatus, None
      <3> QED
        BY <2>1, <2>2, <3>1, <3>2, <3>3
    <2>4. CASE i \notin Items(r)
      <3>1. new.item[i] = r.item[i]
        BY <1>1, <2>4
      <3>2. HeldQuantity(new.item[i], new.status) = r.item[i].quantity
        BY <1>1, <2>1, <3>1 DEF HeldQuantity, ReleasedStatus
      <3> QED
        BY <2>1, <2>2, <3>1, <3>2
    <2> QED
      BY <2>3, <2>4
  <1>3. StagesOK(new)
    BY <1>1, <1>2 DEF StagesOK, Before, Decided
  <1>4. RowStep(r, new)
    BY <1>2 DEF RowStep, Decided, ReleasedStatus
  <1> QED
    BY <1>1, <1>3, <1>4 DEF new

LEMMA ReceivesInOrder ==
    ASSUME NEW r, RowOK(r), StagesOK(r), r.status \in {"PICKUP_SCHEDULED", "PICKED_UP"},
           NEW units, \A i \in Items(r) : /\ units[i] \in 0..r.item[i].quantity
                                          /\ units[i] <= AtLeastZero(r.item[i].approved)
    PROVE  LET new == Received(r, r, units)
           IN  StagesOK(new) /\ RowStep(r, new) /\ RowOK(new)
  <1> DEFINE new == Received(r, r, units)
  <1>1. /\ RowOK(new) /\ SameUnits(r, new) /\ new.status = "RETURN_RECEIVED"
        /\ \A i \in Item : new.item[i] =
              IF i \in Items(r) THEN [r.item[i] EXCEPT !.received = units[i]] ELSE r.item[i]
    BY ReceivedRow
  <1> HIDE DEF new
  <1>2. ASSUME NEW i \in Item
        PROVE  /\ new.item[i].accepted = None /\ (i \in Items(r) => new.item[i].received # None)
               /\ HeldQuantity(new.item[i], new.status) <= HeldQuantity(r.item[i], r.status)
    <2>1. /\ r.item[i] \in ReturnItem /\ r.item[i].quantity \in Nat /\ UnitsOK(r.item[i])
          /\ r.item[i].received = None /\ r.item[i].accepted = None
      BY RowFields DEF StagesOK, Before
    <2>2. HeldQuantity(r.item[i], r.status) =
             IF r.item[i].approved # None THEN r.item[i].approved ELSE r.item[i].quantity
      BY <2>1 DEF HeldQuantity, ReleasedStatus
    <2>3. CASE i \in Items(r)
      <3>1. units[i] \in 0..r.item[i].quantity /\ units[i] <= AtLeastZero(r.item[i].approved)
        BY <2>3
      <3>2. /\ new.item[i].received = units[i] /\ new.item[i].accepted = None
        BY <1>1, <2>1, <2>3 DEF ReturnItem
      <3>3. HeldQuantity(new.item[i], new.status) = units[i] /\ units[i] # None
        BY <1>1, <3>1, <3>2 DEF HeldQuantity, ReleasedStatus, None
      <3>4. r.item[i].approved \in Nat \cup {None}
        BY <2>1 DEF ReturnItem
      <3> QED
        BY <2>1, <2>2, <3>1, <3>2, <3>3, <3>4 DEF AtLeastZero, None
    <2>4. CASE i \notin Items(r)
      <3>1. new.item[i] = r.item[i]
        BY <1>1, <2>4
      <3>2. HeldQuantity(new.item[i], new.status) = HeldQuantity(r.item[i], r.status)
        BY <1>1, <3>1 DEF HeldQuantity, ReleasedStatus
      <3>3. HeldQuantity(r.item[i], r.status) \in Nat
        BY <2>1, UnitsAreNat
      <3> QED
        BY <2>1, <2>4, <3>1, <3>2, <3>3
    <2> QED
      BY <2>3, <2>4
  <1>3. Items(new) = Items(r)
    BY <1>1 DEF SameUnits, Items
  <1>4. StagesOK(new)
    BY <1>1, <1>2, <1>3 DEF StagesOK, Before, Decided, Items
  <1>5. RowStep(r, new)
    BY <1>2 DEF RowStep, Decided, ReleasedStatus
  <1> QED
    BY <1>1, <1>4, <1>5 DEF new

LEMMA InspectsInOrder ==
    ASSUME NEW r, RowOK(r), StagesOK(r), r.status = "INSPECTION", NEW i \in Items(r),
           NEW accepted, NEW deduction, accepted \in 0..r.item[i].quantity, deduction \in Nat,
           accepted <= AtLeastZero(r.item[i].received),
           ~ (r.item[i].accepted # None /\ accepted > r.item[i].accepted)
    PROVE  LET new == Inspected(r, i, accepted, deduction)
           IN  StagesOK(new) /\ RowStep(r, new) /\ RowOK(new)
  <1> DEFINE new == Inspected(r, i, accepted, deduction)
  <1>0. i \in Item
    BY DEF Items
  <1>1. /\ RowOK(new) /\ SameUnits(r, new) /\ new.status = "INSPECTION"
        /\ new.item[i].accepted = accepted /\ new.item[i].received = r.item[i].received
        /\ \A x \in Item \ {i} : new.item[x] = r.item[x]
    BY <1>0, InspectedRow
  <1> HIDE DEF new
  <1>2. \A x \in Item : new.item[x].received = r.item[x].received
    BY <1>1
  <1>3. Items(new) = Items(r)
    BY <1>1 DEF SameUnits, Items
  <1>4. StagesOK(new)
    BY <1>1, <1>2, <1>3 DEF StagesOK, Before, Decided, Items
  <1>5. ASSUME NEW x \in Item
        PROVE  HeldQuantity(new.item[x], new.status) <= HeldQuantity(r.item[x], r.status)
    <2>1. CASE x = i
      <3>1. r.item[i] \in ReturnItem /\ r.item[i].received # None
        BY <1>0, RowFields DEF StagesOK
      <3>2. HeldQuantity(new.item[i], new.status) = accepted
        BY <1>1 DEF HeldQuantity, ReleasedStatus, None
      <3>3. HeldQuantity(r.item[i], r.status) =
               IF r.item[i].accepted # None THEN r.item[i].accepted ELSE r.item[i].received
        BY <3>1 DEF HeldQuantity, ReleasedStatus
      <3>4. /\ r.item[i].received \in Nat /\ r.item[i].accepted \in Nat \cup {None}
            /\ r.item[i].quantity \in Nat
        BY <3>1 DEF ReturnItem
      <3> QED
        BY <2>1, <3>2, <3>3, <3>4 DEF AtLeastZero
    <2>2. CASE x # i
      <3>1. HeldQuantity(new.item[x], new.status) = HeldQuantity(r.item[x], r.status)
        BY <1>1, <2>2
      <3>2. HeldQuantity(r.item[x], r.status) \in Nat
        BY RowFields, UnitsAreNat
      <3> QED
        BY <3>1, <3>2
    <2> QED
      BY <2>1, <2>2
  <1>6. RowStep(r, new)
    BY <1>5 DEF RowStep, Decided, ReleasedStatus
  <1> QED
    BY <1>1, <1>4, <1>6 DEF new

LEMMA RefundsInOrder ==
    ASSUME NEW r, RowOK(r), StagesOK(r), r.status = "INSPECTION", NEW shipping \in Nat
    PROVE  LET new == RefundedRow(r, r, shipping)
           IN  StagesOK(new) /\ RowStep(r, new) /\ RowOK(new)
  <1> DEFINE new == RefundedRow(r, r, shipping)
  <1>1. /\ RowOK(new) /\ SameUnits(r, new) /\ new.status = "REFUND_APPROVED"
        /\ \A i \in Item : new.item[i] =
              IF i \in Open(r) THEN [r.item[i] EXCEPT !.accepted = 0] ELSE r.item[i]
    BY RefundedRows
  <1> HIDE DEF new
  <1>2. ASSUME NEW i \in Item
        PROVE  /\ new.item[i].received = r.item[i].received
               /\ HeldQuantity(new.item[i], new.status) <= HeldQuantity(r.item[i], r.status)
    <2>1. r.item[i] \in ReturnItem /\ HeldQuantity(r.item[i], r.status) \in Nat
      BY RowFields, UnitsAreNat
    <2>2. CASE i \in Open(r)
      <3>1. new.item[i].accepted = 0 /\ new.item[i].received = r.item[i].received
        BY <1>1, <2>1, <2>2 DEF ReturnItem
      <3>2. HeldQuantity(new.item[i], new.status) = 0
        BY <1>1, <3>1 DEF HeldQuantity, ReleasedStatus, None
      <3> QED
        BY <2>1, <3>1, <3>2
    <2>3. CASE i \notin Open(r)
      <3>1. new.item[i] = r.item[i]
        BY <1>1, <2>3
      <3>2. HeldQuantity(new.item[i], new.status) = HeldQuantity(r.item[i], r.status)
        BY <1>1, <3>1 DEF HeldQuantity, ReleasedStatus
      <3> QED
        BY <2>1, <3>1, <3>2
    <2> QED
      BY <2>2, <2>3
  <1>3. Items(new) = Items(r)
    BY <1>1 DEF SameUnits, Items
  <1>4. StagesOK(new)
    BY <1>1, <1>2, <1>3 DEF StagesOK, Before, Decided, Items
  <1>5. RowStep(r, new)
    BY <1>2 DEF RowStep, Decided, ReleasedStatus
  <1> QED
    BY <1>1, <1>4, <1>5 DEF new

RowsStep == \A r \in Request : RowStep(request[r], request'[r])

LEMMA RowsStepUnchanged ==
    ASSUME Typed, request' = request
    PROVE  RowsStep
  BY SameRowStep DEF Typed, RequestsOK, RowsStep

LEMMA OrderlyMoves ==
    ASSUME Typed, Orderly, NEW p \in Process, NEW j, job' = [job EXCEPT ![p] = j],
           \A r \in Request : StagesOK(request'[r]), OneRefund(request', refund'),
           IssuerOK(j, request', refund'), ClosingOK(j, request'),
           \A q \in Process \ {p} :
              /\ IssuerOK(job[q], request', refund') /\ ClosingOK(job[q], request')
              /\ ~ (Reserves(j) /\ Reserves(job[q]) /\ j.request = job[q].request)
    PROVE  Orderly'
  <1>1. job'[p] = j /\ \A q \in Process \ {p} : job'[q] = job[q]
    BY DEF Typed
  <1>2. \A q \in Process : IssuerOK(job'[q], request', refund') /\ ClosingOK(job'[q], request')
    BY <1>1
  <1>3. ASSUME NEW a \in Process, NEW b \in Process PROVE OneIssuer(a, b)'
    <2>1. CASE a = p \/ b = p
      BY <1>1, <2>1 DEF OneIssuer
    <2>2. CASE a # p /\ b # p
      <3>1. job'[a] = job[a] /\ job'[b] = job[b] /\ OneIssuer(a, b)
        BY <1>1, <2>2 DEF Orderly
      <3> QED
        BY <3>1 DEF OneIssuer
    <2> QED
      BY <2>1, <2>2
  <1> QED
    BY <1>2, <1>3 DEF Orderly

(* A handler moves on without writing.                                     *)
LEMMA OrderlyGoesOn ==
    ASSUME Typed, Orderly, NEW p \in Process, NEW j, job' = [job EXCEPT ![p] = j],
           request' = request, refund' = refund,
           Reserves(j) => Reserves(job[p]) /\ j.request = job[p].request, ClosingOK(j, request)
    PROVE  Orderly' /\ RowsStep
  <1>1. IssuerOK(j, request, refund)
    BY DEF Orderly, IssuerOK
  <1>2. ASSUME NEW q \in Process \ {p}
        PROVE  ~ (Reserves(j) /\ Reserves(job[q]) /\ j.request = job[q].request)
    <2>1. OneIssuer(p, q)
      BY DEF Orderly
    <2> QED
      BY <2>1 DEF OneIssuer
  <1>3. \A q \in Process \ {p} : IssuerOK(job[q], request', refund') /\ ClosingOK(job[q], request')
    BY DEF Orderly
  <1>4. (\A r \in Request : StagesOK(request'[r])) /\ OneRefund(request', refund')
    BY DEF Orderly
  <1>5. IssuerOK(j, request', refund') /\ ClosingOK(j, request')
    BY <1>1
  <1>6. Orderly'
    BY <1>2, <1>3, <1>4, <1>5, OrderlyMoves
  <1> QED
    BY <1>6, RowsStepUnchanged

LEMMA EarlyIsFree ==
    ASSUME Orderly, NEW r \in Request, request[r].status \in Early \cup {"NONE"}
    PROVE  /\ \A f \in Reserved(refund) : refund[f].request # r
           /\ \A q \in Process : ~ (Reserves(job[q]) /\ job[q].request = r)
  <1>1. request[r].status \notin {"REFUND_PROCESSING", "COMPLETED"}
    BY DEF Early
  <1> QED
    BY <1>1 DEF Orderly, OneRefund, IssuerOK

(* A request is written that has no refund and that nobody else is about   *)
(* to refund.                                                              *)
LEMMA RequestWritten ==
    ASSUME Typed, Orderly, NEW r \in Request, NEW new,
           request' = [request EXCEPT ![r] = new], refund' = refund,
           StagesOK(new), RowStep(request[r], new),
           \A f \in Reserved(refund) : refund[f].request # r
    PROVE  /\ \A s \in Request : StagesOK(request'[s])
           /\ OneRefund(request', refund') /\ RowsStep
           /\ \A q \in Process :
                 /\ ClosingOK(job[q], request')
                 /\ ~ (Reserves(job[q]) /\ job[q].request = r) => IssuerOK(job[q], request', refund')
  <1>1. request'[r] = new /\ \A s \in Request \ {r} : request'[s] = request[s]
    BY DEF Typed, RequestsOK
  <1>2. \A s \in Request : StagesOK(request'[s])
    BY <1>1 DEF Orderly
  <1>3. OneRefund(request', refund')
    BY <1>1 DEF Orderly, OneRefund
  <1>4. RowsStep
    BY <1>1, SameRowStep DEF RowsStep, Typed, RequestsOK
  <1>5. ASSUME NEW q \in Process PROVE ClosingOK(job[q], request')
    <2>1. ClosingOK(job[q], request) /\ (job[q].pc \in {"close", "closing"} => job[q].request \in Request)
      BY DEF Orderly, Typed, JobOK, Deciding
    <2> QED
      BY <1>1, <2>1 DEF ClosingOK, RowStep
  <1>6. ASSUME NEW q \in Process, ~ (Reserves(job[q]) /\ job[q].request = r)
        PROVE  IssuerOK(job[q], request', refund')
    <2>1. IssuerOK(job[q], request, refund)
      BY DEF Orderly
    <2> QED
      BY <1>1, <1>6, <2>1 DEF IssuerOK, Reserves
  <1> QED
    BY <1>2, <1>3, <1>4, <1>5, <1>6

LEMMA OrderlyWrites ==
    ASSUME Typed, Orderly, NEW p \in Process, NEW j, job' = [job EXCEPT ![p] = j],
           NEW r \in Request, NEW new, request' = [request EXCEPT ![r] = new], refund' = refund,
           StagesOK(new), RowStep(request[r], new), request[r].status \in Early,
           Reserves(j) => j.request = r /\ new.status = "REFUND_PROCESSING",
           j.pc \in {"close", "closing"} =>
              j.request = r /\ new.status \in Decided /\ j.seen = new
    PROVE  Orderly' /\ RowsStep
  <1>1. /\ \A f \in Reserved(refund) : refund[f].request # r
        /\ \A q \in Process : ~ (Reserves(job[q]) /\ job[q].request = r)
    BY EarlyIsFree
  <1>2. /\ \A s \in Request : StagesOK(request'[s])
        /\ OneRefund(request', refund') /\ RowsStep
        /\ \A q \in Process : ClosingOK(job[q], request') /\ IssuerOK(job[q], request', refund')
    BY <1>1, RequestWritten
  <1>3. request'[r] = new
    BY DEF Typed, RequestsOK
  <1>4. IssuerOK(j, request', refund')
    BY <1>1, <1>3 DEF IssuerOK
  <1>5. ClosingOK(j, request')
    BY <1>3 DEF ClosingOK
  <1>6. \A q \in Process \ {p} : ~ (Reserves(j) /\ Reserves(job[q]) /\ j.request = job[q].request)
    BY <1>1
  <1>7. Orderly'
    BY <1>2, <1>4, <1>5, <1>6, OrderlyMoves
  <1> QED
    BY <1>2, <1>7

(* A handler whose request is still the one it loaded.                     *)
LEMMA Undisturbed ==
    ASSUME Typed, Orderly, NEW p \in Process, job[p].pc \in Deciding, ~Overtaken(p)
    PROVE  /\ job[p].request \in Request /\ job[p].seen = request[job[p].request]
           /\ RowOK(request[job[p].request]) /\ StagesOK(request[job[p].request])
           /\ request[job[p].request].status \in SeenStatus(job[p].pc)
           /\ request[job[p].request].item \in [Item -> ReturnItem]
  BY DecidingJob, RowFields DEF Overtaken, Orderly

LEMMA IdleIsQuiet ==
    /\ ~Reserves(Idle) /\ Idle.pc \notin {"close", "closing"}
    /\ \A requests : ClosingOK(Idle, requests)
  BY NullRows DEF Reserves, Issuing, ClosingOK

LEMMA OrderlyMovesOn ==
    ASSUME Typed, Orderly, NEW p \in Process, MoveOn(p) \/ CloseCommit(p), ~disturbed'
    PROVE  Orderly' /\ RowsStep
  <1> DEFINE r == job[p].request
             status == IF MoveOn(p) THEN Outcome[job[p].pc] ELSE "COMPLETED"
             new == [request[r] EXCEPT !.status = status]
  <1>1. job[p].pc \in Deciding /\ ~Overtaken(p) /\ refund' = refund
    BY DEF MoveOn, CloseCommit, Write, Deciding, Outcome, Allowed
  <1>2. /\ r \in Request /\ RowOK(request[r]) /\ StagesOK(request[r])
        /\ request[r].status \in SeenStatus(job[p].pc)
    BY <1>1, Undisturbed
  <1>3. request' = [request EXCEPT ![r] = new] /\ job' = [job EXCEPT ![p] = Idle]
    BY DEF MoveOn, CloseCommit, Write
  <1>4. status \in ReturnStatus
    BY DEF MoveOn, Outcome, ReturnStatus
  <1>5. RowOK(new) /\ new.status = status /\ new.item = request[r].item
    BY <1>2, <1>4, MovedRow
  <1>6. StagesOK(new) /\ RowStep(request[r], new) /\ request[r].status \in Early
    <2>1. CASE MoveOn(p)
      <3>1. job[p].pc \in DOMAIN Outcome /\ new.status = Outcome[job[p].pc]
        BY <1>5, <2>1 DEF MoveOn
      <3> HIDE DEF r, new
      <3> QED
        BY <1>2, <1>5, <3>1, MovesInOrder
    <2>2. CASE ~MoveOn(p)
      <3>1. request[r].status = "REFUND_APPROVED" /\ new.status = "COMPLETED"
        BY <1>2, <1>5, <2>2 DEF CloseCommit, SeenStatus, Allowed
      <3>2. new.status \in ReturnStatus
        BY <1>4, <1>5
      <3> HIDE DEF r, new
      <3>3. StagesOK(new)
        BY <1>2, <1>5, <3>1 DEF StagesOK, Before, Decided, Items
      <3>4. RowStep(request[r], new)
        BY <1>2, <1>5, <3>1, <3>2, MovedStep DEF ReleasedStatus, Decided
      <3> QED
        BY <3>1, <3>3, <3>4 DEF Early, ReturnStatus, ReleasedStatus
    <2> QED
      BY <2>1, <2>2
  <1> HIDE DEF new
  <1> QED
    BY <1>1, <1>2, <1>3, <1>6, IdleIsQuiet, OrderlyWrites

LEMMA OrderlyApproves ==
    ASSUME Typed, Orderly, NEW p \in Process, Approve(p) \/ Receive(p), ~disturbed'
    PROVE  Orderly' /\ RowsStep
  <1> DEFINE r == request[job[p].request]
             seen == job[p].seen
  <1>1. job[p].pc \in Deciding /\ ~Overtaken(p) /\ refund' = refund
    BY DEF Approve, Receive, Write, Deciding, Allowed
  <1>2. /\ job[p].request \in Request /\ seen = r /\ RowOK(r) /\ StagesOK(r)
        /\ r.status \in SeenStatus(job[p].pc)
    BY <1>1, Undisturbed
  <1>3. \E new : /\ StagesOK(new) /\ RowStep(r, new) /\ r.status \in Early
                 /\ Write(p, new, Idle)
    <2>1. CASE Approve(p)
      <3>1. PICK units : /\ Write(p, Approved(r, seen, units), Idle)
                         /\ \A i \in Items(seen) : units[i] \in 0..r.item[i].quantity
        BY <2>1, ApproveWrites
      <3>2. r.status = "RETURN_REQUESTED"
        <4>1. job[p].pc = "approve"
          BY <2>1 DEF Approve
        <4>2. r.status \in SeenStatus("approve")
          BY <1>2, <4>1
        <4> QED
          BY <4>2 DEF SeenStatus, Allowed
      <3> HIDE DEF r, seen
      <3>3. StagesOK(Approved(r, r, units)) /\ RowStep(r, Approved(r, r, units))
        BY <1>2, <3>1, <3>2, ApprovesInOrder
      <3> QED
        BY <1>2, <3>1, <3>2, <3>3 DEF Early, ReturnStatus, ReleasedStatus
    <2>2. CASE Receive(p)
      <3>1. PICK units : /\ Write(p, Received(r, seen, units), Idle)
                         /\ \A i \in Items(seen) : /\ units[i] \in 0..r.item[i].quantity
                                                   /\ units[i] <= AtLeastZero(seen.item[i].approved)
        BY <2>2, ReceiveWrites
      <3>2. r.status \in {"PICKUP_SCHEDULED", "PICKED_UP"}
        <4>1. job[p].pc = "receive"
          BY <2>2 DEF Receive
        <4>2. r.status \in SeenStatus("receive")
          BY <1>2, <4>1
        <4> QED
          BY <4>2 DEF SeenStatus, Allowed
      <3> HIDE DEF r, seen
      <3>3. StagesOK(Received(r, r, units)) /\ RowStep(r, Received(r, r, units))
        BY <1>2, <3>1, <3>2, ReceivesInOrder
      <3> QED
        BY <1>2, <3>1, <3>2, <3>3 DEF Early, ReturnStatus, ReleasedStatus
    <2> QED
      BY <2>1, <2>2
  <1>4. PICK new : /\ StagesOK(new) /\ RowStep(r, new) /\ r.status \in Early
                   /\ Write(p, new, Idle)
    BY <1>3
  <1>5. request' = [request EXCEPT ![job[p].request] = new] /\ job' = [job EXCEPT ![p] = Idle]
    BY <1>4 DEF Write
  <1> QED
    BY <1>1, <1>2, <1>4, <1>5, IdleIsQuiet, OrderlyWrites

LEMMA OrderlyInspects ==
    ASSUME Typed, Orderly, NEW p \in Process, NEW i \in Item, NEW accepted \in Nat,
           NEW deduction \in Deduction, Inspect(p, i, accepted, deduction), ~disturbed'
    PROVE  Orderly' /\ RowsStep
  <1> DEFINE r == request[job[p].request]
             seen == job[p].seen
             new == Inspected(r, i, accepted, deduction)
  <1>1. /\ job[p].pc = "inspect" /\ ~Overtaken(p) /\ refund' = refund
        /\ ~ (r.item[i].accepted # None /\ accepted > r.item[i].accepted)
        /\ i \in Items(seen) /\ accepted <= AtLeastZero(seen.item[i].received)
        /\ job' = [job EXCEPT ![p] = Idle]
    BY DEF Inspect
  <1>2. /\ job[p].request \in Request /\ seen = r /\ RowOK(r) /\ StagesOK(r)
        /\ r.status \in SeenStatus("inspect")
    BY <1>1, Undisturbed DEF Deciding, Allowed
  <1>3. /\ request' = [request EXCEPT ![job[p].request] = new]
        /\ accepted \in 0..r.item[i].quantity /\ deduction \in Nat
    BY InspectWrites
  <1>4. r.status = "INSPECTION"
    BY <1>2 DEF SeenStatus, Allowed
  <1>5. i \in Items(r) /\ accepted <= AtLeastZero(r.item[i].received)
    BY <1>1, <1>2
  <1> HIDE DEF r, seen, new
  <1>6. StagesOK(new) /\ RowStep(r, new)
    BY <1>1, <1>2, <1>3, <1>4, <1>5, InspectsInOrder DEF new
  <1>7. r.status \in Early
    BY <1>4 DEF Early, ReturnStatus, ReleasedStatus
  <1> QED
    BY <1>1, <1>2, <1>3, <1>6, <1>7, IdleIsQuiet, OrderlyWrites DEF r

LEMMA OrderlyApprovesRefund ==
    ASSUME Typed, Orderly, NEW p \in Process, ApproveRefund(p), ~disturbed'
    PROVE  Orderly' /\ RowsStep
  <1> DEFINE r == request[job[p].request]
             new == RefundedRow(r, job[p].seen, job[p].shipping)
             pc == IF job[p].amount > 0 THEN "send" ELSE "close"
             j == [job[p] EXCEPT !.pc = pc, !.seen = new]
  <1>1. /\ job[p].pc = "refund" /\ ~Overtaken(p) /\ refund' = refund
        /\ request' = [request EXCEPT ![job[p].request] = new] /\ job' = [job EXCEPT ![p] = j]
    BY ApproveRefundWrites DEF ApproveRefund, Write
  <1>2. /\ job[p].request \in Request /\ job[p].seen = r /\ RowOK(r) /\ StagesOK(r)
        /\ r.status \in SeenStatus("refund") /\ job[p] \in Job /\ job[p].shipping \in Nat
    BY <1>1, Undisturbed DEF Deciding, Typed, Job
  <1>3. r.status = "INSPECTION"
    BY <1>2 DEF SeenStatus, Allowed
  <1>4. new = RefundedRow(r, r, job[p].shipping)
    BY <1>2
  <1>5. j.pc \in {"send", "close"} /\ j.request = job[p].request /\ j.seen = new
    BY <1>2 DEF Job
  <1> HIDE DEF r, new, pc, j
  <1>6. StagesOK(new) /\ RowStep(r, new)
    BY <1>2, <1>3, <1>4, RefundsInOrder
  <1>7. new.status = "REFUND_APPROVED"
    BY <1>2, <1>4, RefundedRows
  <1>8. r.status \in Early
    BY <1>3 DEF Early, ReturnStatus, ReleasedStatus
  <1>9. ~Reserves(j) /\ new.status \in Decided
    BY <1>5, <1>7 DEF Reserves, Issuing, Decided
  <1> QED
    BY <1>1, <1>2, <1>5, <1>6, <1>8, <1>9, OrderlyWrites DEF r

LEMMA OrderlySends ==
    ASSUME Typed, Orderly, NEW p \in Process, Send(p), ~disturbed'
    PROVE  Orderly' /\ RowsStep
  <1> DEFINE r == job[p].request
             new == [request[r] EXCEPT !.status = "REFUND_PROCESSING"]
             j == [job[p] EXCEPT !.pc = "reserve", !.seen = NoRequestRow]
  <1>1. /\ job[p].pc = "send" /\ ~Overtaken(p) /\ refund' = refund
        /\ request' = [request EXCEPT ![r] = new] /\ job' = [job EXCEPT ![p] = j]
    BY DEF Send, Write
  <1>2. /\ r \in Request /\ RowOK(request[r]) /\ StagesOK(request[r])
        /\ request[r].status \in SeenStatus("send") /\ job[p] \in Job
    BY <1>1, Undisturbed DEF Deciding, Typed
  <1>3. request[r].status = "REFUND_APPROVED"
    BY <1>2 DEF SeenStatus, Allowed
  <1>4. RowOK(new) /\ new.status = "REFUND_PROCESSING" /\ new.item = request[r].item
    BY <1>2, MovedRow DEF ReturnStatus
  <1>5. j.pc = "reserve" /\ j.request = r
    BY <1>2 DEF Job
  <1> HIDE DEF r, new, j
  <1>6. StagesOK(new)
    BY <1>2, <1>3, <1>4 DEF StagesOK, Before, Decided, Items
  <1>7. RowStep(request[r], new)
    BY <1>2, <1>3, <1>4, MovedStep DEF ReleasedStatus, Decided, ReturnStatus
  <1>8. request[r].status \in Early
    BY <1>3 DEF Early, ReturnStatus, ReleasedStatus
  <1> QED
    BY <1>1, <1>2, <1>4, <1>5, <1>6, <1>7, <1>8, OrderlyWrites

(* Steps that write no request and reserve nothing.                        *)
LEMMA OrderlyElsewhere ==
    ASSUME Typed, Orderly, NEW p \in Process, NEW j, job' = [job EXCEPT ![p] = j],
           request' = request, refund' = refund, j.pc \notin Issuing \cup {"close", "closing"}
    PROVE  Orderly' /\ RowsStep
  BY OrderlyGoesOn DEF Reserves, ClosingOK

LEMMA OrderlyLoads ==
    ASSUME Typed, Orderly, NEW p \in Process,
           \/ \E r \in Request : \/ \E action \in DOMAIN Allowed : Load(p, r, action)
                                 \/ LoadRefund(p, r) \/ LoadRetry(p, r)
           \/ \E amount \in Goodwill : RefundOrder(p, amount)
           \/ \E f \in Refund : Webhook(p, f)
           \/ SettleRead(p) \/ SettleSum(p) \/ Crash(p)
           \/ \E status \in {"pending", "succeeded", "failed"} : ProviderAnswers(p, status)
           \/ \E status \in {"pending", "succeeded"} : AnswerLost(p, status)
           \/ ProviderRefuses(p)
    PROVE  Orderly' /\ RowsStep
  <1>1. request' = request /\ refund' = refund
    BY DEF Load, LoadRefund, LoadRetry, RefundOrder, Webhook, SettleRead, SettleSum, Crash,
           ProviderAnswers, AnswerLost, ProviderRefuses
  <1>2. Idle.pc = "idle" /\ Idle.request = NoRequest /\ job[p] \in Job /\ job \in [Process -> Job]
    BY NullRows DEF Typed, Idle
  <1>3. ASSUME NEW r \in Request, NEW action \in DOMAIN Allowed, Load(p, r, action)
        PROVE  Orderly' /\ RowsStep
    <2> DEFINE j == [Idle EXCEPT !.pc = action, !.request = r, !.seen = request[r]]
    <2>1. job' = [job EXCEPT ![p] = j] /\ j.pc = action
      BY <1>3 DEF Load, Idle
    <2>2. j.pc \notin Issuing \cup {"close", "closing"}
      BY <2>1 DEF Issuing, Allowed
    <2> HIDE DEF j
    <2> QED
      BY <1>1, <2>1, <2>2, OrderlyElsewhere
  <1>4. ASSUME NEW r \in Request, LoadRefund(p, r)
        PROVE  Orderly' /\ RowsStep
    <2>1. PICK amount, shipping :
             job' = [job EXCEPT ![p] = [Idle EXCEPT !.pc = "refund", !.request = r, !.seen = request[r],
                                                    !.shipping = shipping, !.amount = amount]]
      BY <1>4 DEF LoadRefund
    <2> DEFINE j == [Idle EXCEPT !.pc = "refund", !.request = r, !.seen = request[r],
                                                    !.shipping = shipping, !.amount = amount]
    <2>2. j.pc = "refund"
      BY DEF Idle
    <2>3. job' = [job EXCEPT ![p] = j]
      BY <2>1
    <2> HIDE DEF j
    <2> QED
      BY <1>1, <2>2, <2>3, OrderlyElsewhere DEF Issuing
  <1>5. ASSUME NEW r \in Request, LoadRetry(p, r)
        PROVE  Orderly' /\ RowsStep
    <2>1. PICK amount :
             job' = [job EXCEPT ![p] = [Idle EXCEPT !.pc = "send", !.request = r, !.seen = request[r],
                                                    !.amount = amount]]
      BY <1>5 DEF LoadRetry
    <2> DEFINE j == [Idle EXCEPT !.pc = "send", !.request = r, !.seen = request[r], !.amount = amount]
    <2>2. j.pc = "send"
      BY DEF Idle
    <2>3. job' = [job EXCEPT ![p] = j]
      BY <2>1
    <2> HIDE DEF j
    <2> QED
      BY <1>1, <2>2, <2>3, OrderlyElsewhere DEF Issuing
  <1>6. ASSUME NEW amount \in Goodwill, RefundOrder(p, amount)
        PROVE  Orderly' /\ RowsStep
    <2> DEFINE j == [Idle EXCEPT !.pc = "reserve", !.amount = amount]
    <2>1. job' = [job EXCEPT ![p] = j] /\ j.pc = "reserve" /\ j.request = NoRequest
      BY <1>6 DEF RefundOrder, Idle
    <2> HIDE DEF j
    <2> QED
      BY <1>1, <2>1, NullAssumption, OrderlyGoesOn DEF Reserves, ClosingOK
  <1>7. ASSUME NEW f \in Refund, Webhook(p, f)
        PROVE  Orderly' /\ RowsStep
    <2>1. PICK outcome :
             job' = [job EXCEPT ![p] = [Idle EXCEPT !.pc = "settle", !.refund = f, !.outcome = outcome]]
      BY <1>7 DEF Webhook
    <2> DEFINE j == [Idle EXCEPT !.pc = "settle", !.refund = f, !.outcome = outcome]
    <2>2. j.pc = "settle"
      BY DEF Idle
    <2>3. job' = [job EXCEPT ![p] = j]
      BY <2>1
    <2> HIDE DEF j
    <2> QED
      BY <1>1, <2>2, <2>3, OrderlyElsewhere DEF Issuing
  <1>8. ASSUME NEW pc \in {"record", "settle", "sum", "commit"}, NEW outcome, NEW result,
               job' = [job EXCEPT ![p] = [job[p] EXCEPT !.pc = pc, !.outcome = outcome, !.result = result]]
        PROVE  Orderly' /\ RowsStep
    <2> DEFINE j == [job[p] EXCEPT !.pc = pc, !.outcome = outcome, !.result = result]
    <2>1. j.pc = pc
      BY <1>2 DEF Job
    <2>2. job' = [job EXCEPT ![p] = j]
      BY <1>8
    <2> HIDE DEF j
    <2> QED
      BY <1>1, <2>1, <2>2, OrderlyElsewhere DEF Issuing
  <1>9. CASE job' = [job EXCEPT ![p] = Idle]
    BY <1>1, <1>2, <1>9, OrderlyElsewhere DEF Issuing
  <1>10. CASE SettleRead(p)
    <2>1. CASE refund[job[p].refund].status \in {job[p].outcome, "PROCESSED"}
      BY <1>2, <1>9, <1>10, <2>1 DEF SettleRead
    <2>2. CASE refund[job[p].refund].status \notin {job[p].outcome, "PROCESSED"}
      <3>1. \E pc \in {"record", "settle", "sum", "commit"} :
               job' = [job EXCEPT ![p] = [job[p] EXCEPT !.pc = pc, !.outcome = job[p].outcome,
                                                        !.result = job[p].result]]
        BY <1>2, <1>10, <2>2 DEF SettleRead, Job
      <3> QED
        BY <1>8, <3>1
    <2> QED
      BY <2>1, <2>2
  <1>11. CASE SettleSum(p)
    <2>1. PICK result : job' = [job EXCEPT ![p].pc = "commit", ![p].result = result]
      BY <1>11 DEF SettleSum
    <2>2. job' = [job EXCEPT ![p] = [job[p] EXCEPT !.pc = "commit", !.outcome = job[p].outcome,
                                                   !.result = result]]
      BY <1>2, <2>1 DEF Job
    <2> QED
      BY <1>8, <2>2
  <1>12. CASE \/ \E status \in {"pending", "succeeded", "failed"} : ProviderAnswers(p, status)
              \/ \E status \in {"pending", "succeeded"} : AnswerLost(p, status)
              \/ ProviderRefuses(p)
    <2>1. PICK pc, outcome :
             /\ pc \in {"record", "settle"}
             /\ job' = [job EXCEPT ![p].pc = pc, ![p].outcome = outcome]
      BY <1>12 DEF ProviderAnswers, AnswerLost, ProviderRefuses
    <2>2. job' = [job EXCEPT ![p] = [job[p] EXCEPT !.pc = pc, !.outcome = outcome,
                                                   !.result = job[p].result]]
      BY <1>2, <2>1 DEF Job
    <2>3. pc \in {"record", "settle", "sum", "commit"}
      BY <2>1
    <2> QED
      BY <1>8, <2>2, <2>3
  <1>13. CASE Crash(p)
    BY <1>9, <1>13 DEF Crash
  <1> QED
    BY <1>3, <1>4, <1>5, <1>6, <1>7, <1>10, <1>11, <1>12, <1>13

LEMMA OrderlyCloses ==
    ASSUME Typed, Orderly, NEW p \in Process, Close(p)
    PROVE  Orderly' /\ RowsStep
  <1>1. PICK next : job' = [job EXCEPT ![p].pc = "closing", ![p].next = next]
    BY DEF Close
  <1> DEFINE j == [job[p] EXCEPT !.pc = "closing", !.next = next]
  <1>2. job[p] \in Job /\ job[p].pc = "close" /\ request' = request /\ refund' = refund
        /\ ClosingOK(job[p], request)
    BY DEF Typed, Close, Orderly
  <1>3. job' = [job EXCEPT ![p] = j] /\ j.pc = "closing" /\ j.request = job[p].request /\ j.seen = job[p].seen
    BY <1>1, <1>2 DEF Job
  <1> HIDE DEF j
  <1>4. ~Reserves(j) /\ ClosingOK(j, request)
    BY <1>2, <1>3 DEF Reserves, Issuing, ClosingOK
  <1> QED
    BY <1>2, <1>3, <1>4, OrderlyGoesOn

LEMMA OrderlyReserves ==
    ASSUME Typed, Orderly, NEW p \in Process, ReserveRead(p)
    PROVE  Orderly' /\ RowsStep
  <1> DEFINE taken == Amounts(Reserving)
             j == IF taken + job[p].amount <= Captured
                    THEN [job[p] EXCEPT !.pc = "create", !.result = taken]
                    ELSE IF job[p].request = NoRequest THEN Idle ELSE [job[p] EXCEPT !.pc = "refused"]
  <1>1. /\ job' = [job EXCEPT ![p] = j] /\ request' = request /\ refund' = refund
        /\ job[p] \in Job /\ job[p].pc = "reserve"
    BY DEF ReserveRead, Typed
  <1>2. j = Idle \/ (j.pc \in {"create", "refused"} /\ j.request = job[p].request)
    BY <1>1 DEF Job
  <1> HIDE DEF taken, j
  <1>3. (Reserves(j) => Reserves(job[p]) /\ j.request = job[p].request) /\ ClosingOK(j, request)
    BY <1>1, <1>2, IdleIsQuiet DEF Reserves, Issuing, ClosingOK
  <1> QED
    BY <1>1, <1>3, OrderlyGoesOn

LEMMA OrderlyInserts ==
    ASSUME Typed, Orderly, NEW p \in Process, NEW f \in Refund, ReserveCommit(p, f)
    PROVE  Orderly' /\ RowsStep
  <1> DEFINE r == job[p].request
             j == [Idle EXCEPT !.pc = "call", !.refund = f]
  <1>1. /\ job' = [job EXCEPT ![p] = j] /\ j.pc = "call" /\ request' = request
        /\ refund[f].status = "NONE" /\ refund'[f].status = "PENDING" /\ refund'[f].request = r
        /\ \A g \in Refund \ {f} : refund'[g] = refund[g]
        /\ job[p].pc = "create"
    BY NullRows DEF ReserveCommit, Typed, Idle
  <1>2. Reserved(refund') = Reserved(refund) \cup {f} /\ f \notin Reserved(refund)
    BY <1>1 DEF Reserved
  <1>3. IssuerOK(job[p], request, refund) /\ \A q \in Process : OneIssuer(p, q)
    BY DEF Orderly
  <1>4. r \in Request => /\ request[r].status = "REFUND_PROCESSING"
                         /\ \A g \in Reserved(refund) : refund[g].request # r
    BY <1>1, <1>3 DEF IssuerOK, Reserves, Issuing
  <1> HIDE DEF j, r
  <1>5. OneRefund(request', refund')
    <2>1. OneRefund(request, refund)
      BY DEF Orderly
    <2>2. \A g \in Reserved(refund) : g \in Refund /\ refund'[g] = refund[g]
      BY <1>1, <1>2 DEF Reserved
    <2> QED
      BY <1>1, <1>2, <1>4, <2>1, <2>2 DEF OneRefund
  <1>6. ASSUME NEW q \in Process \ {p}
        PROVE  IssuerOK(job[q], request', refund') /\ ClosingOK(job[q], request')
    <2>1. IssuerOK(job[q], request, refund) /\ ClosingOK(job[q], request) /\ OneIssuer(p, q)
      BY DEF Orderly
    <2>2. Reserves(job[q]) => job[q].request # r
      BY <1>1, <2>1 DEF OneIssuer, Reserves, Issuing, r
    <2>3. \A g \in Reserved(refund) : g \in Refund /\ refund'[g] = refund[g]
      BY <1>1, <1>2 DEF Reserved
    <2> QED
      BY <1>1, <1>2, <2>1, <2>2, <2>3 DEF IssuerOK
  <1>7. ~Reserves(j) /\ IssuerOK(j, request', refund') /\ ClosingOK(j, request')
    BY <1>1 DEF Reserves, Issuing, IssuerOK, ClosingOK
  <1>8. \A s \in Request : StagesOK(request'[s])
    BY <1>1 DEF Orderly
  <1>9. Orderly'
    BY <1>1, <1>5, <1>6, <1>7, <1>8, OrderlyMoves
  <1> QED
    BY <1>1, <1>9, RowsStepUnchanged

LEMMA OrderlyRefuses ==
    ASSUME Typed, Orderly, NEW p \in Process, Refused(p)
    PROVE  Orderly' /\ RowsStep
  <1> DEFINE r == job[p].request
             new == [request[r] EXCEPT !.status = "REFUND_APPROVED"]
  <1>1. /\ request' = [request EXCEPT ![r] = new] /\ job' = [job EXCEPT ![p] = Idle] /\ refund' = refund
        /\ r \in Request /\ Reserves(job[p]) /\ RowOK(request[r]) /\ StagesOK(request[r])
    BY DEF Refused, Typed, JobOK, Reserves, Issuing, RequestsOK, Orderly
  <1>2. /\ request[r].status = "REFUND_PROCESSING"
        /\ \A f \in Reserved(refund) : refund[f].request # r
    BY <1>1 DEF Orderly, IssuerOK
  <1>3. RowOK(new) /\ new.status = "REFUND_APPROVED" /\ new.item = request[r].item
    BY <1>1, MovedRow DEF ReturnStatus
  <1>4. ASSUME NEW q \in Process \ {p} PROVE ~ (Reserves(job[q]) /\ job[q].request = r)
    <2>1. OneIssuer(p, q)
      BY DEF Orderly
    <2> QED
      BY <1>1, <2>1 DEF OneIssuer
  <1> HIDE DEF r, new
  <1>5. StagesOK(new)
    BY <1>1, <1>2, <1>3 DEF StagesOK, Before, Decided, Items
  <1>6. RowStep(request[r], new)
    BY <1>1, <1>2, <1>3, MovedStep DEF ReleasedStatus, Decided, ReturnStatus
  <1>7. /\ \A s \in Request : StagesOK(request'[s])
        /\ OneRefund(request', refund') /\ RowsStep
        /\ \A q \in Process \ {p} : ClosingOK(job[q], request') /\ IssuerOK(job[q], request', refund')
    BY <1>1, <1>2, <1>4, <1>5, <1>6, RequestWritten
  <1>8. ~Reserves(Idle) /\ ClosingOK(Idle, request') /\ IssuerOK(Idle, request', refund')
    BY IdleIsQuiet DEF IssuerOK
  <1>9. Orderly'
    BY <1>1, <1>7, <1>8, OrderlyMoves
  <1> QED
    BY <1>7, <1>9

LEMMA OrderlyRecords ==
    ASSUME Typed, Matched, Orderly, NEW p \in Process, Record(p)
    PROVE  Orderly' /\ RowsStep
  <1> DEFINE f == job[p].refund
             j == IF job[p].outcome = "PROCESSING" THEN Idle ELSE [job[p] EXCEPT !.pc = "settle"]
  <1>1. f \in Refund /\ refund[f].status = "PENDING" /\ refund[f] \in RefundRow /\ job[p] \in Job
    BY DEF Record, Typed, JobOK, Calling, Matched, CallOK
  <1>2. /\ refund'[f].status = "PROCESSING" /\ refund'[f].request = refund[f].request
        /\ \A g \in Refund \ {f} : refund'[g] = refund[g]
        /\ job' = [job EXCEPT ![p] = j] /\ request' = request
    BY <1>1 DEF Record, Typed, RefundRow
  <1>3. j.pc \in {"idle", "settle"}
    BY <1>1, NullRows DEF Job
  <1> HIDE DEF f, j
  <1>4. /\ Reserved(refund') = Reserved(refund)
        /\ \A g \in Refund : /\ refund'[g].request = refund[g].request
                             /\ refund'[g].status = "PROCESSED" <=> refund[g].status = "PROCESSED"
    BY <1>1, <1>2 DEF Reserved
  <1>5. OneRefund(request', refund')
    BY <1>2, <1>4 DEF Orderly, OneRefund, Reserved
  <1>6. \A q \in Process : IssuerOK(job[q], request', refund') /\ ClosingOK(job[q], request')
    BY <1>2, <1>4 DEF Orderly, IssuerOK, Reserved
  <1>7. ~Reserves(j) /\ IssuerOK(j, request', refund') /\ ClosingOK(j, request')
    BY <1>3 DEF Reserves, Issuing, IssuerOK, ClosingOK
  <1>8. \A s \in Request : StagesOK(request'[s])
    BY <1>2 DEF Orderly
  <1>9. Orderly'
    BY <1>2, <1>5, <1>6, <1>7, <1>8, OrderlyMoves
  <1> QED
    BY <1>2, <1>9, RowsStepUnchanged

(* What an undisturbed settlement finds: the one refund of its return.     *)
LEMMA SettlesInOrder ==
    ASSUME Typed, Matched, Orderly, NEW p \in Process, SettleCommit(p), ~disturbed'
    PROVE  LET f == job[p].refund
               r == refund[f].request
           IN  /\ f \in Reserved(refund) /\ r \in Request \cup {NoRequest}
               /\ job[p].outcome = "PROCESSED" <=> refund'[f].status = "PROCESSED"
               /\ Reserved(refund') = IF job[p].outcome = "PROCESSED" THEN Reserved(refund)
                                      ELSE Reserved(refund) \ {f}
               /\ r = NoRequest => request' = request
               /\ r \in Request =>
                     /\ request' = [request EXCEPT ![r].status =
                                      IF job[p].outcome = "FAILED" THEN "REFUND_APPROVED" ELSE "COMPLETED"]
                     /\ request[r].status \in {"REFUND_PROCESSING", "COMPLETED"}
                     /\ request[r].status = "COMPLETED" => job[p].outcome = "PROCESSED"
                     /\ \A g \in Reserved(refund) : refund[g].request = r => g = f
  <1> DEFINE f == job[p].refund
             r == refund[f].request
             open == {g \in OfRequest(r) \ {f} : refund[g].status \in {"PENDING", "PROCESSING"}}
  <1>1. /\ f \in Refund /\ refund[f].status # "NONE"
        /\ refund'[f].status = job[p].outcome
        /\ \A g \in Refund \ {f} : refund'[g] = refund[g]
        /\ job[p].outcome \in {"PROCESSED", "FAILED"}
        /\ IF refund[f].known
           THEN paidBack[f] \in {"succeeded", "failed"} /\ job[p].outcome = Answer[paidBack[f]]
           ELSE job[p].outcome = "FAILED" /\ refund[f].status = "PENDING"
    BY SettledRefund
  <1>2. RefundOK(refund[f], paidBack[f], faults > 0) /\ refund[f] \in RefundRow
        /\ r \in Request \cup {NoRequest}
    BY <1>1 DEF Matched, Typed, RefundRow
  <1>3. ~ (job[p].outcome = "FAILED" /\ refund[f].status = "FAILED")
    BY DEF SettleCommit
  <1>4. refund[f].status \in {"PENDING", "PROCESSING", "PROCESSED"}
        /\ (refund[f].status = "PROCESSED" => job[p].outcome = "PROCESSED")
    <2> HIDE DEF f
    <2> QED
      BY <1>1, <1>2, <1>3, Answers DEF RefundOK, RefundRow
  <1>5. f \in Reserved(refund)
    BY <1>1, <1>4 DEF Reserved
  <1>6. r \in Request => /\ request[r].status = IF refund[f].status = "PROCESSED" THEN "COMPLETED"
                                                ELSE "REFUND_PROCESSING"
                         /\ \A g \in Reserved(refund) : refund[g].request = r => g = f
    BY <1>5 DEF Orderly, OneRefund
  <1>7. r \in Request => open = {}
    BY <1>6 DEF OfRequest, Reserved
  <1>8. Settle(p, r)
    BY DEF SettleCommit
  <1>9. r = NoRequest => request' = request
    BY <1>8, NullAssumption DEF Settle
  <1>10. r \in Request => request' = [request EXCEPT ![r].status =
                             IF job[p].outcome = "FAILED" THEN "REFUND_APPROVED" ELSE "COMPLETED"]
    BY <1>7, <1>8, NullAssumption DEF Settle
  <1>11. Reserved(refund') = IF job[p].outcome = "PROCESSED" THEN Reserved(refund)
                             ELSE Reserved(refund) \ {f}
    <2> HIDE DEF f
    <2> QED
      BY <1>1, <1>4 DEF Reserved
  <1> QED
    BY <1>1, <1>2, <1>4, <1>5, <1>6, <1>9, <1>10, <1>11

LEMMA OrderlySettles ==
    ASSUME Typed, Matched, Orderly, NEW p \in Process, SettleCommit(p), ~disturbed'
    PROVE  Orderly' /\ RowsStep
  <1> DEFINE f == job[p].refund
             r == refund[f].request
             status == IF job[p].outcome = "FAILED" THEN "REFUND_APPROVED" ELSE "COMPLETED"
             new == [request[r] EXCEPT !.status = status]
  <1>1. /\ f \in Reserved(refund) /\ r \in Request \cup {NoRequest}
        /\ job[p].outcome = "PROCESSED" <=> refund'[f].status = "PROCESSED"
        /\ Reserved(refund') = IF job[p].outcome = "PROCESSED" THEN Reserved(refund)
                               ELSE Reserved(refund) \ {f}
    BY SettlesInOrder
  <1>2. /\ refund'[f].request = r /\ \A g \in Refund \ {f} : refund'[g] = refund[g]
        /\ job[p].outcome \in {"PROCESSED", "FAILED"}
        /\ job' = [job EXCEPT ![p] = Idle] /\ f \in Refund
    BY SettledRefund, SettleWrites
  <1>3. \A g \in Reserved(refund) : g \in Refund /\ refund'[g].request = refund[g].request
    BY <1>2 DEF Reserved
  <1>4. r = NoRequest => request' = request
    BY SettlesInOrder
  <1>5. r \in Request =>
           /\ request' = [request EXCEPT ![r] = new]
           /\ request[r].status \in {"REFUND_PROCESSING", "COMPLETED"}
           /\ request[r].status = "COMPLETED" => job[p].outcome = "PROCESSED"
           /\ \A g \in Reserved(refund) : refund[g].request = r => g = f
    BY SettlesInOrder
  <1>6. r \in Request =>
           /\ RowOK(request[r]) /\ StagesOK(request[r])
           /\ RowOK(new) /\ new.status = status /\ new.item = request[r].item
           /\ request'[r] = new /\ \A s \in Request \ {r} : request'[s] = request[s]
    <2> SUFFICES ASSUME r \in Request
                 PROVE  /\ RowOK(request[r]) /\ StagesOK(request[r])
                        /\ RowOK(new) /\ new.status = status /\ new.item = request[r].item
                        /\ request'[r] = new /\ \A s \in Request \ {r} : request'[s] = request[s]
      OBVIOUS
    <2>1. RowOK(request[r]) /\ StagesOK(request[r]) /\ status \in ReturnStatus
      BY DEF Typed, RequestsOK, Orderly, ReturnStatus
    <2>2. RowOK(new) /\ new.status = status /\ new.item = request[r].item
      BY <2>1, MovedRow
    <2>3. request' = [request EXCEPT ![r] = new]
      BY <1>5
    <2> HIDE DEF new, r
    <2>4. request'[r] = new /\ \A s \in Request \ {r} : request'[s] = request[s]
      BY <2>3 DEF Typed, RequestsOK
    <2> QED
      BY <2>1, <2>2, <2>4
  <1>7. r \in Request /\ request[r].status = "COMPLETED" => new = request[r]
    BY <1>2, <1>5, <1>6 DEF RowOK, RequestRow
  <1> HIDE DEF new, r, f
  <1>8. r \in Request => StagesOK(new) /\ RowStep(request[r], new)
    <2>1. r \in Request => StagesOK(new)
      BY <1>5, <1>6 DEF StagesOK, Before, Decided, Items
    <2>2. r \in Request => RowStep(request[r], new)
      BY <1>5, <1>6, <1>7, MovedStep DEF ReleasedStatus, Decided, ReturnStatus
    <2> QED
      BY <2>1, <2>2
  <1>9. RowsStep /\ \A s \in Request : StagesOK(request'[s])
    <2>1. CASE r \in Request
      BY <1>6, <1>8, <2>1, SameRowStep DEF RowsStep, Typed, RequestsOK, Orderly
    <2>2. CASE r \notin Request
      BY <1>1, <1>4, <2>2, RowsStepUnchanged DEF Orderly
    <2> QED
      BY <2>1, <2>2
  <1>10. OneRefund(request', refund')
    <2> SUFFICES ASSUME NEW g \in Reserved(refund'), refund'[g].request \in Request
                 PROVE  /\ request'[refund'[g].request].status =
                              IF refund'[g].status = "PROCESSED" THEN "COMPLETED" ELSE "REFUND_PROCESSING"
                        /\ \A h \in Reserved(refund') : refund'[h].request = refund'[g].request => h = g
      BY DEF OneRefund
    <2>1. Reserved(refund') \subseteq Reserved(refund) /\ g \in Reserved(refund)
      BY <1>1
    <2>2. \A h \in Reserved(refund') : refund'[h].request = refund'[g].request => h = g
      BY <1>3, <2>1 DEF Orderly, OneRefund
    <2>3. CASE g = f
      <3>1. job[p].outcome = "PROCESSED" /\ refund'[g].status = "PROCESSED" /\ r \in Request
        BY <1>1, <1>2, <2>3
      <3> QED
        BY <1>2, <1>6, <2>2, <2>3, <3>1
    <2>4. CASE g # f
      <3>1. refund'[g] = refund[g] /\ refund[g].request # r
        BY <1>2, <1>3, <1>5, <2>1, <2>4
      <3>2. request'[refund[g].request] = request[refund[g].request]
        BY <1>1, <1>4, <1>6, <3>1
      <3> QED
        BY <2>1, <2>2, <3>1, <3>2 DEF Orderly, OneRefund
    <2> QED
      BY <2>3, <2>4
  <1>11. ASSUME NEW q \in Process
         PROVE  IssuerOK(job[q], request', refund') /\ ClosingOK(job[q], request')
    <2>1. /\ IssuerOK(job[q], request, refund) /\ ClosingOK(job[q], request)
          /\ job[q].pc \in {"close", "closing"} => job[q].request \in Request
      BY DEF Orderly, Typed, JobOK, Deciding
    <2>2. ClosingOK(job[q], request')
      BY <1>9, <2>1 DEF ClosingOK, RowsStep, RowStep
    <2>3. IssuerOK(job[q], request', refund')
      <3> SUFFICES ASSUME Reserves(job[q])
                   PROVE  /\ request'[job[q].request].status = "REFUND_PROCESSING"
                          /\ \A g \in Reserved(refund') : refund'[g].request # job[q].request
        BY DEF IssuerOK
      <3>1. /\ request[job[q].request].status = "REFUND_PROCESSING" /\ job[q].request \in Request
            /\ \A g \in Reserved(refund) : refund[g].request # job[q].request
        BY <2>1 DEF IssuerOK, Reserves
      <3>2. r # job[q].request
        BY <1>1, <3>1 DEF r
      <3>3. request'[job[q].request] = request[job[q].request]
        BY <1>1, <1>4, <1>6, <3>1, <3>2
      <3> QED
        BY <1>1, <1>3, <3>1, <3>3
    <2> QED
      BY <2>2, <2>3
  <1>12. ~Reserves(Idle) /\ ClosingOK(Idle, request') /\ IssuerOK(Idle, request', refund')
    BY IdleIsQuiet DEF IssuerOK
  <1>13. Orderly'
    BY <1>2, <1>9, <1>10, <1>11, <1>12, OrderlyMoves
  <1> QED
    BY <1>9, <1>13

LEMMA OrderlyStays ==
    ASSUME Typed, Orderly,
           \/ Deliver \/ UNCHANGED vars
           \/ \E f \in Refund, status \in {"succeeded", "failed"} : ProviderDecides(f, status)
    PROVE  Orderly' /\ RowsStep
  <1>1. request' = request /\ refund' = refund /\ job' = job
    BY DEF Deliver, ProviderDecides, vars
  <1>2. Orderly'
    BY <1>1 DEF Orderly, OneIssuer
  <1> QED
    BY <1>1, <1>2, RowsStepUnchanged

LEMMA OrderlyCreates ==
    ASSUME Typed, Orderly, NEW r \in Request, CreateRequest(r)
    PROVE  Orderly' /\ RowsStep
  <1>1. PICK asked \in Asked :
              /\ request' = [request EXCEPT ![r] = Created(asked)]
              /\ request[r].status = "NONE" /\ UNCHANGED <<row, refund, paidBack, job, disturbed, faults>>
    BY CreateWrites
  <1> DEFINE new == Created(asked)
  <1>2. /\ RowOK(new) /\ new.status = "RETURN_REQUESTED"
        /\ \A i \in Item : /\ new.item[i].approved = None /\ new.item[i].received = None
                           /\ new.item[i].accepted = None
    BY CreatedRow
  <1> HIDE DEF new
  <1>3. StagesOK(new) /\ RowStep(request[r], new)
    BY <1>1, <1>2 DEF StagesOK, Decided, RowStep, ReleasedStatus
  <1>4. /\ \A f \in Reserved(refund) : refund[f].request # r
        /\ \A q \in Process : ~ (Reserves(job[q]) /\ job[q].request = r)
    BY <1>1, EarlyIsFree
  <1>5. /\ \A s \in Request : StagesOK(request'[s])
        /\ OneRefund(request', refund') /\ RowsStep
        /\ \A q \in Process : ClosingOK(job[q], request') /\ IssuerOK(job[q], request', refund')
    BY <1>1, <1>3, <1>4, RequestWritten DEF new
  <1>6. job' = job /\ \A a, b \in Process : OneIssuer(a, b)'
    BY <1>1 DEF Orderly, OneIssuer
  <1> QED
    BY <1>5, <1>6 DEF Orderly

LEMMA StillUndisturbed ==
    ASSUME [ReturnsNext]_vars, Typed, ~disturbed'
    PROVE  ~disturbed
  <1>1. ASSUME NEW p \in Process, Decide(p) PROVE ~disturbed
    BY <1>1 DEF Decide, MoveOn, Approve, Receive, Inspect, ApproveRefund, Close, CloseCommit, Send, Write
  <1>2. ASSUME NEW p \in Process, IssueStep(p) PROVE ~disturbed
    BY <1>2 DEF IssueStep, ReserveRead, ReserveCommit, Refused, ProviderAnswers, AnswerLost,
                ProviderRefuses, Record
  <1>3. ASSUME NEW p \in Process, SettleStep(p) PROVE ~disturbed
    BY <1>3 DEF SettleStep, SettleRead, SettleSum, SettleCommit
  <1>4. ASSUME NEW p \in Process, NEW r \in Request,
               \/ \E action \in DOMAIN Allowed : Load(p, r, action)
               \/ LoadRefund(p, r) \/ LoadRetry(p, r)
        PROVE  ~disturbed
    BY <1>4 DEF Load, LoadRefund, LoadRetry
  <1>5. ASSUME NEW p \in Process, \/ \E amount \in Goodwill : RefundOrder(p, amount)
                                  \/ \E f \in Refund : Webhook(p, f)
                                  \/ Crash(p)
        PROVE  ~disturbed
    BY <1>5 DEF RefundOrder, Webhook, Crash
  <1>6. ASSUME \/ Deliver \/ \E r \in Request : CreateRequest(r)
               \/ \E f \in Refund, status \in {"succeeded", "failed"} : ProviderDecides(f, status)
               \/ UNCHANGED vars
        PROVE  ~disturbed
    BY <1>6 DEF Deliver, CreateRequest, ProviderDecides, vars
  <1> QED
    BY <1>1, <1>2, <1>3, <1>4, <1>5, <1>6 DEF ReturnsNext

LEMMA OrderlyDecides ==
    ASSUME Typed, Orderly, NEW p \in Process, Decide(p), ~disturbed'
    PROVE  Orderly' /\ RowsStep
  <1>1. ASSUME NEW i \in Item, NEW accepted \in 0..Max({Line[j].quantity : j \in Item}),
               NEW deduction \in Deduction, Inspect(p, i, accepted, deduction)
        PROVE  Orderly' /\ RowsStep
    <2>1. accepted \in Nat
      BY LineUnits
    <2> QED
      BY <1>1, <2>1, OrderlyInspects
  <1> QED
    BY <1>1, OrderlyMovesOn, OrderlyApproves, OrderlyApprovesRefund, OrderlyCloses, OrderlySends
       DEF Decide

LEMMA OrderlyStep ==
    ASSUME Typed, Matched, Orderly, [ReturnsNext]_vars, ~disturbed'
    PROVE  Orderly' /\ RowsStep
  <1>1. CASE \/ Deliver \/ UNCHANGED vars
             \/ \E f \in Refund, status \in {"succeeded", "failed"} : ProviderDecides(f, status)
    BY <1>1, OrderlyStays
  <1>2. CASE \E r \in Request : CreateRequest(r)
    BY <1>2, OrderlyCreates
  <1>3. ASSUME NEW p \in Process, Decide(p) PROVE Orderly' /\ RowsStep
    BY <1>3, OrderlyDecides
  <1>4. ASSUME NEW p \in Process,
           \/ \E r \in Request : \/ \E action \in DOMAIN Allowed : Load(p, r, action)
                                 \/ LoadRefund(p, r) \/ LoadRetry(p, r)
           \/ \E amount \in Goodwill : RefundOrder(p, amount)
           \/ \E f \in Refund : Webhook(p, f)
           \/ SettleRead(p) \/ SettleSum(p) \/ Crash(p)
           \/ \E status \in {"pending", "succeeded", "failed"} : ProviderAnswers(p, status)
           \/ \E status \in {"pending", "succeeded"} : AnswerLost(p, status)
           \/ ProviderRefuses(p)
        PROVE  Orderly' /\ RowsStep
    BY <1>4, OrderlyLoads
  <1>5. ASSUME NEW p \in Process, IssueStep(p) PROVE Orderly' /\ RowsStep
    BY <1>4, <1>5, OrderlyReserves, OrderlyInserts, OrderlyRefuses, OrderlyRecords DEF IssueStep
  <1>6. ASSUME NEW p \in Process, SettleStep(p) PROVE Orderly' /\ RowsStep
    BY <1>4, <1>6, OrderlySettles DEF SettleStep
  <1> QED
    BY <1>1, <1>2, <1>3, <1>4, <1>5, <1>6 DEF ReturnsNext

LEMMA OrderlyStart ==
    ASSUME ReturnsInit
    PROVE  Orderly
  <1>1. /\ \A r \in Request : request[r] = NoRequestRow
        /\ \A f \in Refund : refund[f].status = "NONE"
        /\ \A p \in Process : job[p] = Idle
    BY DEF ReturnsInit, NoRefundRow
  <1>2. \A r \in Request : StagesOK(request[r])
    BY <1>1, NullRows DEF StagesOK, NoItem, Decided
  <1>3. Reserved(refund) = {}
    BY <1>1 DEF Reserved
  <1> QED
    BY <1>1, <1>2, <1>3, IdleIsQuiet DEF Orderly, OneRefund, IssuerOK, OneIssuer

-----------------------------------------------------------------------------
(* HeldOK is kept.                                                         *)

LEMMA HeldChanges ==
    ASSUME NEW before \in [Request -> RequestRow], NEW after \in [Request -> RequestRow], NEW i \in Item,
           \A r \in Request : RowOK(before[r]) /\ RowOK(after[r]),
           \A r \in Request :
              HeldQuantity(after[r].item[i], after[r].status)
                 <= HeldQuantity(before[r].item[i], before[r].status)
    PROVE  SumFunction([r \in Request |-> HeldQuantity(after[r].item[i], after[r].status)])
             <= SumFunction([r \in Request |-> HeldQuantity(before[r].item[i], before[r].status)])
  <1> DEFINE h == [r \in Request |-> HeldQuantity(after[r].item[i], after[r].status)]
             k == [r \in Request |-> HeldQuantity(before[r].item[i], before[r].status)]
  <1>1. \A r \in Request : h[r] \in Int /\ k[r] \in Int /\ h[r] <= k[r]
    BY RowFields, UnitsAreNat
  <1>2. SumFunction(h) = SumFunctionOnSet(h, Request) /\ SumFunction(k) = SumFunctionOnSet(k, Request)
    BY DEF SumFunction
  <1> HIDE DEF h, k
  <1>3. SumFunctionOnSet(h, Request) <= SumFunctionOnSet(k, Request)
    BY <1>1, FiniteAssumption, SumMonotonic
  <1>4. SumFunction(h) <= SumFunction(k)
    BY <1>2, <1>3
  <1> QED
    BY <1>4 DEF h, k

(* Only the customer brings a request into being.                          *)
LEMMA FreshRows ==
    ASSUME Typed, Matched, Orderly, [ReturnsNext]_vars, ~disturbed',
           NEW r \in Request, request[r].status = "NONE", ~CreateRequest(r)
    PROVE  request'[r] = request[r]
  <1>0. request \in [Request -> RequestRow]
    BY DEF Typed, RequestsOK
  <1>1. ASSUME NEW p \in Process, Decide(p) PROVE request'[r] = request[r]
    <2>1. CASE Close(p)
      BY <2>1 DEF Close
    <2>2. CASE \E new, j : Write(p, new, j)
      <3>1. job[p].pc \in Deciding => job[p].request # r
        BY DecidingJob
      <3>2. ~Close(p) => job[p].pc \in Deciding
        BY <1>1 DEF Decide, MoveOn, Approve, Receive, Inspect, ApproveRefund, CloseCommit, Send,
                    Deciding, Outcome, Allowed
      <3> QED
        BY <1>0, <2>1, <2>2, <3>1, <3>2 DEF Write
    <2>3. ASSUME NEW i \in Item, NEW accepted \in 0..Max({Line[j].quantity : j \in Item}),
                 NEW deduction \in Deduction, Inspect(p, i, accepted, deduction)
          PROVE  request'[r] = request[r]
      <3>1. accepted \in Nat
        BY LineUnits
      <3>2. job[p].pc \in Deciding /\ job[p].request # r
        BY <2>3, DecidingJob DEF Inspect, Deciding, Allowed
      <3>3. request' = [request EXCEPT ![job[p].request] =
                           Inspected(request[job[p].request], i, accepted, deduction)]
        BY <2>3, <3>1, InspectWrites
      <3> QED
        BY <1>0, <3>2, <3>3
    <2>4. MoveOn(p) \/ Approve(p) \/ Receive(p) \/ ApproveRefund(p) \/ CloseCommit(p) \/ Send(p)
             => \E new, j : Write(p, new, j)
      <3>1. Approve(p) => \E new, j : Write(p, new, j)
        BY ApproveWrites
      <3>2. Receive(p) => \E new, j : Write(p, new, j)
        BY ReceiveWrites
      <3>3. ApproveRefund(p) => \E new, j : Write(p, new, j)
        BY ApproveRefundWrites
      <3>4. MoveOn(p) \/ CloseCommit(p) \/ Send(p) => \E new, j : Write(p, new, j)
        BY DEF MoveOn, CloseCommit, Send
      <3> QED
        BY <3>1, <3>2, <3>3, <3>4
    <2> QED
      BY <1>1, <2>1, <2>2, <2>3, <2>4 DEF Decide
  <1>2. ASSUME NEW p \in Process, Refused(p) PROVE request'[r] = request[r]
    <2>1. job[p].request # r
      BY <1>2 DEF Refused, Typed, JobOK, JobFits, Issuing
    <2> QED
      BY <1>0, <1>2, <2>1 DEF Refused
  <1>3. ASSUME NEW p \in Process, SettleCommit(p) PROVE request'[r] = request[r]
    <2> DEFINE s == refund[job[p].refund].request
    <2>1. /\ s \in Request \cup {NoRequest}
          /\ s = NoRequest => request' = request
          /\ s \in Request =>
                /\ request' = [request EXCEPT ![s].status =
                                 IF job[p].outcome = "FAILED" THEN "REFUND_APPROVED" ELSE "COMPLETED"]
                /\ request[s].status \in {"REFUND_PROCESSING", "COMPLETED"}
      BY <1>3, SettlesInOrder
    <2> HIDE DEF s
    <2> QED
      BY <1>0, <2>1
  <1>4. ASSUME NEW p \in Process, IssueStep(p), ~Refused(p) PROVE request' = request
    BY <1>4 DEF IssueStep, ReserveRead, ReserveCommit, ProviderAnswers, AnswerLost, ProviderRefuses, Record
  <1>5. ASSUME NEW p \in Process, SettleStep(p), ~SettleCommit(p) PROVE request' = request
    BY <1>5 DEF SettleStep, SettleRead, SettleSum
  <1>6. ASSUME NEW p \in Process, NEW s \in Request,
               \/ \E action \in DOMAIN Allowed : Load(p, s, action)
               \/ LoadRefund(p, s) \/ LoadRetry(p, s)
        PROVE  request' = request
    BY <1>6 DEF Load, LoadRefund, LoadRetry
  <1>7. ASSUME NEW p \in Process, \/ \E amount \in Goodwill : RefundOrder(p, amount)
                                  \/ \E f \in Refund : Webhook(p, f)
                                  \/ Crash(p)
        PROVE  request' = request
    BY <1>7 DEF RefundOrder, Webhook, Crash
  <1>8. ASSUME NEW s \in Request, CreateRequest(s) PROVE request'[r] = request[r]
    BY <1>0, <1>8, CreateWrites
  <1>9. ASSUME \/ Deliver \/ UNCHANGED vars
               \/ \E f \in Refund, status \in {"succeeded", "failed"} : ProviderDecides(f, status)
        PROVE  request' = request
    BY <1>9 DEF Deliver, ProviderDecides, vars
  <1> QED
    BY <1>1, <1>2, <1>3, <1>4, <1>5, <1>6, <1>7, <1>8, <1>9 DEF ReturnsNext

LEMMA HeldCreates ==
    ASSUME Typed, HeldOK, NEW r \in Request, CreateRequest(r)
    PROVE  HeldOK'
  <1>1. PICK asked \in Asked :
           /\ \A i \in Item : asked[i] <= Returnable(row.status, Line[i].quantity, Held(i))
           /\ request' = [request EXCEPT ![r] = Created(asked)]
           /\ request[r].status = "NONE"
    BY CreateWrites
  <1> DEFINE new == Created(asked)
  <1>2. /\ RowOK(new) /\ new.status = "RETURN_REQUESTED"
        /\ \A i \in Item : /\ new.item[i].quantity = asked[i] /\ new.item[i].approved = None
                           /\ new.item[i].received = None /\ new.item[i].accepted = None
    BY CreatedRow
  <1>3. request'[r] = new /\ \A s \in Request \ {r} : request'[s] = request[s]
    BY <1>1 DEF Typed, RequestsOK
  <1>4. request[r] = NoRequestRow /\ \A s \in Request : RowOK(request[s])
    BY <1>1 DEF Typed, RequestsOK
  <1> HIDE DEF new
  <1> SUFFICES ASSUME NEW i \in Item PROVE Held(i)' <= Line[i].quantity
    BY DEF HeldOK
  <1> DEFINE h == [s \in Request |-> HeldQuantity(request[s].item[i], request[s].status)]
             k == [s \in Request |-> HeldQuantity(request'[s].item[i], request'[s].status)]
  <1>5. asked[i] \in Nat /\ Line[i].quantity \in Nat
    BY AskedAssumption, LineAssumption
  <1>6. \A s \in Request : h[s] \in Nat
    BY <1>4, RowFields, UnitsAreNat
  <1>7. h[r] = 0
    BY <1>4, NullRows DEF HeldQuantity, NoItem, ReleasedStatus
  <1>8. k[r] = asked[i]
    BY <1>2, <1>3 DEF HeldQuantity, ReleasedStatus
  <1>9. \A s \in Request \ {r} : k[s] = h[s]
    BY <1>3
  <1>10. Held(i) = SumFunctionOnSet(h, Request) /\ Held(i)' = SumFunctionOnSet(k, Request)
    BY DEF Held, SumFunction
  <1> HIDE DEF h, k
  <1>11. SumFunctionOnSet(k, Request) = SumFunctionOnSet(h, Request) + k[r] - h[r]
    BY <1>5, <1>6, <1>8, <1>9, FiniteAssumption, SumChange
  <1>12. SumFunctionOnSet(h, Request) \in Nat
    BY <1>6, FiniteAssumption, SumIsNat
  <1>13. Held(i) <= Line[i].quantity
    BY DEF HeldOK
  <1>14. asked[i] <= Returnable(row.status, Line[i].quantity, Held(i))
    BY <1>1
  <1> QED
    BY <1>5, <1>7, <1>8, <1>10, <1>11, <1>12, <1>13, <1>14 DEF Returnable, AtLeastZero

LEMMA HeldStep ==
    ASSUME Typed, Typed', Matched, Orderly, HeldOK, [ReturnsNext]_vars, ~disturbed'
    PROVE  HeldOK'
  <1>1. CASE \E r \in Request : CreateRequest(r)
    BY <1>1, HeldCreates
  <1>2. CASE ~ \E r \in Request : CreateRequest(r)
    <2>1. RowsStep
      BY OrderlyStep
    <2>2. /\ request \in [Request -> RequestRow] /\ request' \in [Request -> RequestRow]
          /\ \A r \in Request : RowOK(request[r]) /\ RowOK(request'[r])
      BY DEF Typed, RequestsOK
    <2> SUFFICES ASSUME NEW i \in Item PROVE Held(i)' <= Line[i].quantity
      BY DEF HeldOK
    <2>3. ASSUME NEW r \in Request
          PROVE  HeldQuantity(request'[r].item[i], request'[r].status)
                   <= HeldQuantity(request[r].item[i], request[r].status)
      <3>1. CASE request[r].status = "NONE"
        <4>1. request'[r] = request[r]
          BY <1>2, <3>1, FreshRows
        <4>2. HeldQuantity(request[r].item[i], request[r].status) \in Nat
          BY <2>2, RowFields, UnitsAreNat
        <4> QED
          BY <4>1, <4>2
      <3>2. CASE request[r].status # "NONE"
        BY <2>1, <3>2 DEF RowsStep, RowStep
      <3> QED
        BY <3>1, <3>2
    <2> DEFINE h == [r \in Request |-> HeldQuantity(request[r].item[i], request[r].status)]
               k == [r \in Request |-> HeldQuantity(request'[r].item[i], request'[r].status)]
    <2>4. SumFunction(k) <= SumFunction(h)
      BY <2>2, <2>3, HeldChanges
    <2>5. Held(i) = SumFunction(h) /\ Held(i)' = SumFunction(k)
      BY DEF Held
    <2>6. \A r \in Request : h[r] \in Nat /\ k[r] \in Nat
      BY <2>2, RowFields, UnitsAreNat
    <2> HIDE DEF h, k
    <2>7. SumFunctionOnSet(h, Request) \in Nat /\ SumFunctionOnSet(k, Request) \in Nat
      BY <2>6, FiniteAssumption, SumIsNat
    <2>8. SumFunction(h) = SumFunctionOnSet(h, Request) /\ SumFunction(k) = SumFunctionOnSet(k, Request)
      BY DEF SumFunction, h, k
    <2>9. Held(i) <= Line[i].quantity /\ Line[i].quantity \in Nat
      BY LineAssumption DEF HeldOK
    <2> QED
      BY <2>4, <2>5, <2>7, <2>8, <2>9
  <1> QED
    BY <1>1, <1>2

LEMMA HeldStart ==
    ASSUME ReturnsInit
    PROVE  HeldOK
  <1> SUFFICES ASSUME NEW i \in Item PROVE Held(i) <= Line[i].quantity
    BY DEF HeldOK
  <1> DEFINE h == [r \in Request |-> HeldQuantity(request[r].item[i], request[r].status)]
  <1>1. \A r \in Request : h[r] = 0
    BY NullRows DEF ReturnsInit, HeldQuantity, NoItem, ReleasedStatus
  <1>2. Held(i) = SumFunctionOnSet(h, Request)
    BY DEF Held, SumFunction
  <1> HIDE DEF h
  <1>3. SumFunctionOnSet(h, Request) = 0
    BY <1>1, FiniteAssumption, SumOfZeros
  <1> QED
    BY <1>2, <1>3, LineAssumption

-----------------------------------------------------------------------------
(* Worthy is kept.                                                         *)

LEMMA SameItems ==
    ASSUME NEW r, NEW s, r.item = s.item
    PROVE  ItemsTotal(r) = ItemsTotal(s) /\ \A amount : Fair(amount, r) <=> Fair(amount, s)
  BY DEF ItemsTotal, Items, Fair

(* Where a request is completed.                                           *)
LEMMA Completions ==
    ASSUME Typed, [ReturnsNext]_vars, NEW r \in Request,
           request'[r].status = "COMPLETED", request[r].status # "COMPLETED"
    PROVE  \E p \in Process : (CloseCommit(p) /\ job[p].request = r) \/ SettleCommit(p)
  <1>0. request \in [Request -> RequestRow] /\ request'[r] # request[r]
    BY DEF Typed, RequestsOK
  <1>1. ASSUME NEW p \in Process, Decide(p), ~CloseCommit(p) PROVE FALSE
    <2>1. ASSUME NEW new, NEW j, Write(p, new, j), new.status # "COMPLETED" PROVE FALSE
      BY <1>0, <2>1 DEF Write
    <2>2. MoveOn(p) => job[p].pc \in Deciding /\ Outcome[job[p].pc] \in ReturnStatus
                       /\ Outcome[job[p].pc] # "COMPLETED"
      BY DEF MoveOn, Deciding, Allowed, Outcome, ReturnStatus
    <2>3. ~MoveOn(p)
      <3> SUFFICES ASSUME MoveOn(p) PROVE FALSE
        OBVIOUS
      <3> DEFINE new == [request[job[p].request] EXCEPT !.status = Outcome[job[p].pc]]
      <3>1. Write(p, new, Idle)
        BY DEF MoveOn
      <3>2. RowOK(request[job[p].request])
        BY <2>2, DecidingJob
      <3>3. new.status = Outcome[job[p].pc]
        BY <2>2, <3>2, MovedRow
      <3> HIDE DEF new
      <3> QED
        BY <2>1, <2>2, <3>1, <3>3
    <2>4. ~Approve(p)
      <3> SUFFICES ASSUME Approve(p) PROVE FALSE
        OBVIOUS
      <3>1. PICK units : /\ Write(p, Approved(request[job[p].request], job[p].seen, units), Idle)
                         /\ \A i \in Items(job[p].seen) :
                               units[i] \in 0..request[job[p].request].item[i].quantity
        BY ApproveWrites
      <3>2. RowOK(request[job[p].request])
        BY DecidingJob DEF Approve, Deciding, Allowed
      <3>3. Approved(request[job[p].request], job[p].seen, units).status = "RETURN_APPROVED"
        BY <3>1, <3>2, ApprovedRow
      <3> QED
        BY <2>1, <3>1, <3>3
    <2>5. ~Receive(p)
      <3> SUFFICES ASSUME Receive(p) PROVE FALSE
        OBVIOUS
      <3>1. PICK units : /\ Write(p, Received(request[job[p].request], job[p].seen, units), Idle)
                         /\ \A i \in Items(job[p].seen) :
                               units[i] \in 0..request[job[p].request].item[i].quantity
        BY ReceiveWrites
      <3>2. RowOK(request[job[p].request])
        BY DecidingJob DEF Receive, Deciding, Allowed
      <3>3. Received(request[job[p].request], job[p].seen, units).status = "RETURN_RECEIVED"
        BY <3>1, <3>2, ReceivedRow
      <3> QED
        BY <2>1, <3>1, <3>3
    <2>6. ASSUME NEW i \in Item, NEW accepted \in 0..Max({Line[j].quantity : j \in Item}),
                 NEW deduction \in Deduction, Inspect(p, i, accepted, deduction)
          PROVE  FALSE
      <3> DEFINE s == request[job[p].request]
                 new == Inspected(s, i, accepted, deduction)
      <3>1. accepted \in Nat
        BY LineUnits
      <3>2. RowOK(s) /\ s.status # "NONE"
        BY <2>6, DecidingJob DEF Inspect, Deciding, Allowed
      <3>3. /\ request' = [request EXCEPT ![job[p].request] = new]
            /\ accepted \in 0..s.item[i].quantity /\ deduction \in Nat
        BY <2>6, <3>1, InspectWrites
      <3> HIDE DEF s, new
      <3>4. new.status = s.status
        BY <3>2, <3>3, InspectedRow DEF new
      <3> QED
        BY <1>0, <3>3, <3>4 DEF s
    <2>7. ~ApproveRefund(p)
      <3> SUFFICES ASSUME ApproveRefund(p) PROVE FALSE
        OBVIOUS
      <3> DEFINE new == RefundedRow(request[job[p].request], job[p].seen, job[p].shipping)
      <3>1. RowOK(request[job[p].request]) /\ job[p].shipping \in Nat
        BY DecidingJob DEF ApproveRefund, Deciding, Job
      <3>2. new.status = "REFUND_APPROVED"
        BY <3>1, RefundedRows
      <3>3. \E j : Write(p, new, j)
        BY ApproveRefundWrites
      <3> HIDE DEF new
      <3> QED
        BY <2>1, <3>2, <3>3
    <2>8. ~Send(p)
      <3> SUFFICES ASSUME Send(p) PROVE FALSE
        OBVIOUS
      <3> DEFINE new == [request[job[p].request] EXCEPT !.status = "REFUND_PROCESSING"]
      <3>1. RowOK(request[job[p].request])
        BY DecidingJob DEF Send, Deciding
      <3>2. new.status = "REFUND_PROCESSING"
        BY <3>1, MovedRow DEF ReturnStatus
      <3>3. \E j : Write(p, new, j)
        BY DEF Send
      <3> HIDE DEF new
      <3> QED
        BY <2>1, <3>2, <3>3
    <2>9. ~Close(p)
      BY <1>0 DEF Close
    <2> QED
      BY <1>1, <2>3, <2>4, <2>5, <2>6, <2>7, <2>8, <2>9 DEF Decide
  <1>2. ASSUME NEW p \in Process, CloseCommit(p) PROVE job[p].request = r
    BY <1>0, <1>2 DEF CloseCommit, Write
  <1>3. ASSUME NEW p \in Process, Refused(p) PROVE FALSE
    BY <1>0, <1>3 DEF Refused, RequestRow
  <1>4. ASSUME NEW p \in Process, IssueStep(p), ~Refused(p) PROVE request' = request
    BY <1>4 DEF IssueStep, ReserveRead, ReserveCommit, ProviderAnswers, AnswerLost, ProviderRefuses, Record
  <1>5. ASSUME NEW p \in Process, SettleStep(p), ~SettleCommit(p) PROVE request' = request
    BY <1>5 DEF SettleStep, SettleRead, SettleSum
  <1>6. ASSUME NEW p \in Process, NEW s \in Request,
               \/ \E action \in DOMAIN Allowed : Load(p, s, action)
               \/ LoadRefund(p, s) \/ LoadRetry(p, s)
        PROVE  request' = request
    BY <1>6 DEF Load, LoadRefund, LoadRetry
  <1>7. ASSUME NEW p \in Process, \/ \E amount \in Goodwill : RefundOrder(p, amount)
                                  \/ \E f \in Refund : Webhook(p, f)
                                  \/ Crash(p)
        PROVE  request' = request
    BY <1>7 DEF RefundOrder, Webhook, Crash
  <1>8. ASSUME NEW s \in Request, CreateRequest(s) PROVE FALSE
    <2>1. PICK asked \in Asked : request' = [request EXCEPT ![s] = Created(asked)]
      BY <1>8, CreateWrites
    <2>2. Created(asked).status = "RETURN_REQUESTED"
      BY CreatedRow
    <2> QED
      BY <1>0, <2>1, <2>2
  <1>9. ASSUME \/ Deliver \/ UNCHANGED vars
               \/ \E f \in Refund, status \in {"succeeded", "failed"} : ProviderDecides(f, status)
        PROVE  request' = request
    BY <1>9 DEF Deliver, ProviderDecides, vars
  <1> QED
    BY <1>0, <1>1, <1>2, <1>3, <1>4, <1>5, <1>6, <1>7, <1>8, <1>9 DEF ReturnsNext

(* A handler that has no amount to refund yet, or no longer.               *)
LEMMA NoAmount ==
    ASSUME NEW j, j.pc \notin {"refund", "send", "close", "closing", "reserve", "create"}
    PROVE  \A requests : AmountOK(j, requests)
  BY DEF AmountOK

LEMMA FairSum ==
    ASSUME NEW r, RowOK(r), NEW shipping \in {0, Money.shippingCharge}
    PROVE  Fair(ItemsTotal(r) + shipping, r)
  BY TotalIsNat, MoneyAssumption DEF Fair

(* What is left out of an inspection was not received: worth nothing.      *)
LEMMA RefundedWorth ==
    ASSUME NEW r, RowOK(r), StagesOK(r), r.status = "INSPECTION", NEW shipping \in Nat,
           \A i \in Items(r) : r.item[i].received > 0 => r.item[i].accepted # None
    PROVE  ItemsTotal(RefundedRow(r, r, shipping)) = ItemsTotal(r)
  <1> DEFINE new == RefundedRow(r, r, shipping)
  <1>1. /\ RowOK(new) /\ SameUnits(r, new) /\ new.item \in [Item -> ReturnItem]
        /\ \A i \in Item : new.item[i] =
              IF i \in Open(r) THEN [r.item[i] EXCEPT !.accepted = 0] ELSE r.item[i]
    BY RefundedRows
  <1> HIDE DEF new
  <1>2. Items(new) = Items(r)
    BY <1>1 DEF SameUnits, Items
  <1>3. ASSUME NEW i \in Items(r) PROVE Worth(i, new.item[i]) = Worth(i, r.item[i])
    <2>1. i \in Item /\ r.item[i] \in ReturnItem /\ UnitsOK(r.item[i])
      BY RowFields DEF Items
    <2>2. CASE i \notin Open(r)
      BY <1>1, <2>1, <2>2
    <2>3. CASE i \in Open(r)
      <3>1. r.item[i].accepted = None /\ r.item[i].received = 0
        BY <2>1, <2>3 DEF Open, StagesOK, UnitsOK, None, ReturnItem
      <3>2. \A units \in Int : units <= 0 => UnitsRefund(Line[i], Money, units) = 0
        BY DEF UnitsRefund
      <3>3. Worth(i, r.item[i]) = 0
        BY <3>1, <3>2 DEF Worth, CountedUnits, None
      <3>4. new.item[i].accepted = 0 /\ new.item[i].deduction \in Nat
        BY <1>1, <2>1, <2>3 DEF ReturnItem
      <3>5. Worth(i, new.item[i]) = 0
        BY <3>2, <3>4 DEF Worth, ItemRefund, AtLeastZero, None
      <3> QED
        BY <3>3, <3>5
    <2> QED
      BY <2>2, <2>3
  <1>4. ItemsTotal(new) = ItemsTotal(r)
    BY <1>2, <1>3, TotalSame
  <1> QED
    BY <1>4 DEF new

(* No refund counts for a return that may be refunded now.                 *)
LEMMA NothingCommitted ==
    ASSUME Typed, Orderly, NEW r \in Request, request[r].status = "REFUND_APPROVED"
    PROVE  Amounts(OfRequest(r) \cap Reserving) = 0
  <1>1. \A f \in Reserved(refund) : refund[f].request # r
    BY EarlyIsFree DEF Early, ReturnStatus, ReleasedStatus
  <1>2. OfRequest(r) \cap Reserving = {}
    BY <1>1 DEF OfRequest, Reserving, Reserved
  <1>3. IsFiniteSet({})
    BY FS_EmptySet
  <1> QED
    BY <1>2, <1>3, SumChosen DEF Amounts

LEMMA WorthyLoads ==
    ASSUME Typed, Orderly, NEW p \in Process, NEW r \in Request, LoadRefund(p, r) \/ LoadRetry(p, r)
    PROVE  /\ request' = request
           /\ \E j : job' = [job EXCEPT ![p] = j] /\ AmountOK(j, request)
  <1>0. RowOK(request[r]) /\ request[r] \in RequestRow
    BY RowFields DEF Typed, RequestsOK
  <1>1. /\ ShippingDue(r) \in {0, Money.shippingCharge} /\ ShippingDue(r) \in Nat
        /\ ItemsTotal(request[r]) \in Nat
    BY <1>0, ShippingIsNat, TotalIsNat
  <1>2. Fair(ItemsTotal(request[r]) + ShippingDue(r), request[r])
    BY <1>0, <1>1, FairSum
  <1>3. CASE LoadRefund(p, r)
    <2> DEFINE total == ItemsTotal(request[r]) + ShippingDue(r)
               j == [Idle EXCEPT !.pc = "refund", !.request = r, !.seen = request[r],
                                 !.shipping = ShippingDue(r), !.amount = total]
    <2>1. job' = [job EXCEPT ![p] = j] /\ request' = request
      BY <1>3 DEF LoadRefund
    <2>2. j.pc = "refund" /\ j.seen = request[r] /\ j.amount = total
      BY DEF Idle
    <2>3. \A i \in Items(request[r]) :
             request[r].item[i].received > 0 => request[r].item[i].accepted # None
      BY <1>3 DEF LoadRefund
    <2>4. Fair(total, request[r])
      BY <1>2
    <2> HIDE DEF j, total
    <2>5. AmountOK(j, request)
      BY <2>2, <2>3, <2>4 DEF AmountOK
    <2> QED
      BY <2>1, <2>5
  <1>4. CASE LoadRetry(p, r)
    <2> DEFINE total == ItemsTotal(request[r]) + ShippingDue(r)
               amount == total - Amounts(OfRequest(r) \cap Reserving)
               j == [Idle EXCEPT !.pc = "send", !.request = r, !.seen = request[r], !.amount = amount]
    <2>1. job' = [job EXCEPT ![p] = j] /\ request' = request
      BY <1>4 DEF LoadRetry
    <2>2. j.pc = "send" /\ j.seen = request[r] /\ j.amount = amount
      BY DEF Idle
    <2>3. amount = total
      <3>1. request[r].status = "REFUND_APPROVED"
        BY <1>4 DEF LoadRetry
      <3>2. Amounts(OfRequest(r) \cap Reserving) = 0
        BY <3>1, NothingCommitted
      <3>3. total \in Int
        BY <1>1
      <3> HIDE DEF total
      <3> QED
        BY <3>2, <3>3
    <2>4. Fair(total, request[r])
      BY <1>2
    <2> HIDE DEF j, total, amount
    <2>5. AmountOK(j, request)
      BY <2>2, <2>3, <2>4 DEF AmountOK
    <2> QED
      BY <2>1, <2>5
  <1> QED
    BY <1>3, <1>4

LEMMA WorthyApprovesRefund ==
    ASSUME Typed, Orderly, Worthy, NEW p \in Process, ApproveRefund(p), ~disturbed'
    PROVE  \E j : job' = [job EXCEPT ![p] = j] /\ AmountOK(j, request')
  <1> DEFINE r == job[p].request
             new == RefundedRow(request[r], job[p].seen, job[p].shipping)
             j == [job[p] EXCEPT !.pc = IF job[p].amount > 0 THEN "send" ELSE "close", !.seen = new]
  <1>1. Write(p, new, j) /\ job[p].pc = "refund" /\ ~Overtaken(p)
    BY ApproveRefundWrites DEF ApproveRefund, Write
  <1>2. /\ r \in Request /\ job[p].seen = request[r] /\ RowOK(request[r]) /\ StagesOK(request[r])
        /\ request[r].status \in SeenStatus("refund") /\ job[p] \in Job
    BY <1>1, Undisturbed DEF Deciding, Typed
  <1>3. request[r].status = "INSPECTION"
    BY <1>2 DEF SeenStatus, Allowed
  <1>4. AmountOK(job[p], request)
    BY DEF Worthy
  <1>5. job[p].amount \in Nat /\ job[p].shipping \in Nat
    BY <1>2 DEF Job
  <1>6. ItemsTotal(new) = ItemsTotal(request[r])
    BY <1>1, <1>2, <1>3, <1>4, <1>5, RefundedWorth DEF AmountOK
  <1>7. Fair(job[p].amount, request[r])
    BY <1>1, <1>2, <1>4 DEF AmountOK
  <1>8. Fair(job[p].amount, new)
    BY <1>6, <1>7 DEF Fair
  <1>9. /\ j.pc = IF job[p].amount > 0 THEN "send" ELSE "close"
        /\ j.seen = new /\ j.amount = job[p].amount
    BY <1>2 DEF Job
  <1>10. job' = [job EXCEPT ![p] = j]
    BY <1>1 DEF Write
  <1> HIDE DEF r, new, j
  <1>11. AmountOK(j, request')
    BY <1>5, <1>8, <1>9 DEF AmountOK
  <1> QED
    BY <1>10, <1>11

LEMMA WorthySends ==
    ASSUME Typed, Orderly, Worthy, NEW p \in Process, Send(p), ~disturbed'
    PROVE  \E j : job' = [job EXCEPT ![p] = j] /\ AmountOK(j, request')
  <1> DEFINE r == job[p].request
             new == [request[r] EXCEPT !.status = "REFUND_PROCESSING"]
             j == [job[p] EXCEPT !.pc = "reserve", !.seen = NoRequestRow]
  <1>1. /\ job[p].pc = "send" /\ ~Overtaken(p)
        /\ request' = [request EXCEPT ![r] = new] /\ job' = [job EXCEPT ![p] = j]
    BY DEF Send, Write
  <1>2. /\ r \in Request /\ job[p].seen = request[r] /\ RowOK(request[r])
        /\ job[p] \in Job /\ request \in [Request -> RequestRow]
    BY <1>1, Undisturbed DEF Deciding, Typed, RequestsOK
  <1>3. new.item = request[r].item
    BY <1>2, MovedRow DEF ReturnStatus
  <1>4. j.pc = "reserve" /\ j.request = r /\ j.amount = job[p].amount
    BY <1>2 DEF Job
  <1>5. Fair(job[p].amount, request[r])
    BY <1>1, <1>2 DEF Worthy, AmountOK
  <1> HIDE DEF r, new, j
  <1>6. request'[r] = new
    BY <1>1, <1>2
  <1>7. Fair(job[p].amount, request'[r])
    BY <1>3, <1>5, <1>6, SameItems
  <1>8. AmountOK(j, request')
    BY <1>4, <1>7 DEF AmountOK
  <1> QED
    BY <1>1, <1>8

LEMMA WorthyGoesOn ==
    ASSUME Typed, Worthy, NEW p \in Process, Close(p) \/ ReserveRead(p)
    PROVE  /\ request' = request
           /\ \E j : job' = [job EXCEPT ![p] = j] /\ AmountOK(j, request)
  <1>0. AmountOK(job[p], request) /\ job[p] \in Job
    BY DEF Worthy, Typed
  <1>1. CASE Close(p)
    <2>1. PICK next : job' = [job EXCEPT ![p].pc = "closing", ![p].next = next]
      BY <1>1 DEF Close
    <2> DEFINE j == [job[p] EXCEPT !.pc = "closing", !.next = next]
    <2>2. job[p].pc = "close" /\ request' = request
      BY <1>1 DEF Close
    <2>3. /\ job' = [job EXCEPT ![p] = j]
          /\ j.pc = "closing" /\ j.amount = job[p].amount /\ j.seen = job[p].seen
      BY <1>0, <2>1 DEF Job
    <2> HIDE DEF j
    <2>4. AmountOK(j, request)
      BY <1>0, <2>2, <2>3 DEF AmountOK
    <2> QED
      BY <2>2, <2>3, <2>4
  <1>2. CASE ReserveRead(p)
    <2> DEFINE taken == Amounts(Reserving)
               j == IF taken + job[p].amount <= Captured
                      THEN [job[p] EXCEPT !.pc = "create", !.result = taken]
                      ELSE IF job[p].request = NoRequest THEN Idle ELSE [job[p] EXCEPT !.pc = "refused"]
    <2>1. /\ job' = [job EXCEPT ![p] = j] /\ request' = request /\ job[p].pc = "reserve"
      BY <1>2 DEF ReserveRead
    <2>2. \/ j.pc \in {"idle", "refused"}
          \/ j.pc = "create" /\ j.request = job[p].request /\ j.amount = job[p].amount
      BY <1>0, NullRows DEF Job
    <2> HIDE DEF taken, j
    <2>3. AmountOK(j, request)
      BY <1>0, <2>1, <2>2 DEF AmountOK
    <2> QED
      BY <2>1, <2>3
  <1> QED
    BY <1>1, <1>2

LEMMA JobSet ==
    ASSUME Typed, NEW p \in Process, NEW j, job' = [job EXCEPT ![p] = j], AmountOK(j, request'),
           NEW q \in Process
    PROVE  job'[q] = job[q] \/ AmountOK(job'[q], request')
  BY DEF Typed

(* A handler stays as it is, or its next amount is fair.                   *)
LEMMA WorthyJobs ==
    ASSUME Typed, Orderly, Worthy, [ReturnsNext]_vars, ~disturbed', NEW q \in Process
    PROVE  job'[q] = job[q] \/ AmountOK(job'[q], request')
  <1>0. Idle.pc = "idle" /\ Idle.request = NoRequest /\ job \in [Process -> Job]
    BY NullRows DEF Typed, Idle
  <1> DEFINE Good == job'[q] = job[q] \/ AmountOK(job'[q], request')
             Calm(p) == \E j : /\ job' = [job EXCEPT ![p] = j]
                               /\ j.pc \notin {"refund", "send", "close", "closing", "reserve", "create"}
  <1>1. ASSUME NEW p \in Process, Calm(p) PROVE Good
    BY <1>1, NoAmount, JobSet
  <1>2. ASSUME NEW p \in Process, Decide(p) PROVE Good
    <2>1. CASE \E new : Write(p, new, Idle)
      BY <1>0, <1>1, <2>1 DEF Write
    <2>2. CASE \E i \in Item, accepted \in 0..Max({Line[j].quantity : j \in Item}),
                  deduction \in Deduction : Inspect(p, i, accepted, deduction)
      BY <1>0, <1>1, <2>2 DEF Inspect
    <2>3. CASE ApproveRefund(p)
      BY <2>3, WorthyApprovesRefund, JobSet
    <2>4. CASE Send(p)
      BY <2>4, WorthySends, JobSet
    <2>5. CASE Close(p)
      BY <2>5, WorthyGoesOn, JobSet
    <2>6. Approve(p) \/ Receive(p) => \E new : Write(p, new, Idle)
      BY ApproveWrites, ReceiveWrites
    <2>7. MoveOn(p) \/ CloseCommit(p) => \E new : Write(p, new, Idle)
      BY DEF MoveOn, CloseCommit
    <2> QED
      BY <1>2, <2>1, <2>2, <2>3, <2>4, <2>5, <2>6, <2>7 DEF Decide
  <1>3. ASSUME NEW p \in Process, NEW r \in Request, LoadRefund(p, r) \/ LoadRetry(p, r) PROVE Good
    BY <1>3, WorthyLoads, JobSet
  <1>4. ASSUME NEW p \in Process, NEW r \in Request, NEW action \in DOMAIN Allowed, Load(p, r, action)
        PROVE  Good
    <2> DEFINE j == [Idle EXCEPT !.pc = action, !.request = r, !.seen = request[r]]
    <2>1. job' = [job EXCEPT ![p] = j] /\ j.pc = action
      BY <1>4 DEF Load, Idle
    <2>2. j.pc \notin {"refund", "send", "close", "closing", "reserve", "create"}
      BY <2>1 DEF Allowed
    <2> HIDE DEF j
    <2> QED
      BY <1>1, <2>1, <2>2
  <1>5. ASSUME NEW p \in Process, NEW amount \in Goodwill, RefundOrder(p, amount) PROVE Good
    <2> DEFINE j == [Idle EXCEPT !.pc = "reserve", !.amount = amount]
    <2>1. job' = [job EXCEPT ![p] = j] /\ j.pc = "reserve" /\ j.request = NoRequest
      BY <1>5 DEF RefundOrder, Idle
    <2> HIDE DEF j
    <2>2. AmountOK(j, request')
      BY <2>1, NullAssumption DEF AmountOK
    <2> QED
      BY <2>1, <2>2, JobSet
  <1>6. ASSUME NEW p \in Process, NEW f \in Refund, Webhook(p, f) PROVE Good
    <2> DEFINE j == [Idle EXCEPT !.pc = "settle", !.refund = f, !.outcome = Answer[paidBack[f]]]
    <2>1. job' = [job EXCEPT ![p] = j] /\ j.pc = "settle"
      BY <1>6 DEF Webhook, Idle
    <2> HIDE DEF j
    <2> QED
      BY <1>1, <2>1
  <1>7. ASSUME NEW p \in Process, ReserveRead(p) PROVE Good
    BY <1>7, WorthyGoesOn, JobSet
  <1>8. ASSUME NEW p \in Process, NEW f \in Refund, ReserveCommit(p, f) PROVE Good
    <2> DEFINE j == [Idle EXCEPT !.pc = "call", !.refund = f]
    <2>1. job' = [job EXCEPT ![p] = j] /\ j.pc = "call"
      BY <1>8 DEF ReserveCommit, Idle
    <2> HIDE DEF j
    <2> QED
      BY <1>1, <2>1
  <1>9. ASSUME NEW p \in Process, Refused(p) \/ Crash(p) \/ SettleCommit(p) PROVE Good
    BY <1>0, <1>1, <1>9 DEF Refused, Crash, SettleCommit
  <1>10. ASSUME NEW p \in Process,
                \/ \E status \in {"pending", "succeeded", "failed"} : ProviderAnswers(p, status)
                \/ \E status \in {"pending", "succeeded"} : AnswerLost(p, status)
                \/ ProviderRefuses(p)
         PROVE  Good
    <2>1. PICK outcome \in {"PROCESSING", "PROCESSED", "FAILED"}, pc \in {"record", "settle"} :
             job' = [job EXCEPT ![p].pc = pc, ![p].outcome = outcome]
      <3>1. \A status \in {"pending", "succeeded", "failed"} :
               Answer[status] \in {"PROCESSING", "PROCESSED", "FAILED"}
        BY Answers
      <3> QED
        BY <1>10, <3>1 DEF ProviderAnswers, AnswerLost, ProviderRefuses
    <2> DEFINE j == [job[p] EXCEPT !.pc = pc, !.outcome = outcome]
    <2>2. job' = [job EXCEPT ![p] = j] /\ j.pc = pc
      BY <1>0, <2>1 DEF Job
    <2> HIDE DEF j
    <2> QED
      BY <1>1, <2>2
  <1>11. ASSUME NEW p \in Process, Record(p) \/ SettleRead(p) PROVE Good
    <2>1. PICK pc \in {"settle", "sum", "commit"} :
             \/ job' = [job EXCEPT ![p] = Idle] \/ job' = [job EXCEPT ![p].pc = pc]
      BY <1>0, <1>11 DEF Record, SettleRead
    <2> DEFINE j == [job[p] EXCEPT !.pc = pc]
    <2>2. job' = [job EXCEPT ![p] = Idle] \/ (job' = [job EXCEPT ![p] = j] /\ j.pc = pc)
      BY <1>0, <2>1 DEF Job
    <2> HIDE DEF j
    <2> QED
      BY <1>0, <1>1, <2>2
  <1>12. ASSUME NEW p \in Process, SettleSum(p) PROVE Good
    <2>1. PICK result : job' = [job EXCEPT ![p].pc = "commit", ![p].result = result]
      BY <1>12 DEF SettleSum
    <2> DEFINE j == [job[p] EXCEPT !.pc = "commit", !.result = result]
    <2>2. job' = [job EXCEPT ![p] = j] /\ j.pc = "commit"
      BY <1>0, <2>1 DEF Job
    <2> HIDE DEF j
    <2> QED
      BY <1>1, <2>2
  <1>13. ASSUME \/ Deliver \/ UNCHANGED vars \/ \E r \in Request : CreateRequest(r)
                \/ \E f \in Refund, status \in {"succeeded", "failed"} : ProviderDecides(f, status)
         PROVE  Good
    BY <1>13 DEF Deliver, ProviderDecides, CreateRequest, vars
  <1> HIDE DEF Good
  <1>14. ASSUME NEW p \in Process, IssueStep(p) \/ SettleStep(p) PROVE Good
    BY <1>7, <1>8, <1>9, <1>10, <1>11, <1>12, <1>14 DEF IssueStep, SettleStep
  <1>15. Good
    BY <1>2, <1>3, <1>4, <1>5, <1>6, <1>9, <1>13, <1>14 DEF ReturnsNext
  <1> QED
    BY <1>15 DEF Good

(* A request being refunded keeps its items, so its amount stays fair.     *)
LEMMA AmountKept ==
    ASSUME Typed, Orderly, RowsStep, NEW q \in Process, AmountOK(job[q], request)
    PROVE  AmountOK(job[q], request')
  <1>1. ASSUME job[q].pc \in {"reserve", "create"}, job[q].request \in Request
        PROVE  Fair(job[q].amount, request'[job[q].request])
    <2>1. request[job[q].request].status = "REFUND_PROCESSING"
      BY <1>1 DEF Orderly, IssuerOK, Reserves, Issuing
    <2>2. request'[job[q].request].item = request[job[q].request].item
      BY <1>1, <2>1 DEF RowsStep, RowStep, Decided
    <2>3. Fair(job[q].amount, request[job[q].request])
      BY <1>1 DEF AmountOK
    <2> QED
      BY <2>2, <2>3, SameItems
  <1> QED
    BY <1>1 DEF AmountOK

(* The refunds that count are those that did, and a new one that is fair.  *)
LEMMA RefundFairKept ==
    ASSUME Typed, Orderly, Orderly', RowsStep, RefundFair(request, refund),
           \A f \in Reserved(refund') : refund'[f].request \in Request =>
              \/ /\ f \in Reserved(refund) /\ refund'[f].amount = refund[f].amount
                 /\ refund'[f].request = refund[f].request
              \/ Fair(refund'[f].amount, request'[refund'[f].request]),
           \A f \in Paid(refund) : f \in Reserved(refund') /\ refund'[f].request = refund[f].request,
           \A r \in Request :
              (/\ request'[r].status = "COMPLETED" /\ request[r].status # "COMPLETED"
               /\ \A f \in Reserved(refund') : refund'[f].request # r) => Fair(0, request'[r])
    PROVE  RefundFair(request', refund')
  <1>1. ASSUME NEW f \in Reserved(refund'), refund'[f].request \in Request
        PROVE  Fair(refund'[f].amount, request'[refund'[f].request])
    <2>1. CASE /\ f \in Reserved(refund) /\ refund'[f].amount = refund[f].amount
               /\ refund'[f].request = refund[f].request
      <3> DEFINE r == refund[f].request
      <3>1. request[r].status \in Decided
        BY <1>1, <2>1 DEF Orderly, OneRefund, Decided
      <3>2. request'[r].item = request[r].item
        BY <1>1, <2>1, <3>1 DEF RowsStep, RowStep
      <3>3. Fair(refund[f].amount, request[r])
        BY <1>1, <2>1 DEF RefundFair
      <3> HIDE DEF r
      <3>4. Fair(refund[f].amount, request'[r])
        BY <3>2, <3>3, SameItems
      <3> QED
        BY <2>1, <3>4 DEF r
    <2> QED
      BY <1>1, <2>1
  <1>2. ASSUME NEW r \in Request, request'[r].status = "COMPLETED",
               \A f \in Reserved(refund') : refund'[f].request # r
        PROVE  Fair(0, request'[r])
    <2>1. CASE request[r].status = "COMPLETED"
      <3>1. ASSUME NEW f \in Reserved(refund), refund[f].request = r PROVE FALSE
        <4>1. f \in Refund /\ refund[f].status = "PROCESSED"
          BY <2>1, <3>1 DEF Orderly, OneRefund, Reserved
        <4> QED
          BY <1>2, <3>1, <4>1 DEF Paid
      <3>2. Fair(0, request[r])
        BY <2>1, <3>1 DEF RefundFair
      <3>3. request'[r].item = request[r].item
        BY <2>1 DEF RowsStep, RowStep, Decided
      <3> QED
        BY <3>2, <3>3, SameItems
    <2> QED
      BY <1>2, <2>1
  <1> QED
    BY <1>1, <1>2 DEF RefundFair

(* What a step makes of the refunds.                                       *)
LEMMA RefundsFair ==
    ASSUME Typed, Matched, Orderly, Worthy, [ReturnsNext]_vars, ~disturbed'
    PROVE  /\ \A f \in Reserved(refund') : refund'[f].request \in Request =>
                 \/ /\ f \in Reserved(refund) /\ refund'[f].amount = refund[f].amount
                    /\ refund'[f].request = refund[f].request
                 \/ Fair(refund'[f].amount, request'[refund'[f].request])
           /\ \A f \in Paid(refund) : f \in Reserved(refund') /\ refund'[f].request = refund[f].request
  <1>0. /\ refund \in [Refund -> RefundRow] /\ Paid(refund) \subseteq Reserved(refund)
        /\ Reserved(refund') \subseteq Refund /\ Paid(refund) \subseteq Refund
    BY DEF Typed, Paid, Reserved
  <1>1. CASE refund' = refund
    BY <1>0, <1>1 DEF Paid, Reserved
  <1>2. ASSUME NEW p \in Process, NEW f \in Refund, ReserveCommit(p, f),
               NEW g \in Refund
        PROVE  /\ g \in Reserved(refund') /\ refund'[g].request \in Request =>
                     \/ /\ g \in Reserved(refund) /\ refund'[g].amount = refund[g].amount
                        /\ refund'[g].request = refund[g].request
                     \/ Fair(refund'[g].amount, request'[refund'[g].request])
               /\ g \in Paid(refund) =>
                     g \in Reserved(refund') /\ refund'[g].request = refund[g].request
    <2>1. /\ job[p].pc = "create" /\ refund[f].status = "NONE" /\ request' = request
          /\ refund'[f].amount = job[p].amount /\ refund'[f].request = job[p].request
          /\ \A x \in Refund \ {f} : refund'[x] = refund[x]
      BY <1>0, <1>2 DEF ReserveCommit
    <2>2. CASE g = f
      <3>1. g \notin Paid(refund)
        BY <2>1, <2>2 DEF Paid
      <3>2. job[p].request \in Request => Fair(job[p].amount, request[job[p].request])
        BY <2>1 DEF Worthy, AmountOK
      <3> QED
        BY <2>1, <2>2, <3>1, <3>2
    <2>3. CASE g # f
      BY <2>1, <2>3 DEF Paid, Reserved
    <2> QED
      BY <2>2, <2>3
  <1>3. ASSUME NEW p \in Process, Record(p), NEW g \in Refund
        PROVE  /\ g \in Reserved(refund') => g \in Reserved(refund)
               /\ refund'[g].amount = refund[g].amount /\ refund'[g].request = refund[g].request
               /\ g \in Paid(refund) => g \in Reserved(refund')
    <2> DEFINE f == job[p].refund
    <2>1. f \in Refund /\ refund[f].status = "PENDING" /\ refund[f] \in RefundRow
      BY <1>3 DEF Record, Typed, JobOK, Calling, Matched, CallOK
    <2>2. /\ refund'[f].status = "PROCESSING" /\ refund'[f].request = refund[f].request
          /\ refund'[f].amount = refund[f].amount
          /\ \A x \in Refund \ {f} : refund'[x] = refund[x]
      BY <1>0, <1>3, <2>1 DEF Record, RefundRow
    <2> HIDE DEF f
    <2> QED
      BY <2>1, <2>2 DEF Paid, Reserved
  <1>4. ASSUME NEW p \in Process, SettleCommit(p), NEW g \in Refund
        PROVE  /\ g \in Reserved(refund') => g \in Reserved(refund)
               /\ refund'[g].amount = refund[g].amount /\ refund'[g].request = refund[g].request
               /\ g \in Paid(refund) => g \in Reserved(refund')
    <2> DEFINE f == job[p].refund
    <2>1. /\ f \in Refund /\ refund'[f].amount = refund[f].amount
          /\ refund'[f].request = refund[f].request
          /\ \A x \in Refund \ {f} : refund'[x] = refund[x]
          /\ Paid(refund') = IF job[p].outcome = "PROCESSED" THEN Paid(refund) \cup {f}
                             ELSE Paid(refund)
      BY <1>4, SettledRefund
    <2>2. Reserved(refund') = IF job[p].outcome = "PROCESSED" THEN Reserved(refund)
                              ELSE Reserved(refund) \ {f}
      BY <1>4, SettlesInOrder
    <2> HIDE DEF f
    <2>3. Paid(refund) \subseteq Paid(refund') /\ Paid(refund') \subseteq Reserved(refund')
      BY <2>1 DEF Paid, Reserved
    <2> QED
      BY <2>1, <2>2, <2>3
  <1> SUFFICES ASSUME NEW g \in Refund
               PROVE  /\ g \in Reserved(refund') /\ refund'[g].request \in Request =>
                            \/ /\ g \in Reserved(refund) /\ refund'[g].amount = refund[g].amount
                               /\ refund'[g].request = refund[g].request
                            \/ Fair(refund'[g].amount, request'[refund'[g].request])
                      /\ g \in Paid(refund) =>
                            g \in Reserved(refund') /\ refund'[g].request = refund[g].request
    BY <1>0
  <1> QED
    BY <1>0, <1>1, <1>2, <1>3, <1>4, RefundsUntouched

(* What completes without a refund has none due.                           *)
LEMMA CompletesFair ==
    ASSUME Typed, Typed', Matched, Orderly, Worthy, [ReturnsNext]_vars, ~disturbed', NEW r \in Request,
           request'[r].status = "COMPLETED", request[r].status # "COMPLETED",
           \A f \in Reserved(refund') : refund'[f].request # r
    PROVE  Fair(0, request'[r])
  <1>0. request \in [Request -> RequestRow]
    BY DEF Typed, RequestsOK
  <1>1. PICK p \in Process : (CloseCommit(p) /\ job[p].request = r) \/ SettleCommit(p)
    BY Completions
  <1>2. CASE CloseCommit(p) /\ job[p].request = r
    <2>1. /\ job[p].pc = "closing"
          /\ request' = [request EXCEPT ![r] = [request[r] EXCEPT !.status = "COMPLETED"]]
      BY <1>2 DEF CloseCommit, Write
    <2>2. request'[r].item = request[r].item
      BY <1>0, <2>1 DEF RequestRow
    <2>3. ClosingOK(job[p], request) /\ AmountOK(job[p], request)
      BY DEF Orderly, Worthy
    <2>4. request[r].item = job[p].seen.item /\ Fair(0, job[p].seen)
      BY <1>2, <2>1, <2>3 DEF ClosingOK, AmountOK
    <2> QED
      BY <2>2, <2>4, SameItems
  <1>3. CASE SettleCommit(p)
    <2> DEFINE f == job[p].refund
               s == refund[f].request
    <2>1. /\ f \in Reserved(refund) /\ s \in Request \cup {NoRequest}
          /\ job[p].outcome = "PROCESSED" <=> refund'[f].status = "PROCESSED"
          /\ Reserved(refund') = IF job[p].outcome = "PROCESSED" THEN Reserved(refund)
                                 ELSE Reserved(refund) \ {f}
          /\ s = NoRequest => request' = request
          /\ s \in Request =>
                request' = [request EXCEPT ![s].status =
                              IF job[p].outcome = "FAILED" THEN "REFUND_APPROVED" ELSE "COMPLETED"]
      BY <1>3, SettlesInOrder
    <2>2. refund'[f].request = s /\ job[p].outcome \in {"PROCESSED", "FAILED"}
      BY <1>3, SettledRefund
    <2> HIDE DEF f, s
    <2>3. s = r
      BY <1>0, <2>1
    <2>4. job[p].outcome = "PROCESSED"
      BY <1>0, <2>1, <2>2, <2>3 DEF RequestRow
    <2>5. f \in Reserved(refund')
      BY <2>1, <2>4
    <2> QED
      BY <2>2, <2>3, <2>5
  <1> QED
    BY <1>1, <1>2, <1>3

LEMMA WorthyStep ==
    ASSUME Typed, Typed', Matched, Orderly, Worthy, [ReturnsNext]_vars, ~disturbed'
    PROVE  Worthy'
  <1>1. Orderly' /\ RowsStep
    BY OrderlyStep
  <1>2. RefundFair(request', refund')
    BY <1>1, RefundsFair, CompletesFair, RefundFairKept DEF Worthy
  <1>3. \A q \in Process : AmountOK(job'[q], request')
    BY <1>1, WorthyJobs, AmountKept DEF Worthy
  <1> QED
    BY <1>2, <1>3 DEF Worthy

LEMMA WorthyStart ==
    ASSUME ReturnsInit
    PROVE  Worthy
  <1>1. /\ \A p \in Process : job[p] = Idle
        /\ \A r \in Request : request[r].status = "NONE"
        /\ Reserved(refund) = {}
    BY NullRows DEF ReturnsInit, Reserved, NoRefundRow
  <1>2. Idle.pc = "idle"
    BY NullRows
  <1> QED
    BY <1>1, <1>2, NoAmount DEF Worthy, RefundFair

LEMMA WorthyIsCompletedInFull ==
    ASSUME Typed, Orderly, Worthy
    PROVE  CompletedInFull
  <1> SUFFICES ASSUME NEW r \in Request, request[r].status = "COMPLETED"
               PROVE  /\ OfRequest(r) \cap Reserving \subseteq Processed
                      /\ Amounts(OfRequest(r) \cap Processed) - ItemsTotal(request[r])
                            \in {0, Money.shippingCharge}
    BY DEF CompletedInFull
  <1>1. ASSUME NEW f \in OfRequest(r) \cap Reserving
        PROVE  f \in Processed /\ \A g \in OfRequest(r) \cap Reserving : g = f
    <2>1. f \in Reserved(refund) /\ refund[f].request = r
      BY <1>1 DEF OfRequest, Reserving, Reserved
    <2>2. refund[f].status = "PROCESSED" /\ \A g \in Reserved(refund) : refund[g].request = r => g = f
      BY <2>1 DEF Orderly, OneRefund
    <2> QED
      BY <1>1, <2>2 DEF OfRequest, Reserving, Reserved, Processed
  <1>2. Processed \subseteq Reserving
    BY DEF Processed, Reserving
  <1>3. CASE OfRequest(r) \cap Processed = {}
    <2>1. \A f \in Reserved(refund) : refund[f].request # r
      BY <1>1, <1>3 DEF OfRequest, Reserving, Reserved
    <2>2. Fair(0, request[r])
      BY <2>1 DEF Worthy, RefundFair
    <2>3. Amounts({}) = 0
      BY FS_EmptySet, SumChosen DEF Amounts
    <2> QED
      BY <1>1, <1>3, <2>2, <2>3 DEF Fair
  <1>4. ASSUME NEW f \in OfRequest(r) \cap Processed
        PROVE  Amounts(OfRequest(r) \cap Processed) - ItemsTotal(request[r])
                  \in {0, Money.shippingCharge}
    <2>1. OfRequest(r) \cap Processed = {f}
      BY <1>1, <1>2, <1>4
    <2> DEFINE h == [g \in Refund |-> refund[g].amount]
    <2>2. f \in Refund /\ h[f] = refund[f].amount /\ h[f] \in Int
      BY <1>4 DEF OfRequest, Typed, RefundRow
    <2>3. Amounts({f}) = SumFunctionOnSet(h, {f}) /\ IsFiniteSet({f}) /\ {f} \ {f} = {}
      BY FS_Singleton DEF Amounts
    <2> HIDE DEF h
    <2>4. SumFunctionOnSet(h, {f}) = h[f] + SumFunctionOnSet(h, {f} \ {f})
      BY <2>2, <2>3, SumTakeOut
    <2>5. SumFunctionOnSet(h, {}) = 0
      BY FS_EmptySet, SumChosen
    <2>6. Amounts({f}) = refund[f].amount
      <3>1. SumFunctionOnSet(h, {f}) = h[f] + 0
        BY <2>3, <2>4, <2>5
      <3> QED
        BY <2>2, <2>3, <3>1
    <2>7. f \in Reserved(refund) /\ refund[f].request = r
      BY <1>4 DEF OfRequest, Processed, Reserved
    <2>8. Fair(refund[f].amount, request[r])
      BY <2>7 DEF Worthy, RefundFair
    <2> QED
      BY <2>1, <2>6, <2>8 DEF Fair
  <1> QED
    BY <1>1, <1>3, <1>4

-----------------------------------------------------------------------------
(* Followed is kept.                                                       *)

RowsOK(requests) == \A r \in Request : RowOK(requests[r])

Returned(r, i) == ReturnedQuantity(r.item[i], r.status)

LEMMA ReturnedIsNat ==
    ASSUME NEW requests, RowsOK(requests), NEW i \in Item
    PROVE  ReturnedOf(requests, i) \in Nat
  <1> DEFINE h == [r \in Request |-> ReturnedQuantity(requests[r].item[i], requests[r].status)]
  <1>1. \A r \in Request : h[r] \in Nat
    BY RowFields, UnitsAreNat DEF RowsOK
  <1>2. ReturnedOf(requests, i) = SumFunctionOnSet(h, Request)
    BY DEF ReturnedOf, SumFunction
  <1> HIDE DEF h
  <1> QED
    BY <1>1, <1>2, FiniteAssumption, SumIsNat

(* Where no less has been returned, a status says no more than before.     *)
LEMMA SaysGrows ==
    ASSUME NEW before, NEW after, RowsOK(before), RowsOK(after),
           \A r \in Request, i \in Item : Returned(before[r], i) <= Returned(after[r], i),
           NEW status, Says(status, before)
    PROVE  Says(status, after)
  <1>1. ASSUME NEW i \in Item PROVE ReturnedOf(before, i) <= ReturnedOf(after, i)
    <2> DEFINE h == [r \in Request |-> ReturnedQuantity(before[r].item[i], before[r].status)]
               k == [r \in Request |-> ReturnedQuantity(after[r].item[i], after[r].status)]
    <2>1. \A r \in Request : h[r] \in Int /\ k[r] \in Int /\ h[r] <= k[r]
      BY RowFields, UnitsAreNat DEF RowsOK, Returned
    <2>2. /\ ReturnedOf(before, i) = SumFunctionOnSet(h, Request)
          /\ ReturnedOf(after, i) = SumFunctionOnSet(k, Request)
      BY DEF ReturnedOf, SumFunction
    <2> HIDE DEF h, k
    <2> QED
      BY <2>1, <2>2, FiniteAssumption, SumMonotonic
  <1>2. \A i \in Item : ReturnedOf(before, i) \in Nat /\ ReturnedOf(after, i) \in Nat
    BY ReturnedIsNat
  <1>3. SumFunction([i \in Item |-> ReturnedOf(before, i)])
          <= SumFunction([i \in Item |-> ReturnedOf(after, i)])
    <2> DEFINE h == [i \in Item |-> ReturnedOf(before, i)]
               k == [i \in Item |-> ReturnedOf(after, i)]
    <2>1. \A i \in Item : h[i] \in Int /\ k[i] \in Int /\ h[i] <= k[i]
      BY <1>1, <1>2
    <2>2. SumFunction(h) = SumFunctionOnSet(h, Item) /\ SumFunction(k) = SumFunctionOnSet(k, Item)
      BY DEF SumFunction
    <2> HIDE DEF h, k
    <2>3. SumFunction(h) <= SumFunction(k)
      BY <2>1, <2>2, FiniteAssumption, SumMonotonic
    <2> QED
      BY <2>3 DEF h, k
  <1>4. /\ SumFunction([i \in Item |-> ReturnedOf(before, i)]) \in Int
        /\ SumFunction([i \in Item |-> ReturnedOf(after, i)]) \in Int
    <2> DEFINE h == [i \in Item |-> ReturnedOf(before, i)]
               k == [i \in Item |-> ReturnedOf(after, i)]
    <2>1. \A i \in Item : h[i] \in Int /\ k[i] \in Int
      BY <1>2
    <2>2. SumFunction(h) = SumFunctionOnSet(h, Item) /\ SumFunction(k) = SumFunctionOnSet(k, Item)
      BY DEF SumFunction
    <2> HIDE DEF h, k
    <2>3. SumFunction(h) \in Int /\ SumFunction(k) \in Int
      BY <2>1, <2>2, FiniteAssumption, SumIsInt
    <2> QED
      BY <2>3 DEF h, k
  <1>5. \A i \in Item : Line[i].quantity \in Nat
    BY LineAssumption
  <1>6. ASSUME status = "RETURNED", NEW i \in Item PROVE ReturnedOf(after, i) >= Line[i].quantity
    BY <1>1, <1>2, <1>5, <1>6 DEF Says
  <1>7. ASSUME status = "PARTIALLY_RETURNED"
        PROVE  SumFunction([i \in Item |-> ReturnedOf(after, i)]) > 0
    <2>1. SumFunction([i \in Item |-> ReturnedOf(before, i)]) > 0
      BY <1>7 DEF Says
    <2> QED
      BY <1>3, <1>4, <2>1
  <1> QED
    BY <1>6, <1>7 DEF Says

(* The status worked out anew says what is true of the requests.           *)
LEMMA StatusAfterSays ==
    ASSUME NEW requests, RowsOK(requests), Says(row.status, requests)
    PROVE  Says(StatusAfter(requests), requests)
  <1> DEFINE h == [i \in Item |-> Least(ReturnedOf(requests, i), Line[i].quantity)]
             k == [i \in Item |-> Line[i].quantity]
             m == [i \in Item |-> ReturnedOf(requests, i)]
  <1>1. ASSUME NEW i \in Item
        PROVE  /\ h[i] \in Nat /\ k[i] \in Nat /\ m[i] \in Nat /\ h[i] <= k[i] /\ h[i] <= m[i]
               /\ h[i] \in Int /\ k[i] \in Int /\ m[i] \in Int
    BY LineAssumption, ReturnedIsNat DEF Least
  <1>2. /\ SumFunction(h) = SumFunctionOnSet(h, Item) /\ SumFunction(k) = SumFunctionOnSet(k, Item)
        /\ SumFunction(m) = SumFunctionOnSet(m, Item)
    BY DEF SumFunction
  <1>3. StatusAfter(requests) = OrderStatusAfterReturns(row.status, SumFunction(k), SumFunction(h))
    BY DEF StatusAfter
  <1>4. \A i \in Item : h[i] = k[i] => ReturnedOf(requests, i) >= Line[i].quantity
    BY LineAssumption, ReturnedIsNat DEF Least
  <1>5. Says("PARTIALLY_RETURNED", requests) <=> SumFunction(m) > 0
    BY DEF Says
  <1> HIDE DEF h, k, m
  <1>6. /\ SumFunctionOnSet(h, Item) \in Nat /\ SumFunctionOnSet(k, Item) \in Nat
        /\ SumFunctionOnSet(m, Item) \in Nat
    BY <1>1, FiniteAssumption, SumIsNat
  <1>7. SumFunctionOnSet(h, Item) <= SumFunctionOnSet(m, Item)
    BY <1>1, FiniteAssumption, SumMonotonic
  <1>8. CASE SumFunction(h) = 0
    BY <1>3, <1>8 DEF OrderStatusAfterReturns
  <1>9. CASE SumFunction(h) # 0 /\ SumFunction(h) >= SumFunction(k)
    <2>1. \A i \in Item : h[i] = k[i]
      BY <1>1, <1>2, <1>9, FiniteAssumption, SumTight
    <2>2. StatusAfter(requests) = "RETURNED"
      BY <1>3, <1>9 DEF OrderStatusAfterReturns
    <2> QED
      BY <1>4, <2>1, <2>2 DEF Says
  <1>10. CASE SumFunction(h) # 0 /\ ~ (SumFunction(h) >= SumFunction(k))
    <2>1. StatusAfter(requests) = "PARTIALLY_RETURNED"
      BY <1>3, <1>10 DEF OrderStatusAfterReturns
    <2>2. SumFunction(m) > 0
      BY <1>2, <1>6, <1>7, <1>10
    <2> QED
      BY <1>5, <2>1, <2>2
  <1> QED
    BY <1>8, <1>9, <1>10

LEMMA RowsAreOK ==
    ASSUME Typed
    PROVE  request \in [Request -> RequestRow] /\ RowsOK(request)
  BY DEF Typed, RequestsOK, RowsOK

(* A step takes no returned unit back, nor does a completion.              *)
LEMMA ReturnedGrows ==
    ASSUME Typed, Typed', RowsStep
    PROVE  /\ RowsOK(request) /\ RowsOK(request')
           /\ \A r \in Request, i \in Item : Returned(request[r], i) <= Returned(request'[r], i)
  <1>1. RowsOK(request) /\ RowsOK(request')
    BY DEF Typed, RequestsOK, RowsOK
  <1>2. ASSUME NEW r \in Request, NEW i \in Item
        PROVE  Returned(request[r], i) <= Returned(request'[r], i)
    <2>1. Returned(request[r], i) \in Nat /\ Returned(request'[r], i) \in Nat
      BY <1>1, RowFields, UnitsAreNat DEF RowsOK, Returned
    <2>2. CASE request[r].status = "COMPLETED"
      <3>1. request'[r] = request[r]
        BY <2>2 DEF RowsStep, RowStep
      <3> QED
        BY <2>1, <3>1
    <2>3. CASE request[r].status # "COMPLETED"
      <3>1. Returned(request[r], i) = 0
        BY <2>3 DEF Returned, ReturnedQuantity
      <3> QED
        BY <2>1, <3>1
    <2> QED
      BY <2>2, <2>3
  <1> QED
    BY <1>1, <1>2

LEMMA CompletingGrows ==
    ASSUME Typed, NEW s \in Request
    PROVE  /\ RowsOK(Completing(s, request))
           /\ \A r \in Request, i \in Item :
                 Returned(request[r], i) <= Returned(Completing(s, request)[r], i)
           /\ Completing(s, request)[s].item = request[s].item
           /\ Completing(s, request)[s].status = "COMPLETED"
           /\ \A r \in Request \ {s} : Completing(s, request)[r] = request[r]
  <1> DEFINE new == [request[s] EXCEPT !.status = "COMPLETED"]
             after == Completing(s, request)
  <1>0. request \in [Request -> RequestRow] /\ RowsOK(request)
    BY RowsAreOK
  <1>1. RowOK(new) /\ new.item = request[s].item /\ new.status = "COMPLETED"
    BY <1>0, MovedRow DEF RowsOK, ReturnStatus
  <1>2. after[s] = new /\ \A r \in Request \ {s} : after[r] = request[r]
    BY <1>0 DEF Completing
  <1> HIDE DEF new, after
  <1>3. RowsOK(after)
    BY <1>0, <1>1, <1>2 DEF RowsOK
  <1>4. ASSUME NEW r \in Request, NEW i \in Item
        PROVE  Returned(request[r], i) <= Returned(after[r], i)
    <2>1. Returned(request[r], i) \in Nat /\ Returned(after[r], i) \in Nat
      BY <1>0, <1>3, RowFields, UnitsAreNat DEF RowsOK, Returned
    <2>2. CASE r = s /\ request[r].status # "COMPLETED"
      <3>1. Returned(request[r], i) = 0
        BY <2>2 DEF Returned, ReturnedQuantity
      <3> QED
        BY <2>1, <3>1
    <2>3. CASE r # s \/ request[r].status = "COMPLETED"
      <3>1. Returned(request[r], i) = Returned(after[r], i)
        BY <1>1, <1>2, <2>3 DEF Returned
      <3> QED
        BY <2>1, <3>1
    <2> QED
      BY <2>2, <2>3
  <1>5. /\ RowsOK(after) /\ \A r \in Request, i \in Item : Returned(request[r], i) <= Returned(after[r], i)
        /\ after[s].item = request[s].item /\ after[s].status = "COMPLETED"
        /\ \A r \in Request \ {s} : after[r] = request[r]
    BY <1>1, <1>2, <1>3, <1>4
  <1> QED
    BY <1>5 DEF after

(* What a handler is about to write keeps being true.                      *)
LEMMA NextKept ==
    ASSUME Typed, Typed', Orderly, RowsStep, NEW q \in Process, NextOK(job[q], request)
    PROVE  NextOK(job[q], request')
  <1> SUFFICES ASSUME job[q].pc = "closing"
               PROVE  Says(job[q].next, Completing(job[q].request, request'))
    BY DEF NextOK
  <1> DEFINE s == job[q].request
             before == Completing(s, request)
             after == Completing(s, request')
  <1>1. s \in Request
    BY DecidingJob DEF Deciding
  <1>2. /\ RowsOK(before) /\ before[s].item = request[s].item /\ before[s].status = "COMPLETED"
        /\ \A r \in Request \ {s} : before[r] = request[r]
    BY <1>1, CompletingGrows
  <1>3. /\ RowsOK(after) /\ after[s].item = request'[s].item /\ after[s].status = "COMPLETED"
        /\ \A r \in Request \ {s} : after[r] = request'[r]
    <2> DEFINE new == [request'[s] EXCEPT !.status = "COMPLETED"]
    <2>1. request' \in [Request -> RequestRow] /\ RowsOK(request')
      BY DEF Typed, RequestsOK, RowsOK
    <2>2. RowOK(new) /\ new.item = request'[s].item /\ new.status = "COMPLETED"
      BY <1>1, <2>1, MovedRow DEF RowsOK, ReturnStatus
    <2>3. after[s] = new /\ \A r \in Request \ {s} : after[r] = request'[r]
      BY <1>1, <2>1 DEF Completing
    <2> HIDE DEF new, after
    <2> QED
      BY <1>1, <2>1, <2>2, <2>3 DEF RowsOK
  <1>4. request'[s].item = request[s].item
    <2>1. request[s].status \in Decided
      BY DEF Orderly, ClosingOK
    <2> QED
      BY <1>1, <2>1 DEF RowsStep, RowStep
  <1>5. Says(job[q].next, before)
    BY DEF NextOK
  <1> HIDE DEF s, before, after
  <1>6. ASSUME NEW r \in Request, NEW i \in Item
        PROVE  Returned(before[r], i) <= Returned(after[r], i)
    <2>1. CASE r = s
      <3>1. Returned(before[r], i) = Returned(after[r], i)
        BY <1>2, <1>3, <1>4, <2>1 DEF Returned
      <3>2. Returned(before[r], i) \in Nat
        BY <1>2, RowFields, UnitsAreNat DEF RowsOK, Returned
      <3> QED
        BY <3>1, <3>2
    <2>2. CASE r # s
      BY <1>2, <1>3, <2>2, ReturnedGrows
    <2> QED
      BY <2>1, <2>2
  <1>7. Says(job[q].next, after)
    BY <1>2, <1>3, <1>5, <1>6, SaysGrows
  <1> QED
    BY <1>7 DEF s, after

LEMMA FollowedCloses ==
    ASSUME Typed, Followed, NEW p \in Process, Close(p)
    PROVE  NextOK(job'[p], request')
  <1> DEFINE s == job[p].request
             after == Completing(s, request)
             next == IF StatusAfter(after) = row.status THEN "NONE" ELSE StatusAfter(after)
             j == [job[p] EXCEPT !.pc = "closing", !.next = next]
  <1>1. job[p].pc = "close" /\ request' = request /\ job[p] \in Job /\ job \in [Process -> Job]
    BY DEF Close, Typed
  <1>2. job' = [job EXCEPT ![p].pc = "closing", ![p].next = next]
    BY DEF Close, Completing
  <1>3. s \in Request
    BY <1>1, DecidingJob DEF Deciding
  <1>4. RowsOK(after) /\ \A r \in Request, i \in Item : Returned(request[r], i) <= Returned(after[r], i)
    BY <1>3, CompletingGrows
  <1>5. j.pc = "closing" /\ j.request = s /\ j.next = next /\ job'[p] = j
    BY <1>1, <1>2 DEF Job
  <1> HIDE DEF s, after, j
  <1>6. Says(row.status, after)
    BY <1>4, RowsAreOK, SaysGrows DEF Followed
  <1>7. Says(StatusAfter(after), after)
    BY <1>4, <1>6, StatusAfterSays
  <1>8. Says("NONE", after)
    BY DEF Says
  <1>9. Says(next, after)
    BY <1>7, <1>8
  <1> HIDE DEF next
  <1> QED
    BY <1>1, <1>5, <1>9 DEF NextOK, after

(* Only Close makes up its mind about the status of the order.             *)
LEMMA ClosingStarts ==
    ASSUME Typed, [ReturnsNext]_vars, NEW q \in Process, job'[q].pc = "closing", ~Close(q)
    PROVE  job'[q] = job[q]
  <1>0. Idle.pc = "idle" /\ job \in [Process -> Job] /\ job[q] \in Job
    BY NullRows DEF Typed
  <1> DEFINE Good == job'[q] = job[q]
             Calm(p) == \E j : job' = [job EXCEPT ![p] = j] /\ j.pc # "closing"
  <1>1. ASSUME NEW p \in Process, Calm(p) PROVE Good
    BY <1>0, <1>1
  <1>2. ASSUME NEW p \in Process, NEW pc, pc # "closing", job'[p].pc = pc,
               \E j : job' = [job EXCEPT ![p] = j]
        PROVE  Good
    BY <1>0, <1>2
  <1>3. ASSUME NEW p \in Process, Decide(p) PROVE Good
    <2>1. CASE \E new : Write(p, new, Idle)
      BY <1>0, <1>1, <2>1 DEF Write
    <2>2. CASE \E i \in Item, accepted \in 0..Max({Line[j].quantity : j \in Item}),
                  deduction \in Deduction : Inspect(p, i, accepted, deduction)
      BY <1>0, <1>1, <2>2 DEF Inspect
    <2>3. CASE ApproveRefund(p)
      <3> DEFINE new == RefundedRow(request[job[p].request], job[p].seen, job[p].shipping)
                 pc == IF job[p].amount > 0 THEN "send" ELSE "close"
                 j == [job[p] EXCEPT !.pc = pc, !.seen = new]
      <3>1. job' = [job EXCEPT ![p] = j]
        BY <2>3, ApproveRefundWrites DEF Write
      <3>2. j.pc = pc /\ pc # "closing"
        BY <1>0 DEF Job
      <3> HIDE DEF j, pc
      <3> QED
        BY <1>1, <3>1, <3>2
    <2>4. CASE Send(p)
      <3> DEFINE j == [job[p] EXCEPT !.pc = "reserve", !.seen = NoRequestRow]
      <3>1. job' = [job EXCEPT ![p] = j] /\ j.pc = "reserve"
        BY <1>0, <2>4 DEF Send, Write, Job
      <3> HIDE DEF j
      <3> QED
        BY <1>1, <3>1
    <2>5. CASE Close(p)
      <3>1. PICK next : job' = [job EXCEPT ![p].pc = "closing", ![p].next = next]
        BY <2>5 DEF Close
      <3> QED
        BY <1>0, <2>5, <3>1
    <2>6. Approve(p) \/ Receive(p) => \E new : Write(p, new, Idle)
      BY ApproveWrites, ReceiveWrites
    <2>7. MoveOn(p) \/ CloseCommit(p) => \E new : Write(p, new, Idle)
      BY DEF MoveOn, CloseCommit
    <2> QED
      BY <1>3, <2>1, <2>2, <2>3, <2>4, <2>5, <2>6, <2>7 DEF Decide
  <1>4. ASSUME NEW p \in Process, NEW r \in Request,
               \/ \E action \in DOMAIN Allowed : Load(p, r, action)
               \/ LoadRefund(p, r) \/ LoadRetry(p, r)
        PROVE  Good
    <2>1. ASSUME NEW action \in DOMAIN Allowed, Load(p, r, action) PROVE Good
      <3> DEFINE k == [Idle EXCEPT !.pc = action, !.request = r, !.seen = request[r]]
      <3>1. job' = [job EXCEPT ![p] = k] /\ k.pc = action
        BY <2>1 DEF Load, Idle
      <3>2. action # "closing"
        BY DEF Allowed
      <3> HIDE DEF k
      <3> QED
        BY <1>1, <3>1, <3>2
    <2>2. CASE LoadRefund(p, r)
      <3> DEFINE k == [Idle EXCEPT !.pc = "refund", !.request = r, !.seen = request[r],
                                   !.shipping = ShippingDue(r),
                                   !.amount = ItemsTotal(request[r]) + ShippingDue(r)]
      <3>1. job' = [job EXCEPT ![p] = k] /\ k.pc = "refund"
        BY <2>2 DEF LoadRefund, Idle
      <3> HIDE DEF k
      <3> QED
        BY <1>1, <3>1
    <2>3. CASE LoadRetry(p, r)
      <3>1. PICK amount : job' = [job EXCEPT ![p] = [Idle EXCEPT !.pc = "send", !.request = r,
                                                          !.seen = request[r], !.amount = amount]]
        BY <2>3 DEF LoadRetry
      <3> DEFINE k == [Idle EXCEPT !.pc = "send", !.request = r, !.seen = request[r], !.amount = amount]
      <3>2. job' = [job EXCEPT ![p] = k] /\ k.pc = "send"
        BY <3>1 DEF Idle
      <3> HIDE DEF k
      <3> QED
        BY <1>1, <3>2
    <2> QED
      BY <1>4, <2>1, <2>2, <2>3
  <1>5. ASSUME NEW p \in Process, NEW amount \in Goodwill, RefundOrder(p, amount) PROVE Good
    BY <1>1, <1>5 DEF RefundOrder, Idle
  <1>6. ASSUME NEW p \in Process, NEW f \in Refund, Webhook(p, f) PROVE Good
    BY <1>1, <1>6 DEF Webhook, Idle
  <1>7. ASSUME NEW p \in Process, ReserveRead(p) PROVE Good
    <2> DEFINE taken == Amounts(Reserving)
               j == IF taken + job[p].amount <= Captured
                      THEN [job[p] EXCEPT !.pc = "create", !.result = taken]
                      ELSE IF job[p].request = NoRequest THEN Idle ELSE [job[p] EXCEPT !.pc = "refused"]
    <2>1. job' = [job EXCEPT ![p] = j]
      BY <1>7 DEF ReserveRead
    <2>2. j.pc # "closing"
      BY <1>0 DEF Job
    <2> HIDE DEF taken, j
    <2> QED
      BY <1>1, <2>1, <2>2
  <1>8. ASSUME NEW p \in Process, NEW f \in Refund, ReserveCommit(p, f) PROVE Good
    BY <1>1, <1>8 DEF ReserveCommit, Idle
  <1>9. ASSUME NEW p \in Process, Refused(p) \/ Crash(p) \/ SettleCommit(p) PROVE Good
    BY <1>0, <1>1, <1>9 DEF Refused, Crash, SettleCommit
  <1>10. ASSUME NEW p \in Process,
                \/ \E status \in {"pending", "succeeded", "failed"} : ProviderAnswers(p, status)
                \/ \E status \in {"pending", "succeeded"} : AnswerLost(p, status)
                \/ ProviderRefuses(p)
         PROVE  Good
    <2>1. PICK outcome \in {"PROCESSING", "PROCESSED", "FAILED"}, pc \in {"record", "settle"} :
             job' = [job EXCEPT ![p].pc = pc, ![p].outcome = outcome]
      <3>1. \A status \in {"pending", "succeeded", "failed"} :
               Answer[status] \in {"PROCESSING", "PROCESSED", "FAILED"}
        BY Answers
      <3> QED
        BY <1>10, <3>1 DEF ProviderAnswers, AnswerLost, ProviderRefuses
    <2> DEFINE j == [job[p] EXCEPT !.pc = pc, !.outcome = outcome]
    <2>2. job' = [job EXCEPT ![p] = j] /\ j.pc = pc
      BY <1>0, <2>1 DEF Job
    <2> HIDE DEF j
    <2> QED
      BY <1>1, <2>2
  <1>11. ASSUME NEW p \in Process, Record(p) \/ SettleRead(p) PROVE Good
    <2>1. PICK pc \in {"settle", "sum", "commit"} :
             \/ job' = [job EXCEPT ![p] = Idle] \/ job' = [job EXCEPT ![p].pc = pc]
      BY <1>0, <1>11 DEF Record, SettleRead
    <2> DEFINE j == [job[p] EXCEPT !.pc = pc]
    <2>2. job' = [job EXCEPT ![p] = Idle] \/ (job' = [job EXCEPT ![p] = j] /\ j.pc = pc)
      BY <1>0, <2>1 DEF Job
    <2> HIDE DEF j
    <2> QED
      BY <1>0, <1>1, <2>2
  <1>12. ASSUME NEW p \in Process, SettleSum(p) PROVE Good
    <2>1. PICK result : job' = [job EXCEPT ![p].pc = "commit", ![p].result = result]
      BY <1>12 DEF SettleSum
    <2> DEFINE j == [job[p] EXCEPT !.pc = "commit", !.result = result]
    <2>2. job' = [job EXCEPT ![p] = j] /\ j.pc = "commit"
      BY <1>0, <2>1 DEF Job
    <2> HIDE DEF j
    <2> QED
      BY <1>1, <2>2
  <1>13. ASSUME \/ Deliver \/ UNCHANGED vars \/ \E r \in Request : CreateRequest(r)
                \/ \E f \in Refund, status \in {"succeeded", "failed"} : ProviderDecides(f, status)
         PROVE  Good
    BY <1>13 DEF Deliver, ProviderDecides, CreateRequest, vars
  <1> HIDE DEF Good
  <1>14. ASSUME NEW p \in Process, IssueStep(p) \/ SettleStep(p) PROVE Good
    BY <1>7, <1>8, <1>9, <1>10, <1>11, <1>12, <1>14 DEF IssueStep, SettleStep
  <1>15. Good
    BY <1>3, <1>4, <1>5, <1>6, <1>9, <1>13, <1>14 DEF ReturnsNext
  <1> QED
    BY <1>15 DEF Good

(* Where the order's status moves.                                         *)
LEMMA StatusMoves ==
    ASSUME Typed, [ReturnsNext]_vars
    PROVE  \/ row'.status \in {row.status, "DELIVERED"}
           \/ \E p \in Process : CloseCommit(p) \/ SettleCommit(p)
  <1> SUFFICES ASSUME \A p \in Process : ~CloseCommit(p) /\ ~SettleCommit(p)
               PROVE  row'.status \in {row.status, "DELIVERED"}
    OBVIOUS
  <1>1. ASSUME Deliver PROVE row'.status = "DELIVERED"
    BY <1>1 DEF Deliver, Typed, RowType
  <1>2. ASSUME NEW p \in Process, Decide(p), ~CloseCommit(p) PROVE row' = row
    BY <1>2 DEF Decide, MoveOn, Approve, Receive, Inspect, ApproveRefund, Close, Send
  <1>3. ASSUME NEW p \in Process, IssueStep(p) PROVE row' = row
    BY <1>3 DEF IssueStep, ReserveRead, Refused, ReserveCommit, ProviderAnswers, AnswerLost,
                ProviderRefuses, Record
  <1>4. ASSUME NEW p \in Process, SettleStep(p), ~SettleCommit(p) PROVE row' = row
    BY <1>4 DEF SettleStep, SettleRead, SettleSum
  <1>5. ASSUME NEW p \in Process, \/ \E amount \in Goodwill : RefundOrder(p, amount)
                                  \/ \E f \in Refund : Webhook(p, f)
                                  \/ Crash(p)
        PROVE  row' = row
    BY <1>5 DEF RefundOrder, Webhook, Crash
  <1>6. ASSUME NEW p \in Process, NEW r \in Request,
               \/ \E action \in DOMAIN Allowed : Load(p, r, action)
               \/ LoadRefund(p, r) \/ LoadRetry(p, r)
        PROVE  row' = row
    BY <1>6 DEF Load, LoadRefund, LoadRetry
  <1>7. ASSUME \/ UNCHANGED vars \/ \E r \in Request : CreateRequest(r)
               \/ \E f \in Refund, status \in {"succeeded", "failed"} : ProviderDecides(f, status)
        PROVE  row' = row
    BY <1>7 DEF vars, CreateRequest, ProviderDecides
  <1>8. ASSUME ~Deliver PROVE row' = row
    <2>1. \A p \in Process : Decide(p) \/ IssueStep(p) \/ SettleStep(p) => row' = row
      BY <1>2, <1>3, <1>4
    <2> QED
      BY <1>5, <1>6, <1>7, <1>8, <2>1 DEF ReturnsNext
  <1>9. row' = row => row'.status = row.status
    OBVIOUS
  <1> QED
    BY <1>1, <1>8, <1>9

LEMMA FollowedStep ==
    ASSUME Typed, Typed', Matched, Orderly, Followed, [ReturnsNext]_vars, ~disturbed'
    PROVE  Followed'
  <1>1. RowsStep
    BY OrderlyStep
  <1>2. ASSUME NEW q \in Process PROVE NextOK(job'[q], request')
    <2>1. CASE job'[q].pc # "closing"
      BY <2>1 DEF NextOK
    <2>2. CASE Close(q)
      BY <2>2, FollowedCloses
    <2>3. CASE job'[q] = job[q]
      BY <1>1, <2>3, NextKept DEF Followed
    <2> QED
      BY <2>1, <2>2, <2>3, ClosingStarts
  <1>3. Says(row.status, request')
    BY <1>1, ReturnedGrows, SaysGrows DEF Followed
  <1>4. CASE row'.status \in {row.status, "DELIVERED"}
    BY <1>2, <1>3, <1>4 DEF Followed, Says
  <1>5. ASSUME NEW p \in Process, CloseCommit(p) PROVE Followed'
    <2>0. job[p].pc = "closing" /\ row \in RowType
      BY <1>5 DEF CloseCommit, Typed
    <2>1. job[p].request \in Request /\ request \in [Request -> RequestRow]
      BY <2>0, DecidingJob, RowsAreOK DEF Deciding
    <2>2. request' = Completing(job[p].request, request)
      BY <1>5, <2>1 DEF CloseCommit, Write, Completing
    <2>3. row'.status = IF job[p].next = "NONE" THEN row.status ELSE job[p].next
      BY <1>5, <2>0 DEF CloseCommit, RowType
    <2>4. Says(job[p].next, request')
      BY <2>0, <2>2 DEF Followed, NextOK
    <2> QED
      BY <1>2, <1>3, <2>3, <2>4 DEF Followed
  <1>6. ASSUME NEW p \in Process, SettleCommit(p) PROVE Followed'
    <2>1. row'.status \in {row.status, StatusAfter(request')}
      <3>1. /\ job[p].outcome = "FAILED" => row' = row
            /\ job[p].outcome # "FAILED" =>
                  row' = [status |-> IF request' = request THEN row.status ELSE StatusAfter(request'),
                          pay |-> IF job[p].result >= Captured THEN "REFUNDED"
                                  ELSE "PARTIALLY_REFUNDED"]
        BY <1>6, SettleWrites
      <3>2. CASE job[p].outcome = "FAILED"
        BY <3>1, <3>2
      <3>3. CASE job[p].outcome # "FAILED"
        <4>1. row'.status = IF request' = request THEN row.status ELSE StatusAfter(request')
          BY <3>1, <3>3
        <4> QED
          BY <4>1
      <3> QED
        BY <3>2, <3>3
    <2>2. Says(StatusAfter(request'), request')
      BY <1>1, <1>3, ReturnedGrows, StatusAfterSays
    <2> QED
      BY <1>2, <1>3, <2>1, <2>2 DEF Followed
  <1> QED
    BY <1>4, <1>5, <1>6, StatusMoves

LEMMA FollowedStart ==
    ASSUME ReturnsInit
    PROVE  Followed
  <1>1. row.status = "SHIPPED" /\ \A p \in Process : job[p].pc = "idle"
    BY NullRows DEF ReturnsInit
  <1> QED
    BY <1>1 DEF Followed, NextOK, Says

LEMMA FollowedIsOrderStatusFollows ==
    ASSUME Followed
    PROVE  OrderStatusFollows
  BY DEF Followed, Says, OrderStatusFollows

-----------------------------------------------------------------------------
(* What holds of every behaviour.                                          *)

Inv ==
    /\ Typed
    /\ Matched
    /\ disturbed \/ (Orderly /\ HeldOK /\ Worthy /\ Followed)

LEMMA InvStart ==
    ASSUME ReturnsInit
    PROVE  Inv
  BY TypedStart, MatchedStart, OrderlyStart, HeldStart, WorthyStart, FollowedStart DEF Inv

LEMMA InvStep ==
    ASSUME Inv, [ReturnsNext]_vars
    PROVE  Inv'
  <1>1. Typed /\ Matched
    BY DEF Inv
  <1>2. Typed' /\ Matched'
    BY <1>1, TypedStep, MatchedStep
  <1>3. ASSUME ~disturbed' PROVE Orderly' /\ HeldOK' /\ Worthy' /\ Followed'
    <2>1. Orderly /\ HeldOK /\ Worthy /\ Followed
      BY <1>1, <1>3, StillUndisturbed DEF Inv
    <2> QED
      BY <1>1, <1>2, <1>3, <2>1, OrderlyStep, HeldStep, WorthyStep, FollowedStep
  <1> QED
    BY <1>2, <1>3 DEF Inv

LEMMA InvAlways == ReturnsSpec => []Inv
  <1>1. ReturnsInit => Inv
    BY InvStart
  <1>2. Inv /\ [ReturnsNext]_vars => Inv'
    BY InvStep
  <1> QED
    BY <1>1, <1>2, PTL DEF ReturnsSpec

(* The rows of an order's returns and refunds are well formed, no stage of *)
(* a return counts more units than were asked for, and, as long as nothing *)
(* was decided on an outdated copy, the returns of an order never hold     *)
(* more units of a line than were ordered (returns.service.ts,             *)
(* admin-returns.service.ts).                                              *)
THEOREM ReturnsAreSound == ReturnsSpec => []ReturnsSound
  <1>1. Inv => ReturnsSound
    BY TypedIsTypeOK DEF Inv, ReturnsSound, HeldWithinOrder, HeldOK
  <1> QED
    BY <1>1, InvAlways, PTL

(* Refunds and the order's payment status never claim more than the        *)
(* provider did: processed means paid back, failed means kept unless an    *)
(* answer was lost, and REFUNDED comes only with the captured amount       *)
(* processed (refund-settlement.service.ts).                               *)
THEOREM RefundsAreTrue == ReturnsSpec => []RefundsMatchProvider
  <1>1. ASSUME Inv PROVE RefundsMatchProvider
    <2>1. PaymentStatusFollows
      BY <1>1 DEF Inv, Matched
    <2>2. \A f \in Refund : RefundOK(refund[f], paidBack[f], faults > 0)
      BY <1>1 DEF Inv, Matched
    <2>3. ProcessedMeansPaidBack
      BY <2>2 DEF RefundOK, ProcessedMeansPaidBack
    <2>4. FailedMeansKept
      BY <2>2 DEF RefundOK, FailedMeansKept
    <2> QED
      BY <2>1, <2>3, <2>4 DEF RefundsMatchProvider
  <1> QED
    BY <1>1, InvAlways, PTL

(* A completed return has no refund open, and what was paid back for it is *)
(* what its inspected units were worth, with or without the delivery, as   *)
(* long as nothing was decided on an outdated copy                         *)
(* (admin-returns.service.ts, payment-operations.service.ts).              *)
THEOREM ReturnsArePaidInFull == ReturnsSpec => []CompletedInFull
  <1>1. Inv => CompletedInFull
    BY WorthyIsCompletedInFull DEF Inv, CompletedInFull
  <1> QED
    BY <1>1, InvAlways, PTL

(* The order says RETURNED only when every unit of it was returned, and    *)
(* PARTIALLY_RETURNED only when some unit was, in whichever order the      *)
(* returns complete (refund-settlement.service.ts).                        *)
THEOREM OrderFollowsItsReturns == ReturnsSpec => []OrderStatusFollows
  <1>1. Inv => OrderStatusFollows
    BY FollowedIsOrderStatusFollows DEF Inv, OrderStatusFollows
  <1> QED
    BY <1>1, InvAlways, PTL

(* A return that is completed, rejected or cancelled is never written      *)
(* again, unless over an outdated copy.                                    *)
THEOREM ClosedIsFinal == ReturnsSpec => ClosedStays
  <1>1. ASSUME Inv, [ReturnsNext]_vars
        PROVE  \A r \in Request :
                  (request[r].status \in ReleasedStatus \cup {"COMPLETED"} /\ ~disturbed')
                     => request'[r] = request[r]
    <2>1. Typed /\ Matched
      BY <1>1 DEF Inv
    <2>2. ~disturbed' => RowsStep
      BY <1>1, <2>1, StillUndisturbed, OrderlyStep DEF Inv
    <2> QED
      BY <2>2 DEF RowsStep, RowStep
  <1> QED
    BY <1>1, InvAlways, PTL DEF ReturnsSpec, ClosedStays

(* Refunds are reserved beyond the captured amount only when one is        *)
(* reserved between another's look at the sum and its insert               *)
(* (payment-operations.service.ts).                                        *)
THEOREM OverrunsAreOverlaps == ReturnsSpec => OverReservedByOverlap
  <1>1. ASSUME Inv, [ReturnsNext]_vars
        PROVE  Amounts(Reserving)' > Captured /\ Amounts(Reserving)' > Amounts(Reserving) =>
                  \E p \in Process : job[p].pc = "create" /\ job'[p].pc = "call"
                                      /\ job[p].result # Amounts(Reserving)
    BY <1>1, OverlapStep DEF Inv
  <1> QED
    BY <1>1, InvAlways, PTL DEF ReturnsSpec, OverReservedByOverlap

=============================================================================
