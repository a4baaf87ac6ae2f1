------------------------ MODULE OrderLifecycleProofs ------------------------
(***************************************************************************)
(* Proofs about OrderLifecycle, for any set of orders. ReleaseLedger is    *)
(* inductive together with the type of the rows.                           *)
(***************************************************************************)
EXTENDS OrderLifecycle, TLAPS

(* The ledger of one row.                                                  *)
RowLedger(row) ==
    row.releases <= row.reopened + (IF row.status = "CANCELLED" THEN 1 ELSE 0)

LEMMA RowFields ==
    ASSUME NEW row \in Row
    PROVE  /\ row.status \in OrderStatus \cup {"NONE"}
           /\ row.pay \in PaymentStatus \cup {"NONE"}
           /\ row.releases \in Nat
           /\ row.reopened \in Nat
  BY DEF Row

(* A change of status keeps a row a row, leaves the other columns alone    *)
(* and keeps its ledger.                                                   *)
LEMMA WithStatusRow ==
    ASSUME NEW row \in Row, NEW status \in OrderStatus
    PROVE  /\ WithStatus(row, status) \in Row
           /\ WithStatus(row, status).status = status
           /\ WithStatus(row, status).pay = row.pay
           /\ WithStatus(row, status).releases = row.releases
           /\ RowLedger(row) => RowLedger(WithStatus(row, status))
  <1> DEFINE new == WithStatus(row, status)
             again == IF row.status = "CANCELLED" /\ status # "CANCELLED"
                      THEN row.reopened + 1 ELSE row.reopened
  <1>1. new = [row EXCEPT !.status = status, !.reopened = again]
    BY DEF WithStatus
  <1>2. again \in Nat
    BY RowFields
  <1>3. /\ new \in Row
        /\ new.status = status
        /\ new.pay = row.pay
        /\ new.releases = row.releases
        /\ new.reopened = again
    <2> HIDE DEF new, again
    <2> QED
      BY <1>1, <1>2 DEF Row
  <1>4. RowLedger(row) => RowLedger(new)
    <2> HIDE DEF new
    <2> QED
      BY <1>3, RowFields DEF RowLedger
  <1> QED
    BY <1>3, <1>4

LEMMA WithPayRow ==
    ASSUME NEW row \in Row, NEW pay \in PaymentStatus
    PROVE  /\ [row EXCEPT !.pay = pay] \in Row
           /\ [row EXCEPT !.pay = pay].status = row.status
           /\ [row EXCEPT !.pay = pay].releases = row.releases
           /\ RowLedger(row) => RowLedger([row EXCEPT !.pay = pay])
  BY DEF Row, RowLedger

(* What a payment outcome makes of a row.                                  *)
LEMMA WrittenRow ==
    ASSUME NEW row \in Row
    PROVE  /\ PaidRow(row) \in Row /\ Placed(PaidRow(row))
           /\ FailedRow(row) \in Row /\ Placed(FailedRow(row))
           /\ PaidRow(row).releases = row.releases /\ FailedRow(row).releases = row.releases
           /\ RowLedger(row) => RowLedger(PaidRow(row)) /\ RowLedger(FailedRow(row))
  <1>1. "PROCESSING" \in OrderStatus /\ "FAILED" \in OrderStatus
    BY DEF OrderStatus
  <1>2. "PAID" \in PaymentStatus /\ "FAILED" \in PaymentStatus
    BY DEF PaymentStatus
  <1> QED
    BY <1>1, <1>2, WithStatusRow, WithPayRow DEF PaidRow, FailedRow, Placed

(* Only a row that is not CANCELLED is released.                           *)
LEMMA ReleasedRow ==
    ASSUME NEW row \in Row, Cancellable(row)
    PROVE  /\ Released(row) \in Row /\ Placed(Released(row))
           /\ Released(row).releases = row.releases + 1
           /\ RowLedger(row) => RowLedger(Released(row))
  <1>1. row.releases + 1 \in Nat /\ "CANCELLED" \in OrderStatus
    BY RowFields DEF OrderStatus
  <1>2. /\ Released(row) \in Row
        /\ Released(row).status = "CANCELLED"
        /\ Released(row).releases = row.releases + 1
        /\ Released(row).reopened = row.reopened
    BY <1>1 DEF Released, Row
  <1>3. row.status # "CANCELLED"
    BY DEF Cancellable
  <1> QED
    BY <1>2, <1>3, RowFields DEF RowLedger, Placed

(* A row that is not placed is NoRow.                                      *)
Blank(row) == row.status = "NONE" => row = NoRow

LEMMA NewRows ==
    /\ NoRow \in Row /\ RowLedger(NoRow) /\ Blank(NoRow)
    /\ NewRow \in Row /\ RowLedger(NewRow) /\ Placed(NewRow)
  BY DEF NoRow, NewRow, Row, RowLedger, Blank, Placed, OrderStatus, PaymentStatus

RowInv ==
    /\ order \in [Order -> Row]
    /\ \A o \in Order : Blank(order[o]) /\ RowLedger(order[o])

(* Every step of the lifecycle keeps every row a row within its ledger.    *)
LEMMA LifecycleStep ==
    ASSUME RowInv, [Next]_order
    PROVE  RowInv'
  <1> USE DEF RowInv
  <1>1. ASSUME NEW o \in Order, NEW row \in Row,
               order' = [order EXCEPT ![o] = row],
               Blank(row), RowLedger(row)
        PROVE  RowInv'
    BY <1>1
  <1>2. ASSUME NEW o \in Order, Place(o) PROVE RowInv'
    BY <1>1, <1>2, NewRows DEF Place, Blank, Placed
  <1>3. ASSUME NEW o \in Order, Release(o) PROVE RowInv'
    <2>1. order[o] \in Row /\ RowLedger(order[o])
      OBVIOUS
    <2> QED
      BY <1>1, <1>3, <2>1, ReleasedRow DEF Release, Blank, Placed
  <1>4. ASSUME NEW o \in Order, MarkPaid(o) \/ MarkFailed(o) PROVE RowInv'
    <2>1. order[o] \in Row /\ RowLedger(order[o])
      OBVIOUS
    <2> QED
      BY <1>1, <1>4, <2>1, WrittenRow DEF MarkPaid, MarkFailed, Blank, Placed
  <1>5. ASSUME NEW o \in Order, SetStatus(o) PROVE RowInv'
    <2>1. order[o] \in Row /\ RowLedger(order[o])
      OBVIOUS
    <2>2. PICK status \in OrderStatus :
             order' = [order EXCEPT ![o] = WithStatus(@, status)]
      BY <1>5 DEF SetStatus
    <2>3. status # "NONE"
      BY DEF OrderStatus
    <2> QED
      BY <1>1, <2>1, <2>2, <2>3, WithStatusRow DEF Blank
  <1>6. ASSUME NEW o \in Order, MarkRefunded(o) PROVE RowInv'
    <2>1. order[o] \in Row /\ RowLedger(order[o])
      OBVIOUS
    <2>2. PICK pay \in {"REFUNDED", "PARTIALLY_REFUNDED"},
               status \in {order[o].status, "RETURNED", "PARTIALLY_RETURNED"} :
             order' = [order EXCEPT ![o] = [WithStatus(@, status) EXCEPT !.pay = pay]]
      BY <1>6 DEF MarkRefunded
    <2>3. pay \in PaymentStatus
      BY DEF PaymentStatus
    <2>4. status \in OrderStatus /\ status # "NONE"
      BY <1>6, <2>1, RowFields DEF MarkRefunded, Placed, OrderStatus
    <2> DEFINE moved == WithStatus(order[o], status)
               row == [moved EXCEPT !.pay = pay]
    <2>5. moved \in Row /\ moved.status = status /\ RowLedger(moved)
      BY <2>1, <2>4, WithStatusRow
    <2>6. order' = [order EXCEPT ![o] = row]
      BY <2>2
    <2> HIDE DEF moved
    <2>7. row \in Row /\ RowLedger(row) /\ row.status = status
      BY <2>3, <2>5, WithPayRow
    <2>8. Blank(row)
      BY <2>4, <2>7 DEF Blank
    <2> HIDE DEF row
    <2> QED
      BY <1>1, <2>6, <2>7, <2>8
  <1>7. CASE UNCHANGED order
    BY <1>7
  <1> QED
    BY <1>2, <1>3, <1>4, <1>5, <1>6, <1>7 DEF Next

(* However placements, releases, payments and status changes interleave,   *)
(* rows keep their type and stock is put back at most once per time an     *)
(* order was live.                                                         *)
THEOREM LifecycleInvariants == Spec => [](RowTypeOK /\ ReleaseLedger)
  <1>1. Init => RowInv
    BY NewRows DEF Init, RowInv
  <1>2. RowInv /\ [Next]_order => RowInv'
    BY LifecycleStep
  <1>3. RowInv => RowTypeOK /\ ReleaseLedger
    BY DEF RowInv, RowTypeOK, ReleaseLedger, Blank, RowLedger
  <1> QED
    BY <1>1, <1>2, <1>3, PTL DEF Spec
=============================================================================
