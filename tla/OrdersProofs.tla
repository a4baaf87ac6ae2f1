---------------------------- MODULE OrdersProofs ----------------------------
(***************************************************************************)
(* Proofs about Orders, for any orders, variants, customers, requests and  *)
(* sweeps.                                                                 *)
(*                                                                         *)
(* The books (StockLedger, CouponLedger) are about rows, and rows are what *)
(* handlers write from copies: OrdersInv adds what the copies mean         *)
(* (JobOK), in particular that a cancel holds statuses that could be       *)
(* cancelled, and that a row that was never placed has no item.            *)
(***************************************************************************)
EXTENDS Orders, OrderLifecycleProofs, Sums

(* What the local copies of a request mean.                                *)
JobOK(j) ==
    /\ j.pc \in {"cart", "coupon", "commit", "cancel"} => j.order \in Order
    /\ j.pc \in {"cart", "coupon", "commit"} => j.customer \in Customer
    /\ j.pc \in {"cart", "coupon"} => j.coupon = FALSE
    /\ j.pc = "cancel" => Cancellable(j.seen)
    /\ j.pc = "adjust" => j.variant \in Variant

Typed ==
    /\ item \in [Order -> Item]
    /\ stock \in [Variant -> Nat]
    /\ cart \in [Customer -> Lines]
    /\ couponUse \in Nat
    /\ job \in [Process -> Job]
    /\ sweep \in [Sweeper -> SUBSET Order]
    /\ supplied \in [Variant -> Int]

JobsOK == \A p \in Process : JobOK(job[p])

ItemsOK == \A o \in Order : ~Placed(order[o]) => item[o] = NoItem

OrdersInv == RowInv /\ Typed /\ JobsOK /\ ItemsOK

-----------------------------------------------------------------------------
(* Null values and the jobs that the first step of a handler makes.        *)

LEMMA NullsTyped ==
    /\ EmptyLines \in Lines /\ NoItem \in Item
    /\ Idle \in Job /\ JobOK(Idle) /\ Idle.coupon = FALSE
    /\ Rejected \in Job /\ JobOK(Rejected)
  <1>1. EmptyLines \in Lines
    BY DEF EmptyLines, Lines
  <1>2. NoItem \in Item
    BY <1>1 DEF NoItem, Item
  <1>3. Idle \in Job /\ JobOK(Idle) /\ Idle.coupon = FALSE /\ Idle.pc = "idle"
    BY <1>1 DEF Idle, Job, JobOK
  <1>4. Rejected \in Job /\ JobOK(Rejected)
    BY <1>3 DEF Rejected, Job, JobOK
  <1> QED
    BY <1>1, <1>2, <1>3, <1>4

LEMMA CheckoutStarts ==
    ASSUME NEW o \in Order, NEW c \in Customer
    PROVE  LET j == [Idle EXCEPT !.pc = "cart", !.order = o, !.customer = c]
           IN  j \in Job /\ JobOK(j)
  <1> DEFINE j == [Idle EXCEPT !.pc = "cart", !.order = o, !.customer = c]
  <1>1. j \in Job /\ j.pc = "cart" /\ j.order = o /\ j.customer = c /\ j.coupon = FALSE
    BY NullsTyped DEF Job
  <1> HIDE DEF j
  <1>2. JobOK(j)
    BY <1>1 DEF JobOK
  <1> QED
    BY <1>1, <1>2 DEF j

LEMMA CancelStarts ==
    ASSUME NEW o \in Order, NEW seen, Cancellable(seen),
           seen \in [status : OrderStatus \cup {"NONE"}, pay : PaymentStatus \cup {"NONE"}]
    PROVE  LET j == [Idle EXCEPT !.pc = "cancel", !.order = o, !.seen = seen]
           IN  j \in Job /\ JobOK(j)
  <1> DEFINE j == [Idle EXCEPT !.pc = "cancel", !.order = o, !.seen = seen]
  <1>1. j \in Job /\ j.pc = "cancel" /\ j.order = o /\ j.seen = seen
    BY NullsTyped DEF Job
  <1> HIDE DEF j
  <1>2. JobOK(j)
    BY <1>1 DEF JobOK
  <1> QED
    BY <1>1, <1>2 DEF j

LEMMA AdjustStarts ==
    ASSUME NEW v \in Variant, NEW delta \in Int, NEW value \in Nat
    PROVE  LET j == [Idle EXCEPT !.pc = "adjust", !.variant = v, !.delta = delta, !.value = value]
           IN  j \in Job /\ JobOK(j)
  <1> DEFINE j == [Idle EXCEPT !.pc = "adjust", !.variant = v, !.delta = delta, !.value = value]
  <1>1. j \in Job /\ j.pc = "adjust" /\ j.variant = v
    BY NullsTyped DEF Job
  <1> HIDE DEF j
  <1>2. JobOK(j)
    BY <1>1 DEF JobOK
  <1> QED
    BY <1>1, <1>2 DEF j

LEMMA LaterJobs ==
    ASSUME NEW j \in Job, JobOK(j)
    PROVE  /\ j.pc = "cart" => \A next \in {"coupon", "commit"}, lines \in Lines :
                LET k == [j EXCEPT !.pc = next, !.lines = lines]
                IN  k \in Job /\ JobOK(k)
           /\ j.pc = "coupon" =>
                LET k == [j EXCEPT !.pc = "commit", !.coupon = TRUE]
                IN  k \in Job /\ JobOK(k)
  BY DEF Job, JobOK

-----------------------------------------------------------------------------
(* Every step moves rows the way OrderLifecycle allows.                    *)

LEMMA RowsStep ==
    ASSUME OrdersInv, [OrdersNext]_vars
    PROVE  [Next]_order
  <1> USE DEF OrdersInv
  <1>1. ASSUME NEW p \in Process, CheckoutCommit(p) PROVE Next
    <2>1. job[p].order \in Order
      BY <1>1 DEF CheckoutCommit, JobsOK, JobOK
    <2> QED
      BY <1>1, <2>1 DEF CheckoutCommit, Next
  <1>2. ASSUME NEW p \in Process, CancelCommit(p) PROVE Next
    <2>1. job[p].order \in Order /\ Cancellable(job[p].seen)
      BY <1>2 DEF CancelCommit, JobsOK, JobOK
    <2>2. Cancellable(order[job[p].order])
      BY <1>2, <2>1 DEF CancelCommit, StillAsSeen, Cancellable
    <2> QED
      BY <1>2, <2>1, <2>2 DEF CancelCommit, Next, Release
  <1>3. ASSUME NEW s \in Sweeper, NEW o \in Order, SweepExpire(s, o) PROVE Next
    BY <1>3 DEF SweepExpire, Expirable, Cancellable, Next, Release
  <1>4. ASSUME NEW o \in Order, PaymentCaptured(o) \/ PaymentFailed(o) PROVE Next
    BY <1>4 DEF PaymentCaptured, PaymentFailed, Next
  <1>5. ASSUME NEW o \in Order, NEW status \in AdminStatus, AdminSetStatus(o, status) PROVE Next
    BY <1>5, AdminAssumption DEF AdminSetStatus, SetStatus, Next
  <1>6. ASSUME NEW p \in Process, CheckoutStep(p) PROVE [Next]_order
    BY <1>1, <1>6 DEF CheckoutStep, CheckoutRead, CheckoutCoupon, CheckoutLosesRace, CheckoutSoldOut
  <1>7. ASSUME NEW p \in Process, CancelStep(p) PROVE [Next]_order
    BY <1>2, <1>7 DEF CancelStep, CancelConflict
  <1>8. ASSUME NEW s \in Sweeper, SweepStep(s) PROVE [Next]_order
    BY <1>3, <1>8 DEF SweepStep, SweepSkip
  <1>9. CASE UNCHANGED vars
    BY <1>9 DEF vars
  <1>10. ASSUME NEW p \in Process,
                \/ \E c \in Customer, o \in Order : CheckoutLookup(p, c, o)
                \/ \E o \in Order : CancelRead(p, o)
                \/ \E v \in Variant, delta \in Adjustment : AdjustRead(p, v, delta)
                \/ AdjustWrite(p)
                \/ \E v \in Variant, n \in Recount : AdminRecount(p, v, n)
         PROVE  UNCHANGED order
    BY <1>10 DEF CheckoutLookup, CancelRead, AdjustRead, AdjustWrite, AdminRecount
  <1>11. ASSUME NEW s \in Sweeper, (\E list \in SUBSET Order : SweepList(s, list)) \/ SweepAborts(s)
         PROVE  UNCHANGED order
    BY <1>11 DEF SweepList, SweepAborts
  <1>12. ASSUME NEW c \in Customer, EditCart(c) PROVE UNCHANGED order
    BY <1>12 DEF EditCart
  <1> QED
    BY <1>4, <1>5, <1>6, <1>7, <1>8, <1>9, <1>10, <1>11, <1>12 DEF OrdersNext

(* No writer removes a row.                                                *)
LEMMA PlacedStays ==
    ASSUME RowInv, [Next]_order, NEW o \in Order, Placed(order[o])
    PROVE  Placed(order'[o])
  <1> USE DEF RowInv
  <1>1. ASSUME NEW row \in Row, NEW status \in OrderStatus
        PROVE  Placed(WithStatus(row, status))
    <2>1. WithStatus(row, status).status = status
      BY WithStatusRow
    <2>2. status # "NONE"
      BY DEF OrderStatus
    <2> QED
      BY <2>1, <2>2 DEF Placed
  <1>2. order[o] \in Row
    OBVIOUS
  <1>3. ASSUME NEW x \in Order, Place(x) PROVE Placed(order'[o])
    BY <1>3, NewRows DEF Place
  <1>4. ASSUME NEW x \in Order, Release(x) PROVE Placed(order'[o])
    BY <1>4, ReleasedRow DEF Release
  <1>5. ASSUME NEW x \in Order, MarkPaid(x) \/ MarkFailed(x) PROVE Placed(order'[o])
    BY <1>5, WrittenRow DEF MarkPaid, MarkFailed
  <1>6. ASSUME NEW x \in Order, SetStatus(x) PROVE Placed(order'[o])
    BY <1>1, <1>6 DEF SetStatus
  <1>7. ASSUME NEW x \in Order, MarkRefunded(x) PROVE Placed(order'[o])
    <2>1. PICK pay \in {"REFUNDED", "PARTIALLY_REFUNDED"},
               status \in {order[x].status, "RETURNED", "PARTIALLY_RETURNED"} :
             order' = [order EXCEPT ![x] = [WithStatus(@, status) EXCEPT !.pay = pay]]
      BY <1>7 DEF MarkRefunded
    <2>2. order[x] \in Row /\ status \in OrderStatus /\ pay \in PaymentStatus
      BY <1>7, RowFields DEF MarkRefunded, Placed, OrderStatus, PaymentStatus
    <2>3. WithStatus(order[x], status) \in Row /\ Placed(WithStatus(order[x], status))
      BY <1>1, <2>2, WithStatusRow
    <2>4. Placed([WithStatus(order[x], status) EXCEPT !.pay = pay])
      BY <2>2, <2>3, WithPayRow DEF Placed
    <2> QED
      BY <2>1, <2>4
  <1>8. CASE UNCHANGED order
    BY <1>8
  <1> QED
    BY <1>3, <1>4, <1>5, <1>6, <1>7, <1>8 DEF Next

-----------------------------------------------------------------------------
(* Every step keeps the rest of the invariant.                             *)

Rest == Typed /\ JobsOK /\ ItemsOK

(* A step that only moves on a request.                                    *)
LEMMA JobMoves ==
    ASSUME OrdersInv, NEW p \in Process, NEW j \in Job, JobOK(j),
           job' = [job EXCEPT ![p] = j],
           UNCHANGED <<order, item, stock, cart, couponUse, sweep, supplied>>
    PROVE  Rest'
  BY DEF OrdersInv, Rest, Typed, JobsOK, ItemsOK

(* One that writes orders and stock, and no items.                         *)
LEMMA WriteKeepsRest ==
    ASSUME OrdersInv, [Next]_order,
           stock' \in [Variant -> Nat], job' \in [Process -> Job], JobsOK',
           sweep' \in [Sweeper -> SUBSET Order], supplied' \in [Variant -> Int],
           UNCHANGED <<item, cart, couponUse>>
    PROVE  Rest'
  <1>1. ItemsOK'
    BY PlacedStays DEF OrdersInv, ItemsOK
  <1> QED
    BY <1>1 DEF OrdersInv, Rest, Typed

LEMMA PutBackTyped ==
    ASSUME OrdersInv, NEW o \in Order
    PROVE  PutBack(stock, item[o].lines) \in [Variant -> Nat]
  BY DEF OrdersInv, Typed, PutBack, Item, Lines

LEMMA CheckoutKeepsRest ==
    ASSUME OrdersInv, NEW p \in Process, CheckoutStep(p)
    PROVE  Rest'
  <1> DEFINE j == job[p]
  <1>0. j \in Job /\ JobOK(j)
    BY DEF OrdersInv, Typed, JobsOK
  <1>1. CASE CheckoutRead(p)
    <2>1. cart[j.customer] \in Lines
      BY <1>0, <1>1 DEF CheckoutRead, JobOK, OrdersInv, Typed
    <2>2. PICK next \in {"coupon", "commit"} :
             job' = [job EXCEPT ![p] =
                IF cart[j.customer] # EmptyLines /\ InStock(stock, cart[j.customer])
                THEN [@ EXCEPT !.pc = next, !.lines = cart[j.customer]] ELSE Rejected]
      BY <1>1 DEF CheckoutRead
    <2> DEFINE k == [j EXCEPT !.pc = next, !.lines = cart[j.customer]]
    <2>3. k \in Job /\ JobOK(k)
      BY <1>0, <1>1, <2>1, LaterJobs DEF CheckoutRead
    <2>4. \E new \in {k, Rejected} : job' = [job EXCEPT ![p] = new]
      <3>1. job[p] = j
        OBVIOUS
      <3> QED
        BY <2>2
    <2> HIDE DEF k
    <2> QED
      BY <1>1, <2>3, <2>4, NullsTyped, JobMoves DEF CheckoutRead
  <1>2. CASE CheckoutCoupon(p)
    <2> DEFINE k == [j EXCEPT !.pc = "commit", !.coupon = TRUE]
    <2>1. k \in Job /\ JobOK(k)
      BY <1>0, <1>2, LaterJobs DEF CheckoutCoupon
    <2>2. \E new \in {k, Rejected} : job' = [job EXCEPT ![p] = new]
      BY <1>2 DEF CheckoutCoupon
    <2> HIDE DEF k
    <2> QED
      BY <1>2, <2>1, <2>2, NullsTyped, JobMoves DEF CheckoutCoupon
  <1>3. CASE CheckoutLosesRace(p)
    <2>1. \E new \in {Idle, Rejected} : job' = [job EXCEPT ![p] = new]
      BY <1>3 DEF CheckoutLosesRace
    <2> QED
      BY <1>3, <2>1, NullsTyped, JobMoves DEF CheckoutLosesRace
  <1>4. CASE CheckoutSoldOut(p)
    BY <1>4, NullsTyped, JobMoves DEF CheckoutSoldOut
  <1>5. CASE CheckoutCommit(p)
    <2> DEFINE o == j.order
               new == [owner |-> j.customer, lines |-> j.lines, coupon |-> j.coupon]
    <2>1. o \in Order /\ j.customer \in Customer /\ j.lines \in Lines /\ j.coupon \in BOOLEAN
      BY <1>0, <1>5 DEF CheckoutCommit, JobOK, Job
    <2>2. new \in Item
      BY <2>1 DEF Item
    <2>3. item' = [item EXCEPT ![o] = new]
      BY <1>5 DEF CheckoutCommit
    <2>4. stock' \in [Variant -> Nat]
      BY <1>5, <2>1 DEF CheckoutCommit, Take, InStock, Lines, OrdersInv, Typed
    <2>5. cart' \in [Customer -> Lines]
      BY <1>5, NullsTyped DEF CheckoutCommit, OrdersInv, Typed
    <2>6. couponUse' \in Nat
      BY <1>5 DEF CheckoutCommit, OrdersInv, Typed
    <2>7. job' \in [Process -> Job] /\ JobsOK'
      BY <1>5, NullsTyped DEF CheckoutCommit, OrdersInv, Typed, JobsOK
    <2>8. sweep' \in [Sweeper -> SUBSET Order] /\ supplied' \in [Variant -> Int]
      BY <1>5 DEF CheckoutCommit, OrdersInv, Typed
    <2>9. item' \in [Order -> Item]
      <3> HIDE DEF new, o
      <3> QED
        BY <2>1, <2>2, <2>3 DEF OrdersInv, Typed
    <2>10. ItemsOK'
      <3>1. order' = [order EXCEPT ![o] = NewRow]
        BY <1>5 DEF CheckoutCommit, Place
      <3>2. ASSUME NEW x \in Order, ~Placed(order'[x]) PROVE item'[x] = NoItem
        <4>1. x # o
          BY <2>1, <3>1, <3>2, NewRows DEF OrdersInv, RowInv
        <4> HIDE DEF new, o
        <4>2. order'[x] = order[x] /\ item'[x] = item[x]
          BY <2>3, <3>1, <4>1 DEF OrdersInv, RowInv, Typed
        <4> QED
          BY <3>2, <4>2 DEF OrdersInv, ItemsOK
      <3> QED
        BY <3>2 DEF ItemsOK
    <2> QED
      BY <2>4, <2>5, <2>6, <2>7, <2>8, <2>9, <2>10 DEF Rest, Typed
  <1> QED
    BY <1>1, <1>2, <1>3, <1>4, <1>5 DEF CheckoutStep

LEMMA CancelKeepsRest ==
    ASSUME OrdersInv, [Next]_order, NEW p \in Process, CancelStep(p)
    PROVE  Rest'
  <1>1. CASE CancelConflict(p)
    BY <1>1, NullsTyped, JobMoves DEF CancelConflict
  <1>2. CASE CancelCommit(p)
    <2>1. job[p].order \in Order
      BY <1>2 DEF CancelCommit, OrdersInv, JobsOK, JobOK
    <2>2. stock' \in [Variant -> Nat]
      BY <1>2, <2>1, PutBackTyped DEF CancelCommit
    <2>3. job' \in [Process -> Job] /\ JobsOK'
      BY <1>2, NullsTyped DEF CancelCommit, OrdersInv, Typed, JobsOK
    <2> QED
      BY <1>2, <2>2, <2>3, WriteKeepsRest DEF CancelCommit, OrdersInv, Typed
  <1> QED
    BY <1>1, <1>2 DEF CancelStep

LEMMA SweepKeepsRest ==
    ASSUME OrdersInv, [Next]_order, NEW s \in Sweeper,
           (\E list \in SUBSET Order : SweepList(s, list)) \/ SweepStep(s) \/ SweepAborts(s)
    PROVE  Rest'
  <1>1. ASSUME NEW o \in Order, SweepExpire(s, o) PROVE Rest'
    <2>1. stock' \in [Variant -> Nat]
      BY <1>1, PutBackTyped DEF SweepExpire
    <2>2. sweep' \in [Sweeper -> SUBSET Order]
      BY <1>1 DEF SweepExpire, OrdersInv, Typed
    <2>3. JobsOK'
      BY <1>1 DEF SweepExpire, OrdersInv, JobsOK
    <2> QED
      BY <1>1, <2>1, <2>2, <2>3, WriteKeepsRest DEF SweepExpire, OrdersInv, Typed
  <1>2. ASSUME sweep' \in [Sweeper -> SUBSET Order],
               UNCHANGED <<order, item, stock, cart, couponUse, job, supplied>>
        PROVE  Rest'
    BY <1>2 DEF OrdersInv, Rest, Typed, JobsOK, ItemsOK
  <1>3. ASSUME NEW list \in SUBSET Order, SweepList(s, list) PROVE Rest'
    BY <1>2, <1>3 DEF SweepList, OrdersInv, Typed
  <1>4. ASSUME NEW o \in Order, SweepSkip(s, o) PROVE Rest'
    BY <1>2, <1>4 DEF SweepSkip, OrdersInv, Typed
  <1>5. CASE SweepAborts(s)
    BY <1>2, <1>5 DEF SweepAborts, OrdersInv, Typed
  <1> QED
    BY <1>1, <1>3, <1>4, <1>5 DEF SweepStep

LEMMA AdminKeepsRest ==
    ASSUME OrdersInv, [Next]_order, NEW p \in Process,
           \/ \E v \in Variant, delta \in Adjustment : AdjustRead(p, v, delta)
           \/ AdjustWrite(p)
           \/ \E v \in Variant, n \in Recount : AdminRecount(p, v, n)
    PROVE  Rest'
  <1>1. ASSUME NEW v \in Variant, NEW delta \in Adjustment, AdjustRead(p, v, delta) PROVE Rest'
    <2>1. delta \in Int /\ stock[v] + delta \in Nat
      <3>1. delta \in Int /\ stock[v] \in Int
        BY AdminAssumption DEF OrdersInv, Typed
      <3>2. stock[v] + delta >= 0
        BY <1>1 DEF AdjustRead
      <3> QED
        BY <3>1, <3>2
    <2> QED
      BY <1>1, <2>1, AdjustStarts, JobMoves DEF AdjustRead
  <1>2. CASE AdjustWrite(p)
    <2>1. job[p].variant \in Variant /\ job[p].value \in Nat /\ job[p].delta \in Int
      BY <1>2 DEF AdjustWrite, OrdersInv, Typed, JobsOK, JobOK, Job
    <2>2. stock' \in [Variant -> Nat] /\ supplied' \in [Variant -> Int]
      BY <1>2, <2>1 DEF AdjustWrite, OrdersInv, Typed
    <2>3. job' \in [Process -> Job] /\ JobsOK'
      BY <1>2, NullsTyped DEF AdjustWrite, OrdersInv, Typed, JobsOK
    <2> QED
      BY <1>2, <2>2, <2>3, WriteKeepsRest DEF AdjustWrite, OrdersInv, Typed
  <1>3. ASSUME NEW v \in Variant, NEW n \in Recount, AdminRecount(p, v, n) PROVE Rest'
    <2>1. stock' \in [Variant -> Nat] /\ supplied' \in [Variant -> Int]
      BY <1>3, RecountAssumption DEF AdminRecount, OrdersInv, Typed
    <2>2. JobsOK'
      BY <1>3 DEF AdminRecount, OrdersInv, JobsOK
    <2> QED
      BY <1>3, <2>1, <2>2, WriteKeepsRest DEF AdminRecount, OrdersInv, Typed
  <1> QED
    BY <1>1, <1>2, <1>3

LEMMA OrdersStep ==
    ASSUME OrdersInv, [OrdersNext]_vars
    PROVE  OrdersInv'
  <1>1. [Next]_order
    BY RowsStep
  <1>2. RowInv'
    BY <1>1, LifecycleStep DEF OrdersInv
  <1>3. ASSUME UNCHANGED <<item, stock, cart, couponUse, job, sweep, supplied>> PROVE Rest'
    <2>1. JobsOK'
      BY <1>3 DEF OrdersInv, JobsOK
    <2> QED
      BY <1>1, <1>3, <2>1, WriteKeepsRest DEF OrdersInv, Typed
  <1>4. ASSUME NEW c \in Customer, EditCart(c) PROVE Rest'
    BY <1>4, CartsAssumption
       DEF EditCart, OrdersInv, Rest, Typed, Lines, JobsOK, ItemsOK
  <1>5. ASSUME NEW p \in Process, NEW c \in Customer, NEW o \in Order, CheckoutLookup(p, c, o)
        PROVE  Rest'
    BY <1>5, CheckoutStarts, JobMoves DEF CheckoutLookup
  <1>6. ASSUME NEW p \in Process, NEW o \in Order, CancelRead(p, o)
        PROVE  Rest'
    <2> DEFINE seen == [status |-> order[o].status, pay |-> order[o].pay]
    <2>1. seen \in [status : OrderStatus \cup {"NONE"}, pay : PaymentStatus \cup {"NONE"}]
      BY RowFields DEF OrdersInv, RowInv
    <2>2. Cancellable(seen)
      BY <1>6 DEF CancelRead, Cancellable
    <2>3. job' = [job EXCEPT ![p] = [Idle EXCEPT !.pc = "cancel", !.order = o, !.seen = seen]]
      BY <1>6 DEF CancelRead
    <2> DEFINE j == [Idle EXCEPT !.pc = "cancel", !.order = o, !.seen = seen]
    <2> HIDE DEF seen
    <2>4. j \in Job /\ JobOK(j)
      BY <2>1, <2>2, CancelStarts
    <2> HIDE DEF j
    <2> QED
      BY <1>6, <2>3, <2>4, JobMoves DEF CancelRead, j
  <1>7. ASSUME NEW o \in Order,
               \/ PaymentCaptured(o) \/ PaymentFailed(o)
               \/ \E status \in AdminStatus : AdminSetStatus(o, status)
        PROVE  Rest'
    BY <1>3, <1>7 DEF PaymentCaptured, PaymentFailed, AdminSetStatus
  <1>8. ASSUME UNCHANGED vars PROVE Rest'
    BY <1>3, <1>8 DEF vars
  <1>9. Rest'
    BY <1>1, <1>4, <1>5, <1>6, <1>7, <1>8,
       CheckoutKeepsRest, CancelKeepsRest, SweepKeepsRest, AdminKeepsRest DEF OrdersNext
  <1> QED
    BY <1>2, <1>9 DEF OrdersInv, Rest

LEMMA OrdersStart == OrdersInit => OrdersInv
  BY NullsTyped, NewRows, StockAssumption
     DEF OrdersInit, Init, OrdersInv, RowInv, Typed, JobsOK, ItemsOK

-----------------------------------------------------------------------------
(* The coupon.                                                             *)

(* Items and the coupon's counter are written by a checkout's transaction  *)
(* and by nothing else.                                                    *)
LEMMA ItemsStep ==
    ASSUME [OrdersNext]_vars
    PROVE  UNCHANGED <<item, couponUse>> \/ \E p \in Process : CheckoutCommit(p)
  BY DEF OrdersNext, vars, EditCart, CheckoutLookup, CheckoutStep, CheckoutRead, CheckoutCoupon,
         CheckoutLosesRace, CheckoutSoldOut, CancelRead, CancelStep, CancelConflict, CancelCommit,
         SweepList, SweepStep, SweepSkip, SweepExpire, SweepAborts, PaymentCaptured, PaymentFailed,
         AdminSetStatus, AdjustRead, AdjustWrite, AdminRecount

CouponUsers == {o \in Order : item[o].coupon}

LEMMA CommitsItem ==
    ASSUME OrdersInv, NEW p \in Process, CheckoutCommit(p)
    PROVE  /\ job[p].pc = "commit" /\ job[p].order \in Order /\ job[p].customer \in Customer
           /\ job[p].coupon \in BOOLEAN /\ job[p].lines \in Lines
           /\ ~Placed(order[job[p].order]) /\ item[job[p].order] = NoItem
           /\ order' = [order EXCEPT ![job[p].order] = NewRow]
           /\ item' = [item EXCEPT ![job[p].order] =
                         [owner |-> job[p].customer, lines |-> job[p].lines, coupon |-> job[p].coupon]]
           /\ item \in [Order -> Item]
  BY DEF OrdersInv, Typed, JobsOK, JobOK, ItemsOK, Job, CheckoutCommit, Place

LEMMA CouponStep ==
    ASSUME OrdersInv, CouponLedger, [OrdersNext]_vars
    PROVE  CouponLedger'
  <1>1. CASE UNCHANGED <<item, couponUse>>
    BY <1>1 DEF CouponLedger
  <1>2. ASSUME NEW p \in Process, CheckoutCommit(p) PROVE CouponLedger'
    <2> DEFINE o == job[p].order
    <2>1. IsFiniteSet(CouponUsers)
      BY FiniteAssumption, FS_Subset DEF CouponUsers
    <2>2. o \in Order /\ o \notin CouponUsers
      <3>1. o \in Order /\ item[o] = NoItem
        BY <1>2, CommitsItem
      <3>2. ~NoItem.coupon
        BY DEF NoItem
      <3> QED
        BY <3>1, <3>2 DEF CouponUsers
    <2>3. \A x \in Order \ {o} : item'[x] = item[x]
      BY <1>2, CommitsItem
    <2>4. item'[o].coupon = job[p].coupon
      <3>1. item'[o] = [owner |-> job[p].customer, lines |-> job[p].lines, coupon |-> job[p].coupon]
        BY <1>2, CommitsItem
      <3> QED
        BY <3>1
    <2>5. couponUse = Cardinality(CouponUsers)
      BY DEF CouponLedger, CouponUsers
    <2>6. CASE job[p].coupon
      <3>1. CouponUsers' = CouponUsers \cup {o}
        BY <2>2, <2>3, <2>4, <2>6 DEF CouponUsers
      <3>2. couponUse' = couponUse + 1
        BY <1>2, <2>6 DEF CheckoutCommit
      <3>3. Cardinality(CouponUsers \cup {o}) = Cardinality(CouponUsers) + 1
        BY <2>1, <2>2, FS_AddElement
      <3> QED
        BY <2>5, <3>1, <3>2, <3>3 DEF CouponLedger, CouponUsers
    <2>7. CASE ~job[p].coupon
      <3>1. CouponUsers' = CouponUsers
        BY <2>2, <2>3, <2>4, <2>7 DEF CouponUsers
      <3>2. couponUse' = couponUse
        BY <1>2, <2>7 DEF CheckoutCommit, OrdersInv, Typed
      <3> QED
        BY <2>5, <3>1, <3>2 DEF CouponLedger, CouponUsers
    <2> QED
      BY <2>6, <2>7
  <1> QED
    BY <1>1, <1>2, ItemsStep

LEMMA CouponStart == OrdersInit => CouponLedger
  <1> SUFFICES ASSUME OrdersInit PROVE CouponLedger
    OBVIOUS
  <1>1. {o \in Order : item[o].coupon} = {}
    BY DEF OrdersInit, NoItem
  <1> QED
    BY <1>1, FS_EmptySet DEF OrdersInit, CouponLedger

-----------------------------------------------------------------------------
(* The stock.                                                              *)

(* Units of v that one row with its item withholds.                        *)
Kept(row, it, v) == IF Placed(row) THEN it.lines[v] * (1 - row.releases) ELSE 0

LEMMA WithheldIsKept ==
    ASSUME NEW v
    PROVE  Withheld(v) = [o \in Order |-> Kept(order[o], item[o], v)]
  BY DEF Withheld, Kept

LEMMA KeptFacts ==
    ASSUME NEW v \in Variant, NEW row \in Row, NEW it \in Item
    PROVE  /\ Kept(row, it, v) \in Int
           /\ Cancellable(row) => Kept(Released(row), it, v) = Kept(row, it, v) - it.lines[v]
           /\ Kept(NewRow, it, v) = it.lines[v]
           /\ ~Placed(row) => Kept(row, it, v) = 0
  <1>1. it.lines[v] \in Nat /\ row.releases \in Nat
    BY RowFields DEF Item, Lines
  <1>2. Kept(row, it, v) \in Int
    BY <1>1 DEF Kept
  <1>3. ASSUME Cancellable(row) PROVE Kept(Released(row), it, v) = Kept(row, it, v) - it.lines[v]
    <2>1. Placed(row)
      BY <1>3 DEF Cancellable, Placed
    <2>2. Placed(Released(row)) /\ Released(row).releases = row.releases + 1
      BY <1>3, ReleasedRow
    <2>3. \A a, r \in Int : a * (1 - (r + 1)) = a * (1 - r) - a
      OBVIOUS
    <2> QED
      BY <1>1, <2>1, <2>2, <2>3 DEF Kept
  <1>4. Kept(NewRow, it, v) = it.lines[v]
    BY <1>1 DEF Kept, NewRow, Placed
  <1> QED
    BY <1>2, <1>3, <1>4 DEF Kept

(* The sum of what is withheld, as its terms move.                         *)
LEMMA LedgerMoves ==
    ASSUME OrdersInv, OrdersInv', NEW v \in Variant, NEW x \in Order,
           \A o \in Order \ {x} : order'[o] = order[o] /\ item'[o] = item[o]
    PROVE  SumFunction(Withheld(v))' =
             SumFunction(Withheld(v)) + Kept(order'[x], item'[x], v) - Kept(order[x], item[x], v)
  <1> DEFINE old == [o \in Order |-> Kept(order[o], item[o], v)]
             new == [o \in Order |-> Kept(order'[o], item'[o], v)]
  <1>1. Withheld(v) = old /\ Withheld(v)' = new
    BY DEF Withheld, Kept
  <1>2. \A o \in Order : old[o] \in Int /\ new[o] \in Int
    BY KeptFacts DEF OrdersInv, RowInv, Typed
  <1>3. \A o \in Order \ {x} : new[o] = old[o]
    OBVIOUS
  <1>4. /\ SumFunction(old) = SumFunctionOnSet(old, Order)
        /\ SumFunction(new) = SumFunctionOnSet(new, Order)
    BY DEF SumFunction
  <1>5. SumFunctionOnSet(new, Order) = SumFunctionOnSet(old, Order) + new[x] - old[x]
    <2> HIDE DEF old, new
    <2> QED
      BY <1>2, <1>3, SumChange, FiniteAssumption
  <1>6. new[x] = Kept(order'[x], item'[x], v) /\ old[x] = Kept(order[x], item[x], v)
    OBVIOUS
  <1> HIDE DEF old, new
  <1> QED
    BY <1>1, <1>4, <1>5, <1>6

LEMMA LedgerSum ==
    ASSUME OrdersInv, NEW v \in Variant
    PROVE  SumFunction(Withheld(v)) \in Int
  <1>1. \A o \in Order : Withheld(v)[o] \in Int
    BY KeptFacts, WithheldIsKept DEF OrdersInv, RowInv, Typed
  <1>2. SumFunction(Withheld(v)) = SumFunctionOnSet(Withheld(v), Order)
    BY DEF SumFunction, Withheld
  <1> QED
    BY <1>1, <1>2, SumIsInt, FiniteAssumption

(* Rows whose status alone changes withhold what they did.                 *)
LEMMA StatusKeeps ==
    ASSUME NEW row \in Row, Placed(row), NEW it, NEW v, NEW new \in Row,
           Placed(new), new.releases = row.releases
    PROVE  Kept(new, it, v) = Kept(row, it, v)
  BY DEF Kept

(* A step that changes at most the row x, with its item, and by as much    *)
(* moves stock and supply.                                                 *)
LEMMA BalanceKept ==
    ASSUME OrdersInv, OrdersInv', NEW v \in Variant, NEW x \in Order,
           \A o \in Order \ {x} : order'[o] = order[o] /\ item'[o] = item[o],
           Kept(order'[x], item'[x], v) - Kept(order[x], item[x], v)
             = stock[v] - supplied[v] - (stock'[v] - supplied'[v])
    PROVE  Balance(v)' = Balance(v)
  <1>1. /\ stock[v] \in Int /\ stock'[v] \in Int /\ supplied[v] \in Int /\ supplied'[v] \in Int
        /\ Kept(order'[x], item'[x], v) \in Int /\ Kept(order[x], item[x], v) \in Int
    BY KeptFacts DEF OrdersInv, Typed, RowInv
  <1>2. SumFunction(Withheld(v)) \in Int
    BY LedgerSum
  <1>3. SumFunction(Withheld(v))' =
             SumFunction(Withheld(v)) + Kept(order'[x], item'[x], v) - Kept(order[x], item[x], v)
    BY LedgerMoves
  <1> QED
    BY <1>1, <1>2, <1>3 DEF Balance

LEMMA BalanceOfRest ==
    ASSUME UNCHANGED <<order, item>>, NEW v
    PROVE  SumFunction(Withheld(v))' = SumFunction(Withheld(v))
  BY DEF Withheld

(* Units come back exactly when an order is released.                      *)
LEMMA ReleaseBalances ==
    ASSUME OrdersInv, OrdersInv', NEW v \in Variant, NEW x \in Order,
           Cancellable(order[x]), order' = [order EXCEPT ![x] = Released(@)],
           stock' = PutBack(stock, item[x].lines), UNCHANGED <<item, supplied>>
    PROVE  Balance(v)' = Balance(v)
  <1>1. order[x] \in Row /\ item[x] \in Item /\ order'[x] = Released(order[x])
        /\ \A o \in Order \ {x} : order'[o] = order[o]
    BY DEF OrdersInv, RowInv, Typed
  <1>2. Kept(order'[x], item'[x], v) = Kept(order[x], item[x], v) - item[x].lines[v]
    BY <1>1, KeptFacts
  <1>3. stock'[v] = stock[v] + item[x].lines[v]
    BY DEF PutBack
  <1>4. /\ Kept(order[x], item[x], v) \in Int /\ item[x].lines[v] \in Int
        /\ stock[v] \in Int /\ supplied[v] \in Int
    BY <1>1, KeptFacts DEF Item, Lines, OrdersInv, Typed
  <1>5. Kept(order'[x], item'[x], v) - Kept(order[x], item[x], v)
             = stock[v] - supplied[v] - (stock'[v] - supplied'[v])
    BY <1>2, <1>3, <1>4
  <1> QED
    BY <1>1, <1>5, BalanceKept

LEMMA CheckoutBalances ==
    ASSUME OrdersInv, OrdersInv', NEW v \in Variant, NEW p \in Process, CheckoutCommit(p)
    PROVE  Balance(v)' = Balance(v)
  <1> DEFINE x == job[p].order
             new == [owner |-> job[p].customer, lines |-> job[p].lines, coupon |-> job[p].coupon]
  <1>1. /\ x \in Order /\ ~Placed(order[x]) /\ job[p].lines \in Lines
        /\ order' = [order EXCEPT ![x] = NewRow]
        /\ item' = [item EXCEPT ![x] = new]
    BY CommitsItem
  <1>2. order[x] \in Row /\ item[x] \in Item /\ order'[x] = NewRow /\ item'[x] = new
        /\ \A o \in Order \ {x} : order'[o] = order[o] /\ item'[o] = item[o]
    <2> HIDE DEF x, new
    <2> QED
      BY <1>1 DEF OrdersInv, RowInv, Typed
  <1>3. new \in Item /\ new.lines = job[p].lines
    <2>1. item'[x] \in Item
      BY <1>1 DEF OrdersInv, Typed
    <2> QED
      BY <1>2, <2>1
  <1> HIDE DEF new
  <1>4. Kept(order'[x], item'[x], v) = job[p].lines[v] /\ Kept(order[x], item[x], v) = 0
    BY <1>1, <1>2, <1>3, KeptFacts
  <1>5. stock'[v] = stock[v] - job[p].lines[v] /\ supplied' = supplied
    BY DEF CheckoutCommit, Take
  <1>6. job[p].lines[v] \in Int /\ stock[v] \in Int /\ supplied[v] \in Int
    BY <1>1 DEF Lines, OrdersInv, Typed
  <1>7. Kept(order'[x], item'[x], v) - Kept(order[x], item[x], v)
             = stock[v] - supplied[v] - (stock'[v] - supplied'[v])
    BY <1>4, <1>5, <1>6
  <1> QED
    BY <1>1, <1>2, <1>7, BalanceKept

(* What a status change makes of a row still withholds what it did.        *)
LEMMA StatusBalances ==
    ASSUME OrdersInv, OrdersInv', NEW v \in Variant, NEW x \in Order, NEW row \in Row,
           Placed(order[x]), order' = [order EXCEPT ![x] = row],
           Placed(row), row.releases = order[x].releases,
           UNCHANGED <<item, stock, supplied>>
    PROVE  Balance(v)' = Balance(v)
  <1>1. order[x] \in Row /\ order'[x] = row /\ \A o \in Order \ {x} : order'[o] = order[o]
    BY DEF OrdersInv, RowInv
  <1>2. Kept(order'[x], item'[x], v) = Kept(order[x], item[x], v)
    BY <1>1, StatusKeeps
  <1>3. Kept(order[x], item[x], v) \in Int /\ stock[v] \in Int /\ supplied[v] \in Int
    BY KeptFacts DEF OrdersInv, RowInv, Typed
  <1>4. Kept(order'[x], item'[x], v) - Kept(order[x], item[x], v)
             = stock[v] - supplied[v] - (stock'[v] - supplied'[v])
    BY <1>2, <1>3
  <1> QED
    BY <1>1, <1>4, BalanceKept

LEMMA OutsideBalances ==
    ASSUME OrdersInv, OrdersInv', NEW v \in Variant, NEW x \in Order,
           \/ PaymentCaptured(x) \/ PaymentFailed(x)
           \/ \E status \in AdminStatus : AdminSetStatus(x, status)
    PROVE  Balance(v)' = Balance(v)
  <1>0. order[x] \in Row
    BY DEF OrdersInv, RowInv
  <1>1. CASE PaymentCaptured(x)
    BY <1>0, <1>1, WrittenRow, StatusBalances DEF PaymentCaptured, MarkPaid
  <1>2. CASE PaymentFailed(x)
    BY <1>0, <1>2, WrittenRow, StatusBalances DEF PaymentFailed, MarkFailed
  <1>3. ASSUME NEW status \in AdminStatus, AdminSetStatus(x, status)
        PROVE  Balance(v)' = Balance(v)
    <2> DEFINE row == WithStatus(order[x], status)
    <2>1. status \in OrderStatus /\ status # "NONE"
      BY AdminAssumption DEF OrderStatus
    <2>2. row \in Row /\ row.status = status /\ row.releases = order[x].releases
      BY <1>0, <2>1, WithStatusRow
    <2>3. order' = [order EXCEPT ![x] = row]
      BY <1>3 DEF AdminSetStatus
    <2> HIDE DEF row
    <2> QED
      BY <1>3, <2>1, <2>2, <2>3, StatusBalances DEF AdminSetStatus, Placed
  <1> QED
    BY <1>1, <1>2, <1>3

(* The one write that may unbalance the books: by the difference between   *)
(* the level it read and the level it replaces.                            *)
StaleAdjustment(p, v) ==
    /\ AdjustWrite(p)
    /\ job[p].variant = v
    /\ job[p].value # stock[v] + job[p].delta

LEMMA AdjustBalances ==
    ASSUME OrdersInv, OrdersInv', NEW v \in Variant, NEW p \in Process, AdjustWrite(p)
    PROVE  Balance(v)' = Balance(v) \/ StaleAdjustment(p, v)
  <1> SUFFICES ASSUME ~StaleAdjustment(p, v) PROVE Balance(v)' = Balance(v)
    OBVIOUS
  <1>1. SumFunction(Withheld(v))' = SumFunction(Withheld(v))
    BY BalanceOfRest DEF AdjustWrite
  <1>2. job[p].variant \in Variant /\ job[p].value \in Int /\ job[p].delta \in Int
    BY DEF AdjustWrite, OrdersInv, Typed, JobsOK, JobOK, Job
  <1>3. stock[v] \in Int /\ supplied[v] \in Int
    BY DEF OrdersInv, Typed
  <1>4. stock'[v] - supplied'[v] = stock[v] - supplied[v]
    <2>1. CASE job[p].variant = v
      <3>1. job[p].value = stock[v] + job[p].delta
        BY <2>1 DEF StaleAdjustment
      <3>2. stock'[v] = job[p].value /\ supplied'[v] = supplied[v] + job[p].delta
        BY <1>2, <2>1 DEF AdjustWrite, OrdersInv, Typed
      <3> QED
        BY <1>2, <1>3, <3>1, <3>2
    <2>2. CASE job[p].variant # v
      BY <1>2, <2>2 DEF AdjustWrite, OrdersInv, Typed
    <2> QED
      BY <2>1, <2>2
  <1> QED
    BY <1>1, <1>4 DEF Balance

LEMMA RecountBalances ==
    ASSUME OrdersInv, NEW v \in Variant, NEW p \in Process,
           NEW w \in Variant, NEW n \in Recount, AdminRecount(p, w, n)
    PROVE  Balance(v)' = Balance(v)
  <1>1. SumFunction(Withheld(v))' = SumFunction(Withheld(v))
    BY BalanceOfRest DEF AdminRecount
  <1>2. /\ stock[v] \in Int /\ supplied[v] \in Int /\ n \in Int
        /\ stock[w] \in Int /\ supplied[w] \in Int
    BY RecountAssumption DEF OrdersInv, Typed
  <1>3. stock'[v] - supplied'[v] = stock[v] - supplied[v]
    BY <1>2 DEF AdminRecount, OrdersInv, Typed
  <1> QED
    BY <1>1, <1>3 DEF Balance

LEMMA BalanceStep ==
    ASSUME OrdersInv, OrdersInv', [OrdersNext]_vars, NEW v \in Variant
    PROVE  Balance(v)' = Balance(v) \/ \E p \in Process : StaleAdjustment(p, v)
  <1>1. ASSUME UNCHANGED <<order, item, stock, supplied>> PROVE Balance(v)' = Balance(v)
    BY <1>1, BalanceOfRest DEF Balance
  <1>2. ASSUME NEW p \in Process, CheckoutStep(p) PROVE Balance(v)' = Balance(v)
    BY <1>1, <1>2, CheckoutBalances
       DEF CheckoutStep, CheckoutRead, CheckoutCoupon, CheckoutLosesRace, CheckoutSoldOut
  <1>3. ASSUME NEW p \in Process, CancelStep(p) PROVE Balance(v)' = Balance(v)
    <2>1. CASE CancelConflict(p)
      BY <1>1, <2>1 DEF CancelConflict
    <2>2. CASE CancelCommit(p)
      <3>1. job[p].order \in Order /\ Cancellable(job[p].seen)
        BY <2>2 DEF CancelCommit, OrdersInv, JobsOK, JobOK
      <3>2. Cancellable(order[job[p].order])
        BY <2>2, <3>1 DEF CancelCommit, StillAsSeen, Cancellable
      <3> QED
        BY <2>2, <3>1, <3>2, ReleaseBalances DEF CancelCommit
    <2> QED
      BY <1>3, <2>1, <2>2 DEF CancelStep
  <1>4. ASSUME NEW s \in Sweeper, SweepStep(s) PROVE Balance(v)' = Balance(v)
    <2>1. ASSUME NEW o \in Order, SweepExpire(s, o) PROVE Balance(v)' = Balance(v)
      <3>1. Cancellable(order[o])
        BY <2>1 DEF SweepExpire, Expirable, Cancellable
      <3> QED
        BY <2>1, <3>1, ReleaseBalances DEF SweepExpire
    <2> QED
      BY <1>1, <1>4, <2>1 DEF SweepStep, SweepSkip
  <1>5. ASSUME NEW p \in Process,
               \/ \E c \in Customer, o \in Order : CheckoutLookup(p, c, o)
               \/ \E o \in Order : CancelRead(p, o)
               \/ \E w \in Variant, delta \in Adjustment : AdjustRead(p, w, delta)
        PROVE  Balance(v)' = Balance(v)
    BY <1>1, <1>5 DEF CheckoutLookup, CancelRead, AdjustRead
  <1>6. ASSUME NEW s \in Sweeper, (\E list \in SUBSET Order : SweepList(s, list)) \/ SweepAborts(s)
        PROVE  Balance(v)' = Balance(v)
    BY <1>1, <1>6 DEF SweepList, SweepAborts
  <1>7. ASSUME (\E c \in Customer : EditCart(c)) \/ UNCHANGED vars PROVE Balance(v)' = Balance(v)
    BY <1>1, <1>7 DEF EditCart, vars
  <1> QED
    BY <1>2, <1>3, <1>4, <1>5, <1>6, <1>7, AdjustBalances, RecountBalances, OutsideBalances
       DEF OrdersNext

LEMMA BalanceIsZero ==
    ASSUME OrdersInv
    PROVE  StockLedger <=> \A v \in Variant : Balance(v) = 0
  <1>1. ASSUME NEW v \in Variant
        PROVE  stock[v] \in Int /\ supplied[v] \in Int /\ SumFunction(Withheld(v)) \in Int
    BY LedgerSum DEF OrdersInv, Typed
  <1> QED
    BY <1>1 DEF StockLedger, Balance

NoneAdjusts == \A p \in Process : job[p].pc # "adjust"

LEMMA NoneAdjustsStep ==
    ASSUME Adjustment = {}, NoneAdjusts, OrdersInv, [OrdersNext]_vars
    PROVE  NoneAdjusts'
  <1>1. ASSUME NEW p \in Process, NEW j, j.pc # "adjust", job' = [job EXCEPT ![p] = j]
        PROVE  NoneAdjusts'
    BY <1>1 DEF NoneAdjusts, OrdersInv, Typed
  <1>2. ASSUME UNCHANGED job PROVE NoneAdjusts'
    BY <1>2 DEF NoneAdjusts
  <1>3. Idle.pc # "adjust" /\ Rejected.pc # "adjust"
    BY DEF Idle, Rejected
  <1>4. ASSUME NEW p \in Process, CheckoutStep(p) PROVE NoneAdjusts'
    <2>1. CASE CheckoutRead(p)
      <3>1. job[p] \in Job
        BY DEF OrdersInv, Typed
      <3>2. \A next \in {"coupon", "commit"} :
               [job[p] EXCEPT !.pc = next, !.lines = cart[job[p].customer]].pc # "adjust"
        BY <3>1 DEF Job
      <3> QED
        BY <1>1, <1>3, <2>1, <3>2 DEF CheckoutRead
    <2>2. CASE CheckoutCoupon(p)
      <3>1. job[p] \in Job
        BY DEF OrdersInv, Typed
      <3>2. [job[p] EXCEPT !.pc = "commit", !.coupon = TRUE].pc # "adjust"
        BY <3>1 DEF Job
      <3> QED
        BY <1>1, <1>3, <2>2, <3>2 DEF CheckoutCoupon
    <2>3. CASE CheckoutLosesRace(p)
      BY <1>1, <1>3, <2>3 DEF CheckoutLosesRace
    <2>4. CASE CheckoutSoldOut(p) \/ CheckoutCommit(p)
      BY <1>1, <1>3, <2>4 DEF CheckoutSoldOut, CheckoutCommit
    <2> QED
      BY <1>4, <2>1, <2>2, <2>3, <2>4 DEF CheckoutStep
  <1>5. ASSUME NEW p \in Process,
               \/ \E c \in Customer, o \in Order : CheckoutLookup(p, c, o)
               \/ \E o \in Order : CancelRead(p, o)
        PROVE  NoneAdjusts'
    <2>1. \A o, c : [Idle EXCEPT !.pc = "cart", !.order = o, !.customer = c].pc # "adjust"
      BY NullsTyped DEF Job
    <2>2. \A o, seen : [Idle EXCEPT !.pc = "cancel", !.order = o, !.seen = seen].pc # "adjust"
      BY NullsTyped DEF Job
    <2> QED
      BY <1>1, <1>5, <2>1, <2>2 DEF CheckoutLookup, CancelRead
  <1>6. ASSUME NEW p \in Process, CancelStep(p) \/ AdjustWrite(p) PROVE NoneAdjusts'
    BY <1>1, <1>3, <1>6 DEF CancelStep, CancelConflict, CancelCommit, AdjustWrite
  <1>7. ASSUME NEW p \in Process, NEW w \in Variant, NEW n \in Recount, AdminRecount(p, w, n)
        PROVE  NoneAdjusts'
    BY <1>2, <1>7 DEF AdminRecount
  <1>8. ASSUME NEW s \in Sweeper,
               (\E list \in SUBSET Order : SweepList(s, list)) \/ SweepStep(s) \/ SweepAborts(s)
        PROVE  NoneAdjusts'
    BY <1>2, <1>8 DEF SweepList, SweepStep, SweepSkip, SweepExpire, SweepAborts
  <1>9. ASSUME NEW o \in Order,
               \/ PaymentCaptured(o) \/ PaymentFailed(o)
               \/ \E status \in AdminStatus : AdminSetStatus(o, status)
        PROVE  NoneAdjusts'
    BY <1>2, <1>9 DEF PaymentCaptured, PaymentFailed, AdminSetStatus
  <1>10. ASSUME (\E c \in Customer : EditCart(c)) \/ UNCHANGED vars PROVE NoneAdjusts'
    BY <1>2, <1>10 DEF EditCart, vars
  <1> QED
    BY <1>4, <1>5, <1>6, <1>7, <1>8, <1>9, <1>10 DEF OrdersNext

LEMMA StockStart == OrdersInit => NoneAdjusts /\ StockLedger
  <1> SUFFICES ASSUME OrdersInit PROVE NoneAdjusts /\ StockLedger
    OBVIOUS
  <1>1. NoneAdjusts
    BY DEF OrdersInit, NoneAdjusts, Idle
  <1>2. ASSUME NEW v \in Variant PROVE SumFunction(Withheld(v)) = 0
    <2>1. \A o \in Order : Withheld(v)[o] = 0
      BY DEF Withheld, OrdersInit, Init, NoRow, Placed
    <2>2. SumFunction(Withheld(v)) = SumFunctionOnSet(Withheld(v), Order)
      BY DEF SumFunction, Withheld
    <2> QED
      BY <2>1, <2>2, SumOfZeros, FiniteAssumption
  <1>3. StockLedger
    BY <1>2, StockAssumption DEF OrdersInit, StockLedger
  <1> QED
    BY <1>1, <1>3

LEMMA StockStep ==
    ASSUME Adjustment = {}, NoneAdjusts, OrdersInv, StockLedger, [OrdersNext]_vars
    PROVE  StockLedger'
  <1>1. OrdersInv'
    BY OrdersStep
  <1>2. ASSUME NEW p \in Process, NEW v \in Variant PROVE ~StaleAdjustment(p, v)
    BY DEF StaleAdjustment, AdjustWrite, NoneAdjusts
  <1>3. ASSUME NEW v \in Variant PROVE Balance(v)' = Balance(v)
    BY <1>1, <1>2, BalanceStep
  <1>4. ASSUME NEW v \in Variant PROVE Balance(v)' = 0
    BY <1>3, BalanceIsZero
  <1>5. ASSUME NEW v \in Variant
        PROVE  stock'[v] \in Int /\ supplied'[v] \in Int /\ SumFunction(Withheld(v))' \in Int
    <2>1. stock'[v] \in Int /\ supplied'[v] \in Int /\ stock[v] \in Int /\ supplied[v] \in Int
      BY <1>1 DEF OrdersInv, Typed
    <2> DEFINE new == [o \in Order |-> Kept(order'[o], item'[o], v)]
    <2>2. Withheld(v)' = new
      BY DEF Withheld, Kept
    <2>3. \A o \in Order : new[o] \in Int
      BY <1>1, KeptFacts DEF OrdersInv, RowInv, Typed
    <2>4. SumFunction(new) = SumFunctionOnSet(new, Order)
      BY DEF SumFunction
    <2> HIDE DEF new
    <2> QED
      BY <2>1, <2>2, <2>3, <2>4, SumIsInt, FiniteAssumption
  <1> QED
    BY <1>4, <1>5 DEF StockLedger, Balance

-----------------------------------------------------------------------------
(* The coupon's limits. A request that has passed the check and not yet    *)
(* ordered holds a use: counted together with the uses made, these exceed  *)
(* a limit by no more than the other requests being served.                *)

HoldsCoupon(j) == j.pc = "commit" /\ j.coupon

Holders == {p \in Process : HoldsCoupon(job[p])}

HoldersOf(c) == {p \in Holders : job[p].customer = c}

Others == Cardinality(Process) - 1

OverrunInv ==
    /\ couponUse + Cardinality(Holders) <= MaxTotalUsage + Others
    /\ \A c \in Customer :
          Cardinality(CouponOrders(c)) + Cardinality(HoldersOf(c)) <= MaxUsagePerUser + Others

(* Only the check makes a request hold a use.                              *)
Checked(p, j) ==
    /\ CheckoutCoupon(p)
    /\ CouponValid(job[p].customer)
    /\ j.customer = job[p].customer

LEMMA JobStep ==
    ASSUME OrdersInv, [OrdersNext]_vars
    PROVE  \/ UNCHANGED job
           \/ \E p \in Process : \E j :
                 job' = [job EXCEPT ![p] = j] /\ (HoldsCoupon(j) => Checked(p, j))
  <1> DEFINE goal == \/ UNCHANGED job
                     \/ \E p \in Process : \E j :
                           job' = [job EXCEPT ![p] = j] /\ (HoldsCoupon(j) => Checked(p, j))
  <1> SUFFICES goal
    OBVIOUS
  <1>1. ASSUME NEW p \in Process, NEW j, j.pc # "commit", job' = [job EXCEPT ![p] = j]
        PROVE  goal
    BY <1>1 DEF HoldsCoupon
  <1>2. ASSUME UNCHANGED job PROVE goal
    BY <1>2
  <1> HIDE DEF goal
  <1>3. Idle.pc # "commit" /\ Rejected.pc # "commit"
    BY DEF Idle, Rejected
  <1>4. ASSUME NEW p \in Process, CheckoutStep(p) PROVE goal
    <2>0. job[p] \in Job /\ JobOK(job[p])
      BY DEF OrdersInv, Typed, JobsOK
    <2>1. CASE CheckoutRead(p)
      <3> DEFINE new(next) == [job[p] EXCEPT !.pc = next, !.lines = cart[job[p].customer]]
      <3>1. ASSUME NEW next PROVE ~HoldsCoupon(new(next))
        BY <2>0, <2>1 DEF CheckoutRead, Job, JobOK, HoldsCoupon
      <3>2. \E next : job' = [job EXCEPT ![p] = new(next)] \/ job' = [job EXCEPT ![p] = Rejected]
        BY <2>1 DEF CheckoutRead
      <3> HIDE DEF new
      <3>3. CASE job' = [job EXCEPT ![p] = Rejected]
        BY <1>1, <1>3, <3>3
      <3> QED
        BY <3>1, <3>2, <3>3 DEF goal
    <2>2. CASE CheckoutCoupon(p)
      <3> DEFINE new == [job[p] EXCEPT !.pc = "commit", !.coupon = TRUE]
      <3>1. new.customer = job[p].customer
        BY <2>0 DEF Job
      <3>2. \/ job' = [job EXCEPT ![p] = new] /\ CouponValid(job[p].customer)
            \/ job' = [job EXCEPT ![p] = Rejected]
        BY <2>2 DEF CheckoutCoupon
      <3> HIDE DEF new
      <3>3. CASE job' = [job EXCEPT ![p] = Rejected]
        BY <1>1, <1>3, <3>3
      <3>4. CASE job' = [job EXCEPT ![p] = new] /\ CouponValid(job[p].customer)
        BY <2>2, <3>1, <3>4 DEF goal, Checked
      <3> QED
        BY <3>2, <3>3, <3>4
    <2>3. CASE CheckoutLosesRace(p)
      BY <1>1, <1>3, <2>3 DEF CheckoutLosesRace
    <2>4. CASE CheckoutSoldOut(p) \/ CheckoutCommit(p)
      BY <1>1, <1>3, <2>4 DEF CheckoutSoldOut, CheckoutCommit
    <2> QED
      BY <1>4, <2>1, <2>2, <2>3, <2>4 DEF CheckoutStep
  <1>5. ASSUME NEW p \in Process,
               \/ \E c \in Customer, o \in Order : CheckoutLookup(p, c, o)
               \/ \E o \in Order : CancelRead(p, o)
               \/ \E v \in Variant, delta \in Adjustment : AdjustRead(p, v, delta)
        PROVE  goal
    <2>1. \A o, c : [Idle EXCEPT !.pc = "cart", !.order = o, !.customer = c].pc # "commit"
      BY NullsTyped DEF Job
    <2>2. \A o, seen : [Idle EXCEPT !.pc = "cancel", !.order = o, !.seen = seen].pc # "commit"
      BY NullsTyped DEF Job
    <2>3. \A v, delta, value :
            [Idle EXCEPT !.pc = "adjust", !.variant = v, !.delta = delta, !.value = value].pc # "commit"
      BY NullsTyped DEF Job
    <2> QED
      BY <1>1, <1>5, <2>1, <2>2, <2>3 DEF CheckoutLookup, CancelRead, AdjustRead
  <1>6. ASSUME NEW p \in Process, CancelStep(p) \/ AdjustWrite(p) PROVE goal
    BY <1>1, <1>3, <1>6 DEF CancelStep, CancelConflict, CancelCommit, AdjustWrite
  <1>7. ASSUME NEW p \in Process, NEW w \in Variant, NEW n \in Recount, AdminRecount(p, w, n)
        PROVE  goal
    BY <1>2, <1>7 DEF AdminRecount
  <1>8. ASSUME NEW s \in Sweeper,
               (\E list \in SUBSET Order : SweepList(s, list)) \/ SweepStep(s) \/ SweepAborts(s)
        PROVE  goal
    BY <1>2, <1>8 DEF SweepList, SweepStep, SweepSkip, SweepExpire, SweepAborts
  <1>9. ASSUME NEW o \in Order,
               \/ PaymentCaptured(o) \/ PaymentFailed(o)
               \/ \E status \in AdminStatus : AdminSetStatus(o, status)
        PROVE  goal
    BY <1>2, <1>9 DEF PaymentCaptured, PaymentFailed, AdminSetStatus
  <1>10. ASSUME (\E c \in Customer : EditCart(c)) \/ UNCHANGED vars PROVE goal
    BY <1>2, <1>10 DEF EditCart, vars
  <1> QED
    BY <1>4, <1>5, <1>6, <1>7, <1>8, <1>9, <1>10 DEF OrdersNext

(* Any set of requests is finite, and any set of orders.                   *)
LEMMA SmallSets ==
    /\ \A S \in SUBSET Process :
          IsFiniteSet(S) /\ Cardinality(S) \in Nat /\ Cardinality(S) <= Others + 1
    /\ \A S \in SUBSET Order : IsFiniteSet(S) /\ Cardinality(S) \in Nat
    /\ Others \in Nat
  <1>1. Cardinality(Process) \in Nat /\ Cardinality(Process) # 0
    BY FiniteAssumption, FS_CardinalityType, FS_EmptySet
  <1>2. Others \in Nat /\ Cardinality(Process) = Others + 1
    BY <1>1 DEF Others
  <1>3. ASSUME NEW S \in SUBSET Process
        PROVE  IsFiniteSet(S) /\ Cardinality(S) \in Nat /\ Cardinality(S) <= Others + 1
    BY <1>2, FiniteAssumption, FS_Subset, FS_CardinalityType
  <1>4. ASSUME NEW S \in SUBSET Order PROVE IsFiniteSet(S) /\ Cardinality(S) \in Nat
    BY FiniteAssumption, FS_Subset, FS_CardinalityType
  <1> QED
    BY <1>2, <1>3, <1>4

LEMMA HolderSets ==
    /\ Holders \in SUBSET Process
    /\ \A c : HoldersOf(c) \in SUBSET Process /\ CouponOrders(c) \in SUBSET Order
  BY DEF Holders, HoldersOf, CouponOrders

(* A request that stops holding a use, or never held one.                  *)
LEMMA HoldersShrink ==
    ASSUME OrdersInv, NEW p \in Process, NEW j, ~HoldsCoupon(j), job' = [job EXCEPT ![p] = j]
    PROVE  /\ Holders' = Holders \ {p}
           /\ \A c : HoldersOf(c)' = HoldersOf(c) \ {p}
  BY DEF OrdersInv, Typed, Holders, HoldersOf

LEMMA HoldersGrow ==
    ASSUME OrdersInv, NEW p \in Process, NEW j, HoldsCoupon(j), Checked(p, j),
           job' = [job EXCEPT ![p] = j]
    PROVE  \A c : c # job[p].customer => HoldersOf(c)' = HoldersOf(c)
  BY DEF OrdersInv, Typed, Holders, HoldersOf, Checked, CheckoutCoupon, HoldsCoupon

(* With the counters as they were, no limit is passed by dropping a use.   *)
LEMMA OverrunDrops ==
    ASSUME OrdersInv, OverrunInv, UNCHANGED <<item, couponUse>>,
           Holders' \subseteq Holders,
           \A c \in Customer : HoldersOf(c)' \subseteq HoldersOf(c)
    PROVE  OverrunInv'
  <1>1. Cardinality(Holders') <= Cardinality(Holders) /\ Cardinality(Holders') \in Nat
        /\ Cardinality(Holders) \in Nat
    BY HolderSets, SmallSets, FS_Subset
  <1>2. ASSUME NEW c \in Customer
        PROVE  /\ Cardinality(HoldersOf(c)') <= Cardinality(HoldersOf(c))
               /\ Cardinality(HoldersOf(c)') \in Nat /\ Cardinality(HoldersOf(c)) \in Nat
               /\ CouponOrders(c)' = CouponOrders(c) /\ Cardinality(CouponOrders(c)) \in Nat
    <2>1. HoldersOf(c)' \subseteq HoldersOf(c)
      OBVIOUS
    <2>2. IsFiniteSet(HoldersOf(c)) /\ HoldersOf(c)' \in SUBSET Process
      BY <2>1, HolderSets, SmallSets
    <2>3. CouponOrders(c)' = CouponOrders(c)
      BY DEF CouponOrders
    <2> QED
      BY <2>1, <2>2, <2>3, HolderSets, SmallSets, FS_Subset
  <1>3. couponUse \in Nat /\ couponUse' = couponUse
    BY DEF OrdersInv, Typed
  <1>4. couponUse' + Cardinality(Holders') <= MaxTotalUsage + Others
    BY <1>1, <1>3, SmallSets, CouponAssumption DEF OverrunInv
  <1>5. ASSUME NEW c \in Customer
        PROVE  Cardinality(CouponOrders(c)') + Cardinality(HoldersOf(c)')
                  <= MaxUsagePerUser + Others
    BY <1>2, SmallSets, CouponAssumption DEF OverrunInv
  <1> QED
    BY <1>4, <1>5 DEF OverrunInv, Others

(* A use is taken only below both limits, by one request.                  *)
LEMMA OverrunTakes ==
    ASSUME OrdersInv, OverrunInv, NEW p \in Process, NEW j, HoldsCoupon(j), Checked(p, j),
           job' = [job EXCEPT ![p] = j]
    PROVE  OverrunInv'
  <1>1. UNCHANGED <<item, couponUse>>
    BY DEF Checked, CheckoutCoupon
  <1>2. Holders' \in SUBSET Process /\ \A c \in Customer : HoldersOf(c)' \in SUBSET Process
    BY DEF Holders, HoldersOf
  <1>3. ASSUME NEW c \in Customer
        PROVE  CouponOrders(c)' = CouponOrders(c) /\ Cardinality(CouponOrders(c)) \in Nat
    BY <1>1, HolderSets, SmallSets DEF CouponOrders
  <1>4. couponUse' + Cardinality(Holders') <= MaxTotalUsage + Others
    <2>1. couponUse < MaxTotalUsage /\ couponUse' = couponUse /\ couponUse \in Nat
      BY <1>1 DEF Checked, CouponValid, OrdersInv, Typed
    <2>2. Cardinality(Holders') \in Nat /\ Cardinality(Holders') <= Others + 1
      BY <1>2, SmallSets
    <2> QED
      BY <2>1, <2>2, SmallSets, CouponAssumption
  <1>5. ASSUME NEW c \in Customer
        PROVE  Cardinality(CouponOrders(c)') + Cardinality(HoldersOf(c)')
                  <= MaxUsagePerUser + Others
    <2>1. CASE c = job[p].customer
      <3>1. Cardinality(CouponOrders(c)) < MaxUsagePerUser
        BY <2>1 DEF Checked, CouponValid
      <3>2. Cardinality(HoldersOf(c)') \in Nat /\ Cardinality(HoldersOf(c)') <= Others + 1
        BY <1>2, SmallSets
      <3> QED
        BY <1>3, <3>1, <3>2, SmallSets, CouponAssumption
    <2>2. CASE c # job[p].customer
      <3>1. HoldersOf(c)' = HoldersOf(c)
        BY <2>2, HoldersGrow
      <3> QED
        BY <1>3, <3>1 DEF OverrunInv
    <2> QED
      BY <2>1, <2>2
  <1> QED
    BY <1>4, <1>5 DEF OverrunInv, Others

(* An order with the coupon turns the use held into a use made.            *)
LEMMA OverrunCommits ==
    ASSUME OrdersInv, OverrunInv, NEW p \in Process, CheckoutCommit(p)
    PROVE  OverrunInv'
  <1> DEFINE o == job[p].order
             d == job[p].customer
             made == [owner |-> d, lines |-> job[p].lines, coupon |-> job[p].coupon]
  <1>1. /\ o \in Order /\ d \in Customer /\ item[o] = NoItem /\ job[p].pc = "commit"
        /\ job[p].coupon \in BOOLEAN
        /\ item \in [Order -> Item] /\ item' = [item EXCEPT ![o] = made]
        /\ couponUse' = couponUse + (IF job[p].coupon THEN 1 ELSE 0) /\ couponUse \in Nat
    BY CommitsItem DEF CheckoutCommit, OrdersInv, Typed
  <1>2. made.owner = d /\ made.coupon = job[p].coupon
    OBVIOUS
  <1>3. /\ \A x \in Order \ {o} : item'[x] = item[x]
        /\ item'[o] = made /\ NoItem.coupon = FALSE
    BY <1>1 DEF NoItem
  <1>4. Holders' = Holders \ {p} /\ \A c : HoldersOf(c)' = HoldersOf(c) \ {p}
    BY HoldersShrink DEF CheckoutCommit, Idle, HoldsCoupon
  <1>5. CASE ~job[p].coupon
    <2>1. couponUse' = couponUse
      BY <1>1, <1>5
    <2>2. ASSUME NEW c \in Customer PROVE CouponOrders(c)' = CouponOrders(c)
      BY <1>1, <1>2, <1>3, <1>5 DEF CouponOrders
    <2>3. couponUse' + Cardinality(Holders') <= MaxTotalUsage + Others
      <3>1. /\ Cardinality(Holders') <= Cardinality(Holders)
            /\ Cardinality(Holders') \in Nat /\ Cardinality(Holders) \in Nat
        BY <1>4, HolderSets, SmallSets, FS_Subset
      <3> QED
        BY <1>1, <2>1, <3>1, SmallSets, CouponAssumption DEF OverrunInv
    <2>4. ASSUME NEW c \in Customer
          PROVE  Cardinality(CouponOrders(c)') + Cardinality(HoldersOf(c)')
                    <= MaxUsagePerUser + Others
      <3>1. HoldersOf(c)' \subseteq HoldersOf(c) /\ IsFiniteSet(HoldersOf(c))
        BY <1>4, HolderSets, SmallSets
      <3>2. /\ Cardinality(HoldersOf(c)') <= Cardinality(HoldersOf(c))
            /\ Cardinality(HoldersOf(c)') \in Nat /\ Cardinality(HoldersOf(c)) \in Nat
        BY <3>1, FS_Subset, FS_CardinalityType
      <3>3. Cardinality(CouponOrders(c)) \in Nat
        BY HolderSets, SmallSets
      <3> QED
        BY <2>2, <3>2, <3>3, SmallSets, CouponAssumption DEF OverrunInv
    <2> QED
      BY <2>3, <2>4 DEF OverrunInv, Others
  <1>6. CASE job[p].coupon
    <2>1. couponUse' = couponUse + 1
      BY <1>1, <1>6
    <2>2. p \in Holders /\ p \in HoldersOf(d)
      BY <1>1, <1>6 DEF Holders, HoldersOf, HoldsCoupon
    <2>3. couponUse' + Cardinality(Holders') <= MaxTotalUsage + Others
      <3>1. Cardinality(Holders \ {p}) = Cardinality(Holders) - 1
        BY <2>2, HolderSets, SmallSets, FS_RemoveElement
      <3>2. Cardinality(Holders) \in Nat
        BY HolderSets, SmallSets
      <3> QED
        BY <1>1, <1>4, <2>1, <3>1, <3>2, SmallSets, CouponAssumption DEF OverrunInv
    <2>4. ASSUME NEW c \in Customer
          PROVE  Cardinality(CouponOrders(c)') + Cardinality(HoldersOf(c)')
                    <= MaxUsagePerUser + Others
      <3>1. Cardinality(HoldersOf(c)) \in Nat /\ Cardinality(CouponOrders(c)) \in Nat
            /\ IsFiniteSet(HoldersOf(c)) /\ IsFiniteSet(CouponOrders(c))
        BY HolderSets, SmallSets
      <3>2. CASE c = d
        <4>1. CouponOrders(c)' = CouponOrders(c) \cup {o} /\ o \notin CouponOrders(c)
          BY <1>1, <1>2, <1>3, <1>6, <3>2 DEF CouponOrders
        <4>2. Cardinality(CouponOrders(c) \cup {o}) = Cardinality(CouponOrders(c)) + 1
          BY <3>1, <4>1, FS_AddElement
        <4>3. Cardinality(HoldersOf(c) \ {p}) = Cardinality(HoldersOf(c)) - 1
          BY <2>2, <3>1, <3>2, FS_RemoveElement
        <4>4. HoldersOf(c)' = HoldersOf(c) \ {p}
          BY <1>4
        <4> QED
          BY <3>1, <4>1, <4>2, <4>3, <4>4, SmallSets, CouponAssumption DEF OverrunInv
      <3>3. CASE c # d
        <4>1. CouponOrders(c)' = CouponOrders(c)
          BY <1>1, <1>2, <1>3, <3>3 DEF CouponOrders
        <4>2. HoldersOf(c)' = HoldersOf(c)
          BY <1>4, <3>3 DEF HoldersOf
        <4> QED
          BY <4>1, <4>2 DEF OverrunInv
      <3> QED
        BY <3>2, <3>3
    <2> QED
      BY <2>3, <2>4 DEF OverrunInv, Others
  <1> QED
    BY <1>5, <1>6

LEMMA OverrunStep ==
    ASSUME OrdersInv, OverrunInv, [OrdersNext]_vars
    PROVE  OverrunInv'
  <1>1. ASSUME UNCHANGED <<item, couponUse>>, UNCHANGED job PROVE OverrunInv'
    BY <1>1, OverrunDrops DEF Holders, HoldersOf
  <1>2. ASSUME UNCHANGED <<item, couponUse>>,
               NEW p \in Process, NEW j, job' = [job EXCEPT ![p] = j],
               HoldsCoupon(j) => Checked(p, j)
        PROVE  OverrunInv'
    <2>1. CASE HoldsCoupon(j)
      BY <1>2, <2>1, OverrunTakes
    <2>2. CASE ~HoldsCoupon(j)
      <3>1. Holders' = Holders \ {p} /\ \A c : HoldersOf(c)' = HoldersOf(c) \ {p}
        BY <1>2, <2>2, HoldersShrink
      <3>2. Holders' \subseteq Holders /\ \A c \in Customer : HoldersOf(c)' \subseteq HoldersOf(c)
        BY <3>1
      <3> QED
        BY <1>2, <3>2, OverrunDrops
    <2> QED
      BY <2>1, <2>2
  <1> QED
    BY <1>1, <1>2, JobStep, ItemsStep, OverrunCommits

LEMMA OverrunStart == OrdersInit => OverrunInv
  <1> SUFFICES ASSUME OrdersInit PROVE OverrunInv
    OBVIOUS
  <1>1. Holders = {} /\ \A c : HoldersOf(c) = {}
    BY DEF OrdersInit, Holders, HoldersOf, HoldsCoupon, Idle
  <1>2. \A c : CouponOrders(c) = {}
    BY DEF OrdersInit, CouponOrders, NoItem
  <1>3. couponUse = 0 /\ Cardinality(Holders) = 0
    BY <1>1, FS_EmptySet DEF OrdersInit
  <1>4. \A c : Cardinality(CouponOrders(c)) = 0 /\ Cardinality(HoldersOf(c)) = 0
    BY <1>1, <1>2, FS_EmptySet
  <1>5. 0 + 0 <= MaxTotalUsage + Others /\ 0 + 0 <= MaxUsagePerUser + Others
    BY SmallSets, CouponAssumption
  <1> QED
    BY <1>3, <1>4, <1>5 DEF OverrunInv

LEMMA OverrunBounds == OrdersInv /\ OverrunInv => CouponOverrun
  <1> SUFFICES ASSUME OrdersInv, OverrunInv PROVE CouponOverrun
    OBVIOUS
  <1>1. couponUse <= MaxTotalUsage + Others
    <2>1. couponUse \in Nat /\ Cardinality(Holders) \in Nat
      BY HolderSets, SmallSets DEF OrdersInv, Typed
    <2> QED
      BY <2>1, SmallSets, CouponAssumption DEF OverrunInv
  <1>2. ASSUME NEW c \in Customer PROVE Cardinality(CouponOrders(c)) <= MaxUsagePerUser + Others
    <2>1. Cardinality(CouponOrders(c)) \in Nat /\ Cardinality(HoldersOf(c)) \in Nat
      BY HolderSets, SmallSets
    <2> QED
      BY <2>1, SmallSets, CouponAssumption DEF OverrunInv
  <1> QED
    BY <1>1, <1>2 DEF CouponOverrun, Others

-----------------------------------------------------------------------------
(* The theorems.                                                           *)

(* Whatever the requests, sweeps, payments and admins do to rows, stock    *)
(* and carts, each row changes only as OrderLifecycle allows: Orders       *)
(* implements it, step by step.                                            *)
THEOREM OrdersRefineLifecycle == OrdersSpec => Lifecycle
  <1>1. OrdersInit => OrdersInv /\ Init
    BY OrdersStart DEF OrdersInit
  <1>2. OrdersInv /\ [OrdersNext]_vars => OrdersInv'
    BY OrdersStep
  <1>3. OrdersInv /\ [OrdersNext]_vars => [Next]_order
    BY RowsStep
  <1> QED
    BY <1>1, <1>2, <1>3, PTL DEF OrdersSpec, Lifecycle, Spec

(* Rows, items, carts and copies keep their types (no stock level is ever  *)
(* negative: nothing oversells), stock is put back at most once per life   *)
(* of an order, and coupons.usage_count equals the orders that used the    *)
(* coupon, through lost races, rollbacks and cancellations.                *)
THEOREM OrdersInvariants == OrdersSpec => [](TypeOK /\ ReleaseLedger /\ CouponLedger)
  <1>1. OrdersInit => OrdersInv /\ CouponLedger
    BY OrdersStart, CouponStart
  <1>2. OrdersInv /\ CouponLedger /\ [OrdersNext]_vars => (OrdersInv /\ CouponLedger)'
    BY OrdersStep, CouponStep
  <1>3. OrdersInv => TypeOK /\ ReleaseLedger
    BY DEF OrdersInv, RowInv, Typed, TypeOK, RowTypeOK, ReleaseLedger, Blank, RowLedger
  <1> QED
    BY <1>1, <1>2, <1>3, PTL DEF OrdersSpec

(* Where stock is only set to absolute levels, the stock always balances:  *)
(* what is in stock and what orders withhold is what was put up for sale.  *)
(* (With deltas it need not: see StockDrifts.)                             *)
THEOREM BooksBalance ==
    ASSUME Adjustment = {}
    PROVE  OrdersSpec => []OrdersSound
  <1> DEFINE Inv == OrdersInv /\ CouponLedger /\ NoneAdjusts /\ StockLedger
  <1>1. OrdersInit => Inv
    BY OrdersStart, CouponStart, StockStart
  <1>2. Inv /\ [OrdersNext]_vars => Inv'
    BY OrdersStep, CouponStep, NoneAdjustsStep, StockStep
  <1>3. Inv => OrdersSound
    BY DEF OrdersInv, RowInv, Typed, OrdersSound, TypeOK, RowTypeOK, Blank
  <1> QED
    BY <1>1, <1>2, <1>3, PTL DEF OrdersSpec

(* With deltas, the balance of a variant only ever moves in the write of   *)
(* an adjustment (ProductsService.updateStock) whose level was overtaken   *)
(* between its read and its write.                                         *)
THEOREM StockDrifts == OrdersSpec => OnlyStaleAdjustmentsDrift
  <1>1. OrdersInit => OrdersInv
    BY OrdersStart
  <1>2. OrdersInv /\ [OrdersNext]_vars => OrdersInv'
    BY OrdersStep
  <1>3. ASSUME OrdersInv, [OrdersNext]_vars, NEW v \in Variant, Balance(v)' # Balance(v)
        PROVE  \E p \in Process :
                  /\ job[p].pc = "adjust" /\ job'[p].pc = "idle"
                  /\ job[p].variant = v
                  /\ job[p].value # stock[v] + job[p].delta
    <2>1. OrdersInv'
      BY <1>2, <1>3
    <2>2. PICK p \in Process : StaleAdjustment(p, v)
      BY <1>3, <2>1, BalanceStep
    <2>3. job'[p].pc = "idle"
      BY <1>3, <2>2 DEF StaleAdjustment, AdjustWrite, Idle, OrdersInv, Typed
    <2> QED
      BY <2>2, <2>3 DEF StaleAdjustment, AdjustWrite
  <1>4. OrdersInv /\ [OrdersNext]_vars
        => [\A v \in Variant : Balance(v)' # Balance(v) =>
              \E p \in Process :
                  /\ job[p].pc = "adjust" /\ job'[p].pc = "idle"
                  /\ job[p].variant = v
                  /\ job[p].value # stock[v] + job[p].delta]_vars
    BY <1>3
  <1> QED
    BY <1>1, <1>2, <1>4, PTL DEF OrdersSpec, OnlyStaleAdjustmentsDrift

(* The owner, lines and coupon of a placed order never change: a checkout  *)
(* that comes second with the same key adds nothing to them.               *)
THEOREM ItemsAreFinal == OrdersSpec => PlacedOnce
  <1>1. OrdersInit => OrdersInv
    BY OrdersStart
  <1>2. OrdersInv /\ [OrdersNext]_vars => OrdersInv'
    BY OrdersStep
  <1>3. ASSUME OrdersInv, [OrdersNext]_vars, NEW o \in Order, Placed(order[o])
        PROVE  item'[o] = item[o]
    <2>1. ASSUME NEW p \in Process, CheckoutCommit(p) PROVE item'[o] = item[o]
      BY <1>3, <2>1, CommitsItem
    <2> QED
      BY <1>3, <2>1, ItemsStep
  <1>4. OrdersInv /\ [OrdersNext]_vars
        => [\A o \in Order : Placed(order[o]) => item'[o] = item[o]]_vars
    BY <1>3
  <1> QED
    BY <1>1, <1>2, <1>4, PTL DEF OrdersSpec, PlacedOnce

(* An order leaves a sweep's list untouched, or expires because it was     *)
(* unpaid in that very step, however old the list is.                      *)
THEOREM SweepsSparePaid == OrdersSpec => SweepSparesPaid
  <1>1. OrdersInit => OrdersInv
    BY OrdersStart
  <1>2. OrdersInv /\ [OrdersNext]_vars => OrdersInv'
    BY OrdersStep
  <1>3. ASSUME OrdersInv, [OrdersNext]_vars, NEW s \in Sweeper, NEW o \in sweep[s] \ sweep'[s]
        PROVE  order'[o] = order[o] \/ Expirable(order[o])
    <2>1. ASSUME NEW t \in Sweeper, NEW x \in Order, SweepExpire(t, x)
          PROVE  Expirable(order[o])
      <3>1. o = x
        BY <1>3, <2>1 DEF SweepExpire, OrdersInv, Typed
      <3> QED
        BY <2>1, <3>1 DEF SweepExpire
    <2>2. ASSUME UNCHANGED order PROVE order'[o] = order[o]
      BY <2>2
    <2>3. ASSUME UNCHANGED sweep PROVE FALSE
      BY <1>3, <2>3
    <2>4. ASSUME NEW p \in Process,
                 \/ \E c \in Customer, x \in Order : CheckoutLookup(p, c, x)
                 \/ CheckoutStep(p)
                 \/ \E x \in Order : CancelRead(p, x)
                 \/ CancelStep(p)
                 \/ \E v \in Variant, delta \in Adjustment : AdjustRead(p, v, delta)
                 \/ AdjustWrite(p)
                 \/ \E v \in Variant, n \in Recount : AdminRecount(p, v, n)
          PROVE  UNCHANGED sweep
      BY <2>4 DEF CheckoutLookup, CheckoutStep, CheckoutRead, CheckoutCoupon, CheckoutLosesRace,
         CheckoutSoldOut, CheckoutCommit, CancelRead, CancelStep, CancelConflict, CancelCommit,
         AdjustRead, AdjustWrite, AdminRecount
    <2>5. ASSUME NEW x \in Order,
                 \/ PaymentCaptured(x) \/ PaymentFailed(x)
                 \/ \E status \in AdminStatus : AdminSetStatus(x, status)
          PROVE  UNCHANGED sweep
      BY <2>5 DEF PaymentCaptured, PaymentFailed, AdminSetStatus
    <2>6. ASSUME NEW t \in Sweeper,
                 \/ \E list \in SUBSET Order : SweepList(t, list)
                 \/ SweepAborts(t)
          PROVE  UNCHANGED order
      BY <2>6 DEF SweepList, SweepAborts
    <2> QED
      BY <1>3, <2>1, <2>2, <2>3, <2>4, <2>5, <2>6
         DEF OrdersNext, vars, EditCart, SweepStep, SweepSkip
  <1>4. OrdersInv /\ [OrdersNext]_vars
        => [\A s \in Sweeper : \A o \in sweep[s] \ sweep'[s] :
              order'[o] = order[o] \/ Expirable(order[o])]_vars
    BY <1>3
  <1> QED
    BY <1>1, <1>2, <1>4, PTL DEF OrdersSpec, SweepSparesPaid

(* The limits of a coupon, read before the transaction, are passed by at   *)
(* most one use for each other request that is being served, in total and  *)
(* per customer.                                                           *)
THEOREM OverrunIsBounded == OrdersSpec => []CouponOverrun
  <1>1. OrdersInit => OrdersInv /\ OverrunInv
    BY OrdersStart, OverrunStart
  <1>2. OrdersInv /\ OverrunInv /\ [OrdersNext]_vars => (OrdersInv /\ OverrunInv)'
    BY OrdersStep, OverrunStep
  <1> QED
    BY <1>1, <1>2, OverrunBounds, PTL DEF OrdersSpec
=============================================================================
