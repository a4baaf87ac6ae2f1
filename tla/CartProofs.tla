------------------------------ MODULE CartProofs ------------------------------
(***************************************************************************)
(* Proofs about Cart, for any owners, variants, carts and processes. What  *)
(* keeps carts from holding more than was asked for is that every line,    *)
(* and every copy of it that may still be written back, is within a share  *)
(* of what was asked for (Shared); a merge moves the share of the guest's  *)
(* cart to the customer's. What makes an owner have one cart is that no    *)
(* two requests of the owner are under way (Alone).                        *)
(***************************************************************************)
EXTENDS Cart, Sums

(* What a request has found is its owner's, and was there.                 *)
JobFits(j) ==
    /\ j.pc = "idle" => j = Idle
    /\ j.pc # "idle" => j.owner \in Owner
    /\ j.cart # NoCart => cart[j.cart].state # "unused" /\ cart[j.cart].owner = j.owner
    /\ j.pc # "join" /\ j.cart = NoCart => j.seen = Empty
    /\ (j.pc = "join") <=> (j.from # NoCart)
    /\ j.pc = "join" => /\ j.owner \in Customer
                        /\ cart[j.from].state # "unused" /\ cart[j.from].owner \in Guest
    /\ j.pc = "merge" => j.owner \in Guest
    /\ j.pc = "commit" => \A v \in Variant :
          j.bill.line[v].quantity = IF v \in Active(j.seen) THEN j.seen[v].quantity ELSE 0

CartFits(k) ==
    /\ cart[k].state # "unused" => cart[k].owner \in Owner
    /\ cart[k].state = "gone" => cart[k].owner \in Guest

(* The cart of which a request holds a copy.                               *)
Copied(j) == IF j.pc = "join" THEN j.from ELSE j.cart

Bounds(share, v) ==
    /\ \A k \in CartId : cart[k].state = "live" =>
          /\ cart[k].line[v].quantity <= share[k]
          /\ \A p \in Process : Copied(job[p]) = k => job[p].seen[v].quantity <= share[k]
    /\ SumFunctionOnSet(share, CartId) <= asked[v]

Shared(v) == \E share \in [CartId -> Nat] : Bounds(share, v)

Involves(p, w) ==
    \/ job[p].owner = w
    \/ job[p].from # NoCart /\ cart[job[p].from].owner = w

Alone == \A p, q \in Process : \A w \in Owner : Involves(p, w) /\ Involves(q, w) => p = q

OneCartOf(w) == \A k, l \in CartsOf(w) : k = l

(* Nobody else has made the cart that a request has not found.             *)
StillNone(j) == j.pc \in {"add", "join"} /\ j.cart = NoCart => CartsOf(j.owner) = {}

CartInv ==
    /\ TypeOK
    /\ \A p \in Process : JobFits(job[p])
    /\ \A k \in CartId : CartFits(k)
    /\ \A v \in Variant : Shared(v)
    /\ \A g \in Guest : OneCartOf(g)
    /\ ~overlapped => /\ Alone
                      /\ \A c \in Customer : OneCartOf(c)
                      /\ \A p \in Process : StillNone(job[p])

-----------------------------------------------------------------------------
(* Prices.                                                                 *)

LEMMA ProductRow ==
    ASSUME NEW v \in Variant
    PROVE  /\ RegularPrice(Product[v]) \in Nat /\ Product[v].vat \in 0..100
           /\ Product[v].weight \in Nat /\ Product[v].stock \in Nat
BY ProductAssumption DEF RegularPrice

LEMMA RoundedIsNat ==
    ASSUME NEW n \in Nat, NEW d \in Nat \ {0}
    PROVE  Rounded(n, d) \in Nat
<1>1. 2 * n + d \in Nat /\ 2 * d \in Nat \ {0}
  OBVIOUS
<1>2. \A a \in Nat, b \in Nat \ {0} : a \div b \in Nat
  OBVIOUS
<1> QED
  BY <1>1, <1>2 DEF Rounded

LEMMA ProductIsNat == \A a, b \in Nat : a * b \in Nat
OBVIOUS

LEMMA ShareIsNat ==
    ASSUME NEW b \in Bundle, NEW v \in Variant
    PROVE  UnitShare(Product, b, v) \in Nat /\ b.quantity[v] \in Nat
<1> DEFINE h == [x \in DOMAIN Product |-> RegularPrice(Product[x]) * b.quantity[x]]
<1>1. DOMAIN Product = Variant /\ b.quantity \in [Variant -> Nat] /\ b.price \in Nat
  BY ProductAssumption, BundleAssumption
<1>2. \A x \in Variant : h[x] \in Nat
  BY <1>1, ProductRow, ProductIsNat
<1>3. RegularTotal(Product, b) = SumFunctionOnSet(h, Variant)
  BY <1>1 DEF RegularTotal, SumFunction
<1> HIDE DEF h
<1>4. RegularTotal(Product, b) \in Nat
  BY <1>2, <1>3, FiniteAssumption, SumIsNat
<1>5. RegularPrice(Product[v]) * b.price \in Nat
  BY <1>1, ProductRow, ProductIsNat
<1> QED
  BY <1>1, <1>4, <1>5, RoundedIsNat DEF UnitShare

LEMMA CostIsNat ==
    ASSUME NEW lines \in [Variant -> Line], NEW S \in SUBSET Active(lines)
    PROVE  /\ SumFunctionOnSet(Cost(lines), S) \in Nat
           /\ WeightOf(lines) \in Nat
           /\ Active(lines) \in SUBSET Variant
<1>1. Active(lines) \in SUBSET Variant /\ S \in SUBSET Variant
  BY DEF Active
<1>2. IsFiniteSet(S) /\ IsFiniteSet(Active(lines))
  BY <1>1, FiniteAssumption, FS_Subset
<1>3. \A v \in Variant : lines[v].quantity \in Nat
  BY DEF Line
<1>4. \A v \in Variant : Cost(lines)[v] \in Nat
  BY <1>3, ProductRow, ProductIsNat DEF Cost
<1> DEFINE h == [v \in Variant |-> Product[v].weight * lines[v].quantity]
<1>5. \A v \in Variant : h[v] \in Nat
  BY <1>3, ProductRow, ProductIsNat
<1>6. WeightOf(lines) = SumFunctionOnSet(h, Active(lines))
  BY DEF WeightOf
<1> HIDE DEF h
<1>7. WeightOf(lines) \in Nat
  BY <1>1, <1>2, <1>5, <1>6, SumIsNat
<1>8. SumFunctionOnSet(Cost(lines), S) \in Nat
  BY <1>1, <1>2, <1>4, SumIsNat
<1> QED
  BY <1>1, <1>7, <1>8

LEMMA DiscountIsNat ==
    ASSUME NEW coupon \in Coupon, NEW base \in Nat
    PROVE  Discount(coupon, base) \in Nat
<1> DEFINE taken == IF coupon.type = "PERCENT" THEN Rounded(base * coupon.amount, 100)
                    ELSE Least(coupon.amount, base)
<1>1. coupon.amount \in Nat /\ coupon.cap \in Nat \cup {None}
  BY CouponAssumption
<1>2. Rounded(base * coupon.amount, 100) \in Nat
  BY <1>1, ProductIsNat, RoundedIsNat
<1>3. taken \in Nat
  BY <1>1, <1>2 DEF Least
<1> HIDE DEF taken
<1>4. Discount(coupon, base) = IF coupon.type = "FREE_SHIPPING" THEN 0
                               ELSE IF coupon.cap = None THEN taken ELSE Least(taken, coupon.cap)
  BY DEF Discount, taken
<1> QED
  BY <1>1, <1>3, <1>4 DEF Least

LEMMA RateIsNat ==
    ASSUME NEW method \in Method, NEW weight, NEW subtotal, NEW rate \in Rates(method, weight, subtotal)
    PROVE  rate \in Nat
BY MethodAssumption DEF Rates

LEMMA BillIsBill ==
    ASSUME NEW lines \in [Variant -> Line], NEW rate \in Nat, NEW discount \in Nat,
           NEW freeShipping \in BOOLEAN
    PROVE  LET bill == BillFor(lines, rate, discount, freeShipping) IN
           /\ bill \in Bill
           /\ \A v \in Variant :
                 bill.line[v].quantity = IF v \in Active(lines) THEN lines[v].quantity ELSE 0
<1> DEFINE shipping == IF freeShipping THEN 0 ELSE rate
           row(v) == IF v \in Active(lines) THEN OrderLine(v, lines[v]) ELSE NoBill.line[v]
           line == [v \in Variant |-> row(v)]
<1>1. ASSUME NEW v \in Variant
      PROVE  /\ row(v) \in [quantity : Nat, subtotal : Nat, vat : Nat]
             /\ row(v).quantity = IF v \in Active(lines) THEN lines[v].quantity ELSE 0
  <2>1. lines[v].quantity \in Nat
    BY DEF Line
  <2> DEFINE subtotal == RegularPrice(Product[v]) * lines[v].quantity
  <2>2. subtotal \in Nat
    BY <2>1, ProductRow, ProductIsNat
  <2>3. VatWithin(subtotal, Product[v].vat) \in Nat
    <3>1. Product[v].vat \in Nat /\ 100 + Product[v].vat \in Nat \ {0}
      BY ProductRow
    <3> HIDE DEF subtotal
    <3>2. subtotal * Product[v].vat \in Nat
      BY <2>2, <3>1, ProductIsNat
    <3> QED
      BY <3>1, <3>2, RoundedIsNat DEF VatWithin
  <2>4. OrderLine(v, lines[v]) = [quantity |-> lines[v].quantity, subtotal |-> subtotal,
                                  vat |-> VatWithin(subtotal, Product[v].vat)]
    BY DEF OrderLine
  <2> HIDE DEF subtotal
  <2>5. NoBill.line[v] = [quantity |-> 0, subtotal |-> 0, vat |-> 0]
    BY DEF NoBill
  <2> QED
    BY <2>1, <2>2, <2>3, <2>4, <2>5
<1>2. line \in [Variant -> [quantity : Nat, subtotal : Nat, vat : Nat]]
  BY <1>1
<1>3. SubtotalOf(lines) \in Nat /\ shipping \in Nat
  BY CostIsNat DEF SubtotalOf
<1>4. \A v \in Variant : line[v].quantity = IF v \in Active(lines) THEN lines[v].quantity ELSE 0
  BY <1>1
<1>5. BillFor(lines, rate, discount, freeShipping) =
         [line |-> line, subtotal |-> SubtotalOf(lines), discount |-> discount,
          shipping |-> shipping, total |-> SubtotalOf(lines) - discount + shipping]
  BY DEF BillFor
<1> HIDE DEF line, shipping
<1> QED
  BY <1>2, <1>3, <1>4, <1>5 DEF Bill

-----------------------------------------------------------------------------
(* Steps.                                                                  *)

LEMMA EmptyLines ==
    /\ Empty \in [Variant -> Line] /\ \A v \in Variant : Empty[v] = NoLine
    /\ NoLine \in Line /\ NoLine.quantity = 0
BY DEF Empty, NoLine, Line

LEMMA IdleJob ==
    Idle \in Job /\ Idle.pc = "idle" /\ Idle.owner = NoOwner /\ Idle.cart = NoCart
    /\ Idle.seen = Empty /\ Idle.from = NoCart
<1>1. NoBill.line \in [Variant -> [quantity : Nat, subtotal : Nat, vat : Nat]]
  BY DEF NoBill
<1>2. NoBill \in Bill
  BY <1>1 DEF NoBill, Bill
<1> QED
  BY <1>2, EmptyLines DEF Idle, Job

LEMMA IdleFits == JobFits(Idle) /\ StillNone(Idle)
BY IdleJob DEF JobFits, StillNone

LEMMA CartInitInv == CartInit => CartInv
<1> SUFFICES ASSUME CartInit PROVE CartInv
  OBVIOUS
<1>1. NoCartRow \in CartRow /\ NoCartRow.state = "unused" /\ NoCartRow.line = Empty
  BY EmptyLines DEF NoCartRow, CartRow
<1>2. TypeOK
  <2>1. cart \in [CartId -> CartRow] /\ \A k \in CartId : cart[k].line = Empty
    BY <1>1 DEF CartInit
  <2> QED
    BY <2>1, IdleJob DEF CartInit, TypeOK
<1>3. \A p \in Process : JobFits(job[p]) /\ StillNone(job[p])
  BY IdleFits DEF CartInit
<1>4. (\A k \in CartId : CartFits(k)) /\ \A w \in Owner : CartsOf(w) = {}
  BY <1>1 DEF CartInit, CartFits, CartsOf
<1>5. ASSUME NEW v \in Variant PROVE Shared(v)
  <2> DEFINE share == [k \in CartId |-> 0]
  <2>1. SumFunctionOnSet(share, CartId) = 0
    BY FiniteAssumption, SumOfZeros
  <2>2. share \in [CartId -> Nat]
    OBVIOUS
  <2> HIDE DEF share
  <2>3. Bounds(share, v)
    BY <1>1, <2>1, <1>5 DEF Bounds, CartInit
  <2> QED
    BY <2>2, <2>3 DEF Shared
<1>6. \A w \in Owner : OneCartOf(w)
  BY <1>4 DEF OneCartOf
<1>7. Alone
  BY IdleJob, NullAssumption DEF CartInit, Alone, Involves
<1> QED
  BY <1>2, <1>3, <1>4, <1>5, <1>6, <1>7 DEF CartInv, Owner

(* What a request has found stays its owner's as long as carts that were   *)
(* there keep their owner.                                                 *)
LEMMA JobStays ==
    ASSUME NEW j \in Job, JobFits(j),
           \A k \in CartId : cart[k].state # "unused" =>
              cart'[k].state # "unused" /\ cart'[k].owner = cart[k].owner
    PROVE  JobFits(j)'
<1>1. /\ j.cart \in CartId \cup {NoCart} /\ j.from \in CartId \cup {NoCart}
  BY DEF Job
<1>2. /\ j.cart # NoCart => cart'[j.cart].state # "unused" /\ cart'[j.cart].owner = j.owner
      /\ j.pc = "join" => cart'[j.from].state # "unused" /\ cart'[j.from].owner \in Guest
  BY <1>1 DEF JobFits
<1> QED
  BY <1>2 DEF JobFits, Active

(* A request that reads, or ends: its copy is of what the cart holds, or   *)
(* the one it had.                                                         *)
LEMMA ReadingKeeps ==
    ASSUME CartInv, NEW p \in Process, NEW j \in Job, job' = [job EXCEPT ![p] = j],
           UNCHANGED <<cart, asked>>, overlapped' \in BOOLEAN, JobFits(j),
           \A k \in CartId : Copied(j) = k =>
              \A v \in Variant : \/ j.seen[v].quantity = cart[k].line[v].quantity
                                 \/ Copied(job[p]) = k /\ j.seen[v] = job[p].seen[v]
                                 \/ j.seen[v].quantity = 0,
           ~overlapped' =>
              /\ ~overlapped /\ StillNone(j)
              /\ \A w \in Owner : j.owner = w \/ (j.from # NoCart /\ cart[j.from].owner = w) =>
                    \A q \in Process \ {p} : ~Involves(q, w)
    PROVE  CartInv'
<1>1. TypeOK /\ \A q \in Process : JobFits(job[q])
  BY DEF CartInv
<1>2. job'[p] = j /\ \A q \in Process \ {p} : job'[q] = job[q]
  BY <1>1 DEF TypeOK
<1>3. TypeOK'
  BY <1>1 DEF TypeOK
<1>4. ASSUME NEW q \in Process PROVE JobFits(job[q])'
  <2>1. JobFits(job'[q])
    BY <1>1, <1>2
  <2> QED
    BY <2>1 DEF JobFits, Active
<1>5. \A k \in CartId : CartFits(k)'
  BY DEF CartInv, CartFits
<1>6. ASSUME NEW v \in Variant PROVE Shared(v)'
  <2>1. PICK share \in [CartId -> Nat] : Bounds(share, v)
    BY DEF CartInv, Shared
  <2>2. ASSUME NEW k \in CartId, cart[k].state = "live", NEW q \in Process, Copied(job'[q]) = k
        PROVE  job'[q].seen[v].quantity <= share[k]
    <3>1. CASE q # p
      BY <1>2, <2>1, <2>2, <3>1 DEF Bounds
    <3>2. CASE q = p
      <4>1. Copied(j) = k /\ job'[q] = j
        BY <1>2, <2>2, <3>2
      <4>2. CASE j.seen[v].quantity = cart[k].line[v].quantity
        BY <2>1, <2>2, <4>1, <4>2 DEF Bounds
      <4>3. CASE Copied(job[p]) = k /\ j.seen[v] = job[p].seen[v]
        BY <2>1, <2>2, <4>1, <4>3 DEF Bounds
      <4>4. CASE j.seen[v].quantity = 0
        BY <4>1, <4>4
      <4> QED
        BY <4>1, <4>2, <4>3, <4>4
    <3> QED
      BY <3>1, <3>2
  <2>3. Bounds(share, v)'
    BY <2>1, <2>2 DEF Bounds, Copied
  <2> QED
    BY <2>3 DEF Shared
<1>7. \A w \in Owner : CartsOf(w)' = CartsOf(w)
  BY DEF CartsOf
<1>8. \A w \in Owner : OneCartOf(w) => OneCartOf(w)'
  BY <1>7 DEF OneCartOf
<1>9. ASSUME ~overlapped' PROVE Alone' /\ \A q \in Process : StillNone(job[q])'
  <2>1. Alone /\ \A q \in Process : StillNone(job[q])
    BY <1>9 DEF CartInv
  <2>2. \A q \in Process : StillNone(job[q])'
    <3> SUFFICES ASSUME NEW q \in Process PROVE StillNone(job[q])'
      OBVIOUS
    <3>1. StillNone(job'[q])
      BY <1>2, <1>9, <2>1
    <3> QED
      BY <3>1 DEF StillNone, CartsOf
  <2>3. \A q \in Process \ {p} : \A w \in Owner : Involves(q, w)' <=> Involves(q, w)
    BY <1>2 DEF Involves
  <2>4. \A w \in Owner : Involves(p, w)' => \A q \in Process \ {p} : ~Involves(q, w)
    BY <1>2, <1>9 DEF Involves
  <2>5. Alone'
    BY <2>1, <2>3, <2>4 DEF Alone
  <2> QED
    BY <2>2, <2>5
<1> QED
  BY <1>3, <1>4, <1>5, <1>6, <1>8, <1>9 DEF CartInv, Owner

LEMMA FindKeeps ==
    ASSUME CartInv, NEW p \in Process, NEW w \in Owner, NEW pc \in {"add", "edit", "checkout", "merge"},
           pc = "merge" => w \in Guest, Find(p, w, pc)
    PROVE  CartInv'
<1>1. TypeOK /\ UNCHANGED <<cart, asked>> /\ overlapped' = (overlapped \/ Busy(w))
  BY DEF CartInv, Find
<1>2. overlapped' \in BOOLEAN
  BY <1>1 DEF TypeOK
<1>3. ASSUME ~overlapped' PROVE ~overlapped /\ \A q \in Process : ~Involves(q, w)
  BY <1>1, <1>3 DEF Busy, Involves
<1>4. PICK j \in Job :
         /\ job' = [job EXCEPT ![p] = j] /\ j.pc = pc /\ j.owner = w /\ j.from = NoCart
         /\ \/ j.cart = NoCart /\ j.seen = Empty /\ CartsOf(w) = {}
            \/ j.cart \in CartsOf(w) /\ j.seen = cart[j.cart].line
  <2>1. CASE CartsOf(w) = {} /\ job' = [job EXCEPT ![p] = [Idle EXCEPT !.pc = pc, !.owner = w]]
    <3> DEFINE j == [Idle EXCEPT !.pc = pc, !.owner = w]
    <3>1. j \in Job /\ j.pc = pc /\ j.owner = w /\ j.from = NoCart /\ j.cart = NoCart /\ j.seen = Empty
      BY IdleJob DEF Job
    <3> HIDE DEF j
    <3>2. job' = [job EXCEPT ![p] = j]
      BY <2>1 DEF j
    <3> QED
      BY <2>1, <3>1, <3>2
  <2>2. CASE \E k \in CartsOf(w) :
                job' = [job EXCEPT ![p] = [Idle EXCEPT !.pc = pc, !.owner = w, !.cart = k,
                                                       !.seen = cart[k].line]]
    <3>1. PICK k \in CartsOf(w) :
                job' = [job EXCEPT ![p] = [Idle EXCEPT !.pc = pc, !.owner = w, !.cart = k,
                                                       !.seen = cart[k].line]]
      BY <2>2
    <3> DEFINE j == [Idle EXCEPT !.pc = pc, !.owner = w, !.cart = k, !.seen = cart[k].line]
    <3>2. k \in CartId /\ cart[k].line \in [Variant -> Line]
      BY <1>1 DEF CartsOf, TypeOK, CartRow
    <3>3. /\ j \in Job /\ j.pc = pc /\ j.owner = w /\ j.from = NoCart /\ j.cart = k
          /\ j.seen = cart[k].line
      BY <3>2, IdleJob DEF Job
    <3> HIDE DEF j
    <3>4. job' = [job EXCEPT ![p] = j]
      BY <3>1 DEF j
    <3> QED
      BY <3>1, <3>3, <3>4
  <2> QED
    BY <2>1, <2>2 DEF Find
<1>5. j.cart \in CartsOf(w) => j.cart # NoCart /\ cart[j.cart].state = "live" /\ cart[j.cart].owner = w
  BY NullAssumption DEF CartsOf
<1>6. JobFits(j)
  BY <1>4, <1>5 DEF JobFits
<1>7. \A k \in CartId : Copied(j) = k =>
         \A v \in Variant : j.seen[v].quantity = cart[k].line[v].quantity
  BY <1>4, NullAssumption DEF Copied
<1>8. StillNone(j)
  BY <1>4, <1>5 DEF StillNone
<1> QED
  BY <1>1, <1>2, <1>3, <1>4, <1>6, <1>7, <1>8, ReadingKeeps

LEMMA StopKeeps ==
    ASSUME CartInv, NEW p \in Process, Stop(p)
    PROVE  CartInv'
<1>1. job' = [job EXCEPT ![p] = Idle] /\ UNCHANGED <<cart, asked, overlapped>> /\ overlapped \in BOOLEAN
  BY DEF Stop, Return, CartInv, TypeOK
<1>2. \A k \in CartId : Copied(Idle) # k
  BY IdleJob, NullAssumption DEF Copied
<1>3. Idle.owner \notin Owner /\ Idle.from = NoCart
  BY IdleJob, NullAssumption
<1> QED
  BY <1>1, <1>2, <1>3, IdleJob, IdleFits, ReadingKeeps

LEMMA MergeIntoKeeps ==
    ASSUME CartInv, NEW p \in Process, NEW c \in Customer, MergeInto(p, c)
    PROVE  CartInv'
<1>1. /\ TypeOK /\ UNCHANGED <<cart, asked>> /\ overlapped' = (overlapped \/ Busy(c))
      /\ job[p] \in Job /\ JobFits(job[p]) /\ job[p].pc = "merge" /\ job[p].cart # NoCart
  BY DEF CartInv, MergeInto, TypeOK
<1>2. overlapped' \in BOOLEAN
  BY <1>1 DEF TypeOK
<1>3. /\ job[p].owner \in Guest /\ job[p].cart \in CartId /\ job[p].from = NoCart
      /\ cart[job[p].cart].state # "unused" /\ cart[job[p].cart].owner = job[p].owner
      /\ c \in Owner /\ job[p].owner \in Owner
  BY <1>1 DEF JobFits, Job, Owner
<1>4. ASSUME ~overlapped'
      PROVE  /\ ~overlapped /\ \A q \in Process : ~Involves(q, c)
             /\ \A q \in Process \ {p} : ~Involves(q, job[p].owner)
  <2>1. ~overlapped /\ \A q \in Process : ~Involves(q, c)
    BY <1>1, <1>4 DEF Busy, Involves
  <2>2. Alone /\ Involves(p, job[p].owner)
    BY <2>1 DEF CartInv, Involves
  <2> QED
    BY <1>3, <2>1, <2>2 DEF Alone
<1>5. PICK k \in IF CartsOf(c) = {} THEN {NoCart} ELSE CartsOf(c) :
         job' = [job EXCEPT ![p].pc = "join", ![p].owner = c, ![p].cart = k, ![p].from = job[p].cart]
  BY DEF MergeInto
<1>6. \/ k = NoCart /\ CartsOf(c) = {}
      \/ k \in CartId /\ k # NoCart /\ cart[k].state = "live" /\ cart[k].owner = c
  BY <1>5, NullAssumption DEF CartsOf
<1> DEFINE j == [job[p] EXCEPT !.pc = "join", !.owner = c, !.cart = k, !.from = job[p].cart]
<1>7. /\ j \in Job /\ j.pc = "join" /\ j.owner = c /\ j.cart = k /\ j.from = job[p].cart
      /\ j.seen = job[p].seen
  BY <1>1, <1>3, <1>6 DEF Job
<1>8. job' = [job EXCEPT ![p] = j]
  BY <1>1, <1>5 DEF TypeOK, Job
<1> HIDE DEF j
<1>9. JobFits(j)
  BY <1>1, <1>3, <1>6, <1>7 DEF JobFits
<1>10. \A l \in CartId : Copied(j) = l => Copied(job[p]) = l
  BY <1>1, <1>7 DEF Copied
<1>11. StillNone(j)
  BY <1>6, <1>7 DEF StillNone
<1>12. ~overlapped' => \A w \in Owner : j.owner = w \/ (j.from # NoCart /\ cart[j.from].owner = w) =>
          \A q \in Process \ {p} : ~Involves(q, w)
  BY <1>3, <1>4, <1>7
<1> QED
  BY <1>1, <1>2, <1>4, <1>7, <1>8, <1>9, <1>10, <1>11, <1>12, ReadingKeeps

LEMMA PriceKeeps ==
    ASSUME CartInv, NEW p \in Process, NEW method \in Method, Price(p, method)
    PROVE  CartInv'
<1> DEFINE lines == job[p].seen
           subtotal == SubtotalOf(lines)
<1>1. /\ TypeOK /\ UNCHANGED <<cart, asked, overlapped>> /\ overlapped \in BOOLEAN
      /\ job[p] \in Job /\ JobFits(job[p]) /\ job[p].pc = "checkout" /\ lines \in [Variant -> Line]
  BY DEF CartInv, Price, TypeOK, Job
<1>2. PICK bill \in Bill :
         /\ job' = [job EXCEPT ![p].pc = "commit", ![p].bill = bill]
         /\ \A v \in Variant :
               bill.line[v].quantity = IF v \in Active(lines) THEN lines[v].quantity ELSE 0
  <2>1. PICK rate \in Rates(method, WeightOf(lines), subtotal) :
             \/ job' = [job EXCEPT ![p].pc = "commit", ![p].bill = BillFor(lines, rate, 0, FALSE)]
             \/ \E coupon \in {c \in Coupon : subtotal >= c.minTotal} :
                   job' = [job EXCEPT ![p].pc = "commit",
                       ![p].bill = BillFor(lines, rate,
                                           Discount(coupon, Discountable(lines, coupon)),
                                           coupon.type = "FREE_SHIPPING")]
    BY DEF Price
  <2>2. rate \in Nat
    BY RateIsNat
  <2>3. PICK discount \in Nat, free \in BOOLEAN :
           job' = [job EXCEPT ![p].pc = "commit", ![p].bill = BillFor(lines, rate, discount, free)]
    <3>1. CASE job' = [job EXCEPT ![p].pc = "commit", ![p].bill = BillFor(lines, rate, 0, FALSE)]
      BY <3>1
    <3>2. ASSUME NEW coupon \in Coupon,
                 job' = [job EXCEPT ![p].pc = "commit",
                       ![p].bill = BillFor(lines, rate,
                                           Discount(coupon, Discountable(lines, coupon)),
                                           coupon.type = "FREE_SHIPPING")]
          PROVE  \E discount \in Nat, free \in BOOLEAN :
           job' = [job EXCEPT ![p].pc = "commit", ![p].bill = BillFor(lines, rate, discount, free)]
      <4>1. Discountable(lines, coupon) \in Nat
        BY <1>1, CostIsNat DEF Discountable
      <4>2. Discount(coupon, Discountable(lines, coupon)) \in Nat
        BY <4>1, DiscountIsNat
      <4>3. (coupon.type = "FREE_SHIPPING") \in BOOLEAN
        OBVIOUS
      <4> QED
        BY <3>2, <4>2, <4>3
    <3> QED
      BY <2>1, <3>1, <3>2
  <2>4. LET bill == BillFor(lines, rate, discount, free) IN
           /\ bill \in Bill
           /\ \A v \in Variant :
                 bill.line[v].quantity = IF v \in Active(lines) THEN lines[v].quantity ELSE 0
    BY <1>1, <2>2, BillIsBill
  <2> QED
    BY <2>3, <2>4
<1> DEFINE j == [job[p] EXCEPT !.pc = "commit", !.bill = bill]
<1>3. /\ j \in Job /\ j.pc = "commit" /\ j.bill = bill /\ j.seen = job[p].seen
      /\ j.owner = job[p].owner /\ j.cart = job[p].cart /\ j.from = job[p].from
  BY <1>1 DEF Job
<1>4. job' = [job EXCEPT ![p] = j]
  BY <1>1, <1>2 DEF TypeOK, Job
<1> HIDE DEF j
<1>5. JobFits(j)
  BY <1>1, <1>2, <1>3 DEF JobFits
<1>6. \A k \in CartId : Copied(j) = k => Copied(job[p]) = k
  BY <1>1, <1>3 DEF Copied
<1>7. ~overlapped' =>
         /\ StillNone(j)
         /\ \A w \in Owner : j.owner = w \/ (j.from # NoCart /\ cart[j.from].owner = w) =>
               \A q \in Process \ {p} : ~Involves(q, w)
  BY <1>1, <1>3 DEF CartInv, StillNone, Alone, Involves
<1> QED
  BY <1>1, <1>3, <1>4, <1>5, <1>6, <1>7, ReadingKeeps

(* A request writes lines of the cart it has found, at most inc more of    *)
(* each than the line or its copy had, and ends.                           *)
LEMMA WritingKeeps ==
    ASSUME CartInv, NEW p \in Process, NEW k \in CartId, k = job[p].cart, job[p].pc # "join",
           NEW new \in [Variant -> Line], cart[k].state = "live" \/ new = Empty,
           cart' = [cart EXCEPT ![k].line = new], job' = [job EXCEPT ![p] = Idle],
           UNCHANGED overlapped, NEW inc \in [Variant -> Nat],
           asked' = [v \in Variant |-> asked[v] + inc[v]],
           \A v \in Variant : \A m \in Nat :
              cart[k].line[v].quantity <= m /\ job[p].seen[v].quantity <= m =>
                 new[v].quantity <= m + inc[v]
    PROVE  CartInv'
<1>1. TypeOK /\ (\A q \in Process : JobFits(job[q])) /\ \A v \in Variant : asked[v] \in Nat
  BY DEF CartInv, TypeOK
<1>2. job'[p] = Idle /\ \A q \in Process \ {p} : job'[q] = job[q]
  BY <1>1 DEF TypeOK
<1>3. /\ cart' \in [CartId -> CartRow]
      /\ cart'[k].line = new /\ \A l \in CartId \ {k} : cart'[l] = cart[l]
      /\ \A l \in CartId : cart'[l].state = cart[l].state /\ cart'[l].owner = cart[l].owner
  BY <1>1 DEF TypeOK, CartRow
<1>4. TypeOK'
  <2>1. job' \in [Process -> Job] /\ asked' \in [Variant -> Nat] /\ overlapped' \in BOOLEAN
    BY <1>1, IdleJob DEF TypeOK
  <2>2. \A l \in CartId : cart'[l].state # "live" => cart'[l].line = Empty
    BY <1>1, <1>3 DEF TypeOK
  <2> QED
    BY <1>3, <2>1, <2>2 DEF TypeOK
<1>5. ASSUME NEW q \in Process PROVE JobFits(job[q])'
  <2>1. job'[q] \in Job /\ JobFits(job'[q])
    BY <1>1, <1>2, IdleJob, IdleFits DEF TypeOK
  <2>2. \A j \in Job : JobFits(j) => JobFits(j)'
    BY <1>3, JobStays
  <2>3. \A j \in Job : j = job'[q] => JobFits(j)'
    BY <2>1, <2>2
  <2> QED
    BY <2>1, <2>3 DEF JobFits, Active
<1>6. \A l \in CartId : CartFits(l)'
  BY <1>3 DEF CartInv, CartFits
<1>7. ASSUME NEW v \in Variant PROVE Shared(v)'
  <2>1. PICK share \in [CartId -> Nat] : Bounds(share, v)
    BY DEF CartInv, Shared
  <2> DEFINE more == [share EXCEPT ![k] = @ + inc[v]]
  <2>2. /\ more \in [CartId -> Nat] /\ more[k] = share[k] + inc[v]
        /\ \A l \in CartId \ {k} : more[l] = share[l]
        /\ \A l \in CartId : share[l] <= more[l]
    OBVIOUS
  <2> HIDE DEF more
  <2>3. /\ SumFunctionOnSet(more, CartId) = SumFunctionOnSet(share, CartId) + more[k] - share[k]
        /\ SumFunctionOnSet(share, CartId) \in Nat
    BY <2>2, FiniteAssumption, SumChange, SumIsNat
  <2>4. SumFunctionOnSet(more, CartId) <= asked'[v]
    BY <1>1, <2>1, <2>2, <2>3 DEF Bounds
  <2>5. ASSUME NEW l \in CartId, cart'[l].state = "live"
        PROVE  /\ cart'[l].line[v].quantity <= more[l]
               /\ \A q \in Process : Copied(job'[q]) = l => job'[q].seen[v].quantity <= more[l]
    <3>1. /\ cart[l].state = "live" /\ cart[l].line[v].quantity <= share[l]
          /\ \A q \in Process : Copied(job[q]) = l => job[q].seen[v].quantity <= share[l]
      BY <1>3, <2>1, <2>5 DEF Bounds
    <3>2. cart'[l].line[v].quantity <= more[l]
      <4>1. CASE l = k
        <5>1. Copied(job[p]) = k
          BY DEF Copied
        <5>2. cart[k].line[v].quantity <= share[k] /\ job[p].seen[v].quantity <= share[k]
          BY <3>1, <4>1, <5>1
        <5> QED
          BY <1>3, <2>2, <4>1, <5>2
      <4>2. CASE l # k
        BY <1>3, <2>2, <3>1, <4>2
      <4> QED
        BY <4>1, <4>2
    <3>3. ASSUME NEW q \in Process, Copied(job'[q]) = l PROVE job'[q].seen[v].quantity <= more[l]
      <4>1. q # p
        BY <1>2, <3>3, IdleJob, NullAssumption DEF Copied
      <4>2. job[q].seen[v].quantity <= share[l] /\ job'[q] = job[q] /\ job[q].seen[v].quantity \in Nat
        BY <1>1, <1>2, <3>1, <3>3, <4>1 DEF TypeOK, Job, Line
      <4> QED
        BY <2>2, <4>2
    <3> QED
      BY <3>2, <3>3
  <2>6. Bounds(more, v)'
    BY <2>4, <2>5 DEF Bounds, Copied
  <2> QED
    BY <2>2, <2>6 DEF Shared
<1>8. \A w : CartsOf(w)' = CartsOf(w)
  BY <1>3 DEF CartsOf
<1>9. \A w \in Owner : OneCartOf(w) => OneCartOf(w)'
  BY <1>8 DEF OneCartOf
<1>10. ASSUME ~overlapped' PROVE Alone' /\ \A q \in Process : StillNone(job[q])'
  <2>1. Alone /\ \A q \in Process : StillNone(job[q])
    BY <1>10 DEF CartInv
  <2>2. ASSUME NEW q \in Process PROVE StillNone(job[q])'
    <3>1. StillNone(job'[q])
      BY <1>2, <2>1, IdleFits
    <3> QED
      BY <1>8, <3>1 DEF StillNone
  <2>3. ASSUME NEW q \in Process, NEW w \in Owner, Involves(q, w)' PROVE Involves(q, w)
    <3>1. job'[q] = job[q]
      BY <1>2, <2>3, IdleJob, NullAssumption DEF Involves
    <3>2. job[q].from \in CartId \cup {NoCart}
      BY <1>1 DEF TypeOK, Job
    <3> QED
      BY <1>3, <2>3, <3>1, <3>2 DEF Involves
  <2>4. Alone'
    BY <2>1, <2>3 DEF Alone
  <2> QED
    BY <2>2, <2>4
<1> QED
  BY <1>4, <1>5, <1>6, <1>7, <1>9, <1>10 DEF CartInv, Owner

LEMMA LineWrites ==
    ASSUME NEW line \in Line, NEW n \in Nat
    PROVE  /\ [line EXCEPT !.quantity = n] \in Line
           /\ [line EXCEPT !.quantity = n].quantity = n
BY DEF Line

LEMMA EditedLine ==
    ASSUME NEW line \in Line, NEW n \in Nat, NEW saved \in BOOLEAN
    PROVE  /\ Edited(line, n, saved) \in Line
           /\ Edited(line, n, saved).quantity = IF n = 0 THEN line.quantity ELSE n
BY DEF Line, Edited

LEMMA BundledLine ==
    ASSUME NEW line \in Line, NEW v \in Variant, NEW b \in Bundle
    PROVE  /\ WithBundle(line, v, b) \in Line
           /\ WithBundle(line, v, b).quantity = line.quantity + b.quantity[v]
<1> DEFINE n == line.quantity + b.quantity[v]
           price == UnitShare(Product, b, v)
<1>1. price \in Nat /\ b.quantity[v] \in Nat /\ n \in Nat
  BY ShareIsNat DEF Line
<1>2. WithBundle(line, v, b) = IF b.quantity[v] = 0 THEN line
                               ELSE [line EXCEPT !.quantity = n, !.override = price, !.bundle = b]
  BY DEF WithBundle
<1> HIDE DEF price
<1>3. b.quantity[v] = 0 => line.quantity = n
  BY <1>1 DEF Line
<1> HIDE DEF n
<1>4. [line EXCEPT !.quantity = n, !.override = price, !.bundle = b] \in Line
  BY <1>1 DEF Line
<1>5. [line EXCEPT !.quantity = n, !.override = price, !.bundle = b].quantity = n
  BY <1>1 DEF Line
<1>6. WithBundle(line, v, b) \in Line /\ WithBundle(line, v, b).quantity = n
  BY <1>2, <1>3, <1>4, <1>5
<1> QED
  BY <1>6 DEF n

LEMMA WriterHas ==
    ASSUME CartInv, NEW p \in Process, job[p].cart # NoCart, job[p].pc # "join"
    PROVE  /\ TypeOK /\ job[p].cart \in CartId /\ cart[job[p].cart] \in CartRow
           /\ cart[job[p].cart].line \in [Variant -> Line]
           /\ job[p].seen \in [Variant -> Line]
           /\ \A v \in Variant : /\ cart[job[p].cart].line[v] \in Line
                                 /\ cart[job[p].cart].line[v].quantity \in Nat
                                 /\ job[p].seen[v].quantity \in Nat /\ asked[v] \in Nat
           /\ cart[job[p].cart].state # "live" => cart[job[p].cart].line = Empty
BY DEF CartInv, TypeOK, CartRow, Job, Line

LEMMA AddKeeps ==
    ASSUME CartInv, NEW p \in Process, NEW v \in Variant, NEW n \in Quantity, Add(p, v, n)
    PROVE  CartInv'
<1> DEFINE k == job[p].cart
           was == cart[k].line
           row == IF was[v].quantity = 0 THEN [NoLine EXCEPT !.quantity = n]
                  ELSE [was[v] EXCEPT !.quantity = job[p].seen[v].quantity + n]
           new == [was EXCEPT ![v] = row]
           inc == [x \in Variant |-> IF x = v THEN n ELSE 0]
<1>1. n \in Nat /\ job[p].pc = "add" /\ k # NoCart /\ cart[k].state = "live"
  BY BoundAssumption DEF Add, Writing
<1>2. /\ k \in CartId /\ cart \in [CartId -> CartRow] /\ was \in [Variant -> Line]
      /\ \A x \in Variant : was[x] \in Line /\ was[x].quantity \in Nat
                            /\ job[p].seen[x].quantity \in Nat
  BY <1>1, WriterHas DEF TypeOK
<1>3. row \in Line /\ row.quantity = IF was[v].quantity = 0 THEN n ELSE job[p].seen[v].quantity + n
  <2>1. job[p].seen[v].quantity + n \in Nat /\ was[v] \in Line /\ NoLine \in Line
    BY <1>1, <1>2, EmptyLines
  <2>2. CASE was[v].quantity = 0
    <3>1. row = [NoLine EXCEPT !.quantity = n]
      BY <2>2
    <3> HIDE DEF row
    <3> QED
      BY <1>1, <2>1, <2>2, <3>1, LineWrites
  <2>3. CASE was[v].quantity # 0
    <3>1. row = [was[v] EXCEPT !.quantity = job[p].seen[v].quantity + n]
      BY <2>3
    <3> HIDE DEF row
    <3> QED
      BY <2>1, <2>3, <3>1, LineWrites
  <2> QED
    BY <2>2, <2>3
<1>4. cart' = [cart EXCEPT ![k].line = new]
  BY <1>2 DEF Add, CartRow
<1>5. asked' = [x \in Variant |-> asked[x] + inc[x]] /\ inc \in [Variant -> Nat]
  BY <1>1 DEF Add, Ask, Units
<1>6. job' = [job EXCEPT ![p] = Idle] /\ UNCHANGED overlapped
  BY DEF Add, Writing, Return
<1>7. inc[v] = n /\ \A x \in Variant : x # v => inc[x] = 0
  BY <1>1
<1> HIDE DEF inc, row
<1>8. new \in [Variant -> Line]
  BY <1>2, <1>3
<1>9. new[v] = row /\ \A x \in Variant : x # v => new[x] = was[x]
  BY <1>2
<1>10. \A x \in Variant : \A m \in Nat :
          was[x].quantity <= m /\ job[p].seen[x].quantity <= m => new[x].quantity <= m + inc[x]
  BY <1>1, <1>2, <1>3, <1>7, <1>9
<1> HIDE DEF new
<1> QED
  BY <1>1, <1>2, <1>4, <1>5, <1>6, <1>8, <1>10, WritingKeeps

LEMMA AddBundleKeeps ==
    ASSUME CartInv, NEW p \in Process, NEW b \in Bundle, AddBundle(p, b)
    PROVE  CartInv'
<1> DEFINE k == job[p].cart
           was == cart[k].line
           row(v) == WithBundle(was[v], v, b)
           new == [v \in Variant |-> row(v)]
<1>1. job[p].pc = "add" /\ k # NoCart /\ cart[k].state = "live"
  BY DEF AddBundle, Writing
<1>2. /\ k \in CartId /\ cart \in [CartId -> CartRow] /\ was \in [Variant -> Line]
      /\ \A x \in Variant : was[x] \in Line /\ was[x].quantity \in Nat
                            /\ job[p].seen[x].quantity \in Nat
  BY <1>1, WriterHas DEF TypeOK
<1>3. b.quantity \in [Variant -> Nat]
  BY BundleAssumption
<1>4. ASSUME NEW v \in Variant
      PROVE  row(v) \in Line /\ row(v).quantity = was[v].quantity + b.quantity[v]
  BY <1>2, BundledLine
<1>5. cart' = [cart EXCEPT ![k].line = new]
  BY <1>2 DEF AddBundle
<1>6. asked' = [x \in Variant |-> asked[x] + b.quantity[x]]
  BY DEF AddBundle, Ask
<1>7. job' = [job EXCEPT ![p] = Idle] /\ UNCHANGED overlapped
  BY DEF AddBundle, Writing, Return
<1>8. new \in [Variant -> Line] /\ \A v \in Variant : new[v].quantity = was[v].quantity + b.quantity[v]
  BY <1>4
<1> HIDE DEF new, row
<1>9. \A x \in Variant : \A m \in Nat :
          was[x].quantity <= m /\ job[p].seen[x].quantity <= m => new[x].quantity <= m + b.quantity[x]
  BY <1>2, <1>3, <1>8
<1> QED
  BY <1>1, <1>2, <1>3, <1>5, <1>6, <1>7, <1>8, <1>9, WritingKeeps

LEMMA UpdateKeeps ==
    ASSUME CartInv, NEW p \in Process, NEW v \in Variant, NEW n \in Quantity \cup {0},
           NEW saved \in BOOLEAN, Update(p, v, n, saved)
    PROVE  CartInv'
<1> DEFINE k == job[p].cart
           was == cart[k].line
           row == Edited(was[v], n, saved)
           new == [was EXCEPT ![v] = row]
           more == AtLeastZero(n - job[p].seen[v].quantity)
           inc == [x \in Variant |-> IF x = v THEN more ELSE 0]
<1>1. /\ n \in Nat /\ job[p].pc = "edit" /\ k # NoCart /\ was[v].quantity > 0
  BY BoundAssumption DEF Update, Writing
<1>2. /\ k \in CartId /\ cart \in [CartId -> CartRow] /\ was \in [Variant -> Line]
      /\ \A x \in Variant : was[x] \in Line /\ was[x].quantity \in Nat
                            /\ job[p].seen[x].quantity \in Nat
      /\ cart[k].state # "live" => was = Empty
  BY <1>1, WriterHas DEF TypeOK
<1>3. cart[k].state = "live"
  BY <1>1, <1>2, EmptyLines
<1>4. row \in Line /\ row.quantity = IF n = 0 THEN was[v].quantity ELSE n
  BY <1>1, <1>2, EditedLine
<1>5. cart' = [cart EXCEPT ![k].line = new]
  BY <1>2 DEF Update, CartRow
<1>6. more \in Nat /\ more >= n - job[p].seen[v].quantity
  BY <1>1, <1>2 DEF AtLeastZero
<1>7. asked' = [x \in Variant |-> asked[x] + inc[x]] /\ inc \in [Variant -> Nat]
  BY <1>6 DEF Update, Ask, Units
<1>8. job' = [job EXCEPT ![p] = Idle] /\ UNCHANGED overlapped
  BY DEF Update, Writing, Return
<1>9. inc[v] = more /\ \A x \in Variant : x # v => inc[x] = 0
  BY <1>1
<1> HIDE DEF inc, row, more
<1>10. new \in [Variant -> Line]
  BY <1>2, <1>4
<1>11. new[v] = row /\ \A x \in Variant : x # v => new[x] = was[x]
  BY <1>2
<1>12. \A x \in Variant : \A m \in Nat :
          was[x].quantity <= m /\ job[p].seen[x].quantity <= m => new[x].quantity <= m + inc[x]
  BY <1>1, <1>2, <1>4, <1>6, <1>9, <1>11
<1> HIDE DEF new
<1> QED
  BY <1>1, <1>2, <1>3, <1>5, <1>7, <1>8, <1>10, <1>12, WritingKeeps

(* A write that only takes away.                                           *)
LEMMA TakingKeeps ==
    ASSUME CartInv, NEW p \in Process, job[p].cart # NoCart, job[p].pc # "join",
           NEW new \in [Variant -> Line],
           \A v \in Variant : new[v] \in {NoLine, cart[job[p].cart].line[v]},
           cart' = [cart EXCEPT ![job[p].cart].line = new], job' = [job EXCEPT ![p] = Idle],
           UNCHANGED <<asked, overlapped>>
    PROVE  CartInv'
<1> DEFINE k == job[p].cart
           inc == [v \in Variant |-> 0]
<1>1. /\ k \in CartId /\ \A x \in Variant : cart[k].line[x].quantity \in Nat
      /\ cart[k].state # "live" => cart[k].line = Empty
      /\ asked \in [Variant -> Nat]
  BY WriterHas DEF TypeOK
<1>2. cart[k].state = "live" \/ new = Empty
  BY <1>1, EmptyLines DEF Empty
<1>3. inc \in [Variant -> Nat] /\ asked' = [v \in Variant |-> asked[v] + inc[v]]
  BY <1>1
<1>4. \A v \in Variant : \A m \in Nat :
         cart[k].line[v].quantity <= m /\ job[p].seen[v].quantity <= m => new[v].quantity <= m + inc[v]
  BY <1>1, EmptyLines
<1> HIDE DEF inc
<1> QED
  BY <1>1, <1>2, <1>3, <1>4, WritingKeeps

LEMMA RemoveKeeps ==
    ASSUME CartInv, NEW p \in Process, NEW v \in Variant, Remove(p, v)
    PROVE  CartInv'
<1> DEFINE was == cart[job[p].cart].line
           new == [was EXCEPT ![v] = NoLine]
<1>1. job[p].pc = "edit" /\ job[p].cart # NoCart /\ job' = [job EXCEPT ![p] = Idle]
      /\ UNCHANGED <<asked, overlapped>>
  BY DEF Remove, Writing, Return
<1>2. job[p].cart \in CartId /\ was \in [Variant -> Line] /\ cart \in [CartId -> CartRow]
  BY <1>1, WriterHas DEF TypeOK
<1>3. new \in [Variant -> Line] /\ \A x \in Variant : new[x] \in {NoLine, was[x]}
  BY <1>2, EmptyLines
<1>4. cart' = [cart EXCEPT ![job[p].cart].line = new]
  BY <1>2 DEF Remove, CartRow
<1> HIDE DEF new
<1> QED
  BY <1>1, <1>3, <1>4, TakingKeeps

LEMMA CommitKeeps ==
    ASSUME CartInv, NEW p \in Process, Commit(p)
    PROVE  CartInv'
<1> DEFINE was == cart[job[p].cart].line
           new == [v \in Variant |-> IF was[v].saved THEN was[v] ELSE NoLine]
<1>1. job[p].pc = "commit" /\ job[p].cart # NoCart /\ job' = [job EXCEPT ![p] = Idle]
      /\ UNCHANGED <<asked, overlapped>>
  BY DEF Commit, Writing, Return
<1>2. job[p].cart \in CartId /\ was \in [Variant -> Line] /\ cart \in [CartId -> CartRow]
  BY <1>1, WriterHas DEF TypeOK
<1>3. new \in [Variant -> Line] /\ \A x \in Variant : new[x] \in {NoLine, was[x]}
  BY <1>2, EmptyLines
<1>4. cart' = [cart EXCEPT ![job[p].cart].line = new]
  BY <1>2 DEF Commit
<1> HIDE DEF new
<1> QED
  BY <1>1, <1>3, <1>4, TakingKeeps

LEMMA MakeCartKeeps ==
    ASSUME CartInv, NEW p \in Process, MakeCart(p)
    PROVE  CartInv'
<1>0. PICK w \in Owner : w = job[p].owner
  BY DEF CartInv, MakeCart, JobFits
<1>1. /\ TypeOK /\ (\A q \in Process : JobFits(job[q]) /\ job[q] \in Job)
      /\ job[p].pc \in {"add", "join"} /\ job[p].cart = NoCart
      /\ (w \in Guest => CartsOf(w) = {})
      /\ UNCHANGED <<asked, overlapped>>
  BY <1>0 DEF CartInv, TypeOK, MakeCart
<1>2. PICK k \in CartId :
         /\ cart[k].state = "unused"
         /\ cart' = [cart EXCEPT ![k] = [NoCartRow EXCEPT !.state = "live", !.owner = w]]
         /\ job' = [job EXCEPT ![p].cart = k]
  BY <1>0 DEF MakeCart
<1>3. /\ cart' \in [CartId -> CartRow]
      /\ cart'[k].state = "live" /\ cart'[k].owner = w /\ cart'[k].line = Empty
      /\ \A l \in CartId \ {k} : cart'[l] = cart[l]
  <2> DEFINE row == [NoCartRow EXCEPT !.state = "live", !.owner = w]
  <2>1. row \in CartRow /\ row.state = "live" /\ row.owner = w /\ row.line = Empty
    BY <1>1, EmptyLines DEF NoCartRow, CartRow
  <2> HIDE DEF row
  <2>2. cart' = [cart EXCEPT ![k] = row] /\ cart \in [CartId -> CartRow]
    BY <1>1, <1>2 DEF row, TypeOK
  <2> QED
    BY <2>1, <2>2
<1> DEFINE j == [job[p] EXCEPT !.cart = k]
<1>4. /\ j \in Job /\ j.pc = job[p].pc /\ j.owner = w /\ j.cart = k /\ j.from = job[p].from
      /\ j.seen = job[p].seen /\ j.bill = job[p].bill
  BY <1>0, <1>1 DEF Job
<1>5. job' \in [Process -> Job] /\ job'[p] = j /\ \A q \in Process \ {p} : job'[q] = job[q]
  BY <1>1, <1>2, <1>4 DEF TypeOK
<1> HIDE DEF j
<1>6. TypeOK'
  <2>1. \A l \in CartId : cart'[l].state # "live" => cart'[l].line = Empty
    BY <1>1, <1>3 DEF TypeOK
  <2> QED
    BY <1>1, <1>3, <1>5, <2>1 DEF TypeOK
<1>7. \A l \in CartId : cart[l].state # "unused" => cart'[l] = cart[l]
  BY <1>2, <1>3
<1>8. k # NoCart
  BY NullAssumption
<1>9. ASSUME NEW q \in Process PROVE JobFits(job[q])'
  <2>1. CASE q # p
    <3>1. job'[q] \in Job /\ JobFits(job'[q])
      BY <1>1, <1>5, <2>1
    <3>2. \A i \in Job : JobFits(i) => JobFits(i)'
      BY <1>7, JobStays
    <3>3. \A i \in Job : i = job'[q] => JobFits(i)'
      BY <3>1, <3>2
    <3> QED
      BY <3>1, <3>3 DEF JobFits, Active
  <2>2. CASE q = p
    <3>1. /\ job'[p] = j /\ j.pc \in {"add", "join"} /\ j.owner \in Owner
          /\ cart'[k].state # "unused" /\ cart'[k].owner = j.owner
      BY <1>1, <1>3, <1>4, <1>5
    <3>2. (j.pc = "join") <=> (j.from # NoCart)
      BY <1>1, <1>4 DEF JobFits
    <3>3. j.pc = "join" => /\ j.owner \in Customer
                           /\ cart'[j.from].state # "unused" /\ cart'[j.from].owner \in Guest
      <4>1. ASSUME j.pc = "join"
            PROVE  /\ j.owner \in Customer /\ j.from \in CartId
                   /\ cart[j.from].state # "unused" /\ cart[j.from].owner \in Guest
        BY <1>0, <1>1, <1>4, <4>1 DEF JobFits, Job
      <4> QED
        BY <1>7, <4>1
    <3> QED
      BY <1>4, <1>8, <2>2, <3>1, <3>2, <3>3 DEF JobFits
  <2> QED
    BY <2>1, <2>2
<1>10. ASSUME NEW l \in CartId PROVE CartFits(l)'
  BY <1>1, <1>3 DEF CartInv, CartFits
<1>11. \A q \in Process : Copied(job[q]) # k
  BY <1>1, <1>2, <1>8 DEF JobFits, Copied
<1>12. ASSUME NEW v \in Variant PROVE Shared(v)'
  <2>1. PICK share \in [CartId -> Nat] : Bounds(share, v)
    BY DEF CartInv, Shared
  <2>2. ASSUME NEW l \in CartId, cart'[l].state = "live"
        PROVE  /\ cart'[l].line[v].quantity <= share[l]
               /\ \A q \in Process : Copied(job'[q]) = l => job'[q].seen[v].quantity <= share[l]
    <3>1. CASE l = k
      <4>1. cart'[l].line[v].quantity <= share[l]
        BY <1>3, <3>1, EmptyLines
      <4>2. ASSUME NEW q \in Process, Copied(job'[q]) = l
            PROVE  job'[q].seen[v].quantity <= share[l]
        <5>1. q = p
          BY <1>5, <1>11, <3>1, <4>2
        <5>2. j.pc # "join"
          <6>1. j.pc = "join" => Copied(j) = Copied(job[p])
            BY <1>4 DEF Copied
          <6> QED
            BY <1>5, <1>11, <3>1, <4>2, <5>1, <6>1
        <5>3. j.seen = Empty
          BY <1>1, <1>4, <5>2 DEF JobFits
        <5> QED
          BY <1>5, <5>1, <5>3, EmptyLines
      <4> QED
        BY <4>1, <4>2
    <3>2. CASE l # k
      <4>1. /\ cart[l].state = "live" /\ cart[l].line[v].quantity <= share[l]
            /\ \A q \in Process : Copied(job[q]) = l => job[q].seen[v].quantity <= share[l]
        BY <1>3, <2>1, <2>2, <3>2 DEF Bounds
      <4>2. \A q \in Process : Copied(job'[q]) = l =>
               Copied(job[q]) = l /\ job'[q].seen = job[q].seen
        BY <1>4, <1>5, <3>2 DEF Copied
      <4> QED
        BY <1>3, <3>2, <4>1, <4>2
    <3> QED
      BY <3>1, <3>2
  <2>3. Bounds(share, v)'
    BY <1>1, <2>1, <2>2 DEF Bounds, Copied
  <2> QED
    BY <2>3 DEF Shared
<1>13. \A x \in Owner : x # w => CartsOf(x)' = CartsOf(x)
  BY <1>2, <1>3 DEF CartsOf
<1>14. CartsOf(w) = {} => CartsOf(w)' = {k}
  BY <1>3 DEF CartsOf
<1>15. ASSUME NEW x \in Owner, OneCartOf(x), x = w => CartsOf(w) = {} PROVE OneCartOf(x)'
  BY <1>13, <1>14, <1>15 DEF OneCartOf
<1>16. \A g \in Guest : OneCartOf(g)'
  BY <1>1, <1>15 DEF CartInv, Owner
<1>17. ASSUME ~overlapped'
       PROVE  /\ Alone' /\ \A c \in Customer : OneCartOf(c)'
              /\ \A q \in Process : StillNone(job[q])'
  <2>1. /\ Alone /\ (\A c \in Customer : OneCartOf(c))
        /\ \A q \in Process : StillNone(job[q])
    BY <1>1, <1>17 DEF CartInv
  <2>2. CartsOf(w) = {}
    BY <1>0, <1>1, <2>1 DEF StillNone
  <2>3. \A c \in Customer : OneCartOf(c)'
    BY <1>15, <2>1, <2>2 DEF Owner
  <2>4. ASSUME NEW q \in Process, NEW x \in Owner, Involves(q, x)' PROVE Involves(q, x)
    <3>1. job'[q].owner = job[q].owner /\ job'[q].from = job[q].from
      BY <1>0, <1>4, <1>5
    <3>2. job[q].from # NoCart => cart'[job[q].from] = cart[job[q].from]
      BY <1>1, <1>7 DEF JobFits, Job
    <3> QED
      BY <2>4, <3>1, <3>2 DEF Involves
  <2>5. Alone'
    BY <2>1, <2>4 DEF Alone
  <2>6. ASSUME NEW q \in Process PROVE StillNone(job[q])'
    <3>1. CASE q = p
      BY <1>4, <1>5, <1>8, <3>1 DEF StillNone
    <3>2. CASE q # p
      <4>1. job'[q] = job[q] /\ StillNone(job[q])
        BY <1>5, <2>1, <3>2
      <4>2. ASSUME NEW o \in Owner, o = job[q].owner PROVE CartsOf(o)' = CartsOf(o)
        <5>1. o # w
          BY <1>0, <2>1, <3>2, <4>2 DEF Alone, Involves
        <5> QED
          BY <1>13, <5>1
      <4>3. ASSUME job'[q].pc \in {"add", "join"}, job'[q].cart = NoCart,
                   NEW o \in Owner, o = job[q].owner
            PROVE  CartsOf(o)' = {}
        BY <4>1, <4>2, <4>3 DEF StillNone
      <4>4. job[q].pc \in {"add", "join"} => job[q].owner \in Owner
        BY <1>1 DEF JobFits
      <4> QED
        BY <4>1, <4>3, <4>4 DEF StillNone, CartsOf
    <3> QED
      BY <3>1, <3>2
  <2> QED
    BY <2>3, <2>5, <2>6
<1> QED
  BY <1>6, <1>9, <1>10, <1>12, <1>16, <1>17 DEF CartInv

LEMMA JoinedLine ==
    ASSUME NEW line \in Line, NEW other \in Line
    PROVE  /\ Joined(line, other) \in Line
           /\ Joined(line, other).quantity = line.quantity + other.quantity
<1>1. line.quantity \in Nat /\ other.quantity \in Nat /\ line.quantity + other.quantity \in Nat
  BY DEF Line
<1>2. CASE other.quantity = 0
  BY <1>1, <1>2 DEF Joined
<1>3. CASE other.quantity # 0 /\ line.quantity = 0
  <2>1. Joined(line, other) = [quantity |-> other.quantity, saved |-> other.saved,
                               override |-> None, bundle |-> NoBundle]
    BY <1>3 DEF Joined, NoLine
  <2> QED
    BY <1>1, <1>3, <2>1 DEF Line
<1>4. CASE other.quantity # 0 /\ line.quantity # 0
  <2>1. Joined(line, other) = [line EXCEPT !.quantity = line.quantity + other.quantity]
    BY <1>4 DEF Joined
  <2> QED
    BY <1>1, <2>1, LineWrites
<1> QED
  BY <1>2, <1>3, <1>4

(* What a merge does to the carts.                                         *)
LEMMA JoinDoes ==
    ASSUME CartInv, NEW p \in Process, Join(p), NEW k, NEW f, k = job[p].cart, f = job[p].from
    PROVE  /\ k \in CartId /\ f \in CartId /\ k # f /\ f # NoCart
           /\ cart[k].state = "live" /\ cart[f].state = "live" /\ cart[f].owner \in Guest
           /\ cart' \in [CartId -> CartRow]
           /\ cart'[k].line \in [Variant -> Line]
           /\ \A v \in Variant :
                 /\ cart'[k].line[v].quantity = cart[k].line[v].quantity + job[p].seen[v].quantity
                 /\ cart[k].line[v].quantity \in Nat /\ job[p].seen[v].quantity \in Nat
           /\ cart'[k].state = "live" /\ cart'[f].state = "gone" /\ cart'[f].line = Empty
           /\ \A l \in CartId \ {k, f} : cart'[l] = cart[l]
           /\ \A l \in CartId : cart'[l].owner = cart[l].owner
           /\ job' = [job EXCEPT ![p] = Idle]
           /\ UNCHANGED <<asked, overlapped>>
<1>1. /\ TypeOK /\ JobFits(job[p]) /\ job[p] \in Job /\ job[p].pc = "join" /\ k # NoCart
      /\ cart[f].state = "live" /\ job' = [job EXCEPT ![p] = Idle]
      /\ UNCHANGED <<asked, overlapped>>
  BY DEF CartInv, TypeOK, Join, Writing, Return
<1>2. /\ k \in CartId /\ f \in CartId /\ f # NoCart /\ cart[k].owner \in Customer
      /\ cart[k].state # "unused" /\ cart[f].owner \in Guest
      /\ job[p].seen \in [Variant -> Line]
  BY <1>1 DEF JobFits, Job
<1>3. k # f /\ cart[k].state = "live"
  BY <1>1, <1>2, NullAssumption DEF CartInv, CartFits, TypeOK, CartRow
<1> DEFINE new == [v \in Variant |-> Joined(cart[k].line[v], job[p].seen[v])]
<1>4. cart[k].line \in [Variant -> Line] /\ cart[k] \in CartRow /\ cart[f] \in CartRow
  BY <1>1, <1>2 DEF TypeOK, CartRow
<1>5. ASSUME NEW v \in Variant
      PROVE  /\ Joined(cart[k].line[v], job[p].seen[v]) \in Line
             /\ Joined(cart[k].line[v], job[p].seen[v]).quantity =
                   cart[k].line[v].quantity + job[p].seen[v].quantity
             /\ cart[k].line[v].quantity \in Nat /\ job[p].seen[v].quantity \in Nat
  <2>1. cart[k].line[v] \in Line /\ job[p].seen[v] \in Line
    BY <1>2, <1>4
  <2>2. cart[k].line[v].quantity \in Nat /\ job[p].seen[v].quantity \in Nat
    BY <2>1 DEF Line
  <2> QED
    BY <2>1, <2>2, JoinedLine
<1>6. /\ new \in [Variant -> Line]
      /\ \A v \in Variant :
            new[v].quantity = cart[k].line[v].quantity + job[p].seen[v].quantity
  BY <1>5
<1>7. cart' = [cart EXCEPT ![k].line = new, ![f] = [@ EXCEPT !.state = "gone", !.line = Empty]]
  BY DEF Join
<1> HIDE DEF new
<1>8. cart'[k] = [cart[k] EXCEPT !.line = new]
  BY <1>1, <1>2, <1>3, <1>7 DEF TypeOK
<1>9. cart'[f] = [cart[f] EXCEPT !.state = "gone", !.line = Empty]
  BY <1>1, <1>2, <1>3, <1>7 DEF TypeOK
<1>10. DOMAIN cart' = CartId /\ cart' = [l \in CartId |-> cart'[l]]
       /\ \A l \in CartId \ {k, f} : cart'[l] = cart[l]
  BY <1>1, <1>2, <1>3, <1>7 DEF TypeOK
<1>11. /\ cart'[k] \in CartRow /\ cart'[k].line = new /\ cart'[k].state = "live"
       /\ cart'[k].owner = cart[k].owner
  BY <1>3, <1>4, <1>6, <1>8 DEF CartRow
<1>12. /\ cart'[f] \in CartRow /\ cart'[f].line = Empty /\ cart'[f].state = "gone"
       /\ cart'[f].owner = cart[f].owner
  BY <1>4, <1>9, EmptyLines DEF CartRow
<1>13. \A l \in CartId : cart'[l] \in CartRow /\ cart'[l].owner = cart[l].owner
  BY <1>1, <1>10, <1>11, <1>12 DEF TypeOK
<1>14. cart' \in [CartId -> CartRow]
  BY <1>10, <1>13
<1> QED
  BY <1>1, <1>2, <1>3, <1>5, <1>6, <1>10, <1>11, <1>12, <1>13, <1>14

LEMMA JoinKeeps ==
    ASSUME CartInv, NEW p \in Process, Join(p)
    PROVE  CartInv'
<1>0. PICK k, f : k = job[p].cart /\ f = job[p].from
  OBVIOUS
<1>1. /\ k \in CartId /\ f \in CartId /\ k # f /\ f # NoCart
      /\ cart[k].state = "live" /\ cart[f].state = "live" /\ cart[f].owner \in Guest
      /\ cart' \in [CartId -> CartRow]
      /\ \A v \in Variant :
            /\ cart'[k].line[v].quantity = cart[k].line[v].quantity + job[p].seen[v].quantity
            /\ cart[k].line[v].quantity \in Nat /\ job[p].seen[v].quantity \in Nat
      /\ cart'[k].state = "live" /\ cart'[f].state = "gone" /\ cart'[f].line = Empty
      /\ \A l \in CartId \ {k, f} : cart'[l] = cart[l]
      /\ \A l \in CartId : cart'[l].owner = cart[l].owner
      /\ job' = [job EXCEPT ![p] = Idle]
      /\ UNCHANGED <<asked, overlapped>>
  BY <1>0, JoinDoes
<1>2. /\ TypeOK /\ (\A q \in Process : JobFits(job[q])) /\ job[p].pc = "join"
  BY DEF CartInv, Join, Writing
<1>3. job'[p] = Idle /\ \A q \in Process \ {p} : job'[q] = job[q]
  BY <1>1, <1>2 DEF TypeOK
<1>4. TypeOK'
  <2>1. job' \in [Process -> Job] /\ asked' \in [Variant -> Nat] /\ overlapped' \in BOOLEAN
    BY <1>1, <1>2, IdleJob DEF TypeOK
  <2>2. \A l \in CartId : cart'[l].state # "live" => cart'[l].line = Empty
    BY <1>1, <1>2 DEF TypeOK
  <2> QED
    BY <1>1, <2>1, <2>2 DEF TypeOK
<1>5. \A l \in CartId : cart[l].state # "unused" => cart'[l].state # "unused"
  BY <1>1
<1>6. ASSUME NEW q \in Process PROVE JobFits(job[q])'
  <2>1. job'[q] \in Job /\ JobFits(job'[q])
    BY <1>2, <1>3, IdleJob, IdleFits DEF TypeOK
  <2>2. \A j \in Job : JobFits(j) => JobFits(j)'
    BY <1>1, <1>5, JobStays
  <2>3. \A j \in Job : j = job'[q] => JobFits(j)'
    BY <2>1, <2>2
  <2> QED
    BY <2>1, <2>3 DEF JobFits, Active
<1>7. ASSUME NEW l \in CartId PROVE CartFits(l)'
  BY <1>1 DEF CartInv, CartFits
<1>8. ASSUME NEW v \in Variant PROVE Shared(v)'
  <2>1. PICK share \in [CartId -> Nat] : Bounds(share, v)
    BY DEF CartInv, Shared
  <2> DEFINE moved == [share EXCEPT ![k] = @ + share[f]]
             less == [moved EXCEPT ![f] = 0]
  <2>2. /\ moved \in [CartId -> Nat] /\ moved[k] = share[k] + share[f] /\ moved[f] = share[f]
        /\ \A l \in CartId \ {k} : moved[l] = share[l]
    BY <1>1
  <2> HIDE DEF moved
  <2>3. /\ less \in [CartId -> Nat] /\ less[k] = share[k] + share[f] /\ less[f] = 0
        /\ (\A l \in CartId \ {f} : less[l] = moved[l])
        /\ \A l \in CartId \ {k, f} : less[l] = share[l]
    BY <1>1, <2>2
  <2> HIDE DEF less
  <2>4. SumFunctionOnSet(moved, CartId) = SumFunctionOnSet(share, CartId) + moved[k] - share[k]
        /\ SumFunctionOnSet(share, CartId) \in Nat
    BY <1>1, <2>2, FiniteAssumption, SumChange, SumIsNat
  <2>5. SumFunctionOnSet(less, CartId) = SumFunctionOnSet(moved, CartId) + less[f] - moved[f]
    <3>1. (\A l \in CartId : moved[l] \in Nat /\ less[l] \in Nat) /\ f \in CartId
      BY <1>1, <2>2, <2>3
    <3> QED
      BY ONLY <2>3, <3>1, FiniteAssumption, SumChange
  <2>6. SumFunctionOnSet(less, CartId) <= asked'[v]
    BY <1>1, <2>1, <2>2, <2>3, <2>4, <2>5 DEF Bounds
  <2>7. ASSUME NEW l \in CartId, cart'[l].state = "live"
        PROVE  /\ cart'[l].line[v].quantity <= less[l]
               /\ \A q \in Process : Copied(job'[q]) = l => job'[q].seen[v].quantity <= less[l]
    <3>1. /\ l # f /\ cart[l].state = "live" /\ cart[l].line[v].quantity <= share[l]
          /\ \A q \in Process : Copied(job[q]) = l => job[q].seen[v].quantity <= share[l]
      BY <1>1, <2>1, <2>7 DEF Bounds
    <3>2. share[l] <= less[l]
      BY <1>1, <2>3, <3>1
    <3>3. cart'[l].line[v].quantity <= less[l]
      <4>1. CASE l = k
        <5>1. job[p].seen[v].quantity <= share[f]
          BY <1>0, <1>1, <1>2, <2>1 DEF Bounds, Copied
        <5> QED
          BY <1>1, <2>3, <3>1, <4>1, <5>1
      <4>2. CASE l # k
        BY <1>1, <2>3, <3>1, <4>2
      <4> QED
        BY <4>1, <4>2
    <3>4. ASSUME NEW q \in Process, Copied(job'[q]) = l PROVE job'[q].seen[v].quantity <= less[l]
      <4>1. q # p
        BY <1>3, <3>4, IdleJob, NullAssumption DEF Copied
      <4>2. job[q].seen[v].quantity <= share[l] /\ job'[q] = job[q] /\ job[q].seen[v].quantity \in Nat
        BY <1>2, <1>3, <3>1, <3>4, <4>1 DEF TypeOK, Job, Line
      <4> QED
        BY <2>3, <3>2, <4>2
    <3> QED
      BY <3>3, <3>4
  <2>8. Bounds(less, v)'
    BY <2>6, <2>7 DEF Bounds, Copied
  <2> QED
    BY <2>3, <2>8 DEF Shared
<1>9. \A w : CartsOf(w)' \subseteq CartsOf(w)
  BY <1>1 DEF CartsOf
<1>10. \A w \in Owner : OneCartOf(w) => OneCartOf(w)'
  BY <1>9 DEF OneCartOf
<1>11. ASSUME ~overlapped' PROVE Alone' /\ \A q \in Process : StillNone(job[q])'
  <2>1. Alone /\ \A q \in Process : StillNone(job[q])
    BY <1>1, <1>11 DEF CartInv
  <2>2. ASSUME NEW q \in Process PROVE StillNone(job[q])'
    <3>1. StillNone(job'[q])
      BY <1>3, <2>1, IdleFits
    <3> QED
      BY <1>9, <3>1 DEF StillNone
  <2>3. ASSUME NEW q \in Process, NEW w \in Owner, Involves(q, w)' PROVE Involves(q, w)
    <3>1. job'[q] = job[q]
      BY <1>3, <2>3, IdleJob, NullAssumption DEF Involves
    <3>2. job[q].from \in CartId \cup {NoCart}
      BY <1>2 DEF TypeOK, Job
    <3> QED
      BY <1>1, <2>3, <3>1, <3>2 DEF Involves
  <2>4. Alone'
    BY <2>1, <2>3 DEF Alone
  <2> QED
    BY <2>2, <2>4
<1> QED
  BY <1>1, <1>4, <1>6, <1>7, <1>8, <1>10, <1>11 DEF CartInv, Owner

LEMMA CartStep ==
    ASSUME CartInv, [CartNext]_vars
    PROVE  CartInv'
<1>1. CASE CartNext
  <2> SUFFICES ASSUME NEW p \in Process,
         \/ \E w \in Owner, pc \in {"add", "edit", "checkout"} : Find(p, w, pc)
         \/ \E g \in Guest : Find(p, g, "merge")
         \/ MakeCart(p)
         \/ \E v \in Variant, n \in Quantity : Add(p, v, n)
         \/ \E v \in Variant, n \in Quantity \cup {0}, saved \in BOOLEAN : Update(p, v, n, saved)
         \/ \E v \in Variant : Remove(p, v)
         \/ \E b \in Bundle : AddBundle(p, b)
         \/ \E c \in Customer : MergeInto(p, c)
         \/ Join(p)
         \/ \E method \in Method : Price(p, method)
         \/ Commit(p) \/ Stop(p)
               PROVE  CartInv'
    BY <1>1 DEF CartNext
  <2>1. CASE \E w \in Owner, pc \in {"add", "edit", "checkout"} : Find(p, w, pc)
    BY <2>1, FindKeeps
  <2>2. CASE \E g \in Guest : Find(p, g, "merge")
    BY <2>2, FindKeeps DEF Owner
  <2>3. CASE MakeCart(p)
    BY <2>3, MakeCartKeeps
  <2>4. CASE \E v \in Variant, n \in Quantity : Add(p, v, n)
    BY <2>4, AddKeeps
  <2>5. CASE \E v \in Variant, n \in Quantity \cup {0}, saved \in BOOLEAN : Update(p, v, n, saved)
    BY <2>5, UpdateKeeps
  <2>6. CASE \E v \in Variant : Remove(p, v)
    BY <2>6, RemoveKeeps
  <2>7. CASE \E b \in Bundle : AddBundle(p, b)
    BY <2>7, AddBundleKeeps
  <2>8. CASE \E c \in Customer : MergeInto(p, c)
    BY <2>8, MergeIntoKeeps
  <2>9. CASE Join(p)
    BY <2>9, JoinKeeps
  <2>10. CASE \E method \in Method : Price(p, method)
    BY <2>10, PriceKeeps
  <2>11. CASE Commit(p) \/ Stop(p)
    BY <2>11, CommitKeeps, StopKeeps
  <2> QED
    BY <2>1, <2>2, <2>3, <2>4, <2>5, <2>6, <2>7, <2>8, <2>9, <2>10, <2>11
<1>2. CASE UNCHANGED vars
  BY <1>2 DEF vars, CartInv, TypeOK, JobFits, CartFits, Shared, Bounds, Copied, Alone, Involves,
              OneCartOf, StillNone, CartsOf, Active
<1> QED
  BY <1>1, <1>2

LEMMA HeldWithinShares ==
    ASSUME TypeOK, NEW v \in Variant, Shared(v)
    PROVE  Held(v) <= asked[v]
<1>1. PICK share \in [CartId -> Nat] : Bounds(share, v)
  BY DEF Shared
<1> DEFINE held == [k \in CartId |-> cart[k].line[v].quantity]
<1>2. \A k \in CartId : held[k] \in Nat /\ held[k] <= share[k]
  <2> SUFFICES ASSUME NEW k \in CartId PROVE held[k] \in Nat /\ held[k] <= share[k]
    OBVIOUS
  <2>1. cart[k].line[v].quantity \in Nat
    BY DEF TypeOK, CartRow, Line
  <2>2. CASE cart[k].state = "live"
    BY <1>1, <2>1, <2>2 DEF Bounds
  <2>3. CASE cart[k].state # "live"
    BY <2>1, <2>3, EmptyLines DEF TypeOK
  <2> QED
    BY <2>2, <2>3
<1>3. Held(v) = SumFunctionOnSet(held, CartId)
  BY DEF Held, SumFunction
<1> HIDE DEF held
<1>4. SumFunctionOnSet(held, CartId) <= SumFunctionOnSet(share, CartId)
  BY <1>2, FiniteAssumption, SumMonotonic
<1>5. SumFunctionOnSet(held, CartId) \in Nat /\ SumFunctionOnSet(share, CartId) \in Nat
  BY <1>2, FiniteAssumption, SumIsNat
<1>6. SumFunctionOnSet(share, CartId) <= asked[v] /\ asked[v] \in Nat
  BY <1>1 DEF Bounds, TypeOK
<1> QED
  BY <1>3, <1>4, <1>5, <1>6

LEMMA AtMostOne ==
    ASSUME NEW w \in Owner, OneCartOf(w)
    PROVE  Cardinality(CartsOf(w)) <= 1
<1>1. CASE CartsOf(w) = {}
  BY <1>1, FS_EmptySet
<1>2. ASSUME NEW k \in CartsOf(w) PROVE Cardinality(CartsOf(w)) <= 1
  <2>1. CartsOf(w) = {k}
    BY <1>2 DEF OneCartOf
  <2>2. Cardinality({k}) = 1
    BY FS_Singleton
  <2> QED
    BY <2>1, <2>2
<1> QED
  BY <1>1, <1>2

LEMMA CartInvariant == CartSpec => []CartInv
<1>1. CartInv /\ [CartNext]_vars => CartInv'
  BY CartStep
<1> QED
  BY <1>1, CartInitInv, PTL DEF CartSpec

(* Whatever owners send, together or one after the other, carts never hold *)
(* more units than were asked for, and nobody has two carts but a customer *)
(* two of whose requests overlapped (CartService and the pricing half of   *)
(* OrdersService.checkout), for any number of owners, carts and processes. *)
THEOREM CartsAreSound == CartSpec => []CartsSound
<1>1. ASSUME CartInv PROVE CartsSound
  <2>1. UnitsWereAskedFor
    BY <1>1, HeldWithinShares DEF CartInv, UnitsWereAskedFor
  <2>2. OneCart
    BY <1>1, AtMostOne DEF CartInv, OneCart, Owner, TypeOK
  <2> QED
    BY <1>1, <2>1, <2>2 DEF CartInv, CartsSound
<1>2. CartInv => CartsSound
  BY <1>1
<1> QED
  BY <1>2, CartInvariant, PTL

-----------------------------------------------------------------------------
(* Units on their way.                                                     *)

(* Which steps there are, for one that a cart or a checkout ends with.     *)
LEMMA StepIs ==
    ASSUME CartInv, CartNext
    PROVE  \E p \in Process :
              /\ \A q \in Process \ {p} : job'[q] = job[q]
              /\ \/ Join(p) \/ Commit(p)
                 \/ UNCHANGED cart
                 \/ /\ job[p].pc \in {"add", "edit", "join"}
                    /\ \A k \in CartId : cart[k].state = "live" => cart'[k].state = "live"
<1>1. PICK p \in Process :
         \/ \E w \in Owner, pc \in {"add", "edit", "checkout"} : Find(p, w, pc)
         \/ \E g \in Guest : Find(p, g, "merge")
         \/ MakeCart(p)
         \/ \E v \in Variant, n \in Quantity : Add(p, v, n)
         \/ \E v \in Variant, n \in Quantity \cup {0}, saved \in BOOLEAN : Update(p, v, n, saved)
         \/ \E v \in Variant : Remove(p, v)
         \/ \E b \in Bundle : AddBundle(p, b)
         \/ \E c \in Customer : MergeInto(p, c)
         \/ Join(p)
         \/ \E method \in Method : Price(p, method)
         \/ Commit(p) \/ Stop(p)
  BY DEF CartNext
<1>2. job \in [Process -> Job] /\ cart \in [CartId -> CartRow]
  BY DEF CartInv, TypeOK
<1>3. CASE \/ \E w \in Owner, pc \in {"add", "edit", "checkout"} : Find(p, w, pc)
           \/ \E g \in Guest : Find(p, g, "merge")
           \/ \E c \in Customer : MergeInto(p, c)
           \/ \E method \in Method : Price(p, method)
           \/ Stop(p)
  <2>1. UNCHANGED cart
    BY <1>3 DEF Find, MergeInto, Price, Stop
  <2>2. \A q \in Process \ {p} : job'[q] = job[q]
    BY <1>2, <1>3 DEF Find, MergeInto, Price, Stop, Return
  <2> QED
    BY <2>1, <2>2
<1>4. CASE MakeCart(p)
  <2>1. \A q \in Process \ {p} : job'[q] = job[q]
    BY <1>2, <1>4 DEF MakeCart
  <2>2. job[p].pc \in {"add", "edit", "join"}
    BY <1>4 DEF MakeCart
  <2>3. \A k \in CartId : cart[k].state = "live" => cart'[k].state = "live"
    BY <1>2, <1>4 DEF MakeCart
  <2> QED
    BY <2>1, <2>2, <2>3
<1>5. CASE \/ \E v \in Variant, n \in Quantity : Add(p, v, n)
           \/ \E v \in Variant, n \in Quantity \cup {0}, saved \in BOOLEAN : Update(p, v, n, saved)
           \/ \E v \in Variant : Remove(p, v)
           \/ \E b \in Bundle : AddBundle(p, b)
  <2>1. \A q \in Process \ {p} : job'[q] = job[q]
    BY <1>2, <1>5 DEF Add, Update, Remove, AddBundle, Writing, Return
  <2>2. job[p].pc \in {"add", "edit", "join"} /\ job[p].cart # NoCart /\ job[p].pc # "join"
    BY <1>5 DEF Add, Update, Remove, AddBundle, Writing
  <2>3. job[p].cart \in CartId
    BY <2>2, WriterHas
  <2>4. \E new : cart' = [cart EXCEPT ![job[p].cart].line = new]
    <3>1. ASSUME NEW v \in Variant, NEW n \in Quantity, Add(p, v, n)
          PROVE  \E new : cart' = [cart EXCEPT ![job[p].cart].line = new]
      BY <1>2, <2>3, <3>1 DEF Add, CartRow
    <3>2. ASSUME NEW v \in Variant, NEW n \in Quantity \cup {0}, NEW saved \in BOOLEAN,
                 Update(p, v, n, saved)
          PROVE  \E new : cart' = [cart EXCEPT ![job[p].cart].line = new]
      BY <1>2, <2>3, <3>2 DEF Update, CartRow
    <3>3. ASSUME NEW v \in Variant, Remove(p, v)
          PROVE  \E new : cart' = [cart EXCEPT ![job[p].cart].line = new]
      BY <1>2, <2>3, <3>3 DEF Remove, CartRow
    <3>4. ASSUME NEW b \in Bundle, AddBundle(p, b)
          PROVE  \E new : cart' = [cart EXCEPT ![job[p].cart].line = new]
      BY <1>2, <2>3, <3>4 DEF AddBundle
    <3> QED
      BY <1>5, <3>1, <3>2, <3>3, <3>4
  <2>5. \A k \in CartId : cart'[k].state = cart[k].state
    BY <1>2, <2>3, <2>4 DEF CartRow
  <2> QED
    BY <2>1, <2>2, <2>5
<1>6. CASE Join(p) \/ Commit(p)
  <2>1. \A q \in Process \ {p} : job'[q] = job[q]
    BY <1>2, <1>6 DEF Join, Commit, Writing, Return
  <2> QED
    BY <1>6, <2>1
<1> QED
  BY <1>1, <1>3, <1>4, <1>5, <1>6

LEMMA MergeStep ==
    ASSUME CartInv, CartNext, NEW k \in CartId, cart[k].state = "live", cart'[k].state # "live"
    PROVE  \/ \A v \in Variant : Held(v)' = Held(v)
           \/ \E p \in Process : job[p].from = k /\ job'[p] = Idle /\ job[p].seen # cart[k].line
<1>1. PICK p \in Process :
              /\ \A q \in Process \ {p} : job'[q] = job[q]
              /\ \/ Join(p) \/ Commit(p)
                 \/ UNCHANGED cart
                 \/ /\ job[p].pc \in {"add", "edit", "join"}
                    /\ \A l \in CartId : cart[l].state = "live" => cart'[l].state = "live"
  BY StepIs
<1>2. ~Commit(p)
  <2> SUFFICES ASSUME Commit(p) PROVE FALSE
    OBVIOUS
  <2>1. job[p].cart \in CartId
    BY WriterHas DEF Commit, Writing
  <2>2. cart'[k].state = cart[k].state
    BY <2>1 DEF Commit, CartInv, TypeOK, CartRow
  <2> QED
    BY <2>2
<1>3. Join(p)
  BY <1>1, <1>2
<1>4. PICK c, f : c = job[p].cart /\ f = job[p].from
  OBVIOUS
<1>5. /\ c \in CartId /\ f \in CartId /\ c # f
      /\ \A v \in Variant :
            /\ cart'[c].line[v].quantity = cart[c].line[v].quantity + job[p].seen[v].quantity
            /\ cart[c].line[v].quantity \in Nat /\ job[p].seen[v].quantity \in Nat
      /\ cart'[c].state = "live" /\ cart'[f].line = Empty
      /\ \A l \in CartId \ {c, f} : cart'[l] = cart[l]
      /\ job' = [job EXCEPT ![p] = Idle]
  BY <1>3, <1>4, JoinDoes
<1>6. k = f
  BY <1>5
<1>7. job'[p] = Idle
  BY <1>5 DEF CartInv, TypeOK
<1>8. CASE job[p].seen # cart[k].line
  BY <1>4, <1>6, <1>7, <1>8
<1>9. ASSUME job[p].seen = cart[k].line, NEW v \in Variant PROVE Held(v)' = Held(v)
  <2> DEFINE was == [l \in CartId |-> cart[l].line[v].quantity]
             is == [l \in CartId |-> cart'[l].line[v].quantity]
             moved == [was EXCEPT ![c] = is[c]]
  <2>1. Held(v) = SumFunctionOnSet(was, CartId) /\ Held(v)' = SumFunctionOnSet(is, CartId)
    BY DEF Held, SumFunction
  <2>2. \A l \in CartId : was[l] \in Int
    BY DEF CartInv, TypeOK, CartRow, Line
  <2>3. is[c] = was[c] + was[f] /\ is[f] = 0
    BY <1>5, <1>6, <1>9, EmptyLines
  <2>4. \A l \in CartId \ {c, f} : is[l] = was[l]
    BY <1>5
  <2> HIDE DEF was, is
  <2>5. moved[c] = is[c] /\ \A l \in CartId \ {c} : moved[l] = was[l]
    BY <1>5 DEF was
  <2> HIDE DEF moved
  <2>6. /\ is[c] \in Int /\ is[f] \in Int /\ \A l \in CartId : moved[l] \in Int
        /\ \A l \in CartId \ {f} : is[l] = moved[l]
    BY <1>5, <2>2, <2>3, <2>4, <2>5
  <2>7. SumFunctionOnSet(moved, CartId) = SumFunctionOnSet(was, CartId) + moved[c] - was[c]
    BY ONLY <1>5, <2>2, <2>5, <2>6, FiniteAssumption, SumChange
  <2>8. SumFunctionOnSet(is, CartId) = SumFunctionOnSet(moved, CartId) + is[f] - moved[f]
    BY ONLY <1>5, <2>6, FiniteAssumption, SumChange
  <2>9. SumFunctionOnSet(was, CartId) \in Int
    BY <2>2, FiniteAssumption, SumIsInt
  <2>10. SumFunctionOnSet(is, CartId) = SumFunctionOnSet(was, CartId)
    <3>1. moved[f] = was[f] /\ moved[c] = was[c] + was[f] /\ was[c] \in Int /\ was[f] \in Int
      BY <1>5, <2>2, <2>3, <2>5
    <3> QED
      BY <2>3, <2>7, <2>8, <2>9, <3>1
  <2> QED
    BY <2>1, <2>10
<1> QED
  BY <1>8, <1>9

LEMMA CommitStep ==
    ASSUME CartInv, CartNext, NEW p \in Process, job[p].pc = "commit", job'[p] = Idle, cart' # cart,
           NEW v \in Variant, cart[job[p].cart].line[v] = job[p].seen[v]
    PROVE  cart[job[p].cart].line[v].quantity - cart'[job[p].cart].line[v].quantity
              = job[p].bill.line[v].quantity
<1>1. PICK r \in Process :
              /\ \A q \in Process \ {r} : job'[q] = job[q]
              /\ \/ Join(r) \/ Commit(r)
                 \/ UNCHANGED cart
                 \/ /\ job[r].pc \in {"add", "edit", "join"}
                    /\ \A k \in CartId : cart[k].state = "live" => cart'[k].state = "live"
  BY StepIs
<1>2. r = p
  BY <1>1, IdleJob
<1>3. Commit(p)
  BY <1>1, <1>2 DEF Join, Writing
<1>4. /\ job[p].cart \in CartId /\ cart \in [CartId -> CartRow]
      /\ cart[job[p].cart].line[v].quantity \in Nat
  BY <1>3, WriterHas DEF Commit, Writing, TypeOK
<1>5. cart'[job[p].cart].line[v] =
         IF cart[job[p].cart].line[v].saved THEN cart[job[p].cart].line[v] ELSE NoLine
  BY <1>3, <1>4 DEF Commit, CartRow
<1>6. JobFits(job[p])
  BY DEF CartInv
<1>7. job[p].bill.line[v].quantity = IF v \in Active(job[p].seen) THEN job[p].seen[v].quantity ELSE 0
  BY <1>6 DEF JobFits
<1> QED
  BY <1>4, <1>5, <1>7, EmptyLines DEF Active

(* A merge brings every unit of the guest's cart over and a checkout takes *)
(* out of the cart exactly what it has ordered, but for lines changed since*)
(* the cart was read (CartService.mergeGuestCart, OrdersService.checkout). *)
THEOREM UnitsAreKept == CartSpec => NothingLost
<1> DEFINE Merged ==
             \A k \in CartId : cart[k].state = "live" /\ cart'[k].state # "live" =>
                \/ \A v \in Variant : Held(v)' = Held(v)
                \/ \E p \in Process : job[p].from = k /\ job'[p] = Idle
                                       /\ job[p].seen # cart[k].line
           Taken ==
             \A p \in Process : job[p].pc = "commit" /\ job'[p] = Idle /\ cart' # cart =>
                LET was == cart[job[p].cart].line
                    is == cart'[job[p].cart].line
                IN  \A v \in Variant :
                       \/ was[v] # job[p].seen[v]
                       \/ was[v].quantity - is[v].quantity = job[p].bill.line[v].quantity
<1>1. CartInv /\ [CartNext]_vars => [Merged]_vars
  BY MergeStep
<1>2. CartInv /\ [CartNext]_vars => [Taken]_vars
  BY CommitStep
<1>3. MergeKeepsUnits <=> [][Merged]_vars
  BY DEF MergeKeepsUnits
<1>4. CheckoutTakesItsLines <=> [][Taken]_vars
  BY DEF CheckoutTakesItsLines
<1> HIDE DEF Merged, Taken
<1>5. CartSpec => [][Merged]_vars
  BY <1>1, CartInvariant, PTL DEF CartSpec
<1>6. CartSpec => [][Taken]_vars
  BY <1>2, CartInvariant, PTL DEF CartSpec
<1> QED
  BY <1>3, <1>4, <1>5, <1>6 DEF NothingLost
-----------------------------------------------------------------------------
(* Pennies. Every rounding is within half of what it rounds, and a sum of  *)
(* roundings within half a penny for each.                                 *)

LEMMA Times == \A n \in Nat : \A y, z \in Int : y <= z => n * y <= n * z
OBVIOUS

LEMMA Cancel == \A n \in Nat \ {0} : \A y, z \in Int : n * y <= n * z => y <= z
OBVIOUS

LEMMA RoundedIsNear ==
    ASSUME NEW n \in Nat, NEW d \in Nat \ {0}
    PROVE  /\ Rounded(n, d) \in Nat
           /\ 2 * n - d <= 2 * d * Rounded(n, d) /\ 2 * d * Rounded(n, d) <= 2 * n + d
<1> DEFINE a == 2 * n + d
           b == 2 * d
<1>1. a \in Int /\ b \in Nat \ {0} /\ Rounded(n, d) = a \div b
  BY DEF Rounded
<1> HIDE DEF a, b
<1>2. \A x \in Int, y \in Nat \ {0} : y * (x \div y) <= x /\ x < y * (x \div y) + y
  OBVIOUS
<1>3. b * (a \div b) <= a /\ a < b * (a \div b) + b /\ Rounded(n, d) \in Nat
  BY <1>1, <1>2, RoundedIsNat
<1> QED
  BY <1>1, <1>3 DEF a, b

(* No coupon takes more off than what it may reduce.                       *)
LEMMA DiscountWithinBase ==
    ASSUME NEW coupon \in Coupon, NEW base \in Nat
    PROVE  Discount(coupon, base) <= base
<1> DEFINE part == Rounded(base * coupon.amount, 100)
<1>1. coupon.amount \in Nat /\ coupon.cap \in Nat \cup {None}
  BY CouponAssumption
<1>2. CASE coupon.type = "PERCENT"
  <2>1. base * coupon.amount \in Nat /\ base * coupon.amount <= base * 100
    BY <1>1, <1>2, CouponAssumption, Times, ProductIsNat
  <2>2. part \in Nat /\ 2 * 100 * part <= 2 * (base * coupon.amount) + 100
    BY <2>1, RoundedIsNear
  <2>3. part <= base
    BY <2>1, <2>2
  <2>4. Discount(coupon, base) = IF coupon.cap = None THEN part ELSE Least(part, coupon.cap)
    BY <1>2 DEF Discount
  <2> HIDE DEF part
  <2> QED
    BY <1>1, <2>2, <2>3, <2>4 DEF Least
<1>3. CASE coupon.type # "PERCENT"
  BY <1>1, <1>3 DEF Discount, Least
<1> QED
  BY <1>2, <1>3

LEMMA VatWithinHalf ==
    ASSUME NEW subtotal \in Nat, NEW rate \in 0..100
    PROVE  2 * VatWithin(subtotal, rate) <= subtotal + 1
<1> DEFINE d == 100 + rate
           vat == VatWithin(subtotal, rate)
<1>1. d \in Nat \ {0} /\ subtotal * rate \in Nat
  BY ProductIsNat
<1>2. vat \in Nat /\ 2 * d * vat <= 2 * (subtotal * rate) + d
  BY <1>1, RoundedIsNear DEF VatWithin
<1> HIDE DEF vat
<1>3. subtotal * (2 * rate) <= subtotal * d
  BY Times
<1>4. d * (2 * vat) <= d * (subtotal + 1)
  BY <1>1, <1>2, <1>3
<1> HIDE DEF d
<1>5. 2 * vat \in Int /\ subtotal + 1 \in Int
  BY <1>2
<1>6. 2 * vat <= subtotal + 1
  BY <1>1, <1>4, <1>5, Cancel
<1> QED
  BY <1>6 DEF vat

-----------------------------------------------------------------------------
(* A bundle's price.                                                       *)

LEMMA SharesAddUp ==
    ASSUME NEW b \in Bundle, RegularTotal(Product, b) > 0, NEW override,
           \A v \in Variant : b.quantity[v] > 0 => override[v] = UnitShare(Product, b, v),
           \A v \in Variant : override[v] \in Int
    PROVE  LET shown == SumFunctionOnSet([v \in Variant |-> override[v] * b.quantity[v]], Variant)
               units == SumFunctionOnSet(b.quantity, Variant)
           IN  2 * (shown - b.price) \in (-units)..units
<1> DEFINE h == [v \in Variant |-> override[v] * b.quantity[v]]
           k == [v \in Variant |-> RegularPrice(Product[v]) * b.quantity[v]]
           l == b.quantity
           T == RegularTotal(Product, b)
           shown == SumFunctionOnSet(h, Variant)
           units == SumFunctionOnSet(l, Variant)
<1>1. DOMAIN Product = Variant /\ l \in [Variant -> Nat] /\ b.price \in Nat
  BY ProductAssumption, BundleAssumption
<1>2. \A v \in Variant : k[v] \in Nat /\ h[v] \in Int /\ l[v] \in Nat
  BY <1>1, ProductRow, ProductIsNat
<1>3. T = SumFunctionOnSet(k, Variant)
  BY <1>1 DEF RegularTotal, SumFunction
<1>4. T \in Nat \ {0} /\ shown \in Int /\ units \in Nat
  <2> HIDE DEF h, k, l
  <2>1. SumFunctionOnSet(k, Variant) \in Nat
    BY <1>2, FiniteAssumption, SumIsNat
  <2>2. T \in Nat \ {0}
    BY <1>3, <2>1
  <2> QED
    BY <1>2, <2>2, FiniteAssumption, SumIsNat, SumIsInt
<1>5. ASSUME NEW v \in Variant
      PROVE  /\ (2 * b.price) * k[v] - T * l[v] <= (2 * T) * h[v]
             /\ (2 * T) * h[v] <= (2 * b.price) * k[v] + T * l[v]
  <2> DEFINE r == RegularPrice(Product[v])
             q == b.quantity[v]
             o == override[v]
  <2>1. r \in Nat /\ q \in Nat /\ o \in Int /\ k[v] = r * q /\ h[v] = o * q /\ l[v] = q
    BY <1>1, ProductRow
  <2>2. CASE q = 0
    <3> HIDE DEF T, r, q, o, h, k, l
    <3>1. k[v] = 0 /\ h[v] = 0 /\ l[v] = 0
      BY <2>1, <2>2
    <3> QED
      BY <1>1, <1>4, <3>1
  <2>3. CASE q > 0
    <3>1. o = Rounded(r * b.price, T)
      BY <1>4, <2>3 DEF UnitShare
    <3>2. r * b.price \in Nat
      BY <1>1, <2>1, ProductIsNat
    <3> HIDE DEF T, r, q, o, h, k, l
    <3>3. 2 * (r * b.price) - T <= 2 * T * o /\ 2 * T * o <= 2 * (r * b.price) + T
      BY <1>4, <3>1, <3>2, RoundedIsNear
    <3>4. 2 * (r * b.price) - T \in Int /\ 2 * T * o \in Int /\ 2 * (r * b.price) + T \in Int
      BY <1>4, <2>1, <3>2
    <3>5. /\ q * (2 * (r * b.price) - T) <= q * (2 * T * o)
          /\ q * (2 * T * o) <= q * (2 * (r * b.price) + T)
      BY <2>1, <3>3, <3>4, Times
    <3> QED
      BY <1>1, <1>4, <2>1, <3>5
  <2> QED
    BY <2>1, <2>2, <2>3
<1> HIDE DEF h, k, l, T
<1>6. /\ (2 * b.price) * SumFunctionOnSet(k, Variant) - T * SumFunctionOnSet(l, Variant)
            <= (2 * T) * SumFunctionOnSet(h, Variant)
      /\ (2 * T) * SumFunctionOnSet(h, Variant)
            <= (2 * b.price) * SumFunctionOnSet(k, Variant) + T * SumFunctionOnSet(l, Variant)
  <2>1. 2 * b.price \in Int /\ 2 * T \in Int /\ T \in Int
    BY <1>1, <1>4
  <2>2. \A v \in Variant : h[v] \in Int /\ k[v] \in Int /\ l[v] \in Int
    BY <1>2
  <2> QED
    BY <1>5, <2>1, <2>2, FiniteAssumption, SumWithin
<1> HIDE DEF shown, units
<1>7. /\ (2 * b.price) * T - T * units <= (2 * T) * shown
      /\ (2 * T) * shown <= (2 * b.price) * T + T * units
  BY <1>3, <1>6 DEF shown, units
<1>8. T * (2 * b.price - units) <= T * (2 * shown) /\ T * (2 * shown) <= T * (2 * b.price + units)
  BY <1>1, <1>4, <1>7
<1>9. 2 * b.price - units <= 2 * shown /\ 2 * shown <= 2 * b.price + units
  BY <1>1, <1>4, <1>8, Cancel
<1>10. 2 * (shown - b.price) \in (-units)..units
  BY <1>1, <1>4, <1>9
<1> QED
  BY <1>10 DEF shown, units, h, l
(* A line from a bundle has that bundle's price.                           *)
AtShare(line, v) == line.bundle # NoBundle => line.override = UnitShare(Product, line.bundle, v)

LinesAtShare == \A k \in CartId : \A v \in Variant : AtShare(cart[k].line[v], v)

LEMMA SharesKept ==
    ASSUME NEW line, NEW v \in Variant, AtShare(line, v), line \in Line
    PROVE  /\ AtShare(NoLine, v)
           /\ \A n : AtShare([line EXCEPT !.quantity = n], v) /\ AtShare([NoLine EXCEPT !.quantity = n], v)
           /\ \A n, saved : AtShare(Edited(line, n, saved), v)
           /\ \A other : AtShare(Joined(line, other), v)
           /\ \A b \in Bundle : AtShare(WithBundle(line, v, b), v)
<1>1. \A n : /\ [line EXCEPT !.quantity = n].bundle = line.bundle
             /\ [line EXCEPT !.quantity = n].override = line.override
             /\ [NoLine EXCEPT !.quantity = n].bundle = NoBundle
  BY DEF Line, NoLine
<1>2. NoLine.bundle = NoBundle
  BY DEF NoLine
<1>3. \A n, saved : /\ Edited(line, n, saved).bundle = line.bundle
                    /\ Edited(line, n, saved).override = line.override
  BY DEF Edited, Line
<1>4. ASSUME NEW other PROVE AtShare(Joined(line, other), v)
  <2>1. Joined(line, other) = line \/ Joined(line, other).bundle = NoBundle
        \/ \E n : Joined(line, other) = [line EXCEPT !.quantity = n]
    BY DEF Joined, NoLine
  <2> QED
    BY <1>1, <2>1 DEF AtShare
<1>5. ASSUME NEW b \in Bundle PROVE AtShare(WithBundle(line, v, b), v)
  <2>1. CASE b.quantity[v] = 0
    BY <2>1 DEF WithBundle
  <2>2. CASE b.quantity[v] # 0
    <3> DEFINE n == line.quantity + b.quantity[v]
               price == UnitShare(Product, b, v)
    <3>1. WithBundle(line, v, b) = [line EXCEPT !.quantity = n, !.override = price, !.bundle = b]
      BY <2>2 DEF WithBundle
    <3> HIDE DEF n, price
    <3>2. WithBundle(line, v, b).override = price /\ WithBundle(line, v, b).bundle = b
      BY <3>1 DEF Line
    <3> QED
      BY <3>2 DEF AtShare, price
  <2> QED
    BY <2>1, <2>2
<1> QED
  BY <1>1, <1>2, <1>3, <1>4, <1>5 DEF AtShare

LEMMA LinesStayAtShare ==
    ASSUME CartInv, LinesAtShare, [CartNext]_vars
    PROVE  LinesAtShare'
<1>1. job \in [Process -> Job] /\ cart \in [CartId -> CartRow]
  BY DEF CartInv, TypeOK
<1>2. \A k \in CartId : cart[k].line \in [Variant -> Line] /\ \A v \in Variant : cart[k].line[v] \in Line
  BY <1>1 DEF CartRow
<1>3. \A v \in Variant : AtShare(NoLine, v) /\ Empty[v] = NoLine
  BY EmptyLines DEF AtShare, NoLine
<1>4. ASSUME NEW k \in CartId, NEW new, cart' = [cart EXCEPT ![k].line = new],
             \A v \in Variant : AtShare(new[v], v)
      PROVE  LinesAtShare'
  <2>1. cart'[k].line = new /\ \A l \in CartId \ {k} : cart'[l] = cart[l]
    BY <1>1, <1>4 DEF CartRow
  <2> QED
    BY <1>4, <2>1 DEF LinesAtShare, AtShare
<1>5. CASE UNCHANGED cart
  BY <1>5 DEF LinesAtShare, AtShare
<1>6. ASSUME NEW p \in Process, MakeCart(p) PROVE LinesAtShare'
  <2>1. PICK k \in CartId :
           cart' = [cart EXCEPT ![k] = [NoCartRow EXCEPT !.state = "live", !.owner = job[p].owner]]
    BY <1>6 DEF MakeCart
  <2>2. cart'[k].line = Empty /\ \A l \in CartId \ {k} : cart'[l] = cart[l]
    BY <1>1, <2>1 DEF NoCartRow
  <2> QED
    BY <1>3, <2>2 DEF LinesAtShare, AtShare
<1>7. ASSUME NEW p \in Process, Writing(p, "add") \/ Writing(p, "edit") \/ Writing(p, "commit")
      PROVE  job[p].cart \in CartId
  BY <1>7, WriterHas DEF Writing
<1>8. ASSUME NEW p \in Process, NEW v \in Variant, NEW n \in Quantity, Add(p, v, n) PROVE LinesAtShare'
  <2> DEFINE k == job[p].cart
             was == cart[k].line
             sum == job[p].seen[v].quantity + n
             row == IF was[v].quantity = 0 THEN [NoLine EXCEPT !.quantity = n]
                    ELSE [was[v] EXCEPT !.quantity = sum]
             new == [was EXCEPT ![v] = row]
  <2>1. k \in CartId
    BY <1>7, <1>8 DEF Add
  <2>2. cart' = [cart EXCEPT ![k].line = new]
    BY <1>8 DEF Add
  <2>3. was \in [Variant -> Line] /\ \A x \in Variant : AtShare(was[x], x)
    BY <1>2, <2>1 DEF LinesAtShare
  <2> HIDE DEF was, k, sum
  <2>4. AtShare(row, v)
    BY <2>3, SharesKept
  <2> HIDE DEF row
  <2>5. \A x \in Variant : AtShare(new[x], x)
    BY <2>3, <2>4
  <2> QED
    BY <1>4, <2>1, <2>2, <2>5
<1>9. ASSUME NEW p \in Process, NEW v \in Variant, NEW n \in Quantity \cup {0}, NEW saved \in BOOLEAN,
             Update(p, v, n, saved)
      PROVE  LinesAtShare'
  <2> DEFINE k == job[p].cart
             was == cart[k].line
             row == Edited(was[v], n, saved)
             new == [was EXCEPT ![v] = row]
  <2>1. k \in CartId
    BY <1>7, <1>9 DEF Update
  <2>2. cart' = [cart EXCEPT ![k].line = new]
    BY <1>9 DEF Update
  <2>3. was \in [Variant -> Line] /\ \A x \in Variant : AtShare(was[x], x)
    BY <1>2, <2>1 DEF LinesAtShare
  <2> HIDE DEF was, k
  <2>4. AtShare(row, v)
    BY <2>3, SharesKept
  <2> HIDE DEF row
  <2>5. \A x \in Variant : AtShare(new[x], x)
    BY <2>3, <2>4
  <2> QED
    BY <1>4, <2>1, <2>2, <2>5
<1>10. ASSUME NEW p \in Process, NEW v \in Variant, Remove(p, v) PROVE LinesAtShare'
  <2> DEFINE k == job[p].cart
             new == [cart[k].line EXCEPT ![v] = NoLine]
  <2>1. k \in CartId
    BY <1>7, <1>10 DEF Remove
  <2>2. cart' = [cart EXCEPT ![k].line = new]
    BY <1>10 DEF Remove
  <2>3. \A x \in Variant : AtShare(new[x], x)
    BY <1>2, <1>3, <2>1 DEF LinesAtShare
  <2> HIDE DEF new, k
  <2> QED
    BY <1>4, <2>1, <2>2, <2>3
<1>11. ASSUME NEW p \in Process, NEW b \in Bundle, AddBundle(p, b) PROVE LinesAtShare'
  <2> DEFINE k == job[p].cart
             was == cart[k].line
             new == [v \in Variant |-> WithBundle(was[v], v, b)]
  <2>1. k \in CartId
    BY <1>7, <1>11 DEF AddBundle
  <2>2. cart' = [cart EXCEPT ![k].line = new]
    BY <1>11 DEF AddBundle
  <2>3. \A v \in Variant : was[v] \in Line /\ AtShare(was[v], v)
    BY <1>2, <2>1 DEF LinesAtShare
  <2> HIDE DEF was, k
  <2>4. \A v \in Variant : AtShare(new[v], v)
    BY <2>3, SharesKept
  <2> HIDE DEF new
  <2> QED
    BY <1>4, <2>1, <2>2, <2>4
<1>12. ASSUME NEW p \in Process, Commit(p) PROVE LinesAtShare'
  <2> DEFINE k == job[p].cart
             was == cart[k].line
             new == [v \in Variant |-> IF was[v].saved THEN was[v] ELSE NoLine]
  <2>1. k \in CartId
    BY <1>7, <1>12 DEF Commit
  <2>2. cart' = [cart EXCEPT ![k].line = new]
    BY <1>12 DEF Commit
  <2>3. \A v \in Variant : AtShare(was[v], v)
    BY <2>1 DEF LinesAtShare
  <2> HIDE DEF was, k
  <2>4. \A v \in Variant : AtShare(new[v], v)
    BY <1>3, <2>3
  <2> HIDE DEF new
  <2> QED
    BY <1>4, <2>1, <2>2, <2>4
<1>13. ASSUME NEW p \in Process, Join(p) PROVE LinesAtShare'
  <2> DEFINE k == job[p].cart
             f == job[p].from
  <2>1. /\ k \in CartId /\ f \in CartId /\ k # f
        /\ cart'[f].line = Empty /\ \A l \in CartId \ {k, f} : cart'[l] = cart[l]
    BY <1>13, JoinDoes
  <2>2. cart'[k].line = [v \in Variant |-> Joined(cart[k].line[v], job[p].seen[v])]
    BY <1>1, <1>13, <2>1 DEF Join, CartRow
  <2> HIDE DEF k, f
  <2>3. \A v \in Variant : AtShare(Joined(cart[k].line[v], job[p].seen[v]), v)
    BY <1>2, <2>1, SharesKept DEF LinesAtShare
  <2>4. \A l \in CartId : \A v \in Variant : AtShare(cart'[l].line[v], v)
    BY <1>3, <2>1, <2>2, <2>3 DEF LinesAtShare
  <2> QED
    BY <2>4 DEF LinesAtShare, AtShare
<1> QED
  BY <1>5, <1>6, <1>8, <1>9, <1>10, <1>11, <1>12, <1>13
     DEF CartNext, Find, MergeInto, Price, Stop, vars

LEMMA InitAtShare == CartInit => LinesAtShare
BY EmptyLines DEF CartInit, LinesAtShare, AtShare, NoCartRow, NoLine
-----------------------------------------------------------------------------
(* What an order's lines give back.                                        *)

(* A bill is worked out from the lines its request has seen, with a coupon *)
(* that takes off no more than their price.                                *)
BillFits(j) ==
    j.pc = "commit" =>
        \E rate \in Nat, discount \in Nat, freeShipping \in BOOLEAN :
            discount <= SubtotalOf(j.seen) /\ j.bill = BillFor(j.seen, rate, discount, freeShipping)

LEMMA PriceMakesBill ==
    ASSUME CartInv, NEW p \in Process, NEW method \in Method, Price(p, method)
    PROVE  BillFits(job'[p])
<1> DEFINE lines == job[p].seen
<1>1. job \in [Process -> Job] /\ lines \in [Variant -> Line]
  BY DEF CartInv, TypeOK, Job
<1> HIDE DEF lines
<1>2. Active(lines) \in SUBSET Variant /\ IsFiniteSet(Active(lines))
  BY FiniteAssumption, FS_Subset DEF Active
<1>3. SubtotalOf(lines) \in Nat
  BY <1>1, CostIsNat DEF SubtotalOf
<1>4. ASSUME NEW coupon \in Coupon
      PROVE  /\ Discount(coupon, Discountable(lines, coupon)) \in Nat
             /\ Discount(coupon, Discountable(lines, coupon)) <= SubtotalOf(lines)
  <2> DEFINE S == {v \in Active(lines) : ~(coupon.excludeSale /\ Product[v].sale # None)}
             base == Discountable(lines, coupon)
  <2>1. S \in SUBSET Active(lines) /\ base = SumFunctionOnSet(Cost(lines), S)
    BY DEF Discountable
  <2> HIDE DEF S, base
  <2>2. base \in Nat
    BY <1>1, <2>1, CostIsNat
  <2>3. \A v \in Active(lines) : Cost(lines)[v] \in Nat
    <3>1. \A v \in Variant : lines[v].quantity \in Nat
      BY <1>1 DEF Line
    <3> QED
      BY <1>2, <3>1, ProductRow, ProductIsNat DEF Cost
  <2>4. base <= SubtotalOf(lines)
    BY <1>2, <2>1, <2>3, SumOfSubset DEF SubtotalOf
  <2>5. Discount(coupon, base) \in Nat /\ Discount(coupon, base) <= base
    BY <2>2, DiscountIsNat, DiscountWithinBase
  <2> QED
    BY <1>3, <2>2, <2>4, <2>5 DEF base
<1> DEFINE Billed(rate, discount, freeShipping) ==
              job' = [job EXCEPT ![p].pc = "commit",
                                 ![p].bill = BillFor(lines, rate, discount, freeShipping)]
<1>5. \E rate \in Nat, discount \in Nat, freeShipping \in BOOLEAN :
         discount <= SubtotalOf(lines) /\ Billed(rate, discount, freeShipping)
  <2>1. PICK rate \in Rates(method, WeightOf(lines), SubtotalOf(lines)) :
           \/ job' = [job EXCEPT ![p].pc = "commit", ![p].bill = BillFor(lines, rate, 0, FALSE)]
           \/ \E coupon \in Coupon :
                 job' = [job EXCEPT ![p].pc = "commit",
                     ![p].bill = BillFor(lines, rate,
                                         Discount(coupon, Discountable(lines, coupon)),
                                         coupon.type = "FREE_SHIPPING")]
    BY DEF Price, lines
  <2>2. rate \in Nat /\ 0 \in Nat /\ 0 <= SubtotalOf(lines) /\ FALSE \in BOOLEAN
    BY <1>3, RateIsNat
  <2>3. CASE job' = [job EXCEPT ![p].pc = "commit", ![p].bill = BillFor(lines, rate, 0, FALSE)]
    BY <2>2, <2>3
  <2>4. ASSUME NEW coupon \in Coupon,
               job' = [job EXCEPT ![p].pc = "commit",
                   ![p].bill = BillFor(lines, rate,
                                       Discount(coupon, Discountable(lines, coupon)),
                                       coupon.type = "FREE_SHIPPING")]
        PROVE  \E r \in Nat, discount \in Nat, freeShipping \in BOOLEAN :
                  discount <= SubtotalOf(lines) /\ Billed(r, discount, freeShipping)
    <3> DEFINE discount == Discount(coupon, Discountable(lines, coupon))
               freeShipping == coupon.type = "FREE_SHIPPING"
    <3>1. discount \in Nat /\ discount <= SubtotalOf(lines) /\ freeShipping \in BOOLEAN
      BY <1>4
    <3>2. Billed(rate, discount, freeShipping)
      BY <2>4
    <3> HIDE DEF discount, freeShipping, Billed
    <3> QED
      BY <2>2, <3>1, <3>2
  <2> HIDE DEF Billed
  <2> QED
    BY <2>1, <2>3, <2>4 DEF Billed
<1>6. PICK rate \in Nat, discount \in Nat, freeShipping \in BOOLEAN :
         discount <= SubtotalOf(lines) /\ Billed(rate, discount, freeShipping)
  BY <1>5
<1>7. job'[p].seen = lines /\ job'[p].bill = BillFor(lines, rate, discount, freeShipping)
  BY <1>1, <1>6 DEF Job, lines
<1> QED
  BY <1>6, <1>7 DEF BillFits
LEMMA BillsStayFit ==
    ASSUME CartInv, [CartNext]_vars, \A p \in Process : BillFits(job[p])
    PROVE  \A p \in Process : BillFits(job'[p])
<1>1. job \in [Process -> Job]
  BY DEF CartInv, TypeOK
<1>2. CASE UNCHANGED vars
  BY <1>2 DEF vars
<1>3. ASSUME NEW p \in Process, \A q \in Process \ {p} : job'[q] = job[q],
             job'[p].pc # "commit" \/ BillFits(job'[p])
      PROVE  \A q \in Process : BillFits(job'[q])
  BY <1>3 DEF BillFits
<1>4. ASSUME NEW p \in Process,
             \/ \E w \in Owner, pc \in {"add", "edit", "checkout"} : Find(p, w, pc)
             \/ \E g \in Guest : Find(p, g, "merge")
      PROVE  \A q \in Process : BillFits(job'[q])
  <2>1. PICK w, pc : Find(p, w, pc) /\ pc # "commit"
    BY <1>4
  <2>2. \A k : /\ [Idle EXCEPT !.pc = pc, !.owner = w].pc = pc
               /\ [Idle EXCEPT !.pc = pc, !.owner = w, !.cart = k, !.seen = cart[k].line].pc = pc
    BY DEF Idle
  <2>3. job'[p].pc = pc /\ \A q \in Process \ {p} : job'[q] = job[q]
    BY <1>1, <2>1, <2>2 DEF Find
  <2> QED
    BY <1>3, <2>1, <2>3
<1>5. ASSUME NEW p \in Process, NEW c \in Customer, MergeInto(p, c)
      PROVE  \A q \in Process : BillFits(job'[q])
  <2>1. job'[p].pc = "join" /\ \A q \in Process \ {p} : job'[q] = job[q]
    BY <1>1, <1>5 DEF MergeInto, Job
  <2> QED
    BY <1>3, <2>1
<1>6. ASSUME NEW p \in Process, MakeCart(p) PROVE \A q \in Process : BillFits(job'[q])
  <2>1. job'[p].pc = job[p].pc /\ \A q \in Process \ {p} : job'[q] = job[q]
    BY <1>1, <1>6 DEF MakeCart, Job
  <2> QED
    BY <1>3, <1>6, <2>1 DEF MakeCart
<1>7. ASSUME NEW p \in Process, Return(p) PROVE \A q \in Process : BillFits(job'[q])
  <2>1. job'[p] = Idle /\ \A q \in Process \ {p} : job'[q] = job[q]
    BY <1>1, <1>7 DEF Return
  <2>2. Idle.pc # "commit"
    BY DEF Idle
  <2> QED
    BY <1>3, <2>1, <2>2
<1>8. ASSUME NEW p \in Process, NEW method \in Method, Price(p, method)
      PROVE  \A q \in Process : BillFits(job'[q])
  <2>1. \A q \in Process \ {p} : job'[q] = job[q]
    BY <1>1, <1>8 DEF Price
  <2> QED
    BY <1>3, <1>8, <2>1, PriceMakesBill
<1> QED
  BY <1>2, <1>4, <1>5, <1>6, <1>7, <1>8
     DEF CartNext, Add, AddBundle, Update, Remove, Join, Commit, Stop, Writing

(* What n units of a line give back, of an order with nothing off its lines*)
(* but a coupon.                                                           *)
LEMMA UnitsRefundIsNear ==
    ASSUME NEW quantity \in Nat \ {0}, NEW cost \in Nat, NEW subtotal \in Nat \ {0},
           NEW discount \in Nat, discount <= subtotal, NEW money,
           money.subtotal = subtotal, money.discountTotal = discount, NEW line,
           line.quantity = quantity, line.subtotal = cost, line.discount = 0,
           NEW n \in Nat \ {0}, n <= quantity, NEW back, back = UnitsRefund(line, money, n)
    PROVE  LET due == (2 * (subtotal - discount)) * cost
           IN  /\ back \in Nat
               /\ n * due - subtotal * quantity <= (2 * subtotal) * (quantity * back)
               /\ (2 * subtotal) * (quantity * back) <= n * due + subtotal * quantity
<1> DEFINE num == cost * (subtotal - discount)
<1>1. subtotal - discount \in Nat /\ num \in Nat
  BY ProductIsNat
<1>2. (cost - 0) * subtotal - discount * cost = num
  OBVIOUS
<1>3. LineNetPaid(line, money) = [num |-> num, den |-> subtotal]
  BY <1>1, <1>2 DEF LineNetPaid, AtLeastZero
<1> HIDE DEF num
<1>4. back = Rounded(num * n, subtotal * quantity)
  BY <1>3 DEF UnitsRefund, Least
<1>5. num * n \in Nat /\ subtotal * quantity \in Nat \ {0}
  BY <1>1, ProductIsNat
<1> DEFINE m == num * n
           d == subtotal * quantity
<1>6. back \in Nat /\ 2 * m - d <= 2 * d * back /\ 2 * d * back <= 2 * m + d
  <2> HIDE DEF m, d
  <2>1. m \in Nat /\ d \in Nat \ {0} /\ back = Rounded(m, d)
    BY <1>4, <1>5 DEF m, d
  <2> QED
    BY <2>1, RoundedIsNear
<1>7. 2 * m = n * ((2 * (subtotal - discount)) * cost)
  BY <1>1 DEF num
<1>8. 2 * d * back = (2 * subtotal) * (quantity * back)
  BY <1>6
<1> QED
  BY <1>6, <1>7, <1>8

LEMMA RefundsAddUp ==
    ASSUME NEW A, IsFiniteSet(A), NEW cost, NEW quantity, NEW money,
           \A v \in A : cost[v] \in Nat /\ quantity[v] \in Nat \ {0},
           money.subtotal = SumFunctionOnSet(cost, A), money.discountTotal \in Nat,
           money.discountTotal <= money.subtotal,
           NEW row, \A v \in A : /\ row[v].quantity = quantity[v] /\ row[v].subtotal = cost[v]
                                 /\ row[v].discount = 0,
           NEW whole, \A v \in A : whole[v] = UnitsRefund(row[v], money, quantity[v]),
           NEW single, \A v \in A : single[v] = quantity[v] * UnitsRefund(row[v], money, 1)
    PROVE  LET goods == money.subtotal - money.discountTotal
               units == SumFunctionOnSet(quantity, A)
           IN  /\ 2 * (SumFunctionOnSet(whole, A) - goods) \in (-Cardinality(A))..Cardinality(A)
               /\ 2 * (SumFunctionOnSet(single, A) - goods) \in (-units)..units
<1> DEFINE S == money.subtotal
           D == money.discountTotal
           units == SumFunctionOnSet(quantity, A)
           lines == Cardinality(A)
           wholeSum == SumFunctionOnSet(whole, A)
           singleSum == SumFunctionOnSet(single, A)
           one == [v \in A |-> 1]
<1>1. S \in Nat /\ D \in Nat /\ D <= S /\ units \in Nat /\ lines \in Nat
  BY SumIsNat, FS_CardinalityType
<1>2. SumFunctionOnSet(one, A) = lines
  BY SumOfOnes
<1>3. CASE S = 0
  <2> DEFINE zero == [v \in A |-> 0]
  <2>1. SumFunctionOnSet(zero, A) = 0
    BY SumOfZeros
  <2>2. \A v \in A : zero[v] \in Int /\ cost[v] \in Int /\ zero[v] <= cost[v] /\ zero[v] = 0
    OBVIOUS
  <2> HIDE DEF zero
  <2>3. SumFunctionOnSet(zero, A) >= SumFunctionOnSet(cost, A)
    BY <1>3, <2>1
  <2>4. ASSUME NEW v \in A PROVE cost[v] = 0
    <3>1. zero[v] = cost[v]
      BY <2>2, <2>3, SumTight
    <3> QED
      BY <2>2, <3>1
  <2>5. ASSUME NEW v \in A, NEW n \in Nat \ {0} PROVE UnitsRefund(row[v], money, n) = 0
    <3>1. LineNetPaid(row[v], money) = [num |-> 0, den |-> 1]
      BY <1>3, <2>4 DEF LineNetPaid, AtLeastZero
    <3>2. Rounded(0, 1 * quantity[v]) = 0
      <4>1. /\ Rounded(0, 1 * quantity[v]) \in Nat
            /\ 2 * (1 * quantity[v]) * Rounded(0, 1 * quantity[v]) <= 2 * 0 + 1 * quantity[v]
        <5>1. 0 \in Nat /\ 1 * quantity[v] \in Nat \ {0}
          OBVIOUS
        <5> QED
          BY <5>1, RoundedIsNear
      <4> DEFINE z == Rounded(0, 1 * quantity[v])
      <4>2. quantity[v] * (2 * z) <= quantity[v] * 1 /\ z \in Nat
        BY <4>1
      <4> HIDE DEF z
      <4>3. 2 * z <= 1
        BY <4>2, Cancel
      <4> QED
        BY <4>2, <4>3 DEF z
    <3>3. Least(n, quantity[v]) \in Nat /\ 0 * Least(n, quantity[v]) = 0
      BY DEF Least
    <3> QED
      BY <3>1, <3>2, <3>3 DEF UnitsRefund
  <2>6. \A v \in A : whole[v] = 0 /\ single[v] = 0
    BY <2>5
  <2>7. wholeSum = 0 /\ singleSum = 0
    BY <2>6, SumOfZeros
  <2> QED
    BY <1>1, <1>3, <2>7
<1>4. CASE S > 0
  <2> DEFINE b == 2 * (S - D)
             a == 2 * S
  <2>1. a \in Int /\ b \in Int /\ S \in Nat \ {0}
    BY <1>1, <1>4
  <2>0. money.subtotal = S /\ money.discountTotal = D /\ a = 2 * S /\ b = 2 * (S - D)
    OBVIOUS
  <2>2. ASSUME NEW v \in A
        PROVE  /\ whole[v] \in Nat
               /\ b * cost[v] - S * one[v] <= a * whole[v]
               /\ a * whole[v] <= b * cost[v] + S * one[v]
    <3> DEFINE q == quantity[v]
               c == cost[v]
               w == whole[v]
    <3>1. /\ q \in Nat \ {0} /\ c \in Nat /\ one[v] = 1 /\ q <= q
          /\ row[v].quantity = q /\ row[v].subtotal = c /\ row[v].discount = 0
          /\ w = UnitsRefund(row[v], money, q)
      OBVIOUS
    <3>2. /\ w \in Nat
          /\ q * (b * c) - S * q <= a * (q * w)
          /\ a * (q * w) <= q * (b * c) + S * q
      BY ONLY <1>1, <2>0, <2>1, <3>1, UnitsRefundIsNear
    <3> HIDE DEF q, c, w, a, b, S, one
    <3>3. q * (b * c - S) <= q * (a * w) /\ q * (a * w) <= q * (b * c + S)
      BY <2>1, <3>1, <3>2
    <3>4. b * c - S \in Int /\ a * w \in Int /\ b * c + S \in Int
      BY <2>1, <3>1, <3>2
    <3>5. b * c - S <= a * w /\ a * w <= b * c + S
      BY <3>1, <3>3, <3>4, Cancel
    <3>6. S * one[v] = S
      BY <2>1, <3>1
    <3> QED
      BY <3>2, <3>5, <3>6 DEF c, w
  <2>3. ASSUME NEW v \in A
        PROVE  /\ single[v] \in Nat
               /\ b * cost[v] - S * quantity[v] <= a * single[v]
               /\ a * single[v] <= b * cost[v] + S * quantity[v]
    <3> DEFINE q == quantity[v]
               c == cost[v]
               back == UnitsRefund(row[v], money, 1)
    <3>1. /\ q \in Nat \ {0} /\ c \in Nat /\ 1 \in Nat \ {0} /\ 1 <= q
          /\ row[v].quantity = q /\ row[v].subtotal = c /\ row[v].discount = 0
          /\ back = UnitsRefund(row[v], money, 1) /\ single[v] = q * back
      OBVIOUS
    <3> HIDE DEF back
    <3>2. /\ back \in Nat
          /\ 1 * (b * c) - S * q <= a * (q * back)
          /\ a * (q * back) <= 1 * (b * c) + S * q
      BY ONLY <1>1, <2>0, <2>1, <3>1, UnitsRefundIsNear
    <3> HIDE DEF q, c, a, b, S
    <3>3. single[v] \in Nat /\ 1 * (b * c) = b * c
      BY <2>1, <3>1, <3>2, ProductIsNat
    <3> QED
      BY <3>1, <3>2, <3>3 DEF q, c
  <2>4. \A v \in A : /\ whole[v] \in Int /\ single[v] \in Int /\ cost[v] \in Int
                     /\ quantity[v] \in Int /\ one[v] \in Int
    BY <2>2, <2>3
  <2>5. wholeSum \in Int /\ singleSum \in Int /\ S = SumFunctionOnSet(cost, A)
    BY <2>4, SumIsInt
  <2> HIDE DEF a, b, S, one
  <2>6. /\ b * SumFunctionOnSet(cost, A) - S * SumFunctionOnSet(one, A) <= a * wholeSum
        /\ a * wholeSum <= b * SumFunctionOnSet(cost, A) + S * SumFunctionOnSet(one, A)
    BY <2>1, <2>2, <2>4, SumWithin
  <2>7. /\ b * SumFunctionOnSet(cost, A) - S * units <= a * singleSum
        /\ a * singleSum <= b * SumFunctionOnSet(cost, A) + S * units
    BY <2>1, <2>3, <2>4, SumWithin
  <2> HIDE DEF D, units, lines, wholeSum, singleSum
  <2>8. /\ S * (b - lines) <= S * (2 * wholeSum) /\ S * (2 * wholeSum) <= S * (b + lines)
        /\ S * (b - units) <= S * (2 * singleSum) /\ S * (2 * singleSum) <= S * (b + units)
    BY <1>1, <1>2, <2>1, <2>5, <2>6, <2>7 DEF a
  <2>9. /\ b - lines \in Int /\ b + lines \in Int /\ b - units \in Int /\ b + units \in Int
        /\ 2 * wholeSum \in Int /\ 2 * singleSum \in Int
    BY <1>1, <2>1, <2>5
  <2>10. /\ b - lines <= 2 * wholeSum /\ 2 * wholeSum <= b + lines
         /\ b - units <= 2 * singleSum /\ 2 * singleSum <= b + units
    BY <2>1, <2>8, <2>9, Cancel
  <2>11. /\ 2 * (wholeSum - (S - D)) \in (-lines)..lines
         /\ 2 * (singleSum - (S - D)) \in (-units)..units
    BY <1>1, <2>1, <2>5, <2>10 DEF b
  <2> QED
    BY <2>11 DEF S, D, units, lines, wholeSum, singleSum
<1> QED
  BY <1>1, <1>3, <1>4
LEMMA BundleAtItsPrice ==
    ASSUME TypeOK, LinesAtShare
    PROVE  BundlePrice
<1> SUFFICES ASSUME NEW k \in CartId, NEW b \in Bundle, RegularTotal(Product, b) > 0,
                    \A v \in Variant : /\ cart[k].line[v].quantity = b.quantity[v]
                                       /\ b.quantity[v] > 0 => cart[k].line[v].bundle = b
             PROVE  2 * (SumFunctionOnSet([v \in Variant |-> cart[k].line[v].override
                                                              * cart[k].line[v].quantity], Variant)
                            - b.price)
                    \in (-SumFunctionOnSet(b.quantity, Variant))..SumFunctionOnSet(b.quantity, Variant)
  BY DEF BundlePrice
<1> DEFINE override == [v \in Variant |-> cart[k].line[v].override]
<1>1. \A v \in Variant : cart[k].line[v] \in Line
  BY DEF TypeOK, CartRow
<1>2. \A v \in Variant : override[v] \in Int
  BY <1>1 DEF Line, None
<1>3. \A v \in Variant : b.quantity[v] > 0 => override[v] = UnitShare(Product, b, v)
  BY NullAssumption DEF LinesAtShare, AtShare
<1>4. [v \in Variant |-> cart[k].line[v].override * cart[k].line[v].quantity]
         = [v \in Variant |-> override[v] * b.quantity[v]]
  OBVIOUS
<1> HIDE DEF override
<1>5. 2 * (SumFunctionOnSet([v \in Variant |-> override[v] * b.quantity[v]], Variant) - b.price)
         \in (-SumFunctionOnSet(b.quantity, Variant))..SumFunctionOnSet(b.quantity, Variant)
  BY <1>2, <1>3, SharesAddUp
<1> QED
  BY <1>4, <1>5

LEMMA BillIsPaidBack ==
    ASSUME TypeOK, NEW p \in Process, job[p].pc = "commit", BillFits(job[p])
    PROVE  LET bill == job[p].bill
               goods == bill.total - bill.shipping
               bought == {v \in Variant : bill.line[v].quantity > 0}
               row(v) == [quantity |-> bill.line[v].quantity, subtotal |-> bill.line[v].subtotal,
                          discount |-> 0]
               Refund(v, n) == UnitsRefund(row(v), Money(bill), n)
               whole == SumFunctionOnSet([v \in Variant |-> Refund(v, bill.line[v].quantity)], bought)
               single == SumFunctionOnSet([v \in Variant |-> bill.line[v].quantity * Refund(v, 1)],
                                          bought)
               lines == Cardinality(bought)
               units == SumFunctionOnSet([v \in Variant |-> bill.line[v].quantity], bought)
           IN  /\ 2 * (whole - goods) \in (-lines)..lines
               /\ 2 * (single - goods) \in (-units)..units
               /\ \A v \in bought : 2 * bill.line[v].vat <= bill.line[v].subtotal + 1
<1> DEFINE seen == job[p].seen
           A == Active(seen)
           bill == job[p].bill
<1>1. PICK rate \in Nat, discount \in Nat, freeShipping \in BOOLEAN :
         discount <= SubtotalOf(seen) /\ bill = BillFor(seen, rate, discount, freeShipping)
  BY DEF BillFits
<1>2. seen \in [Variant -> Line]
  BY DEF TypeOK, Job
<1> HIDE DEF seen
<1>3. A \in SUBSET Variant /\ IsFiniteSet(A)
  BY FiniteAssumption, FS_Subset DEF Active
<1>4. SubtotalOf(seen) \in Nat /\ \A v \in Variant : seen[v].quantity \in Nat
  BY <1>2, CostIsNat DEF SubtotalOf, Line
<1>5. /\ bill.subtotal = SubtotalOf(seen) /\ bill.discount = discount
      /\ bill.shipping \in Nat
      /\ bill.total = SubtotalOf(seen) - discount + bill.shipping
  BY <1>1 DEF BillFor
<1>6. /\ \A v \in A : bill.line[v] = OrderLine(v, seen[v])
      /\ \A v \in Variant \ A : bill.line[v].quantity = 0
  <2>1. bill.line = [v \in Variant |-> IF v \in A THEN OrderLine(v, seen[v]) ELSE NoBill.line[v]]
    BY <1>1 DEF BillFor
  <2>2. \A v \in Variant : NoBill.line[v].quantity = 0
    BY DEF NoBill
  <2> QED
    BY <1>3, <2>1, <2>2
<1>7. \A v \in A : /\ bill.line[v].quantity = seen[v].quantity /\ seen[v].quantity \in Nat \ {0}
                   /\ bill.line[v].subtotal = Cost(seen)[v]
                   /\ Cost(seen)[v] \in Nat
                   /\ bill.line[v].vat = VatWithin(Cost(seen)[v], Product[v].vat)
  <2>1. \A v \in A : seen[v].quantity \in Nat \ {0}
    BY <1>3, <1>4 DEF Active
  <2>2. \A v \in A : /\ Cost(seen)[v] = RegularPrice(Product[v]) * seen[v].quantity
                     /\ Cost(seen)[v] \in Nat
    BY <1>3, <1>4, ProductRow, ProductIsNat DEF Cost
  <2>3. \A v \in Variant : OrderLine(v, seen[v]) =
           [quantity |-> seen[v].quantity, subtotal |-> RegularPrice(Product[v]) * seen[v].quantity,
            vat |-> VatWithin(RegularPrice(Product[v]) * seen[v].quantity, Product[v].vat)]
    BY DEF OrderLine
  <2> HIDE DEF bill, A
  <2>4. ASSUME NEW v \in A
        PROVE  /\ bill.line[v].quantity = seen[v].quantity
               /\ bill.line[v].subtotal = Cost(seen)[v]
               /\ bill.line[v].vat = VatWithin(Cost(seen)[v], Product[v].vat)
    <3>1. bill.line[v] = [quantity |-> seen[v].quantity, subtotal |-> Cost(seen)[v],
                          vat |-> VatWithin(Cost(seen)[v], Product[v].vat)]
      BY <1>3, <1>6, <2>2, <2>3
    <3> QED
      BY ONLY <3>1
  <2> QED
    BY <2>1, <2>2, <2>4
<1>8. {v \in Variant : bill.line[v].quantity > 0} = A
  BY <1>3, <1>6, <1>7
<1> HIDE DEF A, bill
<1>9. Money(bill).subtotal = SumFunctionOnSet(Cost(seen), A) /\ Money(bill).discountTotal = discount
  BY <1>5 DEF Money, SubtotalOf, A
<1> DEFINE row(v) == [quantity |-> bill.line[v].quantity, subtotal |-> bill.line[v].subtotal,
                      discount |-> 0]
           rows == [v \in A |-> row(v)]
           quantity == [v \in Variant |-> bill.line[v].quantity]
           whole == [v \in Variant |-> UnitsRefund(row(v), Money(bill), bill.line[v].quantity)]
           single == [v \in Variant |-> bill.line[v].quantity * UnitsRefund(row(v), Money(bill), 1)]
           goods == bill.total - bill.shipping
<1>10. \A v \in A : /\ Cost(seen)[v] \in Nat /\ quantity[v] \in Nat \ {0}
                    /\ rows[v].quantity = quantity[v] /\ rows[v].subtotal = Cost(seen)[v]
                    /\ rows[v].discount = 0
                    /\ whole[v] = UnitsRefund(rows[v], Money(bill), quantity[v])
                    /\ single[v] = quantity[v] * UnitsRefund(rows[v], Money(bill), 1)
  BY <1>3, <1>7
<1>11. goods = Money(bill).subtotal - Money(bill).discountTotal
  BY <1>4, <1>5, <1>9 DEF SubtotalOf, A
<1>12. Money(bill).discountTotal \in Nat /\ Money(bill).discountTotal <= Money(bill).subtotal
  BY <1>1, <1>5, <1>9 DEF SubtotalOf, A
<1> DEFINE money == Money(bill)
<1> HIDE DEF rows, quantity, whole, single, goods, row
<1>13. /\ 2 * (SumFunctionOnSet(whole, A) - goods) \in (-Cardinality(A))..Cardinality(A)
       /\ 2 * (SumFunctionOnSet(single, A) - goods)
             \in (-SumFunctionOnSet(quantity, A))..SumFunctionOnSet(quantity, A)
  <2>1. /\ money.subtotal = SumFunctionOnSet(Cost(seen), A)
        /\ money.discountTotal \in Nat /\ money.discountTotal <= money.subtotal
        /\ goods = money.subtotal - money.discountTotal
    BY <1>9, <1>11, <1>12
  <2>2. \A v \in A : Cost(seen)[v] \in Nat /\ quantity[v] \in Nat \ {0}
    BY <1>10
  <2>3. \A v \in A : /\ rows[v].quantity = quantity[v] /\ rows[v].subtotal = Cost(seen)[v]
                     /\ rows[v].discount = 0
    BY <1>10
  <2>4. /\ \A v \in A : whole[v] = UnitsRefund(rows[v], money, quantity[v])
        /\ \A v \in A : single[v] = quantity[v] * UnitsRefund(rows[v], money, 1)
    BY <1>10
  <2> DEFINE cost == Cost(seen)
  <2> HIDE DEF money, A, cost
  <2>5. /\ IsFiniteSet(A)
        /\ money.subtotal = SumFunctionOnSet(cost, A)
        /\ \A v \in A : cost[v] \in Nat /\ quantity[v] \in Nat \ {0}
        /\ \A v \in A : /\ rows[v].quantity = quantity[v] /\ rows[v].subtotal = cost[v]
                        /\ rows[v].discount = 0
    BY <1>3, <2>1, <2>2, <2>3 DEF cost
  <2> QED
    BY ONLY <2>1, <2>4, <2>5, RefundsAddUp
<1>14. \A v \in A : 2 * bill.line[v].vat <= bill.line[v].subtotal + 1
  BY <1>3, <1>7, ProductRow, VatWithinHalf
<1> QED
  BY <1>8, <1>13, <1>14 DEF whole, single, goods, quantity, row, bill

(* A cart with a bundle shows the bundle's price and an order's lines give *)
(* back what was paid for its goods, to within half a penny for each unit  *)
(* or line, with VAT within the price (CartService.addBundleItems,         *)
(* OrdersService.checkout, unitsRefund of return-rules.ts), for any prices,*)
(* bundles and coupons.                                                    *)
THEOREM PenniesAreFew == CartSpec => []PenniesFit
<1> DEFINE BillsFit == \A p \in Process : BillFits(job[p])
           Inv == CartInv /\ LinesAtShare /\ BillsFit
<1>1. CartInit => Inv
  <2>1. CartInit => BillsFit
    BY DEF CartInit, BillFits, Idle
  <2> QED
    BY <2>1, CartInitInv, InitAtShare
<1>2. Inv /\ [CartNext]_vars => Inv'
  <2>1. Inv /\ [CartNext]_vars => BillsFit'
    BY BillsStayFit DEF BillFits
  <2> QED
    BY <2>1, CartStep, LinesStayAtShare
<1>3. Inv => PenniesFit
  <2>1. Inv => BundlePrice
    BY BundleAtItsPrice DEF CartInv
  <2>2. Inv => RefundsFitBill
    BY BillIsPaidBack DEF CartInv, RefundsFitBill
  <2> QED
    BY <2>1, <2>2 DEF PenniesFit
<1> HIDE DEF Inv
<1> QED
  BY <1>1, <1>2, <1>3, PTL DEF CartSpec
=============================================================================
