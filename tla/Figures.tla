------------------------------- MODULE Figures ------------------------------
(***************************************************************************)
(* The figures the office draws (ReportsService, CustomersService.list and *)
(* .summary, OrdersService.abandonedCarts): each is a query of its own     *)
(* over the same rows, and they ought to agree with each other and with    *)
(* what was sold.                                                          *)
(*                                                                         *)
(*   books    the orders, each of one line, and a cart left behind         *)
(*   report   what was drawn from them for one range and grouping          *)
(*                                                                         *)
(* An order is [day, client, pay, total, refunded, area, product, units,   *)
(* returned]; Visitor is the client of a guest's order and no client. A    *)
(* cart is [product, line], see PriceRules. Days count from a Monday.      *)
(***************************************************************************)
EXTENDS Integers, FiniteSetsExt

CONSTANTS Book, Client, Visitor, Query, Undrawn,
          Product, CategoryOf, BrandOf, Unbranded,
          LiveProduct,     \* those not deleted since
          WeekLength, MonthStart

ASSUME ShelfAssumption ==
    CategoryOf \in [Product -> Nat] /\ BrandOf \in [Product -> Nat] /\ LiveProduct \subseteq Product
ASSUME PeopleAssumption == IsFiniteSet(Client) /\ IsFiniteSet(Product) /\ Visitor \notin Client
ASSUME CalendarAssumption == WeekLength \in Nat \ {0} /\ 0 \in MonthStart /\ MonthStart \subseteq Nat

ASSUME QueryAssumption ==
    \A query \in Query : {query.from, query.to} \subseteq Nat /\ query.group \in {"day", "week", "month"}

Rules == INSTANCE PriceRules

(* An order as its row has it. A variant has one tier for a minimum.       *)
OrderRow(order) ==
    /\ {order.day, order.total, order.refunded, order.units} \subseteq Nat
    /\ order.client \in Client \cup {Visitor} /\ order.product \in Product

ASSUME BookAssumption ==
    \A book \in Book :
        /\ IsFiniteSet(DOMAIN book.orders) /\ \A o \in DOMAIN book.orders : OrderRow(book.orders[o])
        /\ book.cart.product.price \in Nat /\ book.cart.product.sale \in Nat \cup {Rules!None}
        /\ IsFiniteSet(book.cart.product.tiers)
        /\ \A tier \in book.cart.product.tiers :
              /\ tier.min \in Nat /\ tier.price \in Nat
              /\ \A other \in book.cart.product.tiers : tier.min = other.min => tier = other

VARIABLES books, report

figureVars == <<books, report>>

Settled == {"PAID", "PARTIALLY_REFUNDED", "REFUNDED"}

Kept == {"PAID", "PARTIALLY_REFUNDED"}

(* The orders of a range with one of these payment statuses.               *)
Within(query, pays) ==
    {o \in DOMAIN books.orders : books.orders[o].day \in query.from..query.to /\ books.orders[o].pay \in pays}

Sum(field, orders) == SumFunctionOnSet([o \in orders |-> books.orders[o][field]], orders)

Net(orders) == Sum("total", orders) - Sum("refunded", orders)

-----------------------------------------------------------------------------
(* Sales over time.                                                        *)

(* The first day of the period a day falls into.                           *)
Period(day, group) ==
    CASE group = "day" -> day
      [] group = "week" -> day - (day % WeekLength)
      [] group = "month" -> Max({m \in MonthStart : m <= day})

(* The cursor walks from the start of the first period to the last day.    *)
PeriodsFrom(start, query) ==
    {day \in start..query.to : CASE query.group = "day" -> TRUE
                                 [] query.group = "week" -> (day - start) % WeekLength = 0
                                 [] query.group = "month" -> day \in MonthStart}

PeriodsOfRange(query) == PeriodsFrom(query.from, query)  \* mutant: walks from the first day

Periods(query) == PeriodsFrom(Period(query.from, query.group), query)

Sales(query) ==
    [day \in Periods(query) |->
        LET mine == {o \in Within(query, Settled) : Period(books.orders[o].day, query.group) = day}
        IN  [gross |-> Sum("total", mine), refunds |-> Sum("refunded", mine),
             orders |-> Cardinality(mine)]]

-----------------------------------------------------------------------------
(* Who bought.                                                             *)

Buyers(orders) == {books.orders[o].client : o \in orders} \ {Visitor}

During(query) == Buyers(Within(query, Kept))

Before(query) == Buyers(Within([from |-> 0, to |-> query.from - 1], Kept)) \cap During(query)

(* totalSpent of the best customers; all of them here, the code keeps ten. *)
Spending(query) ==
    [c \in During(query) |-> Net({o \in Within(query, Kept) : books.orders[o].client = c})]

SettledOrders(c) ==
    {o \in DOMAIN books.orders : books.orders[o].client = c /\ books.orders[o].pay \in Settled}

(* The badge of a row of the list.                                         *)
Badge(c) ==
    LET count == Cardinality(SettledOrders(c)) IN
    IF count >= 2 THEN "RETURNING" ELSE IF count = 1 THEN "FIRST_TIME" ELSE "POTENTIAL"

(* The filter of the list groups the orders by customer first.             *)
Listed(segment) ==
    {c \in Client : LET count == Cardinality(SettledOrders(c)) IN
        CASE segment = "RETURNING" -> count >= 2
          [] segment = "FIRST_TIME" -> count = 1
          [] segment = "POTENTIAL" -> SettledOrders(c) = {}}

(* The query of the summary tile.                                          *)
ReturningCustomers == Cardinality({c \in Client : Cardinality(SettledOrders(c)) >= 2})

-----------------------------------------------------------------------------
(* What was bought, from where.                                            *)

(* The lines that count: of kept orders, and not returned.                 *)
Sold(query) == {o \in Within(query, Kept) : ~books.orders[o].returned}

ProductRows(query) ==
    [p \in LiveProduct |-> Sum("units", {o \in Sold(query) : books.orders[o].product = p})]

SoldBy(query, of) ==
    [k \in {of[books.orders[o].product] : o \in Sold(query)} |->
        Sum("units", {o \in Sold(query) : of[books.orders[o].product] = k})]

ByCategory(query) == SoldBy(query, CategoryOf)

(* Products without a brand are left out.                                  *)
ByBrand(query) == [b \in DOMAIN SoldBy(query, BrandOf) \ {Unbranded} |-> SoldBy(query, BrandOf)[b]]

ByArea(query) ==
    [a \in {books.orders[o].area : o \in Within(query, Kept)} |->
        Net({o \in Within(query, Kept) : books.orders[o].area = a})]

-----------------------------------------------------------------------------
(* A cart left behind, priced as the desk prices it.                       *)

BestTier(product, quantity) ==
    LET reached == {tier \in product.tiers : quantity >= tier.min} IN
    {tier \in reached : \A other \in reached : other.min <= tier.min}

DeskPrice(product, line) ==
    LET base == IF product.sale # Rules!None THEN product.sale ELSE product.price
        cheaper == {tier \in BestTier(product, line.quantity) : tier.price < base}
    IN  IF line.override # Rules!None THEN line.override
        ELSE IF cheaper # {} THEN (CHOOSE tier \in cheaper : TRUE).price ELSE base

CartValue == DeskPrice(books.cart.product, books.cart.line) * books.cart.line.quantity

-----------------------------------------------------------------------------

FiguresInit == books \in Book /\ report = Undrawn

Drawing(query) ==
    [query |-> query, sales |-> Sales(query), spend |-> Spending(query),
     newCustomers |-> Cardinality(During(query)) - Cardinality(Before(query)),
     returningCustomers |-> Cardinality(Before(query)),
     products |-> ProductRows(query), categories |-> ByCategory(query),
     brands |-> ByBrand(query), areas |-> ByArea(query),
     segments |-> [s \in {"POTENTIAL", "FIRST_TIME", "RETURNING"} |-> Listed(s)],
     badges |-> [c \in Client |-> Badge(c)], returning |-> ReturningCustomers,
     value |-> CartValue]

Draw(query) ==
    /\ report = Undrawn /\ query.from <= query.to
    /\ report' = Drawing(query)
    /\ UNCHANGED books

FiguresNext == \E query \in Query : Draw(query)

FiguresSpec == FiguresInit /\ [][FiguresNext]_figureVars

-----------------------------------------------------------------------------
(* Properties, each about a report that was drawn.                         *)

Total(function) == SumFunctionOnSet(function, DOMAIN function)

Drawn(P) == report # Undrawn => P

(* Every settled order of the range shows in one point of the sales report,*)
(* whatever day the range begins on.                                       *)
SalesAddUp ==
    Drawn(LET points == report.sales
              found == Within(report.query, Settled)
          IN  /\ Total([d \in DOMAIN points |-> points[d].orders]) = Cardinality(found)
              /\ Total([d \in DOMAIN points |-> points[d].gross - points[d].refunds]) = Net(found))

(* Buyers of the range are new or returning; the areas and the spenders    *)
(* share the same revenue, guests aside.                                   *)
BuyersAddUp ==
    Drawn(/\ report.newCustomers + report.returningCustomers = Cardinality(DOMAIN report.spend)
          /\ report.newCustomers >= 0
          /\ Total(report.areas) = Total(report.spend)
                 + Net({o \in Within(report.query, Kept) : books.orders[o].client = Visitor}))

(* The units by category are those by product, but for products deleted    *)
(* since, which only the first still counts; brands are a part of them.    *)
SharesAddUp ==
    Drawn(/\ Total(report.categories) = Total(report.products)
                 + Sum("units", {o \in Sold(report.query) : books.orders[o].product \notin LiveProduct})
          /\ Total(report.brands) <= Total(report.categories))

(* A list filtered by segment holds the customers with its badge, and the  *)
(* tile counts the returning ones.                                         *)
SegmentsAgree ==
    Drawn(/\ \A c \in Client, s \in DOMAIN report.segments : c \in report.segments[s] <=> report.badges[c] = s
          /\ report.returning = Cardinality(report.segments["RETURNING"]))

(* A cart left behind is worth what its customer sees in it.               *)
ValuedAsShown ==
    Drawn(report.value = Rules!CartPrice(books.cart.product, books.cart.line) * books.cart.line.quantity)

(* The figures agree: the five above.                                      *)
FiguresAgree == SalesAddUp /\ BuyersAddUp /\ SharesAddUp /\ SegmentsAgree /\ ValuedAsShown

=============================================================================
