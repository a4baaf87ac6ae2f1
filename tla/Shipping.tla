------------------------------ MODULE Shipping ------------------------------
(***************************************************************************)
(* Delivery methods, their rate bands and the parcels of orders            *)
(* (ShippingMethodsService, ShipmentsService). An administrator's request  *)
(* looks first and writes later, without a transaction around the two;     *)
(* parcels are inserted under a unique (carrier, key).                     *)
(*                                                                         *)
(*   method   the rows: kind, flat rate (NoRate is null), a set of bands   *)
(*            [min, max, crossed]; kind is "none" before and "gone" after   *)
(*   sale     the orders: payment, status, delivery method, Lost once the  *)
(*            method's row is gone (the foreign key is set to null)        *)
(*   parcel   the order of the parcel under a key, or NoOrder              *)
(*   clerk    the requests in progress; crossed tells that another request *)
(*            wrote what this one looked at                                *)
(***************************************************************************)
EXTENDS Naturals, FiniteSets

CONSTANTS Method, Sale, Key, Clerk,
          Band,        \* the [min, max] an administrator may add, weights in grams
          Rate, NoRate, NoOrder, Lost,
          MaxBands     \* bound on the bands of a method

(* The service refuses a band whose ends are not in order.                 *)
RateBandDto == {band \in [min : Nat, max : Nat] : band.min < band.max}

ASSUME BandAssumption ==
    /\ Band \subseteq RateBandDto
    /\ NoRate \notin Rate /\ Lost \notin Method /\ NoOrder \notin Sale

Kind == {"FLAT", "WEIGHT_BANDED"}

VARIABLES method, sale, parcel, clerk

shippingVars == <<method, sale, parcel, clerk>>

NoMethod == [kind |-> "none", flat |-> NoRate, bands |-> {}, nulled |-> FALSE]

(* Ids are not used again: a removed method is gone.                       *)
Offered(m) == method[m].kind \in Kind

Unplaced == [pay |-> "none", status |-> "none", method |-> Lost]

Free == [step |-> "idle"]

ShippingInit ==
    /\ method = [m \in Method |-> NoMethod]
    /\ sale = [o \in Sale |-> Unplaced]
    /\ parcel = [k \in Key |-> NoOrder]
    /\ clerk = [c \in Clerk |-> Free]

(* The requests at a step that looked at something are told it was written.*)
Told(step, field, what) ==
    [c \in Clerk |-> IF clerk[c].step = step /\ clerk[c][field] = what
                     THEN [clerk[c] EXCEPT !.crossed = TRUE] ELSE clerk[c]]

-----------------------------------------------------------------------------
(* Methods. What a request may send as flatRate: a rate, null, or nothing. *)

Sent == Rate \cup {NoRate, "absent"}

CreateMethod(m, kind, flat) ==
    /\ method[m] = NoMethod
    /\ kind = "FLAT" => flat # "absent"
    /\ method' = [method EXCEPT ![m] =
                    [kind |-> kind, flat |-> IF flat = "absent" THEN NoRate ELSE flat,
                     bands |-> {}, nulled |-> flat = NoRate]]
    /\ UNCHANGED <<sale, parcel, clerk>>

(* The check on the copy: a rate that is sent, else the current one; null  *)
(* counts as not sent.                                                     *)
CheckUpdate(c, m, kind, flat) ==
    LET kindAfter == IF kind = "absent" THEN method[m].kind ELSE kind
        rate == IF flat \in {NoRate, "absent"} THEN method[m].flat ELSE flat
    IN  /\ clerk[c] = Free /\ Offered(m)
        /\ kindAfter = "FLAT" => rate # NoRate
        /\ clerk' = [clerk EXCEPT ![c] = [step |-> "update", row |-> m, kind |-> kind,
                                          flat |-> flat, crossed |-> FALSE]]
        /\ UNCHANGED <<method, sale, parcel>>

(* The write sends null on as it came.                                     *)
Changed(row, ask) ==
    [row EXCEPT !.kind = IF ask.kind = "absent" THEN @ ELSE ask.kind,
                !.flat = IF ask.flat = "absent" THEN @ ELSE ask.flat,
                !.nulled = @ \/ ask.flat = NoRate \/ ask.crossed]

UpdateMethod(c) ==
    LET ask == clerk[c] IN
    /\ ask.step = "update"
    /\ method' = IF ~Offered(ask.row) THEN method
                 ELSE [method EXCEPT ![ask.row] = Changed(@, ask)]
    /\ clerk' = [Told("update", "row", ask.row) EXCEPT ![c] = Free]
    /\ UNCHANGED <<sale, parcel>>

Ordered(m) == {o \in Sale : sale[o].method = m}

CheckUnused(c, m) ==
    /\ clerk[c] = Free /\ Offered(m)
    /\ Ordered(m) = {}
    /\ clerk' = [clerk EXCEPT ![c] = [step |-> "remove", row |-> m, crossed |-> FALSE]]
    /\ UNCHANGED <<method, sale, parcel>>

(* Bands go with the method; orders placed meanwhile lose it.              *)
RemoveMethod(c) ==
    LET m == clerk[c].row IN
    /\ clerk[c].step = "remove"
    /\ method' = [method EXCEPT ![m] = [NoMethod EXCEPT !.kind = "gone"]]
    /\ sale' = [o \in Sale |-> IF sale[o].method = m THEN [sale[o] EXCEPT !.method = Lost] ELSE sale[o]]
    /\ clerk' = [clerk EXCEPT ![c] = Free]
    /\ UNCHANGED parcel

-----------------------------------------------------------------------------
(* Rate bands: half-open against each other, though a rate is looked up    *)
(* with both ends included (Rates in PriceRules).                          *)

BandsOverlap(a, b) == a.min < b.max /\ b.min < a.max

Inside(a, b) == b.min <= a.min /\ a.min < b.max     \* mutant: looks at the lower end only

CheckBandInside(c, m, band) ==           \* mutant: misses a band around another
    /\ clerk[c] = Free /\ Offered(m)
    /\ \A b \in method[m].bands : ~Inside(band, b)
    /\ clerk' = [clerk EXCEPT ![c] = [step |-> "band", row |-> m, band |-> band, crossed |-> FALSE]]
    /\ UNCHANGED <<method, sale, parcel>>

CheckBand(c, m, band) ==
    /\ clerk[c] = Free /\ Offered(m)
    /\ Cardinality(method[m].bands) < MaxBands
    /\ \A b \in method[m].bands : ~BandsOverlap(band, b)
    /\ clerk' = [clerk EXCEPT ![c] = [step |-> "band", row |-> m, band |-> band, crossed |-> FALSE]]
    /\ UNCHANGED <<method, sale, parcel>>

(* A band of a method that is gone fails on the foreign key.               *)
AddBand(c) ==
    LET m == clerk[c].row
        b == clerk[c].band
    IN  /\ clerk[c].step = "band"
        /\ method' = IF ~Offered(m) THEN method
                     ELSE [method EXCEPT ![m].bands =
                             @ \cup {[min |-> b.min, max |-> b.max, crossed |-> clerk[c].crossed]}]
        /\ clerk' = [Told("band", "row", m) EXCEPT ![c] = Free]
        /\ UNCHANGED <<sale, parcel>>

RemoveBand(m, b) ==
    /\ b \in method[m].bands
    /\ method' = [method EXCEPT ![m].bands = @ \ {b}]
    /\ UNCHANGED <<sale, parcel, clerk>>

-----------------------------------------------------------------------------
(* Orders, as far as parcels see them.                                     *)

Place(o, m) ==
    /\ sale[o] = Unplaced /\ Offered(m)
    /\ sale' = [sale EXCEPT ![o] = [pay |-> "PENDING", status |-> "AWAITING_PAYMENT", method |-> m]]
    /\ clerk' = Told("remove", "row", m)
    /\ UNCHANGED <<method, parcel>>

Settle(o, pay, status) ==
    /\ sale[o] # Unplaced
    /\ sale' = [sale EXCEPT ![o].pay = pay, ![o].status = status]
    /\ clerk' = Told("ship", "order", o)
    /\ UNCHANGED <<method, parcel>>

Shippable(o) ==
    /\ sale[o].pay \in {"PAID", "PARTIALLY_REFUNDED"}
    /\ sale[o].status \notin {"CANCELLED", "FAILED", "DELIVERED"}

ReadOrder(c, o, key) ==
    /\ clerk[c] = Free
    /\ Shippable(o)
    /\ clerk' = [clerk EXCEPT ![c] = [step |-> "ship", order |-> o, key |-> key, crossed |-> FALSE]]
    /\ UNCHANGED <<method, sale, parcel>>

(* ON CONFLICT DO NOTHING: the parcel that is there is the answer when it  *)
(* is of this order, and a conflict otherwise; both leave it alone.        *)
Ship(c) ==
    LET ask == clerk[c] IN
    /\ ask.step = "ship"
    /\ parcel' = [parcel EXCEPT ![ask.key] = IF @ = NoOrder THEN ask.order ELSE @]
    /\ clerk' = [clerk EXCEPT ![c] = Free]
    /\ UNCHANGED <<method, sale>>

ShippingNext ==
    \/ \E m \in Method, kind \in Kind, flat \in Sent : CreateMethod(m, kind, flat)
    \/ \E c \in Clerk, m \in Method :
          \/ \E kind \in Kind \cup {"absent"}, flat \in Sent : CheckUpdate(c, m, kind, flat)
          \/ CheckUnused(c, m)
          \/ \E band \in Band : CheckBand(c, m, band)
    \/ \E c \in Clerk : UpdateMethod(c) \/ RemoveMethod(c) \/ AddBand(c) \/ Ship(c)
    \/ \E m \in Method : \E b \in method[m].bands : RemoveBand(m, b)
    \/ \E o \in Sale : \/ \E m \in Method : Place(o, m)
                       \/ Settle(o, "PAID", "PROCESSING") \/ Settle(o, "PAID", "CANCELLED")
                       \/ Settle(o, "REFUNDED", "PROCESSING")
    \/ \E c \in Clerk, o \in Sale, key \in Key : ReadOrder(c, o, key)

ShippingSpec == ShippingInit /\ [][ShippingNext]_shippingVars

-----------------------------------------------------------------------------
(* Properties.                                                             *)

(* Two bands of a method overlap only when one was added while a write to  *)
(* the method crossed its request: no constraint of the database keeps     *)
(* them apart (addRateBand).                                               *)
BandsApart ==
    \A m \in Method : \A a, b \in method[m].bands :
        a # b /\ BandsOverlap(a, b) => a.crossed \/ b.crossed

(* A flat-rate method has its rate unless a request sent null for it or    *)
(* two updates crossed; without one it is offered to nobody.               *)
FlatIsPriced ==
    \A m \in Method : method[m].kind = "FLAT" => method[m].flat # NoRate \/ method[m].nulled

(* An order loses its delivery method only when it was placed while the    *)
(* method was being removed.                                               *)
RemovalSparesOrders ==
    \A c \in Clerk : clerk[c].step = "remove" /\ Ordered(clerk[c].row) # {} => clerk[c].crossed

(* The request of a parcel is for an order that may be shipped, as long as *)
(* the order stays as it was read.                                         *)
ParcelsArePaidFor ==
    \A c \in Clerk : clerk[c].step = "ship" => clerk[c].crossed \/ Shippable(clerk[c].order)

(* A delivery method is priced, its bands do not compete, orders keep it   *)
(* and parcels go out for orders that are paid: the four above.            *)
ShippingHolds == BandsApart /\ FlatIsPriced /\ RemovalSparesOrders /\ ParcelsArePaidFor

=============================================================================
