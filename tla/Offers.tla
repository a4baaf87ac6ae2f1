------------------------------- MODULE Offers -------------------------------
(***************************************************************************)
(* Bundles and coupons as marketing edits them (BundlesService,            *)
(* CouponsService) and bundles as the shop lists them                      *)
(* (StorefrontBundlesService). A request looks first and writes later. The *)
(* items of a bundle are replaced in a transaction at READ COMMITTED: the  *)
(* rows it deletes are those its DELETE sees, so two that overlap may      *)
(* leave the items of both. Titles, prices and whether the variants exist  *)
(* are left out; automatic discounts are edited like coupons, without a    *)
(* code, and nothing reads them.                                           *)
(*                                                                         *)
(*   bundle   product_bundles with their items; removed ones keep the slug *)
(*   coupon   coupons; crossed as told below                               *)
(*   task     the requests under way: gone is the items the DELETE of an   *)
(*            update saw, crossed that another request has written its row *)
(*            since it looked (history, kept by the row it writes)         *)
(*   today    the clock                                                    *)
(***************************************************************************)
EXTENDS Naturals, FiniteSets

CONSTANTS Bundle, Coupon, Task,
          BundleEdit, CouponEdit,   \* what may be asked: records of the fields named
          Unset,                  \* no date, and no slug or code
          LastDay                   \* bound on the clock

Discount == {"PERCENT", "FIXED", "FREE_SHIPPING"}

(* A bundle has an item at least; its dates may be cleared by null. A null *)
(* date of a coupon changes nothing. A slug or a code is never null.       *)
Date == Nat \cup {Unset}

BundleDto(edit) ==
    /\ DOMAIN edit \subseteq {"slug", "items", "status", "from", "till"}
    /\ "slug" \in DOMAIN edit => edit.slug # Unset
    /\ \A field \in {"from", "till"} \cap DOMAIN edit : edit[field] \in Date
    /\ "items" \in DOMAIN edit => edit.items # {}

CouponDto(edit) ==
    /\ DOMAIN edit \subseteq {"code", "kind", "amount", "from", "till"}
    /\ "code" \in DOMAIN edit => edit.code # Unset
    /\ "kind" \in DOMAIN edit => edit.kind \in Discount

ASSUME OffersAssumption ==
    /\ LastDay \in Nat /\ Unset \notin Nat
    /\ \A edit \in BundleEdit : BundleDto(edit)
    /\ \A edit \in CouponEdit : CouponDto(edit)

VARIABLES bundle, coupon, task, today

offerVars == <<bundle, coupon, task, today>>

NoBundle == [slug |-> Unset, items |-> {}, status |-> "ACTIVE", from |-> Unset,
             till |-> Unset, live |-> FALSE, crossed |-> FALSE]

NoCoupon == [code |-> Unset, kind |-> "FREE_SHIPPING", amount |-> 0, from |-> Unset,
             till |-> Unset, live |-> FALSE, crossed |-> FALSE]

Untasked == [at |-> "idle"]

OffersInit ==
    /\ bundle = [b \in Bundle |-> NoBundle]
    /\ coupon = [c \in Coupon |-> NoCoupon]
    /\ task = [t \in Task |-> Untasked]
    /\ today = 0

-----------------------------------------------------------------------------

(* The fields an edit names, the others as they are.                       *)
Edited(row, edit) ==
    [field \in DOMAIN row |-> IF field \in DOMAIN edit THEN edit[field] ELSE row[field]]

Takes(t, at, row, edit) ==
    task' = [task EXCEPT ![t] = [at |-> at, row |-> row, edit |-> edit, gone |-> {},
                                 crossed |-> FALSE]]

(* A write to a row, seen by the others that have looked at it. A row that *)
(* was deleted is not deleted again.                                       *)
Leaves(t, places, gone) ==
    task' = [u \in Task |->
        IF u = t THEN Untasked
        ELSE IF task[u].at \in places /\ task[u].row = task[t].row
        THEN [task[u] EXCEPT !.crossed = TRUE, !.gone = @ \ gone]
        ELSE task[u]]

Rejected(t) == task' = [task EXCEPT ![t] = Untasked] /\ UNCHANGED <<bundle, coupon, today>>

-----------------------------------------------------------------------------
(* Bundles. The check looks at the slugs of live bundles, the index at     *)
(* those of removed ones too.                                              *)

SlugFree(slug, b) == \A other \in Bundle \ {b} : bundle[other].live => bundle[other].slug # slug

SlugTaken(slug, b) == \E other \in Bundle \ {b} : bundle[other].slug = slug

CheckNewBundle(t, b, edit) ==
    /\ task[t] = Untasked
    /\ bundle[b].slug = Unset /\ \A u \in Task : task[u].at = "newBundle" => task[u].row # b
    /\ {"slug", "items"} \subseteq DOMAIN edit /\ SlugFree(edit.slug, b)
    /\ Takes(t, "newBundle", b, edit)
    /\ UNCHANGED <<bundle, coupon, today>>

CheckBundle(t, b, edit) ==
    /\ task[t] = Untasked
    /\ bundle[b].live
    /\ "slug" \in DOMAIN edit => SlugFree(edit.slug, b)
    /\ Takes(t, IF "items" \in DOMAIN edit THEN "wipe" ELSE "bundle", b, edit)
    /\ UNCHANGED <<bundle, coupon, today>>

(* Mutant: the new items are added to the old ones.                        *)
WipeNothing(t) ==
    /\ task[t].at = "wipe"
    /\ task' = [task EXCEPT ![t].at = "bundle"]
    /\ UNCHANGED <<bundle, coupon, today>>

(* deleteMany, of the items committed when it starts.                      *)
Wipe(t) ==
    /\ task[t].at = "wipe"
    /\ task' = [task EXCEPT ![t].at = "bundle", ![t].gone = bundle[task[t].row].items,
                            ![t].crossed = FALSE]
    /\ UNCHANGED <<bundle, coupon, today>>

Untouched(t) == bundle[task[t].row].items \ task[t].gone

NewItems(t) == IF "items" \in DOMAIN task[t].edit THEN task[t].edit.items ELSE {}

(* The unique indexes of slugs and of the items of a bundle.               *)
Clashes(t) ==
    \/ "slug" \in DOMAIN task[t].edit /\ SlugTaken(task[t].edit.slug, task[t].row)
    \/ Untouched(t) \cap NewItems(t) # {}

SavedBundle(row, t) ==
    [Edited(row, task[t].edit) EXCEPT
        !.items = Untouched(t) \cup NewItems(t),
        !.live = @ \/ task[t].at = "newBundle",
        !.crossed = IF "items" \in DOMAIN task[t].edit THEN task[t].crossed ELSE @]

CommitBundle(t) ==
    /\ task[t].at \in {"newBundle", "bundle"} /\ ~Clashes(t)
    /\ bundle' = [bundle EXCEPT ![task[t].row] = SavedBundle(@, t)]
    /\ IF "items" \in DOMAIN task[t].edit THEN Leaves(t, {"bundle"}, task[t].gone)
       ELSE task' = [task EXCEPT ![t] = Untasked]
    /\ UNCHANGED <<coupon, today>>

RefuseBundle(t) == task[t].at \in {"newBundle", "bundle"} /\ Clashes(t) /\ Rejected(t)

RemoveBundle(b) ==
    /\ bundle[b].live
    /\ bundle' = [bundle EXCEPT ![b].live = FALSE]
    /\ UNCHANGED <<coupon, task, today>>

-----------------------------------------------------------------------------
(* Where today falls in a bundle's window: as the shop asks it, and as the *)
(* office filters its list by it.                                          *)

InWindow(row) ==
    /\ row.from = Unset \/ row.from <= today
    /\ row.till = Unset \/ row.till >= today

OnShow == {b \in Bundle : bundle[b].live /\ bundle[b].status = "ACTIVE" /\ InWindow(bundle[b])}

Schedule(row) ==
    {label \in {"LIVE", "SCHEDULED", "EXPIRED"} :
        CASE label = "LIVE" -> /\ row.from = Unset \/ row.from <= today
                               /\ row.till = Unset \/ row.till >= today
          [] label = "SCHEDULED" -> row.from # Unset /\ row.from > today
          [] label = "EXPIRED" -> row.till # Unset /\ row.till < today}

NextDay == today < LastDay /\ today' = today + 1 /\ UNCHANGED <<bundle, coupon, task>>

-----------------------------------------------------------------------------
(* Coupons: what they would be after the edit is checked on the copy.      *)

Valid(row) ==
    /\ row.kind = "PERCENT" => row.amount <= 100
    /\ row.from # Unset /\ row.till # Unset => row.from < row.till

(* A null date counts as not named.                                        *)
CouponAfter(row, edit) ==
    Edited(row, [field \in {f \in DOMAIN edit : edit[f] # Unset} |-> edit[field]])

CodeFree(code, c) == \A other \in Coupon \ {c} : coupon[other].live => coupon[other].code # code

CheckNewCoupon(t, c, edit) ==
    /\ task[t] = Untasked
    /\ coupon[c].code = Unset /\ \A u \in Task : task[u].at = "newCoupon" => task[u].row # c
    /\ {"code", "kind", "amount"} \subseteq DOMAIN edit
    /\ CodeFree(edit.code, c) /\ Valid(CouponAfter(NoCoupon, edit))
    /\ Takes(t, "newCoupon", c, edit)
    /\ UNCHANGED <<bundle, coupon, today>>

CheckCoupon(t, c, edit) ==
    /\ task[t] = Untasked /\ coupon[c].live
    /\ "code" \in DOMAIN edit => CodeFree(edit.code, c)
    /\ Valid(CouponAfter(coupon[c], edit))
    /\ Takes(t, "coupon", c, edit)
    /\ UNCHANGED <<bundle, coupon, today>>

(* A removed coupon is out of the index, and may still be written by id.   *)
CodeClash(t) ==
    LET row == CouponAfter(coupon[task[t].row], task[t].edit) IN
    (task[t].at = "newCoupon" \/ row.live) /\ ~CodeFree(row.code, task[t].row)

SavedCoupon(row, t) ==
    [CouponAfter(row, task[t].edit) EXCEPT !.live = @ \/ task[t].at = "newCoupon",
                                           !.crossed = task[t].crossed]

CommitCoupon(t) ==
    /\ task[t].at \in {"newCoupon", "coupon"} /\ ~CodeClash(t)
    /\ coupon' = [coupon EXCEPT ![task[t].row] = SavedCoupon(@, t)]
    /\ Leaves(t, {"coupon"}, {})
    /\ UNCHANGED <<bundle, today>>

RefuseCoupon(t) == task[t].at \in {"newCoupon", "coupon"} /\ CodeClash(t) /\ Rejected(t)

RemoveCoupon(c) ==
    /\ coupon[c].live
    /\ coupon' = [coupon EXCEPT ![c].live = FALSE]
    /\ UNCHANGED <<bundle, task, today>>

BundlesNext ==
    \/ \E t \in Task, b \in Bundle, edit \in BundleEdit :
          CheckNewBundle(t, b, edit) \/ CheckBundle(t, b, edit)
    \/ \E t \in Task : Wipe(t) \/ CommitBundle(t) \/ RefuseBundle(t)
    \/ \E b \in Bundle : RemoveBundle(b)
    \/ NextDay

CouponsNext ==
    \/ \E t \in Task, c \in Coupon, edit \in CouponEdit :
          CheckNewCoupon(t, c, edit) \/ CheckCoupon(t, c, edit)
    \/ \E t \in Task : CommitCoupon(t) \/ RefuseCoupon(t)
    \/ \E c \in Coupon : RemoveCoupon(c)

OffersSpec == OffersInit /\ [][BundlesNext \/ CouponsNext]_offerVars

-----------------------------------------------------------------------------
(* Properties.                                                             *)

(* A bundle holds the items of one save, unless two transactions that      *)
(* replaced its items overlapped (BundlesService.update).                  *)
ItemsOfOneSave ==
    \A b \in Bundle : bundle[b].slug # Unset /\ ~bundle[b].crossed =>
        \E edit \in BundleEdit : "items" \in DOMAIN edit /\ edit.items = bundle[b].items

(* The shop lists what the office calls live, and a window whose ends are  *)
(* in order has one label at a time (findActive, list of both services).   *)
SchedulesAgree ==
    \A b \in Bundle : LET row == bundle[b] IN
        /\ row.live /\ row.status = "ACTIVE" => (b \in OnShow <=> "LIVE" \in Schedule(row))
        /\ row.from = Unset \/ row.till = Unset \/ row.from <= row.till
              => Cardinality(Schedule(row)) = 1

(* However edits of its fields follow each other, a coupon takes no more   *)
(* than all and its window is in order, unless the check of an edit was    *)
(* crossed by another write (CouponsService.update).                       *)
CouponsStayValid ==
    \A c \in Coupon : coupon[c].code # Unset /\ ~coupon[c].crossed => Valid(coupon[c])

(* What marketing offers is what it saved: the three above.                *)
OffersHold == ItemsOfOneSave /\ SchedulesAgree /\ CouponsStayValid

=============================================================================
