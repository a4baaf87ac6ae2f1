------------------------------ MODULE MCOffice ------------------------------
(* The accounts of customers and admins, quotes, gift cards, the figures of *)
(* the office, its offers, and what customers keep share no state; a run   *)
(* plays one of them, as the scene says.                                   *)
EXTENDS Accounts, AdminAccounts, Quotes, GiftCards, Figures, Offers, Belongings, TLC

CONSTANTS tile, grout, north, south

VARIABLE scene

(* An admin is disabled, or enabled again with another role.               *)
Changes == {[role |-> Nobody, status |-> "DISABLED"], [role |-> 2, status |-> "ACTIVE"]}

Responses == {[status |-> "QUOTED", total |-> 1], [status |-> "QUOTED", total |-> 2],
              [status |-> "QUOTED"], [status |-> "EXPIRED"], [line |-> 1, unit |-> 1, status |-> "REVIEWING"]}

Corrections == {[adjustment |-> -1], [adjustment |-> 1], [adjustment |-> -2, status |-> "ACTIVE"],
                [status |-> "DISABLED"]}

-----------------------------------------------------------------------------
(* Two orders and a past one in a calendar of weeks of three days; and the *)
(* carts: a product with two tiers, on sale or not, within a bundle or not.*)

Past == [day |-> 1, client |-> "ann", pay |-> "REFUNDED", total |-> 2, refunded |-> 2,
         area |-> north, product |-> tile, units |-> 1, returned |-> TRUE]

Orders == [day : {1, 2, 4, 5}, client : {"ann", "bob", "visitor"}, pay : {"PENDING", "PAID", "REFUNDED"},
           total : {3}, refunded : {1}, area : {north}, product : {tile, grout}, units : {2},
           returned : {FALSE}]
          \cup [day : {3}, client : {"ann"}, pay : {"PARTIALLY_REFUNDED"}, total : {4}, refunded : {0},
                area : {south}, product : {tile}, units : {1}, returned : BOOLEAN]

Carts == {[product |-> [price |-> 5, sale |-> sale, tiers |-> {[min |-> 2, price |-> 4], [min |-> 3, price |-> 3]}],
           line |-> [quantity |-> quantity, override |-> override]] :
              sale \in {-1, 3, 4}, quantity \in 1..3, override \in {-1, 2}}

SomeCart == CHOOSE cart \in Carts : TRUE

Books == {[orders |-> <<Past, a, b>>, cart |-> SomeCart] : a \in Orders, b \in Orders}
         \cup {[orders |-> <<Past>>, cart |-> cart] : cart \in Carts}

NoBook == [orders |-> <<>>, cart |-> SomeCart]

Queries == [from : {1, 2, 3}, to : {5}, group : {"day", "week", "month"}]

Categories == tile :> 1 @@ grout :> 2

Brands == tile :> 1 @@ grout :> 0

-----------------------------------------------------------------------------
(* Saves that disagree on items and address, and coupons whose kind and    *)
(* amount, or dates, are valid apart and not together.                     *)

BundleEdits == {[slug |-> 1, items |-> {tile}, till |-> 1], [slug |-> 2, items |-> {grout}, from |-> 1],
                [items |-> {grout, north}, till |-> Unset], [slug |-> 1, status |-> "INACTIVE"]}

CouponEdits == {[code |-> 1, kind |-> "FIXED", amount |-> 200], [kind |-> "PERCENT"],
                [code |-> 1, kind |-> "PERCENT", amount |-> 50, from |-> 2], [amount |-> 200],
                [from |-> 1, till |-> 2], [till |-> 1]}

ItemOwners == north :> tile @@ south :> grout

-----------------------------------------------------------------------------

Still == {"customers", "admins", "quotes", "cards", "bundles", "coupons",
           "addresses", "reviews", "questions"}

Init ==
    /\ AccountsInit /\ AdminsInit /\ QuotesInit /\ CardsInit /\ OffersInit /\ BelongingsInit
    /\ \/ scene \in Still /\ books = NoBook /\ report = Undrawn
       \/ scene = "figures" /\ FiguresInit

OthersRest ==
    /\ scene # "customers" => UNCHANGED accountVars
    /\ scene # "admins" => UNCHANGED adminVars
    /\ scene # "quotes" => UNCHANGED quoteVars
    /\ scene # "cards" => UNCHANGED cardVars
    /\ scene # "figures" => UNCHANGED figureVars
    /\ scene \notin {"bundles", "coupons"} => UNCHANGED offerVars
    /\ scene \notin {"addresses", "reviews", "questions"} => UNCHANGED belongingVars

Next ==
    /\ UNCHANGED scene
    /\ \/ scene = "customers" /\ AccountsNext
       \/ scene = "admins" /\ AdminsNext
       \/ scene = "quotes" /\ QuotesNext
       \/ scene = "cards" /\ CardsNext
       \/ scene = "figures" /\ FiguresNext
       \/ scene = "bundles" /\ BundlesNext
       \/ scene = "coupons" /\ CouponsNext
       \/ scene = "addresses" /\ AddressesNext
       \/ scene = "reviews" /\ ReviewsNext
       \/ scene = "questions" /\ QuestionsNext
    /\ OthersRest

Spec == Init /\ [][Next]_<<accountVars, adminVars, quoteVars, cardVars, figureVars, offerVars,
                         belongingVars, scene>>

Symmetry == Permutations(Request)
=============================================================================
