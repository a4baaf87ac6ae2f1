------------------------------- MODULE MCCart -------------------------------
(* Instances of Cart: a tile on sale, cheaper still from two, and a grout, *)
(* sold together in two kits. The numbers are small and round badly.       *)
EXTENDS Cart, TLC

CONSTANTS tile, grout, p1, p2, k1, k2

Products == tile :> [price |-> 9, sale |-> 7, tiers |-> {[min |-> 2, price |-> 6]},
                     vat |-> 20, weight |-> 1, stock |-> 2]
         @@ grout :> [price |-> 5, sale |-> None, tiers |-> {},
                      vat |-> 5, weight |-> 1, stock |-> 2]

Kit == {[price |-> 15, quantity |-> tile :> 2 @@ grout :> 1],
        [price |-> 10, quantity |-> tile :> 1 @@ grout :> 1]}

(* Thirty per cent up to 2 of what is not on sale, and 6 off anything.     *)
Coupons == {[type |-> "PERCENT", amount |-> 30, cap |-> 2, excludeSale |-> TRUE, minTotal |-> 7],
            [type |-> "FIXED", amount |-> 6, cap |-> None, excludeSale |-> FALSE, minTotal |-> 0]}

FreeDelivery == {[type |-> "FREE_SHIPPING", amount |-> 0, cap |-> None, excludeSale |-> FALSE,
                  minTotal |-> 0]}

(* Bands that share their edge, free from 14.                              *)
Banded == {[flat |-> None, freeOver |-> 14,
            bands |-> {[min |-> 0, max |-> 2, rate |-> 4], [min |-> 2, max |-> 3, rate |-> 6]}]}

FlatRate == {[flat |-> 3, bands |-> {}, freeOver |-> 14]}

Asked == tile :> 3 @@ grout :> 1

Symmetry == Permutations(Process) \cup Permutations(CartId)
=============================================================================
