----------------------------- MODULE MCReturns -----------------------------
(***************************************************************************)
(* Small instances of Returns for TLC.                                     *)
(***************************************************************************)
EXTENDS Returns, TLC

(* Every line has two units that cost 10 in all, or one that costs 5.      *)
TwoUnits == [i \in Item |-> [quantity |-> 2, subtotal |-> 10, discount |-> 0]]

(* A delivery charge of 1 and no coupon.                                   *)
TwoUnitMoney == [subtotal |-> 10, discountTotal |-> 0, shippingCharge |-> 1]

OneOfEach == {[i \in Item |-> 1]}

OneOrTwoOfEach == {[i \in Item |-> n] : n \in 1..2}

Symmetry == Permutations(Process) \cup Permutations(Request) \cup Permutations(Refund)
=============================================================================
