------------------------------ MODULE MCOrders ------------------------------
(***************************************************************************)
(* Small instances of Orders for TLC.                                      *)
(***************************************************************************)
EXTENDS Orders, TLC

(* Carts with nothing, or with the same number of units of each variant.   *)
UnitCarts == {[v \in Variant |-> n] : n \in 0..1}

OneOfEach == [v \in Variant |-> 1]

OneUpOrDown == {1, -1}

Asked(o) == Placed(order[o]) \/ \E p \in Process : job[p].order = o

(* A third order is there for the coupon: it joins orders that wait for    *)
(* payment or were expired, where all that goes on is checkouts and sweeps.*)
ThirdOrderJoins ==
    Cardinality({o \in Order : Asked(o)}) > 2 =>
        /\ \A o \in Order :
              /\ order[o].pay \in {"NONE", "PENDING"}
              /\ order[o].status \in {"NONE", "AWAITING_PAYMENT", "CANCELLED"}
        /\ \A p \in Process : job[p].pc # "cancel"

Symmetry == Permutations(Process) \cup Permutations(Customer) \cup Permutations(Order)
=============================================================================
