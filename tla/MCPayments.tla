----------------------------- MODULE MCPayments -----------------------------
(***************************************************************************)
(* Small instances of Payments for TLC.                                    *)
(***************************************************************************)
EXTENDS Payments, TLC

Symmetry == Permutations(Process) \cup Permutations(Session)

HandlerSymmetry == Permutations(Process)
=============================================================================
