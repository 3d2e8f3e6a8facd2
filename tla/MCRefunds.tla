------------------------------- MODULE MCRefunds -------------------------------
(***************************************************************************)
(* Instances of Refunds for TLC: one order of two items, charged three     *)
(* cents, so that two partial refunds fit and a third does not.            *)
(***************************************************************************)
EXTENDS Refunds, TLC

CONSTANTS o1, x1, x2

MCItemOrder == x1 :> o1 @@ x2 :> o1
MCCost == x1 :> 1 @@ x2 :> 2
MCCharge == o1 :> 3

Symmetry == Permutations(Callers) \cup Permutations(Hooks)
=============================================================================
