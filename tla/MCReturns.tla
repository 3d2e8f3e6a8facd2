------------------------------- MODULE MCReturns -------------------------------
(***************************************************************************)
(* Instances of Returns for TLC: an order of two items charged three       *)
(* cents, a request for the cheaper item (one cent, so that it can be      *)
(* refunded twice) and one for the whole order.                            *)
(***************************************************************************)
EXTENDS Returns, TLC

CONSTANTS o1, x1, x2, r1, r2

MCItemOrder == x1 :> o1 @@ x2 :> o1
MCCost == x1 :> 1 @@ x2 :> 2
MCCharge == o1 :> 3
MCRequestItem == [r \in Requests |-> IF r = r1 THEN x1 ELSE WholeOrder]
MCRequestOrder == [r \in Requests |-> o1]

Symmetry == Permutations(Callers)
=============================================================================
