------------------------------ MODULE MCInventory ------------------------------
(***************************************************************************)
(* Instances of Inventory for TLC: the mug and its blue variant; o1 has    *)
(* two plain lines of the mug and one of the variant, o2 competes for the  *)
(* variant, and for the mug once the variant is deleted.                   *)
(***************************************************************************)
EXTENDS Inventory, TLC

CONSTANTS o1, o2, mug, blue, l1, l2, l3, l4

MCLineOrder == l1 :> o1 @@ l2 :> o1 @@ l3 :> o1 @@ l4 :> o2
MCLineProduct == [l \in Lines |-> mug]
MCLineVariant == l1 :> blue @@ l2 :> NoRow @@ l3 :> NoRow @@ l4 :> blue
MCLineQty == l1 :> 1 @@ l2 :> 1 @@ l3 :> 1 @@ l4 :> 2
MCParentOf == [x \in Variants |-> mug]
=============================================================================
