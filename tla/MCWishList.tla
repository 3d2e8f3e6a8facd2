------------------------------- MODULE MCWishList -------------------------------
(***************************************************************************)
(* Instances of WishList for TLC.                                          *)
(***************************************************************************)
EXTENDS WishList, TLC

CONSTANTS p, v

MCProductOf == [x \in Variants |-> p]

WishSymmetry == Permutations(Clicks)
=============================================================================
