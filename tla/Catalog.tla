-------------------------------- MODULE Catalog --------------------------------
(***************************************************************************)
(* Products, their variants, and the lines a cart, an order or a wish list *)
(* is made of: a line is a product or one of its variants.                 *)
(***************************************************************************)

CONSTANTS
  Products, Variants,
  ProductOf           \* the product of each variant

ASSUME CatalogAssumption ==
  /\ ProductOf \in [Variants -> Products]
  /\ Products \cap Variants = {}

\* _cart_key: a line is a product or one of its variants.
Lines == Products \cup Variants
Owner(k) == IF k \in Variants THEN ProductOf[k] ELSE k
=============================================================================
