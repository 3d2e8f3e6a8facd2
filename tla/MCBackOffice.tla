------------------------------ MODULE MCBackOffice ------------------------------
(***************************************************************************)
(* The instance of BackOffice for TLC: the order, items and requests of    *)
(* MCReturns.  The two analysts meet on the request for the cheaper item.  *)
(***************************************************************************)
EXTENDS BackOffice, MCReturns
=============================================================================
