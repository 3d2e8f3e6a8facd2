------------------------------ MODULE MCStorefront ------------------------------
(***************************************************************************)
(* The customer's side of the shop for TLC: Checkout (cart and order) and  *)
(* WishList on one small catalog, RateLimit and InfiniteScroll; and what   *)
(* runs below and beside it: ReadReplica, Tracing and Seed.  They share no *)
(* variable (each has its own view of what the others keep), so a          *)
(* behaviour exercises one of them, chosen at the start: the run is the    *)
(* union of their state spaces, not their product.                         *)
(***************************************************************************)
EXTENDS Checkout, WishList, RateLimit, InfiniteScroll, MCReadReplica, Tracing, Seed

CONSTANTS shirt, red, q1

MCProductOf == [x \in Variants |-> shirt]
MCMaxQuantity == [k \in Lines |-> IF k = shirt THEN 2 ELSE 1]

\* One request comes with a header that is no id, the others with none.
MCHeader == [r \in Requests |-> IF r = q1 THEN Malformed ELSE Absent]

MCHome == <<"home-living">>

VARIABLE part

pageVars == <<wishVars, limitVars, scrollVars>>
siteVars == <<replicaVars, tracingVars, seedVars>>
shopVars == <<vars, pageVars, siteVars, part>>

Parts == {"checkout", "wish list", "rate limit", "scroll", "replica", "tracing", "seed"}

\* The parts that rest are in one fixed initial state.
ShopInit ==
  /\ part \in Parts
  /\ Init /\ WishInit /\ LimitInit /\ ScrollInit /\ ReplicaInit /\ TracingInit /\ SeedInit
  /\ part # "scroll" => results = MaxResults /\ top = 1
  /\ part # "seed" => rooms = {}

ShopNext ==
  /\ UNCHANGED part
  /\ \/ part = "checkout" /\ Next /\ UNCHANGED <<pageVars, siteVars>>
     \/ /\ part = "wish list" /\ WishNext
        /\ UNCHANGED <<vars, limitVars, scrollVars, siteVars>>
     \/ /\ part = "rate limit" /\ LimitNext
        /\ UNCHANGED <<vars, wishVars, scrollVars, siteVars>>
     \/ /\ part = "scroll" /\ ScrollNext
        /\ UNCHANGED <<vars, wishVars, limitVars, siteVars>>
     \/ /\ part = "replica" /\ ReplicaNext
        /\ UNCHANGED <<vars, pageVars, tracingVars, seedVars>>
     \/ /\ part = "tracing" /\ TracingNext
        /\ UNCHANGED <<vars, pageVars, replicaVars, seedVars>>
     \/ /\ part = "seed" /\ SeedNext
        /\ UNCHANGED <<vars, pageVars, replicaVars, tracingVars>>

ShopSpec == ShopInit /\ [][ShopNext]_shopVars

\* The type invariant of the part that moves.
ShopTypeOK ==
  CASE part = "checkout" -> TypeOK
    [] part = "wish list" -> WishTypeOK
    [] part = "rate limit" -> LimitTypeOK
    [] part = "scroll" -> ScrollTypeOK
    [] part = "replica" -> ReplicaTypeOK
    [] part = "tracing" -> TracingTypeOK
    [] part = "seed" -> SeedTypeOK

\* One set of two requests stands for the tabs, clicks, attempts and runs.
Symmetry == Permutations(Tabs)
=============================================================================
