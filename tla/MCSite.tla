--------------------------------- MODULE MCSite ---------------------------------
(***************************************************************************)
(* What the shop does next to selling, for TLC: Inventory (through the     *)
(* instance of MCInventory), Listing, EmailVerification and Backup.  They  *)
(* share no variable, so a behaviour exercises one of them, chosen at the  *)
(* start: the run is the union of their state spaces, not their product.   *)
(***************************************************************************)
EXTENDS MCInventory, Listing, EmailVerification, Backup

CONSTANTS r1, r2

VARIABLE part

Parts == {"inventory", "listing", "account", "backup"}
siteVars == <<vars, listingVars, accountVars, backupVars, part>>

\* The parts that rest are in one fixed initial state.
SiteInit ==
  /\ part \in Parts
  /\ Init /\ ListingInit /\ AccountInit /\ BackupInit
  /\ part # "inventory" => stock = [t \in Targets |-> Untracked]

SiteNext ==
  /\ UNCHANGED part
  /\ \/ part = "inventory" /\ Next /\ UNCHANGED <<listingVars, accountVars, backupVars>>
     \/ part = "listing" /\ ListingNext /\ UNCHANGED <<vars, accountVars, backupVars>>
     \/ part = "account" /\ AccountNext /\ UNCHANGED <<vars, listingVars, backupVars>>
     \/ part = "backup" /\ BackupNext /\ UNCHANGED <<vars, listingVars, accountVars>>

SiteSpec == SiteInit /\ [][SiteNext]_siteVars

\* The type invariant of the part that moves.
PartsTypeOK ==
  CASE part = "inventory" -> TypeOK
    [] part = "listing" -> ListingTypeOK
    [] part = "account" -> AccountTypeOK
    [] part = "backup" -> BackupTypeOK

\* One set of two requests stands for the visitors, the forms and the backup jobs;
\* accounts are interchangeable.
Symmetry == Permutations({r1, r2}) \cup Permutations(Users)

\* A catalog of two products in one category, cheap and rated, dear and unrated; a save
\* moves a product to the other category, or takes it off the shop.
Good(category, price, rating, inStock) ==
  [listed |-> TRUE, category |-> category, price |-> price, rating |-> rating,
   inStock |-> inStock]
MCStart == 1 :> Good("x", 25, 4, TRUE) @@ 2 :> Good("x", 100, 0, TRUE)
MCFacts == {Good("y", 25, 3, FALSE), [Good("x", 100, 4, TRUE) EXCEPT !.listed = FALSE]}

\* A URL with values nobody is linked to, and a page out of range.
MCTyped ==
  {[AllProducts EXCEPT !.path = "x", !.category = {"x", "z"}, !.rating = {2, 4, 7},
                       !.page = 2]}
=============================================================================
