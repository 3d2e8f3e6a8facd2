-------------------------------- MODULE WishList --------------------------------
(***************************************************************************)
(* The wish list of one customer: WishList.add, remove and the views       *)
(* around them, as requests that overlap (double clicks, several tabs),    *)
(* and the move of a line into the cart, which lives in the session that   *)
(* every request loads when it starts and writes back when it ends.        *)
(* Rows are told apart by their primary key; of their quantities only the  *)
(* sum per line is kept, since no code reads one of several rows.          *)
(***************************************************************************)
EXTENDS Integers, Catalog

CONSTANTS
  Clicks,       \* concurrent requests of the customer
  NoLine,
  MaxRows,      \* bound: rows inserted
  MaxLists,     \* bound: lists created
  MaxAsked      \* bound: units ever put on a line

ASSUME WishAssumption ==
  /\ NoLine \notin Lines
  /\ MaxRows \in Nat /\ MaxLists \in Nat /\ MaxAsked \in Nat

VARIABLES
  shown,      \* products and variants with available = True
  variants,   \* variants that are not deleted
  list,       \* the customer's WishList row, 0 if there is none
  lists,      \* lists created so far
  rows,       \* the WishListItem rows of each line (a product: variant NULL)
  inserted,   \* rows inserted so far
  units,      \* the sum of their quantities
  cart,       \* the cart in the session, as saved
  click,      \* the requests under way
  asked       \* history: units ever put on a line, of the list or of the cart

theList == <<list, lists>>
theRows == <<rows, inserted, units>>
wishVars == <<shown, variants, theList, theRows, cart, click, asked>>

Cart == [Lines -> Nat]
NoUnits == [k \in Lines |-> 0]

\* cart is the request's copy of the session's (wishlist_add needs none); line, row
\* and list belong to wishlist_add and wishlist_add_to_cart.
Click == [step : {"idle", "loaded", "finding", "creating", "bumping", "moved", "saving"},
          line : Lines \cup {NoLine}, row : Nat, list : Nat, cart : Cart]
IdleClick == [step |-> "idle", line |-> NoLine, row |-> 0, list |-> 0, cart |-> NoUnits]

RowsType ==
  /\ list \in 0..lists /\ lists \in 0..MaxLists
  /\ inserted \in 0..MaxRows
  /\ rows \in [Lines -> SUBSET (1..inserted)]
  /\ units \in Cart
  /\ \A k \in Lines : units[k] = 0 <=> rows[k] = {}
  /\ \A j, k \in Lines : j # k => rows[j] \cap rows[k] = {}
  /\ list = 0 => \A k \in Lines : rows[k] = {}
  /\ \A v \in Variants \ variants : rows[v] = {}

ClickType ==
  /\ click \in [Clicks -> Click]
  /\ \A c \in Clicks :
       click[c].step \in {"finding", "creating", "moved"} =>
         click[c].line \in Lines /\ click[c].list \in 1..lists

WishTypeOK ==
  /\ shown \subseteq Lines /\ variants \subseteq Variants
  /\ cart \in Cart /\ asked \in Cart
  /\ RowsType /\ ClickType

WishInit ==
  /\ shown = Lines
  /\ variants = Variants
  /\ list = 0 /\ lists = 0
  /\ rows = [k \in Lines |-> {}]
  /\ inserted = 0
  /\ units = NoUnits
  /\ cart = NoUnits
  /\ click = [c \in Clicks |-> IdleClick]
  /\ asked = NoUnits

-----------------------------------------------------------------------------
(* The catalog, in the hands of an analyst *)

SetAvailable(k) ==
  /\ shown' = IF k \in shown THEN shown \ {k} ELSE shown \cup {k}
  /\ UNCHANGED <<variants, theList, theRows, cart, click, asked>>

\* on_delete=SET_NULL: the rows of a deleted variant become rows of its product.
\* (A product cannot be deleted while it is on a list: PROTECT.)
DeleteVariant(v) ==
  LET product == ProductOf[v] IN
  /\ v \in variants
  /\ variants' = variants \ {v}
  /\ rows' = [rows EXCEPT ![product] = @ \cup rows[v], ![v] = {}]
  /\ units' = [units EXCEPT ![product] = @ + units[v], ![v] = 0]
  /\ asked' = [asked EXCEPT ![product] = @ + units[v]]
  /\ UNCHANGED <<shown, theList, inserted, cart, click>>

-----------------------------------------------------------------------------
(* Requests *)

Begin(c) ==
  /\ click[c].step = "idle"
  /\ click' = [click EXCEPT ![c] = [IdleClick EXCEPT !.step = "loaded", !.cart = cart]]
  /\ UNCHANGED <<shown, variants, theList, theRows, cart, asked>>

\* The response is sent; without a change to the session nothing is saved.
End(c) == click' = [click EXCEPT ![c] = IdleClick]

\* The worker is killed, or the response is a 404, a 400 or a message only.
GiveUp(c) ==
  /\ click[c].step # "idle"
  /\ End(c)
  /\ UNCHANGED <<shown, variants, theList, theRows, cart, asked>>

\* The product must be available; a variant that is not available is ignored.
ResolveShown(k) == IF k \in variants \cap shown THEN k ELSE Owner(k)

\* _get_or_create_list: the one-to-one key lets only one request create it.
GetList ==
  IF list # 0 THEN UNCHANGED theList
  ELSE lists < MaxLists /\ lists' = lists + 1 /\ list' = lists + 1

\* cart_add and cart_remove of module Checkout, on a line of the copy.
ChangeCart(c, k, q) ==
  /\ click[c].step = "loaded"
  /\ q > 0 => asked[k] + q <= MaxAsked
  /\ cart' = [click[c].cart EXCEPT ![k] = IF q > 0 THEN @ + q ELSE 0]
  /\ asked' = [asked EXCEPT ![k] = @ + q]
  /\ End(c)
  /\ UNCHANGED <<shown, variants, theList, theRows>>

-----------------------------------------------------------------------------
(* wishlist_add: get_or_create, then a conditional bump *)

StartAdd(c, line) ==
  /\ click[c].step = "loaded"
  /\ Owner(line) \in shown
  /\ GetList
  /\ click' = [click EXCEPT ![c] =
       [IdleClick EXCEPT !.step = "finding", !.line = ResolveShown(line), !.list = list']]
  /\ UNCHANGED <<shown, variants, theRows, cart, asked>>

\* The rows of the line on the list the request holds, which may be gone.
RowsOf(c, k) == IF click[c].list = list THEN rows[k] ELSE {}

\* get() finds no row or one; with more it raises MultipleObjectsReturned (GiveUp).
FindRow(c) ==
  /\ click[c].step = "finding"
  /\ \/ /\ RowsOf(c, click[c].line) = {}
        /\ click' = [click EXCEPT ![c].step = "creating"]
     \/ \E i \in RowsOf(c, click[c].line) :
          /\ RowsOf(c, click[c].line) = {i}
          /\ click' = [click EXCEPT ![c] = [IdleClick EXCEPT !.step = "bumping", !.row = i]]
  /\ UNCHANGED <<shown, variants, theList, theRows, cart, asked>>

\* The unique constraints on (list, product, variant) refuse a second row with the
\* same values, and NULL is not the same as NULL.
DuplicateNever(k) == FALSE   \* mutant: no unique constraint
Duplicate(k) == k \in Variants /\ rows[k] # {}

\* INSERT: the list and the variant must be there still.
CreateAnyway(c, q) ==   \* mutant: the list is not looked at
  LET k == click[c].line IN
  /\ click[c].step = "creating"
  /\ k \in Products \cup variants
  /\ ~Duplicate(k)
  /\ inserted < MaxRows /\ asked[k] + q <= MaxAsked
  /\ inserted' = inserted + 1
  /\ rows' = [rows EXCEPT ![k] = @ \cup {inserted + 1}]
  /\ units' = [units EXCEPT ![k] = @ + q]
  /\ asked' = [asked EXCEPT ![k] = @ + q]
  /\ End(c)
  /\ UNCHANGED <<shown, variants, theList, cart>>

CreateRow(c, q) ==
  LET k == click[c].line IN
  /\ click[c].step = "creating"
  /\ click[c].list = list
  /\ k \in Products \cup variants
  /\ ~Duplicate(k)
  /\ inserted < MaxRows /\ asked[k] + q <= MaxAsked
  /\ inserted' = inserted + 1
  /\ rows' = [rows EXCEPT ![k] = @ \cup {inserted + 1}]
  /\ units' = [units EXCEPT ![k] = @ + q]
  /\ asked' = [asked EXCEPT ![k] = @ + q]
  /\ End(c)
  /\ UNCHANGED <<shown, variants, theList, cart>>

\* IntegrityError: get_or_create looks again.  (It and the view do so a bounded
\* number of times before the request fails, GiveUp.)
CreateRefused(c) ==
  /\ click[c].step = "creating"
  /\ click[c].list = list
  /\ Duplicate(click[c].line)
  /\ click' = [click EXCEPT ![c].step = "finding"]
  /\ UNCHANGED <<shown, variants, theList, theRows, cart, asked>>

\* UPDATE ... SET quantity = quantity + q by primary key, wherever the row is now;
\* if it is gone refresh_from_db raises (GiveUp).
BumpRow(c, q) ==
  /\ click[c].step = "bumping"
  /\ \E k \in Lines :
       /\ click[c].row \in rows[k]
       /\ asked[k] + q <= MaxAsked
       /\ units' = [units EXCEPT ![k] = @ + q]
       /\ asked' = [asked EXCEPT ![k] = @ + q]
  /\ End(c)
  /\ UNCHANGED <<shown, variants, theList, rows, inserted, cart>>

-----------------------------------------------------------------------------
(* wishlist_remove, wishlist_clear, wishlist_add_to_cart *)

DeleteRows(k) ==
  /\ rows' = [rows EXCEPT ![k] = {}]
  /\ units' = [units EXCEPT ![k] = 0]

\* Unlike an add, a remove takes a variant that is not available, but no deleted one.
RemoveLine(c, k) ==
  /\ click[c].step = "loaded"
  /\ Owner(k) \in shown /\ k \in Products \cup variants
  /\ GetList
  /\ DeleteRows(k)
  /\ End(c)
  /\ UNCHANGED <<shown, variants, inserted, cart, asked>>

\* The list itself is deleted, its rows with it.
ClearList(c) ==
  /\ click[c].step = "loaded"
  /\ list' = 0
  /\ rows' = [k \in Lines |-> {}]
  /\ units' = NoUnits
  /\ End(c)
  /\ UNCHANGED <<shown, variants, lists, inserted, cart, asked>>

\* get() of the only row of the line, then cart.add on the copy.  With no row the
\* answer is a message, with several a 500.
StartMove(c, line) ==
  LET k == ResolveShown(line) IN
  /\ click[c].step = "loaded"
  /\ Owner(line) \in shown
  /\ GetList
  /\ \/ /\ \E i \in rows[k] : rows[k] = {i}
        /\ click' = [click EXCEPT ![c].step = "moved", ![c].line = k, ![c].list = list',
                                  ![c].cart[k] = @ + units[k]]
     \/ ~(\E i \in rows[k] : rows[k] = {i}) /\ End(c)
  /\ UNCHANGED <<shown, variants, theRows, cart, asked>>

\* wish_list.remove deletes every row the line has by now.
DropNothing(c) == UNCHANGED <<rows, units>>   \* mutant: the line stays on the list
DropLine(c) ==
  IF click[c].list = list THEN DeleteRows(click[c].line) ELSE UNCHANGED <<rows, units>>

DropMoved(c) ==
  /\ click[c].step = "moved"
  /\ DropLine(c)
  /\ click' = [click EXCEPT ![c].step = "saving", ![c].line = NoLine, ![c].list = 0]
  /\ UNCHANGED <<shown, variants, theList, inserted, cart, asked>>

\* The response: the session is saved, all of it.
SaveCart(c) ==
  /\ click[c].step = "saving"
  /\ cart' = click[c].cart
  /\ End(c)
  /\ UNCHANGED <<shown, variants, theList, theRows, asked>>

WishNext ==
  \/ \E k \in Lines : SetAvailable(k)
  \/ \E v \in Variants : DeleteVariant(v)
  \/ \E c \in Clicks :
       \/ Begin(c) \/ GiveUp(c)
       \/ \E k \in Lines : StartAdd(c, k) \/ RemoveLine(c, k) \/ StartMove(c, k)
       \/ \E k \in Lines, q \in 0..1 : ChangeCart(c, k, q)
       \/ FindRow(c) \/ CreateRefused(c)
       \/ \E q \in 1..MaxAsked : CreateRow(c, q) \/ BumpRow(c, q)
       \/ ClearList(c) \/ DropMoved(c) \/ SaveCart(c)

WishSpec == WishInit /\ [][WishNext]_wishVars

-----------------------------------------------------------------------------
(* Properties *)

\* A variant is on the list at most once, however many adds of it overlap.
VariantOnListOnce ==
  \A v \in Variants : \A i, j \in rows[v] : i = j

\* Moving a line never duplicates it: however many moves, adds and cart requests
\* overlap, the list and the cart never hold more of a line than was put on it.
\* (They may hold less: a line added to while it is being moved loses the addition.)
NeverMovedTwice ==
  \A k \in Lines : units[k] + cart[k] <= asked[k]

\* What the model promises ("the unique constraint on (list, product, variant) makes
\* concurrent adds merge instead of duplicating"): every line has at most one row.
OneRowPerLine ==
  \A k \in Lines : \A i, j \in rows[k] : i = j
=============================================================================
