-------------------------------- MODULE Checkout --------------------------------
(***************************************************************************)
(* The cart of one customer and order_create.  The cart and the order to   *)
(* pay live in the session: every request works on a copy loaded when it   *)
(* starts and, if it modified the copy and did not end in a 500, writes    *)
(* all of it back.  order_create writes the order, its items and the mail  *)
(* task one after the other, outside a transaction, so a request that dies *)
(* leaves them behind while the session keeps the cart.                    *)
(* The tabs are concurrent requests of the customer.                       *)
(***************************************************************************)
EXTENDS Integers, Catalog

CONSTANTS
  Tabs,
  MaxQuantity,        \* bound: units of each cart line
  MaxOrders           \* bound: orders created

ASSUME BoundsAssumption ==
  /\ MaxQuantity \in [Lines -> Nat \ {0}] /\ MaxOrders \in Nat \ {0}

Numbers == 1..MaxOrders

VARIABLES
  catalog,    \* the rows of products and variants that are not deleted
  store,      \* the session as saved: cart and order_id (0: none)
  tab,        \* the request of each tab
  created,    \* orders created
  items,      \* the quantities of the items of each order
  missing,    \* lines of its cart an order has no item for (yet, or any more)
  announced,  \* orders with an order_created task
  withdrawn,  \* history: lines whose item was deleted along with its product
  disturbed,  \* history: two requests overlapped
  wanted,     \* history: units of each line asked for, less those taken back,
  ordered     \* and in items of the orders the customer was sent to pay, until then

vars == <<catalog, store, tab, created, items, missing, announced, withdrawn, disturbed,
          wanted, ordered>>
orders == <<created, items, missing, announced, withdrawn>>
counts == <<disturbed, wanted, ordered>>

Session == [cart : [Lines -> Nat], order : 0..MaxOrders]
EmptyCart == [k \in Lines |-> 0]
IsEmpty(cart) == \A k \in Lines : cart[k] = 0

\* session is the request's copy, order and todo belong to order_create.
Tab == [step : {"idle", "loaded", "lines", "respond"}, session : Session,
        order : 0..MaxOrders, todo : SUBSET Lines]
NewSession == [cart |-> EmptyCart, order |-> 0]
IdleTab == [step |-> "idle", session |-> NewSession, order |-> 0, todo |-> {}]

StoreType ==
  /\ catalog \subseteq Lines
  /\ store \in Session
  /\ disturbed \in BOOLEAN

OrdersType ==
  /\ created \in 0..MaxOrders
  /\ items \in [Numbers -> [Lines -> Nat]]
  /\ missing \in [Numbers -> SUBSET Lines]
  /\ announced \subseteq Numbers
  /\ withdrawn \in [Numbers -> SUBSET Lines]

CountType ==
  /\ wanted \in [Lines -> Int]
  /\ ordered \in [Lines -> Nat]

TabType ==
  /\ tab \in [Tabs -> Tab]
  /\ \A t \in Tabs :
       /\ tab[t].step \in {"lines", "respond"} => tab[t].order \in Numbers
       /\ \A k \in tab[t].todo : tab[t].session.cart[k] > 0

TypeOK == StoreType /\ OrdersType /\ CountType /\ TabType

Init ==
  /\ catalog = Lines
  /\ store = NewSession
  /\ tab = [t \in Tabs |-> IdleTab]
  /\ created = 0
  /\ items = [n \in Numbers |-> EmptyCart]
  /\ missing = [n \in Numbers |-> {}]
  /\ announced = {}
  /\ withdrawn = [n \in Numbers |-> {}]
  /\ wanted = EmptyCart
  /\ ordered = EmptyCart
  /\ disturbed = FALSE

-----------------------------------------------------------------------------
(* The catalog: products and variants are deleted by an analyst *)

\* A product takes its variants and every order's items of either along (CASCADE);
\* the items of a variant stay (SET_NULL).
ItemsWithout(k) ==
  [n \in Numbers |-> [j \in Lines |-> IF Owner(j) = k THEN 0 ELSE items[n][j]]]

Deleted(n, k) == {j \in Lines : Owner(j) = k /\ items[n][j] > 0}

DeleteRow(k) ==
  /\ k \in catalog
  /\ catalog' = {j \in catalog : j # k /\ Owner(j) # k}
  /\ items' = ItemsWithout(k)
  /\ missing' = [n \in Numbers |-> missing[n] \cup Deleted(n, k)]
  /\ withdrawn' = [n \in Numbers |-> withdrawn[n] \cup Deleted(n, k)]
  /\ ordered' = [j \in Lines |-> IF Owner(j) = k THEN 0 ELSE ordered[j]]
  /\ UNCHANGED <<store, tab, created, announced, disturbed, wanted>>

-----------------------------------------------------------------------------
(* Requests *)

Busy == \E t \in Tabs : tab[t].step # "idle"

\* SessionMiddleware loads the session; what the request asks for shows when it
\* is carried out.
Load(t) ==
  /\ tab[t].step = "idle"
  /\ tab' = [tab EXCEPT ![t] = [IdleTab EXCEPT !.step = "loaded", !.session = store]]
  /\ \/ /\ ~Busy
        /\ UNCHANGED counts
     \/ /\ Busy
        /\ disturbed' = TRUE
        /\ wanted' = EmptyCart
        /\ ordered' = EmptyCart
  /\ UNCHANGED <<catalog, store, orders>>

\* The response is sent and the modified session saved, all of it.
Finish(t) == tab' = [tab EXCEPT ![t] = IdleTab]
Save(t, session) == Finish(t) /\ store' = session

\* Cart() puts a new {} into a session without a cart or with an empty one, so a
\* request that changes nothing still writes the session back then.
SaveUnchanged(t) ==
  /\ Finish(t)
  /\ store' = IF IsEmpty(tab[t].session.cart) THEN tab[t].session ELSE store

\* Any rendered page (its context holds a Cart), and a product that is not found.
ShowPage(t) ==
  /\ tab[t].step = "loaded"
  /\ SaveUnchanged(t)
  /\ UNCHANGED <<catalog, orders, counts>>

\* coupon_apply writes only coupon_id, which no order ever reads.
ApplyCoupon(t) ==
  /\ tab[t].step = "loaded"
  /\ Save(t, tab[t].session)
  /\ UNCHANGED <<catalog, orders, counts>>

\* A line of the request's cart is set to q units.
SetLine(t, k, q) ==
  /\ q <= MaxQuantity[k]
  /\ Save(t, [tab[t].session EXCEPT !.cart[k] = q])
  /\ wanted' = IF disturbed THEN wanted
               ELSE [wanted EXCEPT ![k] = @ + q - tab[t].session.cart[k]]
  /\ UNCHANGED <<disturbed, ordered>>

\* The product must be there; a variant that is not there falls back to it.
Resolve(k) == IF k \in catalog THEN k ELSE Owner(k)

\* cart_add without and with override.
AddToCart(t, line, q) ==
  LET k == Resolve(line) IN
  /\ tab[t].step = "loaded"
  /\ k \in catalog
  /\ SetLine(t, k, tab[t].session.cart[k] + q)
  /\ UNCHANGED <<catalog, orders>>

UpdateLine(t, line, q) ==
  LET k == Resolve(line) IN
  /\ tab[t].step = "loaded"
  /\ k \in catalog
  /\ SetLine(t, k, q)
  /\ UNCHANGED <<catalog, orders>>

\* cart_remove: removing an absent line changes nothing.
RemoveFromCart(t, line) ==
  LET k == Resolve(line) IN
  /\ tab[t].step = "loaded"
  /\ k \in catalog
  /\ \/ tab[t].session.cart[k] > 0 /\ SetLine(t, k, 0)
     \/ tab[t].session.cart[k] = 0 /\ SaveUnchanged(t) /\ UNCHANGED counts
  /\ UNCHANGED <<catalog, orders>>

-----------------------------------------------------------------------------
(* order_create *)

LinesOfCatalog(cart) == catalog   \* mutant: iterates over the products
LinesOf(cart) == {k \in Lines : cart[k] > 0}

\* order.save(); there is no check that the cart holds anything.
SaveOrder(t) ==
  LET n == created + 1
      todo == LinesOf(tab[t].session.cart)
  IN
  /\ tab[t].step = "loaded"
  /\ n \in Numbers
  /\ created' = n
  /\ missing' = [missing EXCEPT ![n] = todo]
  /\ tab' = [tab EXCEPT ![t].step = "lines", ![t].order = n, ![t].todo = todo]
  /\ UNCHANGED <<catalog, store, items, announced, withdrawn, counts>>

\* OrderItem.objects.create for the next line.  The item of a variant that is gone
\* is created without it.
CreateItem(t, k) ==
  LET n == tab[t].order IN
  /\ tab[t].step = "lines"
  /\ k \in tab[t].todo
  /\ Owner(k) \in catalog
  /\ items' = [items EXCEPT ![n][k] = tab[t].session.cart[k]]
  /\ missing' = [missing EXCEPT ![n] = @ \ {k}]
  /\ tab' = [tab EXCEPT ![t].todo = @ \ {k}]
  /\ UNCHANGED <<catalog, store, created, announced, withdrawn, counts>>

ItemSkipped(t, k) ==   \* mutant: a line without its product is skipped
  /\ tab[t].step = "lines"
  /\ k \in tab[t].todo
  /\ k \notin catalog
  /\ tab' = [tab EXCEPT ![t].todo = @ \ {k}]
  /\ UNCHANGED <<catalog, store, orders, counts>>

\* A product that is gone raises KeyError, or IntegrityError if it (or the
\* variant) was still there when the rows were read: a 500, the session is not
\* saved.
ItemFails(t, k) ==
  /\ tab[t].step = "lines"
  /\ k \in tab[t].todo
  /\ k \notin catalog
  /\ Finish(t)
  /\ UNCHANGED <<catalog, store, orders, counts>>

\* cart.clear() on the request's copy, then order_created.delay.
DispatchMail(t) ==
  /\ tab[t].step = "lines"
  /\ tab[t].todo = {}
  /\ announced' = announced \cup {tab[t].order}
  /\ tab' = [tab EXCEPT ![t].step = "respond"]
  /\ UNCHANGED <<catalog, store, created, items, missing, withdrawn, counts>>

\* The broker refuses the task: a 500, the session is not saved.
MailRefused(t) ==
  /\ tab[t].step = "lines"
  /\ tab[t].todo = {}
  /\ Finish(t)
  /\ UNCHANGED <<catalog, store, orders, counts>>

\* The redirect to the payment page, which reads order_id from the session.
UnclearedSession(t) == [tab[t].session EXCEPT !.order = tab[t].order]   \* mutant: no clear
PlacedSession(t) == [cart |-> EmptyCart, order |-> tab[t].order]

Respond(t) ==
  /\ tab[t].step = "respond"
  /\ Save(t, PlacedSession(t))
  /\ ordered' = IF disturbed THEN ordered
                ELSE [k \in Lines |-> ordered[k] + items[tab[t].order][k]]
  /\ UNCHANGED <<catalog, orders, disturbed, wanted>>

\* The worker is killed: rows and tasks stay, the session keeps its old value.
Crash(t) ==
  /\ tab[t].step # "idle"
  /\ Finish(t)
  /\ UNCHANGED <<catalog, store, orders, counts>>

Next ==
  \/ \E k \in Lines : DeleteRow(k)
  \/ \E t \in Tabs :
       \/ Load(t) \/ ShowPage(t) \/ ApplyCoupon(t)
       \/ \E k \in Lines : RemoveFromCart(t, k) \/
            \E q \in 1..MaxQuantity[k] : AddToCart(t, k, q) \/ UpdateLine(t, k, q)
       \/ SaveOrder(t) \/ DispatchMail(t) \/ MailRefused(t) \/ Respond(t) \/ Crash(t)
       \/ \E k \in Lines : CreateItem(t, k) \/ ItemFails(t, k)

Spec == Init /\ [][Next]_vars

-----------------------------------------------------------------------------
(* Properties *)

\* An order the payment page can be asked for has had its mail dispatched and has an
\* item for every line of the cart it was made from, whatever overlapped or died, but
\* for the items that were deleted with their product after order_create had written
\* them: the payment page charges for what is left of such an order.
Lacking(n) == missing[n] \ withdrawn[n]
Payable(session) ==
  session.order # 0 =>
    Lacking(session.order) = {} /\ session.order \in announced

PayableIsWhole == Payable(store)

\* While requests do not overlap, every unit a customer asked for is in the cart or an
\* item of an order the customer was sent to pay, and never in both, even if requests
\* fail or are killed at any point and are tried again.  Units of a deleted product
\* may be in neither: its items are gone, also those of an order still being made.
UnitsConserved ==
  ~disturbed => \A k \in Lines :
    /\ wanted[k] >= store.cart[k] + ordered[k]
    /\ Owner(k) \in catalog => wanted[k] = store.cart[k] + ordered[k]
=============================================================================
