----------------------------- MODULE CheckoutProofs -----------------------------
(***************************************************************************)
(* Machine-checked proofs about Checkout, for any catalog, any number of   *)
(* concurrent requests and any bounds: types, that only whole orders can   *)
(* be paid, and that no unit is lost or sold twice while requests do not   *)
(* overlap.                                                                *)
(***************************************************************************)
EXTENDS Checkout, TLAPS

\* A request that is replaced by a well-typed one.
LEMMA TabUpdate ==
  ASSUME TabType, NEW t \in Tabs, NEW x \in Tab, tab' = [tab EXCEPT ![t] = x],
         x.step \in {"lines", "respond"} => x.order \in Numbers,
         \A k \in x.todo : x.session.cart[k] > 0
  PROVE  TabType'
BY DEF TabType

\* The idle request and the new session.
LEMMA IdleType ==
  /\ EmptyCart \in [Lines -> Nat] /\ EmptyCart \in [Lines -> Int]
  /\ NewSession \in Session /\ NewSession.order = 0
  /\ IdleTab \in Tab /\ IdleTab.step = "idle" /\ IdleTab.todo = {}
<1>1. EmptyCart \in [Lines -> Nat] /\ EmptyCart \in [Lines -> Int]
  BY DEF EmptyCart
<1>2. 0 \in 0..MaxOrders
  BY BoundsAssumption
<1>3. NewSession \in Session /\ NewSession.order = 0
  BY <1>1, <1>2 DEF NewSession, Session
<1> QED
  BY <1>1, <1>2, <1>3 DEF IdleTab, Tab

\* The fields of a request.
LEMMA TabFields ==
  ASSUME TabType, NEW t \in Tabs
  PROVE  /\ tab[t] \in Tab /\ tab[t].session \in Session
         /\ tab[t].session.cart \in [Lines -> Nat]
         /\ tab[t].session.order \in 0..MaxOrders
         /\ tab[t].order \in 0..MaxOrders /\ tab[t].todo \in SUBSET Lines
         /\ tab[t].step \in {"lines", "respond"} => tab[t].order \in Numbers
BY DEF TabType, Tab, Session

\* A request that ends leaves an idle tab.
LEMMA FinishType ==
  ASSUME TabType, NEW t \in Tabs, Finish(t)
  PROVE  /\ TabType'
         /\ tab'[t] = IdleTab /\ \A u \in Tabs : u # t => tab'[u] = tab[u]
<1>1. IdleTab \in Tab /\ IdleTab.step = "idle" /\ IdleTab.todo = {}
  BY IdleType
<1>2. TabType'
  BY <1>1, TabUpdate DEF Finish
<1> QED
  BY <1>2 DEF Finish, TabType

\* A session with one line changed.
LEMMA LineType ==
  ASSUME NEW s \in Session, NEW k \in Lines, NEW q \in Nat
  PROVE  /\ [s EXCEPT !.cart[k] = q] \in Session
         /\ [s EXCEPT !.cart[k] = q].order = s.order
         /\ [s EXCEPT !.cart[k] = q].cart[k] = q
         /\ \A j \in Lines : j # k => [s EXCEPT !.cart[k] = q].cart[j] = s.cart[j]
BY DEF Session

\* The variables keep their types; in particular order_create iterates only over
\* lines that hold something, and creates items only for its own order.
THEOREM TypeCorrect == Spec => []TypeOK
<1>1. Init => TypeOK
  <2> SUFFICES ASSUME Init PROVE TypeOK
    OBVIOUS
  <2>1. StoreType /\ CountType
    BY IdleType DEF Init, StoreType, CountType
  <2>2. OrdersType
    BY IdleType, BoundsAssumption DEF Init, OrdersType
  <2>3. TabType
    BY IdleType DEF Init, TabType
  <2> QED
    BY <2>1, <2>2, <2>3 DEF TypeOK
<1>2. TypeOK /\ [Next]_vars => TypeOK'
  <2> SUFFICES ASSUME TypeOK, [Next]_vars PROVE TypeOK'
    OBVIOUS
  <2>0. StoreType /\ OrdersType /\ CountType /\ TabType
    BY DEF TypeOK
  <2> USE DEF orders, counts
  <2>1. ASSUME NEW k \in Lines, DeleteRow(k) PROVE TypeOK'
    <3>1. OrdersType'
      BY <2>0, <2>1 DEF DeleteRow, ItemsWithout, Deleted, OrdersType
    <3>2. StoreType' /\ CountType' /\ TabType'
      BY <2>0, <2>1 DEF DeleteRow, StoreType, CountType, TabType
    <3> QED
      BY <3>1, <3>2 DEF TypeOK
  <2>2. ASSUME NEW t \in Tabs, Load(t) PROVE TypeOK'
    <3> DEFINE x == [IdleTab EXCEPT !.step = "loaded", !.session = store]
    <3>1. x \in Tab /\ x.step = "loaded" /\ x.todo = {}
      BY <2>0, IdleType DEF StoreType, Tab
    <3>2. tab' = [tab EXCEPT ![t] = x]
      BY <2>2 DEF Load
    <3> HIDE DEF x
    <3>3. TabType'
      BY <2>0, <3>1, <3>2, TabUpdate
    <3>4. CountType' /\ StoreType'
      BY <2>0, <2>2, IdleType DEF Load, CountType, StoreType
    <3> QED
      BY <2>0, <2>2, <3>3, <3>4 DEF Load, TypeOK, OrdersType
  \* A request that ends without a new order and saves some session.
  <2>3. ASSUME NEW t \in Tabs, Finish(t), store' \in Session, CountType',
               disturbed' = disturbed, UNCHANGED <<catalog, orders>>
        PROVE  TypeOK'
    <3>1. TabType'
      BY <2>0, <2>3, FinishType
    <3> QED
      BY <2>0, <2>3, <3>1 DEF TypeOK, StoreType, OrdersType
  <2>4. ASSUME NEW t \in Tabs, SaveUnchanged(t) PROVE Finish(t) /\ store' \in Session
    BY <2>0, <2>4, TabFields DEF SaveUnchanged, StoreType
  <2>5. ASSUME NEW t \in Tabs, ShowPage(t) \/ ApplyCoupon(t) PROVE TypeOK'
    BY <2>0, <2>3, <2>4, <2>5, TabFields DEF ShowPage, ApplyCoupon, Save, CountType
  <2>6. ASSUME NEW t \in Tabs, NEW k \in Lines, NEW q \in Nat, SetLine(t, k, q)
        PROVE  Finish(t) /\ store' \in Session /\ CountType' /\ disturbed' = disturbed
    <3>1. store' \in Session
      BY <2>0, <2>6, TabFields, LineType DEF SetLine, Save
    <3>2. tab[t].session.cart[k] \in Nat /\ wanted[k] \in Int
      BY <2>0, TabFields DEF CountType
    <3>3. CountType'
      BY <2>0, <2>6, <3>2 DEF SetLine, CountType
    <3> QED
      BY <2>6, <3>1, <3>3 DEF SetLine, Save
  <2>7. ASSUME NEW line \in Lines PROVE Resolve(line) \in Lines
    BY CatalogAssumption DEF Resolve, Owner, Lines
  <2>8. ASSUME NEW t \in Tabs, NEW line \in Lines, NEW q \in 1..MaxQuantity[line],
               AddToCart(t, line, q)
        PROVE  TypeOK'
    <3>1. tab[t].session.cart[Resolve(line)] + q \in Nat
      BY <2>0, <2>7, TabFields
    <3> QED
      BY <2>3, <2>6, <2>7, <2>8, <3>1 DEF AddToCart
  <2>9. ASSUME NEW t \in Tabs, NEW line \in Lines, NEW q \in 1..MaxQuantity[line],
               UpdateLine(t, line, q)
        PROVE  TypeOK'
    <3>1. q \in Nat
      OBVIOUS
    <3> QED
      BY <2>3, <2>6, <2>7, <2>9, <3>1 DEF UpdateLine
  <2>10. ASSUME NEW t \in Tabs, NEW line \in Lines, RemoveFromCart(t, line) PROVE TypeOK'
    <3>1. CASE SetLine(t, Resolve(line), 0)
      BY <2>3, <2>6, <2>7, <2>10, <3>1 DEF RemoveFromCart
    <3>2. CASE SaveUnchanged(t) /\ UNCHANGED counts
      BY <2>0, <2>3, <2>4, <2>10, <3>2 DEF RemoveFromCart, CountType
    <3> QED
      BY <2>10, <3>1, <3>2 DEF RemoveFromCart
  <2>11. ASSUME NEW t \in Tabs, SaveOrder(t) PROVE TypeOK'
    <3> DEFINE n == created + 1
               todo == LinesOf(tab[t].session.cart)
               x == [tab[t] EXCEPT !.step = "lines", !.order = n, !.todo = todo]
    <3>1. n \in Numbers /\ n \in 0..MaxOrders
      BY <2>11, BoundsAssumption DEF SaveOrder, Numbers
    <3>2. todo \in SUBSET Lines /\ \A k \in todo : tab[t].session.cart[k] > 0
      BY DEF LinesOf
    <3>3. tab' = [tab EXCEPT ![t] = x]
      BY <2>11 DEF SaveOrder
    <3>4. OrdersType'
      BY <2>0, <2>11, <3>1, <3>2 DEF SaveOrder, OrdersType
    <3> HIDE DEF n, todo
    <3>5. x \in Tab /\ x.order = n /\ x.todo = todo /\ x.session = tab[t].session
      BY <2>0, <3>1, <3>2, TabFields DEF Tab
    <3> HIDE DEF x
    <3>6. TabType'
      BY <2>0, <3>1, <3>2, <3>3, <3>5, TabUpdate
    <3> QED
      BY <2>0, <2>11, <3>4, <3>6 DEF SaveOrder, TypeOK, StoreType, CountType
  <2>12. ASSUME NEW t \in Tabs, NEW k \in Lines, CreateItem(t, k) PROVE TypeOK'
    <3> DEFINE n == tab[t].order
               x == [tab[t] EXCEPT !.todo = @ \ {k}]
    <3>1. /\ n \in Numbers /\ tab[t].session.cart[k] \in Nat
      BY <2>0, <2>12, TabFields DEF CreateItem
    <3>2. OrdersType'
      BY <2>0, <2>12, <3>1 DEF CreateItem, OrdersType
    <3>3. tab' = [tab EXCEPT ![t] = x]
      BY <2>12 DEF CreateItem
    <3>4. x \in Tab /\ x.order = n /\ x.todo \subseteq tab[t].todo
          /\ x.session = tab[t].session
      BY <2>0, TabFields DEF Tab
    <3>5. \A j \in x.todo : x.session.cart[j] > 0
      BY <2>0, <3>4 DEF TabType
    <3> HIDE DEF x
    <3>6. TabType'
      BY <2>0, <3>1, <3>3, <3>4, <3>5, TabUpdate
    <3> QED
      BY <2>0, <2>12, <3>2, <3>6 DEF CreateItem, TypeOK, StoreType, CountType
  <2>13. ASSUME NEW t \in Tabs, DispatchMail(t) PROVE TypeOK'
    <3> DEFINE x == [tab[t] EXCEPT !.step = "respond"]
    <3>1. tab[t].order \in Numbers
      BY <2>0, <2>13, TabFields DEF DispatchMail
    <3>2. x \in Tab /\ x.order \in Numbers /\ x.todo = {}
      BY <2>0, <2>13, <3>1, TabFields DEF DispatchMail, Tab
    <3>3. tab' = [tab EXCEPT ![t] = x]
      BY <2>13 DEF DispatchMail
    <3> HIDE DEF x
    <3>4. TabType'
      BY <2>0, <3>2, <3>3, TabUpdate
    <3> QED
      BY <2>0, <2>13, <3>1, <3>4 DEF DispatchMail, TypeOK, StoreType, OrdersType, CountType
  <2>14. ASSUME NEW t \in Tabs,
                MailRefused(t) \/ Crash(t) \/ \E k \in Lines : ItemFails(t, k)
         PROVE  TypeOK'
    BY <2>0, <2>3, <2>14 DEF MailRefused, Crash, ItemFails, StoreType, CountType
  <2>15. ASSUME NEW t \in Tabs, Respond(t) PROVE TypeOK'
    <3>1. tab[t].order \in Numbers /\ tab[t].order \in 0..MaxOrders
      BY <2>0, <2>15, TabFields DEF Respond
    <3>2. PlacedSession(t) \in Session
      BY <3>1, IdleType DEF PlacedSession, Session
    <3>3. \A k \in Lines : items[tab[t].order][k] \in Nat /\ ordered[k] \in Nat
      BY <2>0, <3>1 DEF OrdersType, CountType
    <3>4. CountType'
      BY <2>0, <2>15, <3>3 DEF Respond, CountType
    <3> QED
      BY <2>3, <2>15, <3>2, <3>4 DEF Respond, Save
  <2>16. CASE UNCHANGED vars
    BY <2>16 DEF vars, TypeOK, StoreType, OrdersType, CountType, TabType
  <2> QED
    BY <2>1, <2>2, <2>5, <2>8, <2>9, <2>10, <2>11, <2>12, <2>13, <2>14, <2>15, <2>16
       DEF Next
<1> QED
  BY <1>1, <1>2, PTL DEF Spec

-----------------------------------------------------------------------------
(* Only whole orders are paid.  A session refers to an order only when its   *)
(* request reached the redirect; that the order is whole then follows from   *)
(* what its request still has to do, and whole orders are never touched.     *)

Known(session) == session.order <= created /\ Payable(session)

TabWhole(t) ==
  /\ Known(tab[t].session)
  /\ tab[t].step = "lines" =>
       tab[t].order <= created /\ Lacking(tab[t].order) \subseteq tab[t].todo
  /\ tab[t].step = "respond" =>
       /\ tab[t].order <= created
       /\ Lacking(tab[t].order) = {} /\ tab[t].order \in announced

WholeInv == Known(store) /\ \A t \in Tabs : TabWhole(t)

\* An order that is whole stays whole under a step that creates no order, adds no
\* missing line but those whose item is deleted and takes back no mail.
LEMMA WholeStays ==
  ASSUME NEW s, Known(s), OrdersType, s.order \in 0..MaxOrders, created' = created,
         announced \subseteq announced',
         \A n \in Numbers : missing'[n] \ withdrawn'[n] \subseteq missing[n] \ withdrawn[n]
  PROVE  /\ s.order <= created'
         /\ s.order # 0 => /\ missing'[s.order] \ withdrawn'[s.order] = {}
                           /\ s.order \in announced'
<1>1. CASE s.order = 0
  BY <1>1 DEF Known
<1>2. CASE s.order # 0
  <2>1. s.order \in Numbers
    BY <1>2, BoundsAssumption DEF Numbers
  <2> QED
    BY <1>2, <2>1 DEF Known, Payable, Lacking
<1> QED
  BY <1>1, <1>2

\* Every session, saved or loaded, refers to a whole order or to none.
LEMMA WholeHolds == Spec => []WholeInv
<1>1. Init => WholeInv
  BY IdleType, BoundsAssumption DEF Init, WholeInv, Known, Payable, Lacking, TabWhole, IdleTab, NewSession
<1>2. TypeOK /\ TypeOK' /\ WholeInv /\ [Next]_vars => WholeInv'
  <2> SUFFICES ASSUME TypeOK, TypeOK', WholeInv, [Next]_vars PROVE WholeInv'
    OBVIOUS
  <2>0. /\ StoreType /\ OrdersType /\ CountType /\ TabType
        /\ StoreType' /\ OrdersType' /\ CountType' /\ TabType'
    BY DEF TypeOK
  <2> USE DEF orders, counts
  <2>1. store.order \in 0..MaxOrders /\ store.order \in Int /\ created \in Nat
    BY <2>0, BoundsAssumption DEF StoreType, OrdersType, Session
  <2>2. Known(store) /\ \A t \in Tabs : TabWhole(t)
    BY DEF WholeInv
  <2>3. Known(NewSession)
    BY <2>1, IdleType DEF Known, Payable, Lacking
  \* A step that leaves the orders alone, and a request that ends.
  <2>4. ASSUME UNCHANGED orders, NEW t \in Tabs, tab'[t] = tab[t] PROVE TabWhole(t)'
    BY <2>2, <2>4 DEF TabWhole, Known, Payable, Lacking
  <2>5. ASSUME UNCHANGED orders, NEW t \in Tabs, Finish(t), Known(store)'
        PROVE  WholeInv'
    <3>1. tab'[t] = IdleTab /\ \A u \in Tabs : u # t => tab'[u] = tab[u]
      BY <2>0, <2>5, FinishType
    <3>2. TabWhole(t)'
      BY <2>3, <2>5, <3>1, IdleType DEF TabWhole, Known, Payable, Lacking, IdleTab
    <3> QED
      BY <2>4, <2>5, <3>1, <3>2 DEF WholeInv
  <2>6. ASSUME UNCHANGED orders, NEW s, Known(s), store' = s PROVE Known(store)'
    BY <2>6 DEF Known, Payable, Lacking
  <2>7. ASSUME NEW t \in Tabs PROVE Known(tab[t].session)
    BY <2>2 DEF TabWhole
  \* A step that leaves the requests alone and no whole order less than whole.
  <2>24. ASSUME UNCHANGED <<store, tab, created, announced>>,
                \A n \in Numbers : missing'[n] \ withdrawn'[n] \subseteq missing[n] \ withdrawn[n]
         PROVE  WholeInv'
    <3>1. Known(store)'
      BY <2>1, <2>2, <2>0, <2>24, WholeStays DEF Known, Payable, Lacking
    <3>2. ASSUME NEW u \in Tabs PROVE TabWhole(u)'
      <4>1. Known(tab[u].session)'
        BY <2>0, <2>7, <2>24, TabFields, WholeStays DEF Known, Payable, Lacking
      <4>2. TabWhole(u) /\ (tab[u].step \in {"lines", "respond"} => tab[u].order \in Numbers)
        BY <2>0, <2>2, TabFields
      <4> QED
        BY <2>24, <4>1, <4>2 DEF TabWhole, Lacking
    <3> QED
      BY <3>1, <3>2 DEF WholeInv
  <2>8. ASSUME NEW k \in Lines, DeleteRow(k) PROVE WholeInv'
    <3>1. /\ UNCHANGED <<store, tab, created, announced>>
          /\ \A n \in Numbers : missing'[n] \ withdrawn'[n] \subseteq missing[n] \ withdrawn[n]
      BY <2>0, <2>8 DEF DeleteRow, OrdersType
    <3> QED
      BY <2>24, <3>1
  <2>9. ASSUME NEW t \in Tabs, Load(t) PROVE WholeInv'
    <3>1. /\ tab'[t].step = "loaded" /\ tab'[t].session = store
          /\ \A u \in Tabs : u # t => tab'[u] = tab[u]
      BY <2>0, <2>9 DEF Load, TabType, IdleTab
    <3>2. TabWhole(t)'
      BY <2>2, <2>9, <3>1 DEF Load, TabWhole, Known, Payable, Lacking
    <3>3. Known(store)'
      BY <2>2, <2>6, <2>9 DEF Load
    <3> QED
      BY <2>4, <2>9, <3>1, <3>2, <3>3 DEF Load, WholeInv
  <2>10. ASSUME NEW t \in Tabs, SaveUnchanged(t), UNCHANGED orders PROVE WholeInv'
    BY <2>2, <2>5, <2>6, <2>7, <2>10 DEF SaveUnchanged
  <2>11. ASSUME NEW t \in Tabs, ShowPage(t) \/ ApplyCoupon(t) PROVE WholeInv'
    BY <2>5, <2>6, <2>7, <2>10, <2>11 DEF ShowPage, ApplyCoupon, Save
  <2>12. ASSUME NEW t \in Tabs, NEW k \in Lines, NEW q \in Nat, SetLine(t, k, q),
                UNCHANGED orders
         PROVE  WholeInv'
    <3> DEFINE s == [tab[t].session EXCEPT !.cart[k] = q]
    <3>1. s.order = tab[t].session.order
      BY <2>0, TabFields, LineType
    <3>2. store' = s
      BY <2>12 DEF SetLine, Save
    <3> HIDE DEF s
    <3>3. Known(s)
      BY <2>7, <3>1 DEF Known, Payable, Lacking
    <3> QED
      BY <2>5, <2>6, <2>12, <3>2, <3>3 DEF SetLine, Save
  <2>13. ASSUME NEW line \in Lines PROVE Resolve(line) \in Lines
    BY CatalogAssumption DEF Resolve, Owner, Lines
  <2>14. ASSUME NEW t \in Tabs, NEW line \in Lines, NEW q \in 1..MaxQuantity[line],
                AddToCart(t, line, q) \/ UpdateLine(t, line, q)
         PROVE  WholeInv'
    <3>1. tab[t].session.cart[Resolve(line)] + q \in Nat /\ q \in Nat
      BY <2>0, <2>13, TabFields
    <3> QED
      BY <2>12, <2>13, <2>14, <3>1 DEF AddToCart, UpdateLine
  <2>15. ASSUME NEW t \in Tabs, NEW line \in Lines, RemoveFromCart(t, line)
         PROVE  WholeInv'
    BY <2>10, <2>12, <2>13, <2>15 DEF RemoveFromCart
  <2>16. ASSUME NEW t \in Tabs, SaveOrder(t) PROVE WholeInv'
    <3> DEFINE n == created + 1
    <3>1. n \in Numbers /\ created' = n /\ announced' = announced /\ withdrawn' = withdrawn
      BY <2>16 DEF SaveOrder
    <3>2. \A m \in Numbers : m # n => missing'[m] = missing[m]
      BY <2>0, <2>16 DEF SaveOrder, OrdersType
    <3>3. ASSUME NEW s, Known(s), s.order \in 0..MaxOrders
          PROVE  s.order <= created'
                 /\ (s.order # 0 => /\ missing'[s.order] \ withdrawn'[s.order] = {}
                                    /\ s.order \in announced')
      <4>1. s.order <= created /\ s.order \in Int
        BY <3>3, BoundsAssumption DEF Known
      <4>2. s.order # n /\ s.order <= n
        BY <2>1, <4>1
      <4>3. s.order # 0 => s.order \in Numbers
        BY <3>3, BoundsAssumption DEF Numbers
      <4> QED
        BY <3>1, <3>2, <3>3, <4>2, <4>3 DEF Known, Payable, Lacking
    <3>4. Known(store)'
      BY <2>1, <2>2, <2>16, <3>3 DEF SaveOrder, Known, Payable, Lacking
    <3>5. ASSUME NEW u \in Tabs PROVE TabWhole(u)'
      <4>1. tab'[u].session = tab[u].session
        BY <2>0, <2>16 DEF SaveOrder, TabType, Tab
      <4>2. Known(tab[u].session)'
        BY <2>0, <2>7, <3>3, <4>1, TabFields DEF Known, Payable, Lacking
      <4>3. CASE u = t
        <5>1. /\ tab'[u].step = "lines" /\ tab'[u].order = n
              /\ tab'[u].todo = LinesOf(tab[t].session.cart)
              /\ missing'[n] = LinesOf(tab[t].session.cart)
          BY <2>0, <2>16, <3>1, <4>3 DEF SaveOrder, TabType, Tab, OrdersType
        <5>2. n <= n
          BY <2>1
        <5> QED
          BY <3>1, <4>2, <5>1, <5>2 DEF TabWhole, Lacking
      <4>4. CASE u # t
        <5>1. tab'[u] = tab[u]
          BY <2>0, <2>16, <4>4 DEF SaveOrder, TabType
        <5>2. CASE tab[u].step \in {"lines", "respond"}
          <6>1. tab[u].order <= created /\ tab[u].order \in Numbers
            BY <2>0, <2>2, <5>2, TabFields DEF TabWhole
          <6>2. tab[u].order # n /\ tab[u].order <= n
            BY <2>1, <6>1 DEF Numbers
          <6> QED
            BY <2>2, <3>1, <3>2, <4>2, <5>1, <6>1, <6>2 DEF TabWhole, Lacking
        <5>3. CASE tab[u].step \notin {"lines", "respond"}
          BY <4>2, <5>1, <5>3 DEF TabWhole
        <5> QED
          BY <5>2, <5>3
      <4> QED
        BY <4>3, <4>4
    <3> QED
      BY <3>4, <3>5 DEF WholeInv
  \* A step of order_create on an order that is there.
  <2>17. ASSUME NEW t \in Tabs, created' = created, store' = store,
                announced \subseteq announced',
                withdrawn' = withdrawn, \A n \in Numbers : missing'[n] \subseteq missing[n],
                tab'[t].session = tab[t].session,
                \A u \in Tabs : u # t => tab'[u] = tab[u],
                tab'[t].step = "lines" =>
                  /\ tab'[t].order <= created
                  /\ missing'[tab'[t].order] \ withdrawn[tab'[t].order] \subseteq tab'[t].todo,
                tab'[t].step = "respond" =>
                  /\ tab'[t].order <= created
                  /\ missing'[tab'[t].order] \ withdrawn[tab'[t].order] = {}
                  /\ tab'[t].order \in announced'
         PROVE  WholeInv'
    <3>1. Known(store)'
      BY <2>0, <2>1, <2>2, <2>17, WholeStays DEF Known, Payable, Lacking
    <3>2. ASSUME NEW u \in Tabs PROVE TabWhole(u)'
      <4>1. tab'[u].session = tab[u].session
        BY <2>17
      <4>2. Known(tab[u].session)'
        BY <2>0, <2>7, <2>17, <4>1, TabFields, WholeStays DEF Known, Payable, Lacking
      <4>3. CASE u = t
        BY <2>17, <4>2, <4>3 DEF TabWhole, Lacking
      <4>4. CASE u # t
        <5>1. tab'[u] = tab[u] /\ TabWhole(u)
          BY <2>2, <2>17, <4>4
        <5>2. tab[u].step \in {"lines", "respond"} => tab[u].order \in Numbers
          BY <2>0, TabFields
        <5> QED
          BY <2>17, <4>2, <5>1, <5>2 DEF TabWhole, Lacking
      <4> QED
        BY <4>3, <4>4
    <3> QED
      BY <3>1, <3>2 DEF WholeInv
  <2>18. ASSUME NEW t \in Tabs, NEW k \in Lines, CreateItem(t, k) PROVE WholeInv'
    <3>1. /\ tab'[t].step = "lines" /\ tab'[t].order = tab[t].order
          /\ tab'[t].todo = tab[t].todo \ {k} /\ tab'[t].session = tab[t].session
          /\ \A u \in Tabs : u # t => tab'[u] = tab[u]
      BY <2>0, <2>18 DEF CreateItem, TabType, Tab
    <3>2. /\ tab[t].order \in Numbers /\ tab[t].order <= created
          /\ missing[tab[t].order] \ withdrawn[tab[t].order] \subseteq tab[t].todo
      BY <2>0, <2>2, <2>18, TabFields DEF CreateItem, TabWhole, Lacking
    <3>3. /\ missing'[tab[t].order] = missing[tab[t].order] \ {k}
          /\ \A n \in Numbers : missing'[n] \subseteq missing[n]
      BY <2>0, <2>18, <3>2 DEF CreateItem, OrdersType
    <3> QED
      BY <2>17, <2>18, <3>1, <3>2, <3>3 DEF CreateItem
  <2>19. ASSUME NEW t \in Tabs, DispatchMail(t) PROVE WholeInv'
    <3>1. /\ tab'[t].step = "respond" /\ tab'[t].order = tab[t].order
          /\ tab'[t].session = tab[t].session
          /\ \A u \in Tabs : u # t => tab'[u] = tab[u]
      BY <2>0, <2>19 DEF DispatchMail, TabType, Tab
    <3>2. tab[t].order <= created /\ missing[tab[t].order] \ withdrawn[tab[t].order] = {}
      BY <2>2, <2>19 DEF DispatchMail, TabWhole, Lacking
    <3> QED
      BY <2>17, <2>19, <3>1, <3>2 DEF DispatchMail
  <2>20. ASSUME NEW t \in Tabs,
                MailRefused(t) \/ Crash(t) \/ \E k \in Lines : ItemFails(t, k)
         PROVE  WholeInv'
    BY <2>2, <2>5, <2>6, <2>20 DEF MailRefused, Crash, ItemFails
  <2>21. ASSUME NEW t \in Tabs, Respond(t) PROVE WholeInv'
    <3>1. Known(PlacedSession(t))
      BY <2>2, <2>21 DEF Respond, TabWhole, Known, Payable, Lacking, PlacedSession
    <3> QED
      BY <2>5, <2>6, <2>21, <3>1 DEF Respond, Save
  <2>22. CASE UNCHANGED vars
    BY <2>2, <2>4, <2>22 DEF vars, WholeInv, Known, Payable, Lacking
  <2> QED
    BY <2>8, <2>9, <2>11, <2>14, <2>15, <2>16, <2>18, <2>19, <2>20, <2>21, <2>22 DEF Next
<1> QED
  BY <1>1, <1>2, TypeCorrect, PTL DEF Spec

\* Nobody is sent to pay an order that lacks a line of its cart or its mail.
THEOREM OnlyWholeOrdersPaid == Spec => []PayableIsWhole
<1>1. WholeInv => PayableIsWhole
  BY DEF WholeInv, Known, PayableIsWhole
<1> QED
  BY <1>1, WholeHolds, PTL

-----------------------------------------------------------------------------
(* No unit is lost or sold twice while requests do not overlap.  Then at most *)
(* one request is under way and its copy of the session is the saved one; the *)
(* items it created are the lines of that cart it has already been through,   *)
(* less those whose product was deleted since.                                *)

Balance(k) ==
  /\ wanted[k] >= store.cart[k] + ordered[k]
  /\ Owner(k) \in catalog => wanted[k] = store.cart[k] + ordered[k]

ItemsSoFar(t) ==
  /\ tab[t].step \in {"lines", "respond"} => \A k \in Lines :
       /\ items[tab[t].order][k] <= tab[t].session.cart[k]
       /\ Owner(k) \in catalog =>
            items[tab[t].order][k] = IF k \in tab[t].todo THEN 0 ELSE tab[t].session.cart[k]
  /\ tab[t].step = "respond" => tab[t].todo = {}

Alone(t) ==
  tab[t].step # "idle" =>
    /\ tab[t].session = store
    /\ \A u \in Tabs : u # t => tab[u].step = "idle"

ConservedInv ==
  /\ \A n \in Numbers : n > created => \A k \in Lines : items[n][k] = 0
  /\ ~disturbed => /\ UnitsConserved
                   /\ \A t \in Tabs : Alone(t) /\ ItemsSoFar(t)

\* As long as requests do not overlap, each unit asked for of a product that is still
\* there is in the cart or an item of the orders the customer was sent to pay, never in
\* both, even if requests fail or are killed and retried; of a deleted product there are
\* at most as many.
THEOREM Conserved == Spec => []UnitsConserved
<1>1. Init => ConservedInv
  <2> SUFFICES ASSUME Init PROVE ConservedInv
    OBVIOUS
  <2>1. \A k \in Lines : EmptyCart[k] = 0
    BY DEF EmptyCart
  <2>2. \A t \in Tabs : tab[t].step = "idle"
    BY IdleType DEF Init
  <2> QED
    BY <2>1, <2>2 DEF Init, ConservedInv, UnitsConserved, Balance, Alone, ItemsSoFar, NewSession
<1>2. TypeOK /\ TypeOK' /\ WholeInv /\ ConservedInv /\ [Next]_vars => ConservedInv'
  <2> SUFFICES ASSUME TypeOK, TypeOK', WholeInv, ConservedInv, [Next]_vars
               PROVE  ConservedInv'
    OBVIOUS
  <2>0. /\ StoreType /\ OrdersType /\ CountType /\ TabType
        /\ StoreType' /\ OrdersType' /\ CountType' /\ TabType'
    BY DEF TypeOK
  <2> USE DEF orders, counts
  <2>1. \A n \in Numbers : n > created => \A k \in Lines : items[n][k] = 0
    BY DEF ConservedInv
  <2>2. ASSUME ~disturbed, NEW t \in Tabs
        PROVE  UnitsConserved /\ Alone(t) /\ ItemsSoFar(t)
    BY <2>2 DEF ConservedInv
  <2>2a. ASSUME ~disturbed PROVE \A k \in Lines : Balance(k)
    BY <2>2a DEF ConservedInv, UnitsConserved, Balance
  <2>3. IdleTab.step = "idle"
    BY IdleType
  \* The only request under way ends: afterwards all are idle.
  <2>4. ASSUME NEW t \in Tabs, tab[t].step # "idle", Finish(t),
               UNCHANGED <<orders, disturbed, catalog>>,
               ~disturbed => \A k \in Lines : Balance(k)'
        PROVE  ConservedInv'
    <3>1. tab'[t] = IdleTab /\ \A u \in Tabs : u # t => tab'[u] = tab[u]
      BY <2>0, <2>4, FinishType
    <3>2. ASSUME ~disturbed PROVE \A u \in Tabs : tab'[u].step = "idle"
      BY <2>2, <2>3, <2>4, <3>1, <3>2 DEF Alone
    <3> QED
      BY <2>1, <2>4, <3>2 DEF ConservedInv, UnitsConserved, Balance, Alone, ItemsSoFar
  <2>5. ASSUME NEW k \in Lines, DeleteRow(k) PROVE ConservedInv'
    <3>1. /\ UNCHANGED <<store, tab, created, disturbed, wanted>>
          /\ \A j \in Lines : Owner(j) \in catalog' => Owner(j) \in catalog /\ Owner(j) # k
      BY <2>5 DEF DeleteRow
    <3>2. ASSUME NEW n \in Numbers, NEW j \in Lines
          PROVE  /\ items[n][j] \in Nat /\ items'[n][j] = IF Owner(j) = k THEN 0 ELSE items[n][j]
                 /\ items'[n][j] <= items[n][j]
      BY <2>0, <2>5 DEF DeleteRow, ItemsWithout, OrdersType
    <3>3. ASSUME NEW j \in Lines
          PROVE  /\ ordered[j] \in Nat /\ store.cart[j] \in Nat /\ wanted[j] \in Int
                 /\ ordered'[j] = IF Owner(j) = k THEN 0 ELSE ordered[j]
                 /\ ordered'[j] <= ordered[j]
      BY <2>0, <2>5 DEF DeleteRow, StoreType, Session, CountType
    <3>4. \A n \in Numbers : n > created' => \A j \in Lines : items'[n][j] = 0
      BY <2>1, <3>1, <3>2
    <3>5. ASSUME ~disturbed, NEW j \in Lines PROVE Balance(j)'
      <4>1. Balance(j)
        BY <2>2a, <3>5
      <4> QED
        BY <3>1, <3>3, <4>1 DEF Balance
    <3>6. ASSUME ~disturbed, NEW t \in Tabs PROVE Alone(t)' /\ ItemsSoFar(t)'
      <4>1. Alone(t) /\ ItemsSoFar(t)
        BY <2>2, <3>6
      <4>2. ASSUME tab[t].step \in {"lines", "respond"}, NEW j \in Lines
            PROVE  /\ items'[tab[t].order][j] <= tab[t].session.cart[j]
                   /\ Owner(j) \in catalog' =>
                        items'[tab[t].order][j] = items[tab[t].order][j]
        <5>1. tab[t].order \in Numbers /\ tab[t].session.cart[j] \in Nat
          BY <2>0, <4>2, TabFields
        <5>2. /\ items[tab[t].order][j] \in Nat /\ items'[tab[t].order][j] \in Nat
              /\ items'[tab[t].order][j] <= items[tab[t].order][j]
          BY <3>2, <5>1
        <5>3. items[tab[t].order][j] <= tab[t].session.cart[j]
          BY <4>1, <4>2 DEF ItemsSoFar
        <5> QED
          BY <3>1, <3>2, <5>1, <5>2, <5>3
      <4> QED
        BY <3>1, <4>1, <4>2 DEF Alone, ItemsSoFar
    <3> QED
      BY <3>1, <3>4, <3>5, <3>6 DEF ConservedInv, UnitsConserved, Balance
  <2>6. ASSUME NEW t \in Tabs, Load(t) PROVE ConservedInv'
    <3>1. CASE Busy
      BY <2>1, <2>6, <3>1 DEF Load, ConservedInv
    <3>2. CASE ~Busy
      <4>1. /\ tab'[t].step = "loaded" /\ tab'[t].session = store
            /\ \A u \in Tabs : u # t => tab'[u] = tab[u] /\ tab'[u].step = "idle"
        BY <2>0, <2>6, <3>2 DEF Load, Busy, TabType, IdleTab
      <4> QED
        BY <2>1, <2>2, <2>6, <3>2, <4>1 DEF Load, ConservedInv, UnitsConserved, Balance, Alone, ItemsSoFar
    <3> QED
      BY <3>1, <3>2
  <2>7. ASSUME NEW t \in Tabs, tab[t].step # "idle", SaveUnchanged(t),
               UNCHANGED <<catalog, orders, counts>>
        PROVE  ConservedInv'
    <3>1. ASSUME ~disturbed PROVE store' = store
      BY <2>2, <2>7, <3>1 DEF SaveUnchanged, Alone
    <3> QED
      BY <2>2, <2>4, <2>7, <3>1 DEF SaveUnchanged, UnitsConserved, Balance
  <2>8. ASSUME NEW t \in Tabs, ShowPage(t) PROVE ConservedInv'
    BY <2>7, <2>8 DEF ShowPage
  <2>9. ASSUME NEW t \in Tabs, ApplyCoupon(t) PROVE ConservedInv'
    BY <2>2, <2>4, <2>9 DEF ApplyCoupon, Save, Alone, UnitsConserved, Balance
  <2>10. ASSUME NEW t \in Tabs, NEW k \in Lines, NEW q \in Nat, SetLine(t, k, q),
                tab[t].step # "idle", UNCHANGED <<catalog, orders>>
         PROVE  ConservedInv'
    <3>1. ASSUME ~disturbed, NEW j \in Lines PROVE Balance(j)'
      <4>1. tab[t].session = store /\ Balance(j) /\ catalog' = catalog
        BY <2>2, <2>2a, <2>10, <3>1 DEF Alone
      <4>2. /\ store.cart[j] \in Nat /\ ordered[j] \in Nat /\ wanted[j] \in Int
            /\ wanted \in [Lines -> Int]
        BY <2>0 DEF StoreType, Session, CountType
      <4>3. /\ wanted' = [wanted EXCEPT ![k] = @ + q - store.cart[k]]
            /\ store' = [store EXCEPT !.cart[k] = q] /\ ordered' = ordered
        BY <2>10, <3>1, <4>1 DEF SetLine, Save
      <4>4. store \in Session
        BY <2>0 DEF StoreType
      <4>5. CASE j = k
        <5>1. wanted'[j] = wanted[j] + q - store.cart[j] /\ store'.cart[j] = q
          BY <4>2, <4>3, <4>4, <4>5, LineType
        <5> QED
          BY <4>1, <4>2, <4>3, <5>1 DEF Balance
      <4>6. CASE j # k
        <5>1. wanted'[j] = wanted[j] /\ store'.cart[j] = store.cart[j]
          BY <4>2, <4>3, <4>4, <4>6, LineType
        <5> QED
          BY <4>1, <4>2, <4>3, <5>1 DEF Balance
      <4> QED
        BY <4>5, <4>6
    <3> QED
      BY <2>4, <2>10, <3>1 DEF SetLine, Save
  <2>11. ASSUME NEW line \in Lines PROVE Resolve(line) \in Lines
    BY CatalogAssumption DEF Resolve, Owner, Lines
  <2>12. ASSUME NEW t \in Tabs, NEW line \in Lines, NEW q \in 1..MaxQuantity[line],
                AddToCart(t, line, q) \/ UpdateLine(t, line, q)
         PROVE  ConservedInv'
    <3>1. tab[t].session.cart[Resolve(line)] + q \in Nat /\ q \in Nat
      BY <2>0, <2>11, TabFields
    <3> QED
      BY <2>10, <2>11, <2>12, <3>1 DEF AddToCart, UpdateLine
  <2>13. ASSUME NEW t \in Tabs, NEW line \in Lines, RemoveFromCart(t, line)
         PROVE  ConservedInv'
    BY <2>7, <2>10, <2>11, <2>13 DEF RemoveFromCart
  <2>14. ASSUME NEW t \in Tabs, SaveOrder(t) PROVE ConservedInv'
    <3> DEFINE n == created + 1
    <3>1. /\ n \in Numbers /\ created' = n /\ items' = items /\ n > created
          /\ UNCHANGED <<catalog, store, counts>>
      BY <2>0, <2>14 DEF SaveOrder, OrdersType
    <3>2. /\ tab'[t].step = "lines" /\ tab'[t].order = n
          /\ tab'[t].session = tab[t].session
          /\ tab'[t].todo = {k \in Lines : tab[t].session.cart[k] > 0}
          /\ \A u \in Tabs : u # t => tab'[u] = tab[u]
      BY <2>0, <2>14 DEF SaveOrder, LinesOf, TabType, Tab
    <3>3. \A k \in Lines : items'[n][k] = 0
      BY <2>1, <3>1
    <3>4. \A k \in Lines : tab[t].session.cart[k] \in Nat
      BY <2>0, TabFields
    <3>5. \A m \in Numbers : m > created' => \A k \in Lines : items'[m][k] = 0
      <4>1. ASSUME NEW m \in Numbers, m > created' PROVE m > created
        BY <2>0, <3>1, <4>1 DEF OrdersType, Numbers
      <4> QED
        BY <2>1, <3>1, <4>1
    <3>6. ASSUME ~disturbed, NEW u \in Tabs PROVE Alone(u)' /\ ItemsSoFar(u)'
      <4>1. Alone(t) /\ tab[t].step # "idle"
        BY <2>2, <2>14, <3>6 DEF SaveOrder
      <4>2. CASE u = t
        <5>1. Alone(u)'
          BY <3>1, <3>2, <4>1, <4>2 DEF Alone
        <5>2. ItemsSoFar(u)'
          BY <3>2, <3>3, <3>4, <4>2 DEF ItemsSoFar
        <5> QED
          BY <5>1, <5>2
      <4>3. CASE u # t
        BY <3>2, <4>1, <4>3 DEF Alone, ItemsSoFar
      <4> QED
        BY <4>2, <4>3
    <3> QED
      BY <2>2, <2>14, <3>1, <3>5, <3>6 DEF ConservedInv, UnitsConserved, Balance
  \* A step of order_create on the request's own order, the only one under way.
  <2>15. ASSUME NEW t \in Tabs, tab[t].step # "idle",
                UNCHANGED <<catalog, store, counts, created>>,
                tab'[t].session = tab[t].session,
                \A u \in Tabs : u # t => tab'[u] = tab[u],
                \A m \in Numbers : m > created => \A k \in Lines : items'[m][k] = 0,
                ~disturbed => ItemsSoFar(t)'
         PROVE  ConservedInv'
    <3>1. ASSUME ~disturbed, NEW u \in Tabs PROVE Alone(u)' /\ ItemsSoFar(u)'
      <4>1. Alone(t)
        BY <2>2, <3>1
      <4>2. CASE u = t
        BY <2>15, <3>1, <4>1, <4>2 DEF Alone
      <4>3. CASE u # t
        BY <2>15, <4>1, <4>3 DEF Alone, ItemsSoFar
      <4> QED
        BY <4>2, <4>3
    <3> QED
      BY <2>2, <2>15, <3>1 DEF ConservedInv, UnitsConserved, Balance
  <2>16. ASSUME NEW t \in Tabs, NEW k \in Lines, CreateItem(t, k) PROVE ConservedInv'
    <3> DEFINE n == tab[t].order
    <3>1. /\ tab[t].step = "lines" /\ k \in tab[t].todo
          /\ tab'[t].step = "lines" /\ tab'[t].order = n
          /\ tab'[t].todo = tab[t].todo \ {k} /\ tab'[t].session = tab[t].session
          /\ \A u \in Tabs : u # t => tab'[u] = tab[u]
      BY <2>0, <2>16 DEF CreateItem, TabType, Tab
    <3>2. n \in Numbers /\ n <= created
      BY <2>0, <3>1, TabFields DEF WholeInv, TabWhole
    <3>3. /\ items'[n][k] = tab[t].session.cart[k]
          /\ \A j \in Lines : j # k => items'[n][j] = items[n][j]
          /\ \A m \in Numbers : m # n => items'[m] = items[m]
      BY <2>0, <2>16, <3>2 DEF CreateItem, OrdersType
    <3>4. \A m \in Numbers : m > created => \A j \in Lines : items'[m][j] = 0
      <4>1. ASSUME NEW m \in Numbers, m > created PROVE m # n
        BY <2>0, <3>2, <4>1 DEF OrdersType, Numbers
      <4> QED
        BY <2>1, <3>3, <4>1
    <3>5. ~disturbed => ItemsSoFar(t)'
      <4>1. tab[t].session.cart[k] \in Nat /\ catalog' = catalog
        BY <2>0, <2>16, TabFields DEF CreateItem
      <4> QED
        BY <2>2, <3>1, <3>3, <4>1 DEF ItemsSoFar
    <3> QED
      BY <2>15, <2>16, <3>1, <3>4, <3>5 DEF CreateItem
  <2>17. ASSUME NEW t \in Tabs, DispatchMail(t) PROVE ConservedInv'
    <3>1. /\ tab[t].step = "lines" /\ tab[t].todo = {}
          /\ tab'[t].step = "respond" /\ tab'[t].order = tab[t].order
          /\ tab'[t].todo = {} /\ tab'[t].session = tab[t].session
          /\ \A u \in Tabs : u # t => tab'[u] = tab[u]
      BY <2>0, <2>17 DEF DispatchMail, TabType, Tab
    <3>2. ~disturbed => ItemsSoFar(t)'
      BY <2>2, <2>17, <3>1 DEF DispatchMail, ItemsSoFar
    <3> QED
      BY <2>1, <2>15, <2>17, <3>1, <3>2 DEF DispatchMail
  <2>18. ASSUME NEW t \in Tabs,
                MailRefused(t) \/ Crash(t) \/ \E k \in Lines : ItemFails(t, k)
         PROVE  ConservedInv'
    <3>1. /\ tab[t].step # "idle" /\ Finish(t)
          /\ UNCHANGED <<catalog, store, orders, counts>>
      BY <2>18 DEF MailRefused, Crash, ItemFails
    <3>2. ~disturbed => \A k \in Lines : Balance(k)'
      BY <2>2a, <3>1 DEF Balance
    <3> QED
      BY <2>4, <3>1, <3>2
  <2>19. ASSUME NEW t \in Tabs, Respond(t) PROVE ConservedInv'
    <3>1. /\ tab[t].step = "respond" /\ Finish(t) /\ UNCHANGED <<orders, disturbed, wanted>>
          /\ store'.cart = EmptyCart /\ catalog' = catalog
      BY <2>19 DEF Respond, Save, PlacedSession
    <3>2. ASSUME ~disturbed, NEW k \in Lines PROVE Balance(k)'
      <4>1. /\ items[tab[t].order][k] <= store.cart[k]
            /\ Owner(k) \in catalog => items[tab[t].order][k] = store.cart[k]
        BY <2>2, <3>1, <3>2 DEF Alone, ItemsSoFar
      <4>2. Balance(k)
        BY <2>2a, <3>2
      <4>3. ordered'[k] = ordered[k] + items[tab[t].order][k] /\ store'.cart[k] = 0
        BY <2>19, <3>1, <3>2 DEF Respond, EmptyCart
      <4>4. /\ store.cart[k] \in Nat /\ ordered[k] \in Nat /\ wanted[k] \in Int
            /\ items[tab[t].order][k] \in Nat
        BY <2>0, <3>1, TabFields DEF StoreType, Session, CountType, OrdersType
      <4> QED
        BY <3>1, <4>1, <4>2, <4>3, <4>4 DEF Balance
    <3> QED
      BY <2>4, <3>1, <3>2
  <2>20. CASE UNCHANGED vars
    BY <2>20 DEF vars, ConservedInv, UnitsConserved, Balance, Alone, ItemsSoFar
  <2> QED
    BY <2>5, <2>6, <2>8, <2>9, <2>12, <2>13, <2>14, <2>16, <2>17, <2>18, <2>19, <2>20
       DEF Next
<1>3. ConservedInv => UnitsConserved
  BY DEF ConservedInv, UnitsConserved, Balance
<1> QED
  BY <1>1, <1>2, <1>3, TypeCorrect, WholeHolds, PTL DEF Spec

=============================================================================
