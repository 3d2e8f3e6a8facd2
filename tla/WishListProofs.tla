----------------------------- MODULE WishListProofs -----------------------------
(***************************************************************************)
(* Machine-checked proofs about WishList, for any catalog, any number of   *)
(* overlapping requests and any bounds: types, that a variant is on the    *)
(* list once, and that moving lines to the cart duplicates nothing.        *)
(***************************************************************************)
EXTENDS WishList, TLAPS

\* A request that is replaced by a well-typed one, while no list number is lost.
LEMMA ClickUpdate ==
  ASSUME ClickType, lists \in Nat, lists' \in Nat, lists <= lists',
         NEW c \in Clicks, NEW x \in Click,
         click' = [click EXCEPT ![c] = x],
         x.step \in {"finding", "creating", "moved"} =>
           x.line \in Lines /\ x.list \in 1..lists'
  PROVE  ClickType'
<1>1. click' \in [Clicks -> Click]
  BY DEF ClickType
<1>2. ASSUME NEW d \in Clicks, click'[d].step \in {"finding", "creating", "moved"}
      PROVE  click'[d].line \in Lines /\ click'[d].list \in 1..lists'
  BY <1>2 DEF ClickType
<1> QED
  BY <1>1, <1>2 DEF ClickType

\* The idle request.
LEMMA IdleClickType ==
  /\ IdleClick \in Click /\ IdleClick.step = "idle" /\ NoUnits \in Cart
  /\ \A k \in Lines : NoUnits[k] = 0
BY DEF IdleClick, Click, NoUnits, Cart

\* A request that ends.
LEMMA EndType ==
  ASSUME ClickType, lists \in Nat, lists' \in Nat, lists <= lists',
         NEW c \in Clicks, End(c)
  PROVE  ClickType'
BY ClickUpdate, IdleClickType DEF End

\* A list that is created or already there.
LEMMA GetListType ==
  ASSUME RowsType, GetList
  PROVE  /\ lists' \in 0..MaxLists /\ list' \in 1..lists' /\ lists <= lists'
         /\ list # 0 => list' = list
         /\ lists \in Nat /\ lists' \in Nat
BY WishAssumption DEF RowsType, GetList, theList

\* Rows and units that stay, under a list that does not disappear.
LEMMA RowsKept ==
  ASSUME RowsType, variants' = variants, UNCHANGED theRows,
         lists' \in 0..MaxLists, list' \in 0..lists', list # 0 => list' # 0
  PROVE  RowsType'
BY DEF RowsType, theRows

\* Deleting the rows of a line.
LEMMA RowsDeleted ==
  ASSUME RowsType, NEW k \in Lines, DeleteRows(k),
         variants' = variants, inserted' = inserted,
         lists' \in 0..MaxLists, list' \in 0..lists', list # 0 => list' # 0
  PROVE  RowsType'
<1>1. rows' \in [Lines -> SUBSET (1..inserted')] /\ units' \in Cart
  BY DEF RowsType, DeleteRows, Cart
<1>2. \A j \in Lines : rows'[j] \in {rows[j], {}} /\ (units'[j] = 0 <=> rows'[j] = {})
  BY DEF RowsType, DeleteRows, Cart
<1>3. \A i, j \in Lines : i # j => rows'[i] \cap rows'[j] = {}
  BY <1>2 DEF RowsType
<1>4. list' = 0 => \A j \in Lines : rows'[j] = {}
  BY <1>2 DEF RowsType
<1>5. \A v \in Variants \ variants' : rows'[v] = {}
  BY <1>2 DEF RowsType, Lines
<1> QED
  BY <1>1, <1>2, <1>3, <1>4, <1>5 DEF RowsType

\* A row is added to a line that may have one.
LEMMA RowAdded ==
  ASSUME RowsType, list # 0, NEW k \in Products \cup variants, variants \subseteq Variants,
         NEW q \in Nat \ {0}, inserted < MaxRows, inserted' = inserted + 1,
         rows' = [rows EXCEPT ![k] = @ \cup {inserted + 1}],
         units' = [units EXCEPT ![k] = @ + q],
         UNCHANGED <<variants, theList>>
  PROVE  RowsType'
<1>0. k \in Lines /\ inserted \in Nat /\ inserted' \in 0..MaxRows
  BY WishAssumption DEF Lines, RowsType
<1>1. 1..inserted \subseteq 1..inserted' /\ inserted + 1 \in 1..inserted' /\ inserted + 1 \notin 1..inserted
  BY <1>0
<1>2. rows' \in [Lines -> SUBSET (1..inserted')] /\ units' \in Cart
  BY <1>0, <1>1 DEF RowsType, Cart
<1>3. \A j \in Lines : units'[j] = 0 <=> rows'[j] = {}
  BY <1>0 DEF RowsType, Cart
<1>4. \A j \in Lines : inserted + 1 \notin rows[j]
  BY <1>0, <1>1 DEF RowsType
<1>5. \A i, j \in Lines : i # j => rows'[i] \cap rows'[j] = {}
  BY <1>0, <1>4 DEF RowsType
<1>6. \A v \in Variants \ variants' : rows'[v] = {}
  BY <1>0, CatalogAssumption DEF RowsType, Lines
<1>7. list' \in 0..lists' /\ lists' \in 0..MaxLists /\ list' # 0
  BY DEF RowsType, theList
<1> QED
  BY <1>0, <1>2, <1>3, <1>5, <1>6, <1>7 DEF RowsType

\* Units are added to a row that is there.
LEMMA UnitsAdded ==
  ASSUME RowsType, NEW k \in Lines, rows[k] # {}, NEW q \in Nat \ {0},
         units' = [units EXCEPT ![k] = @ + q],
         UNCHANGED <<variants, theList, rows, inserted>>
  PROVE  RowsType'
<1>1. units' \in Cart /\ \A j \in Lines : units'[j] = 0 <=> rows'[j] = {}
  BY DEF RowsType, Cart
<1> QED
  BY <1>1 DEF RowsType, theList

\* A deleted variant hands its rows to its product.
LEMMA VariantRows ==
  ASSUME RowsType, variants \subseteq Variants, NEW v \in Variants, DeleteVariant(v)
  PROVE  RowsType'
<1> DEFINE p == ProductOf[v]
<1>0. p \in Lines /\ v \in Lines /\ p # v /\ p \notin Variants
  BY CatalogAssumption DEF Lines
<1> HIDE DEF p
<1>1. /\ rows' = [rows EXCEPT ![p] = @ \cup rows[v], ![v] = {}]
      /\ units' = [units EXCEPT ![p] = @ + units[v], ![v] = 0]
      /\ variants' = variants \ {v} /\ UNCHANGED <<theList, inserted>>
  BY DEF DeleteVariant, p
<1>2. /\ rows'[p] = rows[p] \cup rows[v] /\ rows'[v] = {}
      /\ \A j \in Lines : j # p /\ j # v => rows'[j] = rows[j]
  BY <1>0, <1>1 DEF RowsType
<1>3. /\ units'[p] = units[p] + units[v] /\ units'[v] = 0
      /\ \A j \in Lines : j # p /\ j # v => units'[j] = units[j]
  BY <1>0, <1>1 DEF RowsType, Cart
<1>4. units[p] \in Nat /\ units[v] \in Nat
  BY <1>0 DEF RowsType, Cart
<1>5. rows' \in [Lines -> SUBSET (1..inserted')] /\ units' \in Cart
  BY <1>0, <1>1, <1>4 DEF RowsType, Cart
<1>6. \A j \in Lines : units'[j] = 0 <=> rows'[j] = {}
  <2> TAKE j \in Lines
  <2>1. CASE j = p
    <3>1. units[p] = 0 <=> rows[p] = {}
      BY <1>0, <2>1 DEF RowsType
    <3>2. units[v] = 0 <=> rows[v] = {}
      BY <1>0 DEF RowsType
    <3>3. units[p] + units[v] = 0 <=> units[p] = 0 /\ units[v] = 0
      BY <1>4
    <3> QED
      BY <1>2, <1>3, <2>1, <3>1, <3>2, <3>3
  <2>2. CASE j = v
    BY <1>2, <1>3, <2>2
  <2>3. CASE j # p /\ j # v
    BY <1>0, <1>2, <1>3, <2>3 DEF RowsType
  <2> QED
    BY <2>1, <2>2, <2>3
<1>7. \A i, j \in Lines : i # j => rows'[i] \cap rows'[j] = {}
  BY <1>0, <1>2 DEF RowsType
<1>8. list' = 0 => \A j \in Lines : rows'[j] = {}
  BY <1>0, <1>1, <1>2 DEF RowsType, theList
<1>9. \A u \in Variants \ variants' : rows'[u] = {}
  BY <1>0, <1>1, <1>2 DEF RowsType, Lines
<1> QED
  BY <1>1, <1>5, <1>6, <1>7, <1>8, <1>9 DEF RowsType, theList

-----------------------------------------------------------------------------
(* Types *)

CatalogType == shown \subseteq Lines /\ variants \subseteq Variants

\* Nothing but the requests and the counts changes.
LEMMA RowsSame ==
  ASSUME RowsType, UNCHANGED <<variants, theList, theRows>>
  PROVE  RowsType' /\ lists \in Nat /\ lists' \in Nat /\ lists <= lists'
<1>1. /\ lists' = lists /\ list' = list /\ variants' = variants
      /\ lists \in 0..MaxLists /\ list \in 0..lists /\ MaxLists \in Nat
  BY WishAssumption DEF RowsType, theList
<1> QED
  BY <1>1, RowsKept

\* A resolved line is a line, of the catalog as it is now.
LEMMA ResolveType ==
  ASSUME NEW k \in Lines
  PROVE  ResolveShown(k) \in Lines /\ Owner(k) \in Products /\ Owner(k) \in Lines
BY CatalogAssumption DEF ResolveShown, Owner, Lines

\* One step keeps the types.
LEMMA TypeStep ==
  ASSUME WishTypeOK, [WishNext]_wishVars
  PROVE  WishTypeOK'
<1> USE DEF WishTypeOK
<1>0. lists \in Nat /\ list \in Nat
  BY WishAssumption DEF RowsType
<1>1. ASSUME NEW k \in Lines, SetAvailable(k)
      PROVE  WishTypeOK'
  <2>1. RowsType' /\ click' = click /\ lists' = lists
    BY <1>1, RowsSame DEF SetAvailable, theList
  <2>2. ClickType'
    BY <2>1 DEF ClickType
  <2> QED
    BY <1>1, <2>1, <2>2 DEF SetAvailable
<1>2. ASSUME NEW v \in Variants, DeleteVariant(v)
      PROVE  WishTypeOK'
  <2>1. RowsType' /\ ClickType'
    BY <1>2, VariantRows DEF DeleteVariant, ClickType, theList
  <2>2. asked' \in Cart
    BY <1>2, CatalogAssumption DEF DeleteVariant, Cart, Lines, RowsType
  <2> QED
    BY <1>2, <2>1, <2>2 DEF DeleteVariant
<1>3. ASSUME NEW c \in Clicks, Begin(c)
      PROVE  WishTypeOK'
  <2> DEFINE x == [IdleClick EXCEPT !.step = "loaded", !.cart = cart]
  <2>1. x \in Click /\ x.step = "loaded"
    BY DEF IdleClick, Click
  <2>2. click' = [click EXCEPT ![c] = x]
    BY <1>3 DEF Begin
  <2> HIDE DEF x
  <2>3. RowsType' /\ lists' \in Nat /\ lists <= lists'
    BY <1>3, RowsSame DEF Begin
  <2>4. ClickType'
    BY <1>0, <2>1, <2>2, <2>3, ClickUpdate
  <2> QED
    BY <1>3, <2>3, <2>4 DEF Begin
<1>4. ASSUME NEW c \in Clicks, GiveUp(c)
      PROVE  WishTypeOK'
  <2>1. RowsType' /\ lists' \in Nat /\ lists <= lists'
    BY <1>4, RowsSame DEF GiveUp
  <2> QED
    BY <1>0, <1>4, <2>1, EndType DEF GiveUp
<1>5. ASSUME NEW c \in Clicks, NEW k \in Lines, StartAdd(c, k)
      PROVE  WishTypeOK'
  <2> DEFINE x == [IdleClick EXCEPT !.step = "finding", !.line = ResolveShown(k), !.list = list']
  <2>1. /\ lists' \in 0..MaxLists /\ list' \in 1..lists' /\ lists <= lists'
        /\ list # 0 => list' = list
        /\ lists \in Nat /\ lists' \in Nat
    BY <1>5, GetListType DEF StartAdd
  <2>2. x \in Click /\ x.line \in Lines /\ x.list \in 1..lists'
    <3>1. list' \in Nat /\ ResolveShown(k) \in Lines
      BY <2>1, ResolveType
    <3> QED
      BY <2>1, <3>1 DEF IdleClick, Click, NoUnits, Cart
  <2>3. click' = [click EXCEPT ![c] = x]
    BY <1>5 DEF StartAdd
  <2> HIDE DEF x
  <2>4. ClickType'
    BY <2>1, <2>2, <2>3, ClickUpdate
  <2>5. RowsType'
    BY <1>5, <2>1, RowsKept DEF StartAdd
  <2> QED
    BY <1>5, <2>4, <2>5 DEF StartAdd
<1>6. ASSUME NEW c \in Clicks, NEW k \in Lines, RemoveLine(c, k)
      PROVE  WishTypeOK'
  <2>1. /\ lists' \in 0..MaxLists /\ list' \in 1..lists' /\ lists <= lists' /\ lists' \in Nat
    BY <1>6, GetListType DEF RemoveLine
  <2>2. RowsType'
    BY <1>6, <2>1, RowsDeleted DEF RemoveLine
  <2> QED
    BY <1>0, <1>6, <2>1, <2>2, EndType DEF RemoveLine
<1>7. ASSUME NEW c \in Clicks, NEW line \in Lines, StartMove(c, line)
      PROVE  WishTypeOK'
  <2> DEFINE k == ResolveShown(line)
             held == [click[c].cart EXCEPT ![k] = @ + units[k]]
             x == [click[c] EXCEPT !.step = "moved", !.line = k, !.list = list', !.cart = held]
  <2>1. /\ lists' \in 0..MaxLists /\ list' \in 1..lists' /\ lists <= lists' /\ lists' \in Nat
        /\ list # 0 => list' = list
    BY <1>7, GetListType DEF StartMove
  <2>2. RowsType'
    BY <1>7, <2>1, RowsKept DEF StartMove
  <2>3. k \in Lines
    BY ResolveType
  <2>4. x \in Click /\ x.line \in Lines /\ x.list \in 1..lists'
    <3> HIDE DEF k
    <3>1. click[c] \in Click /\ click[c].cart \in [Lines -> Nat] /\ units[k] \in Nat
      BY <2>3 DEF ClickType, Click, Cart, RowsType
    <3>2. held \in Cart
      BY <2>3, <3>1 DEF Cart
    <3>3. list' \in Nat
      BY <2>1
    <3> HIDE DEF held
    <3> QED
      BY <2>1, <2>3, <3>1, <3>2, <3>3 DEF Click
  <2>5. End(c) \/ click' = [click EXCEPT ![c] = x]
    <3>1. click[c] \in Click /\ click[c].cart \in [Lines -> Nat]
      BY DEF ClickType, Click, Cart
    <3> QED
      BY <1>7, <3>1 DEF StartMove, ClickType, Click
  <2> HIDE DEF x
  <2>6. ClickType'
    BY <1>0, <2>1, <2>4, <2>5, ClickUpdate, EndType
  <2> QED
    BY <1>7, <2>2, <2>6 DEF StartMove
<1>8. ASSUME NEW c \in Clicks, NEW k \in Lines, NEW q \in 0..1, ChangeCart(c, k, q)
      PROVE  WishTypeOK'
  <2>1. RowsType' /\ lists' \in Nat /\ lists <= lists'
    BY <1>8, RowsSame DEF ChangeCart
  <2>2. ClickType'
    BY <1>0, <1>8, <2>1, EndType DEF ChangeCart
  <2>3. click[c].cart \in Cart
    BY DEF ClickType, Click
  <2>4. cart' \in Cart /\ asked' \in Cart
    BY <1>8, <2>3 DEF ChangeCart, Cart
  <2> QED
    BY <1>8, <2>1, <2>2, <2>4 DEF ChangeCart
<1>9. ASSUME NEW c \in Clicks, FindRow(c)
      PROVE  WishTypeOK'
  <2>1. RowsType' /\ lists' \in Nat /\ lists <= lists'
    BY <1>9, RowsSame DEF FindRow
  <2>2. CASE click' = [click EXCEPT ![c].step = "creating"]
    <3> DEFINE x == [click[c] EXCEPT !.step = "creating"]
    <3>1. x \in Click /\ x.line \in Lines /\ x.list \in 1..lists'
      BY <1>9, RowsSame DEF FindRow, ClickType, Click, theList
    <3>2. click' = [click EXCEPT ![c] = x]
      BY <2>2 DEF ClickType
    <3> HIDE DEF x
    <3> QED
      BY <1>0, <1>9, <2>1, <3>1, <3>2, ClickUpdate DEF FindRow
  <2>3. CASE \E i \in RowsOf(c, click[c].line) :
               click' = [click EXCEPT ![c] = [IdleClick EXCEPT !.step = "bumping", !.row = i]]
    <3>1. PICK i \in RowsOf(c, click[c].line) :
            click' = [click EXCEPT ![c] = [IdleClick EXCEPT !.step = "bumping", !.row = i]]
      BY <2>3
    <3> DEFINE x == [IdleClick EXCEPT !.step = "bumping", !.row = i]
    <3>2. click[c].line \in Lines
      BY <1>9 DEF FindRow, ClickType
    <3>3. rows[click[c].line] \subseteq 1..inserted
      BY <3>2 DEF RowsType
    <3>4. i \in Nat
      BY <3>3 DEF RowsOf
    <3>5. x \in Click /\ x.step = "bumping"
      BY <3>4 DEF IdleClick, Click, NoUnits, Cart
    <3> HIDE DEF x
    <3> QED
      BY <1>0, <1>9, <2>1, <3>1, <3>5, ClickUpdate DEF FindRow, x
  <2> QED
    BY <1>9, <2>2, <2>3 DEF FindRow
<1>10. ASSUME NEW c \in Clicks, CreateRefused(c)
       PROVE  WishTypeOK'
  <2> DEFINE x == [click[c] EXCEPT !.step = "finding"]
  <2>1. RowsType' /\ lists' \in Nat /\ lists <= lists'
    BY <1>10, RowsSame DEF CreateRefused
  <2>2. x \in Click /\ x.line \in Lines /\ x.list \in 1..lists'
    BY <1>10 DEF CreateRefused, ClickType, Click, theList
  <2>3. click' = [click EXCEPT ![c] = x]
    BY <1>10 DEF CreateRefused, ClickType
  <2> HIDE DEF x
  <2> QED
    BY <1>0, <1>10, <2>1, <2>2, <2>3, ClickUpdate DEF CreateRefused
<1>11. ASSUME NEW c \in Clicks, NEW q \in 1..MaxAsked, CreateRow(c, q)
       PROVE  WishTypeOK'
  <2> DEFINE k == click[c].line
  <2>1. /\ k \in Products \cup variants /\ k \in Lines /\ q \in Nat \ {0}
        /\ click[c].list = list /\ list # 0
    BY <1>11, <1>0, WishAssumption DEF CreateRow, ClickType, Lines
  <2>2. /\ rows' = [rows EXCEPT ![k] = @ \cup {inserted + 1}]
        /\ units' = [units EXCEPT ![k] = @ + q]
        /\ asked' = [asked EXCEPT ![k] = @ + q]
        /\ inserted < MaxRows /\ inserted' = inserted + 1
        /\ UNCHANGED <<shown, variants, theList, cart>> /\ End(c)
    BY <1>11 DEF CreateRow
  <2> HIDE DEF k
  <2>3. RowsType'
    BY <2>1, <2>2, RowAdded
  <2>4. ClickType'
    BY <1>0, <2>2, EndType DEF theList
  <2>5. asked' \in Cart
    BY <2>1, <2>2 DEF Cart
  <2> QED
    BY <2>2, <2>3, <2>4, <2>5
<1>12. ASSUME NEW c \in Clicks, NEW q \in 1..MaxAsked, BumpRow(c, q)
       PROVE  WishTypeOK'
  <2>1. PICK k \in Lines : /\ click[c].row \in rows[k]
                           /\ units' = [units EXCEPT ![k] = @ + q]
                           /\ asked' = [asked EXCEPT ![k] = @ + q]
    BY <1>12 DEF BumpRow
  <2>2. q \in Nat \ {0}
    BY WishAssumption
  <2>3. UNCHANGED <<shown, variants, theList, rows, inserted, cart>> /\ End(c)
    BY <1>12 DEF BumpRow
  <2>4. RowsType'
    BY <2>1, <2>2, <2>3, UnitsAdded
  <2>5. ClickType'
    BY <1>0, <2>3, EndType DEF theList
  <2>6. asked' \in Cart
    BY <2>1, <2>2 DEF Cart
  <2> QED
    BY <2>3, <2>4, <2>5, <2>6
<1>13. ASSUME NEW c \in Clicks, ClearList(c)
       PROVE  WishTypeOK'
  <2>1. lists' = lists /\ list' = 0 /\ rows' = [k \in Lines |-> {}] /\ units' = NoUnits
        /\ inserted' = inserted /\ variants' = variants
    BY <1>13 DEF ClearList
  <2>2. RowsType'
    <3>1. list' \in 0..lists' /\ lists' \in 0..MaxLists /\ inserted' \in 0..MaxRows
      BY <1>0, <2>1 DEF RowsType
    <3>2. rows' \in [Lines -> SUBSET (1..inserted')] /\ units' \in Cart
      BY <2>1 DEF NoUnits, Cart
    <3>3. \A k \in Lines : rows'[k] = {} /\ units'[k] = 0
      BY <2>1 DEF NoUnits
    <3> QED
      BY <3>1, <3>2, <3>3 DEF RowsType, Lines
  <2>3. ClickType'
    BY <1>0, <1>13, <2>1, EndType DEF ClearList
  <2> QED
    BY <1>13, <2>2, <2>3 DEF ClearList
<1>14. ASSUME NEW c \in Clicks, DropMoved(c)
       PROVE  WishTypeOK'
  <2> DEFINE x == [click[c] EXCEPT !.step = "saving", !.line = NoLine, !.list = 0]
             k == click[c].line
  <2>1. k \in Lines /\ lists' = lists /\ list' = list /\ inserted' = inserted /\ variants' = variants
    BY <1>14 DEF DropMoved, ClickType, theList
  <2>2. DeleteRows(k) \/ UNCHANGED <<rows, units>>
    BY <1>14 DEF DropMoved, DropLine
  <2>3. x \in Click /\ x.step = "saving"
    BY DEF ClickType, Click
  <2>4. click' = [click EXCEPT ![c] = x]
    BY <1>14 DEF DropMoved, ClickType
  <2> HIDE DEF x, k
  <2>5. lists' \in 0..MaxLists /\ list' \in 0..lists' /\ (list # 0 => list' # 0)
    BY <2>1 DEF RowsType
  <2>6. RowsType'
    BY <2>1, <2>2, <2>5, RowsDeleted, RowsKept DEF theRows
  <2>7. ClickType'
    <3>1. lists' \in Nat /\ lists <= lists' /\ x.step \notin {"finding", "creating", "moved"}
      BY <1>0, <2>1, <2>3
    <3> QED
      BY <1>0, <2>3, <2>4, <3>1, ClickUpdate
  <2> QED
    BY <1>14, <2>6, <2>7 DEF DropMoved
<1>15. ASSUME NEW c \in Clicks, SaveCart(c)
       PROVE  WishTypeOK'
  <2>1. RowsType' /\ lists' \in Nat /\ lists <= lists'
    BY <1>15, RowsSame DEF SaveCart
  <2>2. ClickType'
    BY <1>0, <1>15, <2>1, EndType DEF SaveCart
  <2> QED
    BY <1>15, <2>1, <2>2 DEF SaveCart, ClickType, Click
<1>16. CASE UNCHANGED wishVars
  <2>1. RowsType' /\ ClickType'
    BY <1>16, RowsSame DEF wishVars, ClickType, theList
  <2> QED
    BY <1>16, <2>1 DEF wishVars
<1> QED
  BY <1>1, <1>2, <1>3, <1>4, <1>5, <1>6, <1>7, <1>8, <1>9, <1>10, <1>11, <1>12, <1>13,
     <1>14, <1>15, <1>16 DEF WishNext

\* Every variable of WishList keeps its type; in particular a line has units exactly
\* when it has rows, a row belongs to one line, and a list that is gone has none.
THEOREM WishTypeCorrect == WishSpec => []WishTypeOK
<1>1. WishInit => WishTypeOK
  <2> SUFFICES ASSUME WishInit PROVE WishTypeOK
    OBVIOUS
  <2>1. RowsType
    <3>1. list \in 0..lists /\ lists \in 0..MaxLists /\ inserted \in 0..MaxRows
      BY WishAssumption DEF WishInit
    <3>2. rows \in [Lines -> SUBSET (1..inserted)] /\ units \in Cart
      BY IdleClickType DEF WishInit
    <3>3. \A k \in Lines : rows[k] = {} /\ units[k] = 0
      BY IdleClickType DEF WishInit
    <3> QED
      BY <3>1, <3>2, <3>3 DEF RowsType, Lines
  <2>2. ClickType
    BY IdleClickType DEF WishInit, ClickType
  <2> QED
    BY <2>1, <2>2, IdleClickType DEF WishInit, WishTypeOK, Lines
<1>2. WishTypeOK /\ [WishNext]_wishVars => WishTypeOK'
  BY TypeStep
<1> QED
  BY <1>1, <1>2, PTL DEF WishSpec
-----------------------------------------------------------------------------
(* A variant is on the list once *)

\* Only an insertion adds a row to a variant, and it does so when there is none.
LEMMA OnceStep ==
  ASSUME WishTypeOK, VariantOnListOnce, [WishNext]_wishVars
  PROVE  VariantOnListOnce'
<1> SUFFICES ASSUME NEW v \in Variants,
                    \/ rows'[v] \subseteq rows[v]
                    \/ rows[v] = {} /\ \E r : rows'[v] = {r},
                    \A i, j \in rows[v] : i = j
             PROVE  \A i, j \in rows'[v] : i = j
  <2> SUFFICES ASSUME NEW v \in Variants
               PROVE  \/ rows'[v] \subseteq rows[v]
                      \/ rows[v] = {} /\ \E r : rows'[v] = {r}
    BY DEF VariantOnListOnce
  <2>0. v \in Lines /\ rows \in [Lines -> SUBSET (1..inserted)]
    BY DEF Lines, WishTypeOK, RowsType
  <2>1. ASSUME NEW k \in Lines, DeleteRows(k)
        PROVE  rows'[v] \subseteq rows[v]
    BY <2>0, <2>1 DEF DeleteRows
  <2>2. ASSUME NEW u \in Variants, DeleteVariant(u)
        PROVE  rows'[v] \subseteq rows[v]
    <3>1. ProductOf[u] \in Lines /\ ProductOf[u] # v
      BY CatalogAssumption DEF Lines
    <3> QED
      BY <2>0, <2>2, <3>1 DEF DeleteVariant, Lines
  <2>3. ASSUME NEW c \in Clicks, NEW q, CreateRow(c, q)
        PROVE  \/ rows'[v] \subseteq rows[v]
               \/ rows[v] = {} /\ \E r : rows'[v] = {r}
    BY <2>0, <2>3 DEF CreateRow, Duplicate
  <2>4. ASSUME NEW c \in Clicks, DropMoved(c)
        PROVE  rows'[v] \subseteq rows[v]
    <3>1. click[c].line \in Lines
      BY <2>4 DEF DropMoved, WishTypeOK, ClickType
    <3> QED
      BY <2>1, <2>4, <3>1 DEF DropMoved, DropLine
  <2>5. ASSUME NEW c \in Clicks, ClearList(c)
        PROVE  rows'[v] \subseteq rows[v]
    BY <2>0, <2>5 DEF ClearList
  <2>6. ASSUME NEW c \in Clicks, NEW k \in Lines, RemoveLine(c, k)
        PROVE  rows'[v] \subseteq rows[v]
    BY <2>1, <2>6 DEF RemoveLine
  <2> QED
    BY <2>2, <2>3, <2>4, <2>5, <2>6, ZenonT(60)
    DEF WishNext, wishVars, theRows, SetAvailable, Begin, GiveUp, StartAdd, StartMove,
        ChangeCart, FindRow, CreateRefused, BumpRow, SaveCart
<1> QED
  OBVIOUS

\* However many adds of a variant overlap, the list has at most one row of it: the
\* unique constraint of WishListItem holds where the variant is not NULL.
THEOREM OnListOnce == WishSpec => []VariantOnListOnce
<1>1. WishInit => VariantOnListOnce
  BY DEF WishInit, VariantOnListOnce, Lines
<1>2. WishTypeOK /\ VariantOnListOnce /\ [WishNext]_wishVars => VariantOnListOnce'
  BY OnceStep
<1> QED
  BY <1>1, <1>2, WishTypeCorrect, PTL DEF WishSpec

-----------------------------------------------------------------------------
(* Moving a line duplicates nothing *)

\* The line of a move between its two halves is in the copy of the cart and still on
\* the list the copy was made from; every other line of a copy is accounted for.
BeingMoved(c, k) ==
  click[c].step = "moved" /\ click[c].list = list /\ click[c].line = k
CopyOK(c) ==
  click[c].step \in {"loaded", "moved", "saving"} =>
    \A k \in Lines :
      /\ click[c].cart[k] <= asked[k]
      /\ BeingMoved(c, k) \/ click[c].cart[k] + units[k] <= asked[k]
MoveInv == NeverMovedTwice /\ \A c \in Clicks : CopyOK(c)

\* The list gains nothing that was not asked for, and a list that is replaced or
\* deleted hands no units to the next.
Slack ==
  /\ \A k \in Lines : units'[k] + asked[k] <= units[k] + asked'[k] /\ asked[k] <= asked'[k]
  /\ list' = list \/ list = 0 \/ \A k \in Lines : units'[k] = 0

\* A click that is untouched while the list has slack keeps its copy within bounds.
LEMMA CopyKept ==
  ASSUME WishTypeOK, WishTypeOK', Slack, NEW d \in Clicks, click'[d] = click[d], CopyOK(d)
  PROVE  CopyOK(d)'
<1> SUFFICES ASSUME click[d].step \in {"loaded", "moved", "saving"}, NEW k \in Lines
             PROVE  /\ click[d].cart[k] <= asked'[k]
                    /\ BeingMoved(d, k)' \/ click[d].cart[k] + units'[k] <= asked'[k]
  BY DEF CopyOK
<1>1. /\ click[d].cart[k] \in Nat /\ units[k] \in Nat /\ asked[k] \in Nat
      /\ units'[k] \in Nat /\ asked'[k] \in Nat
  BY DEF WishTypeOK, RowsType, ClickType, Click, Cart
<1>2. /\ click[d].cart[k] <= asked[k]
      /\ BeingMoved(d, k) \/ click[d].cart[k] + units[k] <= asked[k]
  BY DEF CopyOK
<1>3. units'[k] + asked[k] <= units[k] + asked'[k] /\ asked[k] <= asked'[k]
  BY DEF Slack
<1>4. BeingMoved(d, k) => list # 0
  BY DEF BeingMoved, WishTypeOK, ClickType
<1>5. BeingMoved(d, k) /\ list' = list => BeingMoved(d, k)'
  BY DEF BeingMoved
<1>6. CASE ~BeingMoved(d, k)
  BY <1>1, <1>2, <1>3, <1>6
<1>7. CASE BeingMoved(d, k) /\ list' # list
  <2>1. units'[k] = 0
    BY <1>4, <1>7 DEF Slack
  <2> QED
    BY <2>1, <1>1, <1>2, <1>3
<1>8. CASE BeingMoved(d, k) /\ list' = list
  BY <1>1, <1>2, <1>3, <1>5, <1>8
<1> QED
  BY <1>6, <1>7, <1>8

\* A step of one request that leaves the saved cart alone keeps the invariant if it
\* leaves that request in order.
LEMMA MoveUpdate ==
  ASSUME WishTypeOK, WishTypeOK', MoveInv, Slack, cart' = cart,
         NEW c \in Clicks, \A d \in Clicks : d # c => click'[d] = click[d],
         CopyOK(c)'
  PROVE  MoveInv'
<1>1. ASSUME NEW k \in Lines
      PROVE  units'[k] + cart'[k] <= asked'[k]
  <2>1. /\ cart[k] \in Nat /\ units[k] \in Nat /\ asked[k] \in Nat
        /\ units'[k] \in Nat /\ asked'[k] \in Nat
    BY DEF WishTypeOK, RowsType, Cart
  <2>2. units[k] + cart[k] <= asked[k] /\ units'[k] + asked[k] <= units[k] + asked'[k]
    BY DEF MoveInv, NeverMovedTwice, Slack
  <2> QED
    BY <2>1, <2>2
<1>2. ASSUME NEW d \in Clicks
      PROVE  CopyOK(d)'
  BY CopyKept DEF MoveInv
<1> QED
  BY <1>1, <1>2 DEF MoveInv, NeverMovedTwice

\* A request that ends has no copy.
LEMMA EndCopy ==
  ASSUME WishTypeOK, NEW c \in Clicks, End(c)
  PROVE  CopyOK(c)' /\ \A d \in Clicks : d # c => click'[d] = click[d]
BY IdleClickType DEF End, CopyOK, WishTypeOK, ClickType

\* Rows that are deleted, and counts that stay, leave slack.
LEMMA DeleteSlack ==
  ASSUME WishTypeOK, NEW k \in Lines, DeleteRows(k) \/ UNCHANGED units, asked' = asked,
         list' = list \/ list = 0
  PROVE  Slack
<1> SUFFICES ASSUME NEW j \in Lines
             PROVE  units'[j] + asked[j] <= units[j] + asked[j] /\ asked[j] <= asked[j]
  BY DEF Slack
<1>1. units[j] \in Nat /\ asked[j] \in Nat /\ units'[j] \in {units[j], 0}
  BY DEF WishTypeOK, RowsType, Cart, DeleteRows
<1> QED
  BY <1>1

\* Units that are asked for and added, or only asked for, leave slack.
LEMMA AddSlack ==
  ASSUME WishTypeOK, NEW k \in Lines, NEW q \in Nat,
         units' = units \/ units' = [units EXCEPT ![k] = @ + q],
         asked' = [asked EXCEPT ![k] = @ + q], list' = list
  PROVE  Slack
<1> SUFFICES ASSUME NEW j \in Lines
             PROVE  units'[j] + asked[j] <= units[j] + asked'[j] /\ asked[j] <= asked'[j]
  BY DEF Slack
<1>1. units[j] \in Nat /\ asked[j] \in Nat
  BY DEF WishTypeOK, RowsType, Cart
<1>2. asked'[j] = IF j = k THEN asked[j] + q ELSE asked[j]
  BY DEF WishTypeOK, Cart
<1>3. units'[j] \in {units[j], IF j = k THEN units[j] + q ELSE units[j]}
  BY DEF WishTypeOK, RowsType, Cart
<1> QED
  BY <1>1, <1>2, <1>3

\* One step keeps what the list, the cart and the copies hold within what was asked.
LEMMA MoveStep ==
  ASSUME WishTypeOK, WishTypeOK', MoveInv, [WishNext]_wishVars
  PROVE  MoveInv'
<1>0. DEFINE Same(c) == \A d \in Clicks : d # c => click'[d] = click[d]
<1>a. ASSUME NEW c \in Clicks, End(c), Slack, cart' = cart
      PROVE  MoveInv'
  BY <1>a, EndCopy, MoveUpdate
<1>b. ASSUME UNCHANGED <<list, units, asked>>
      PROVE  Slack
  BY <1>b DEF Slack, WishTypeOK, RowsType, Cart
<1>c. ASSUME GetList, UNCHANGED <<units, asked>>
      PROVE  Slack
  BY <1>c DEF Slack, GetList, theList, WishTypeOK, RowsType, Cart
<1>d. ASSUME Slack, cart' = cart, click' = click
      PROVE  MoveInv'
  <2>1. \A d \in Clicks : CopyOK(d)'
    BY <1>d, CopyKept DEF MoveInv
  <2>2. ASSUME NEW k \in Lines
        PROVE  units'[k] + cart'[k] <= asked'[k]
    <3>1. /\ cart[k] \in Nat /\ units[k] \in Nat /\ asked[k] \in Nat
          /\ units'[k] \in Nat /\ asked'[k] \in Nat
      BY DEF WishTypeOK, RowsType, Cart
    <3>2. units[k] + cart[k] <= asked[k] /\ units'[k] + asked[k] <= units[k] + asked'[k]
      BY <1>d DEF MoveInv, NeverMovedTwice, Slack
    <3> QED
      BY <1>d, <3>1, <3>2
  <2> QED
    BY <2>1, <2>2 DEF MoveInv, NeverMovedTwice
<1>1. ASSUME NEW k \in Lines, SetAvailable(k)
      PROVE  MoveInv'
  BY <1>1, <1>b, <1>d DEF SetAvailable, theList, theRows
<1>2. ASSUME NEW v \in Variants, DeleteVariant(v)
      PROVE  MoveInv'
  <2> DEFINE p == ProductOf[v]
  <2>0. p \in Lines /\ v \in Lines /\ p # v
    BY CatalogAssumption DEF Lines
  <2>1. /\ units' = [units EXCEPT ![p] = @ + units[v], ![v] = 0]
        /\ asked' = [asked EXCEPT ![p] = @ + units[v]]
        /\ list' = list
    BY <1>2 DEF DeleteVariant, theList
  <2> HIDE DEF p
  <2>2. ASSUME NEW k \in Lines
        PROVE  units'[k] + asked[k] <= units[k] + asked'[k] /\ asked[k] <= asked'[k]
    <3>1. units[k] \in Nat /\ asked[k] \in Nat /\ units[v] \in Nat
      BY <2>0 DEF WishTypeOK, RowsType, Cart
    <3>2. asked'[k] = IF k = p THEN asked[k] + units[v] ELSE asked[k]
      BY <2>1 DEF WishTypeOK, Cart
    <3>3. units'[k] = IF k = v THEN 0 ELSE IF k = p THEN units[k] + units[v] ELSE units[k]
      BY <2>0, <2>1 DEF WishTypeOK, RowsType, Cart
    <3> QED
      BY <3>1, <3>2, <3>3, <2>0
  <2>3. Slack
    BY <2>1, <2>2 DEF Slack
  <2> QED
    BY <1>2, <1>d, <2>3 DEF DeleteVariant
<1>3. ASSUME NEW c \in Clicks, Begin(c)
      PROVE  MoveInv'
  <2> DEFINE x == [IdleClick EXCEPT !.step = "loaded", !.cart = cart]
  <2>1. click' = [click EXCEPT ![c] = x] /\ UNCHANGED <<list, units, asked, cart>>
    BY <1>3 DEF Begin, theList, theRows
  <2>2. x.step = "loaded" /\ x.cart = cart
    BY DEF IdleClick
  <2> HIDE DEF x
  <2>3. click'[c] = x /\ Same(c)
    BY <2>1 DEF WishTypeOK, ClickType
  <2>4. CopyOK(c)'
    <3> SUFFICES ASSUME NEW k \in Lines
                 PROVE  cart[k] <= asked[k] /\ cart[k] + units[k] <= asked[k]
      BY <2>1, <2>2, <2>3 DEF CopyOK
    <3>1. /\ cart[k] \in Nat /\ units[k] \in Nat /\ asked[k] \in Nat
          /\ units[k] + cart[k] <= asked[k]
      BY DEF WishTypeOK, RowsType, Cart, MoveInv, NeverMovedTwice
    <3> QED
      BY <3>1
  <2> QED
    BY <2>1, <2>3, <2>4, <1>b, MoveUpdate
<1>4. ASSUME NEW c \in Clicks, GiveUp(c)
      PROVE  MoveInv'
  BY <1>4, <1>a, <1>b DEF GiveUp, theList, theRows
<1>5. ASSUME NEW c \in Clicks, NEW line \in Lines, StartAdd(c, line)
      PROVE  MoveInv'
  <2>1. Slack /\ cart' = cart
    BY <1>5, <1>c DEF StartAdd, theRows
  <2>2. click'[c].step = "finding" /\ Same(c)
    BY <1>5 DEF StartAdd, WishTypeOK, ClickType, IdleClick
  <2> QED
    BY <2>1, <2>2, MoveUpdate DEF CopyOK
<1>6. ASSUME NEW c \in Clicks, NEW k \in Lines, RemoveLine(c, k)
      PROVE  MoveInv'
  <2>1. list' = list \/ list = 0
    BY <1>6 DEF RemoveLine, GetList, theList
  <2> QED
    BY <1>6, <2>1, <1>a, DeleteSlack DEF RemoveLine
<1>7. ASSUME NEW c \in Clicks, NEW line \in Lines, StartMove(c, line)
      PROVE  MoveInv'
  <2> DEFINE k == ResolveShown(line)
  <2>0. k \in Lines
    BY ResolveType
  <2> HIDE DEF k
  <2>1. Slack /\ cart' = cart
    BY <1>7, <1>c DEF StartMove, theRows
  <2>2. CASE End(c)
    BY <2>1, <2>2, <1>a
  <2>3. CASE (\E i \in rows[k] : rows[k] = {i})
             /\ click' = [click EXCEPT ![c].step = "moved", ![c].line = k, ![c].list = list',
                                       ![c].cart[k] = @ + units[k]]
    <3>1. click[c] \in Click /\ click[c].cart \in [Lines -> Nat]
      BY DEF WishTypeOK, ClickType, Click, Cart
    <3>2. /\ click'[c].step = "moved" /\ click'[c].line = k /\ click'[c].list = list'
          /\ click'[c].cart = [click[c].cart EXCEPT ![k] = @ + units[k]]
          /\ Same(c)
      BY <2>3, <3>1 DEF WishTypeOK, ClickType, Click
    <3>3. UNCHANGED <<units, asked>> /\ click[c].step = "loaded"
      BY <1>7 DEF StartMove, theRows
    <3>4. ASSUME NEW j \in Lines
          PROVE  /\ click'[c].cart[j] <= asked'[j]
                 /\ BeingMoved(c, j)' \/ click'[c].cart[j] + units'[j] <= asked'[j]
      <4>1. /\ click[c].cart[j] \in Nat /\ units[j] \in Nat /\ asked[j] \in Nat
            /\ click[c].cart[j] + units[j] <= asked[j]
        BY <3>1, <3>3 DEF MoveInv, CopyOK, BeingMoved, WishTypeOK, RowsType, Cart
      <4>2. CASE j = k
        <5>1. click'[c].cart[j] = click[c].cart[j] + units[j] /\ BeingMoved(c, j)'
          BY <3>1, <3>2, <4>2, <2>0 DEF BeingMoved
        <5> QED
          BY <3>3, <4>1, <5>1
      <4>3. CASE j # k
        <5>1. click'[c].cart[j] = click[c].cart[j]
          BY <3>1, <3>2, <4>3
        <5> QED
          BY <3>3, <4>1, <5>1
      <4> QED
        BY <4>2, <4>3
    <3>5. CopyOK(c)'
      BY <3>4 DEF CopyOK
    <3> QED
      BY <2>1, <3>2, <3>5, MoveUpdate
  <2> QED
    BY <1>7, <2>2, <2>3 DEF StartMove, k
<1>8. ASSUME NEW c \in Clicks, NEW k \in Lines, NEW q \in 0..1, ChangeCart(c, k, q)
      PROVE  MoveInv'
  <2>1. /\ click[c].step = "loaded" /\ End(c)
        /\ cart' = [click[c].cart EXCEPT ![k] = IF q > 0 THEN @ + q ELSE 0]
        /\ asked' = [asked EXCEPT ![k] = @ + q]
        /\ UNCHANGED <<list, units>>
    BY <1>8 DEF ChangeCart, theList, theRows
  <2>2. Slack
    <3>1. q \in Nat
      OBVIOUS
    <3> QED
      BY <2>1, <3>1, AddSlack
  <2>3. ASSUME NEW d \in Clicks
        PROVE  CopyOK(d)'
    BY <2>1, <2>2, EndCopy, CopyKept DEF MoveInv
  <2>4. ASSUME NEW j \in Lines
        PROVE  units'[j] + cart'[j] <= asked'[j]
    <3>1. /\ click[c].cart \in [Lines -> Nat] /\ asked \in [Lines -> Nat]
          /\ click[c].cart[j] \in Nat /\ units[j] \in Nat /\ asked[j] \in Nat
          /\ click[c].cart[j] + units[j] <= asked[j]
      BY <2>1 DEF MoveInv, CopyOK, BeingMoved, WishTypeOK, RowsType, ClickType, Click, Cart
    <3>2. asked'[j] = IF j = k THEN asked[j] + q ELSE asked[j]
      BY <2>1, <3>1
    <3>3. cart'[j] = IF j = k THEN (IF q > 0 THEN click[c].cart[j] + q ELSE 0)
                     ELSE click[c].cart[j]
      BY <2>1, <3>1
    <3> QED
      BY <2>1, <3>1, <3>2, <3>3
  <2> QED
    BY <2>3, <2>4 DEF MoveInv, NeverMovedTwice
<1>9. ASSUME NEW c \in Clicks, FindRow(c)
      PROVE  MoveInv'
  <2>1. Slack /\ cart' = cart
    BY <1>9, <1>b DEF FindRow, theList, theRows
  <2>2. click'[c].step \in {"creating", "bumping"} /\ Same(c)
    BY <1>9, ZenonT(60) DEF FindRow, WishTypeOK, ClickType, Click, IdleClick
  <2> QED
    BY <2>1, <2>2, MoveUpdate DEF CopyOK
<1>10. ASSUME NEW c \in Clicks, CreateRefused(c)
       PROVE  MoveInv'
  <2>1. Slack /\ cart' = cart
    BY <1>10, <1>b DEF CreateRefused, theList, theRows
  <2>2. click'[c].step = "finding" /\ Same(c)
    BY <1>10 DEF CreateRefused, WishTypeOK, ClickType, Click
  <2> QED
    BY <2>1, <2>2, MoveUpdate DEF CopyOK
<1>11. ASSUME NEW c \in Clicks, NEW q \in 1..MaxAsked, CreateRow(c, q)
       PROVE  MoveInv'
  <2>1. click[c].line \in Lines /\ q \in Nat
    BY <1>11, WishAssumption DEF CreateRow, WishTypeOK, ClickType
  <2>2. Slack
    BY <1>11, <2>1, AddSlack DEF CreateRow, theList
  <2> QED
    BY <1>11, <2>2, <1>a DEF CreateRow
<1>12. ASSUME NEW c \in Clicks, NEW q \in 1..MaxAsked, BumpRow(c, q)
       PROVE  MoveInv'
  <2>1. q \in Nat
    BY WishAssumption
  <2>2. Slack
    BY <1>12, <2>1, AddSlack DEF BumpRow, theList
  <2> QED
    BY <1>12, <2>2, <1>a DEF BumpRow
<1>13. ASSUME NEW c \in Clicks, ClearList(c)
       PROVE  MoveInv'
  <2>1. /\ units' = NoUnits /\ asked' = asked /\ cart' = cart /\ End(c)
    BY <1>13 DEF ClearList
  <2>2. \A k \in Lines : units'[k] = 0 /\ units[k] \in Nat /\ asked[k] \in Nat
    BY <2>1, IdleClickType DEF WishTypeOK, RowsType, Cart
  <2>3. Slack
    BY <2>1, <2>2 DEF Slack
  <2> QED
    BY <2>1, <2>3, <1>a
<1>14. ASSUME NEW c \in Clicks, DropMoved(c)
       PROVE  MoveInv'
  <2> DEFINE k == click[c].line
  <2>1. /\ k \in Lines /\ click[c].step = "moved" /\ UNCHANGED <<asked, list, cart>>
        /\ IF click[c].list = list THEN DeleteRows(k) ELSE UNCHANGED <<rows, units>>
    BY <1>14 DEF DropMoved, DropLine, WishTypeOK, ClickType, theList
  <2>2. Slack
    BY <2>1, DeleteSlack
  <2>3. /\ click'[c].step = "saving" /\ click'[c].cart = click[c].cart /\ Same(c)
    BY <1>14 DEF DropMoved, WishTypeOK, ClickType, Click
  <2>4. ASSUME NEW j \in Lines
        PROVE  /\ click'[c].cart[j] <= asked'[j]
               /\ click'[c].cart[j] + units'[j] <= asked'[j]
    <3>1. /\ click[c].cart[j] \in Nat /\ units[j] \in Nat /\ asked[j] \in Nat
          /\ click[c].cart[j] <= asked[j]
          /\ BeingMoved(c, j) \/ click[c].cart[j] + units[j] <= asked[j]
      BY <2>1 DEF MoveInv, CopyOK, WishTypeOK, RowsType, ClickType, Click, Cart
    <3>2. CASE BeingMoved(c, j)
      <4>1. units'[j] = 0
        BY <2>1, <3>2 DEF BeingMoved, DeleteRows, WishTypeOK, RowsType, Cart
      <4> QED
        BY <2>1, <2>3, <3>1, <4>1
    <3>3. CASE ~BeingMoved(c, j)
      <4>1. units'[j] \in {units[j], 0}
        BY <2>1 DEF DeleteRows, WishTypeOK, RowsType, Cart
      <4> QED
        BY <2>1, <2>3, <3>1, <3>3, <4>1
    <3> QED
      BY <3>2, <3>3
  <2>5. CopyOK(c)'
    BY <2>4 DEF CopyOK
  <2> QED
    BY <2>1, <2>2, <2>3, <2>5, MoveUpdate
<1>15. ASSUME NEW c \in Clicks, SaveCart(c)
       PROVE  MoveInv'
  <2>1. /\ click[c].step = "saving" /\ cart' = click[c].cart /\ End(c)
        /\ UNCHANGED <<list, units, asked>>
    BY <1>15 DEF SaveCart, theList, theRows
  <2>2. ASSUME NEW d \in Clicks
        PROVE  CopyOK(d)'
    BY <2>1, <1>b, EndCopy, CopyKept DEF MoveInv
  <2>3. ASSUME NEW k \in Lines
        PROVE  units'[k] + cart'[k] <= asked'[k]
    <3>1. /\ click[c].cart[k] \in Nat /\ units[k] \in Nat /\ asked[k] \in Nat
          /\ click[c].cart[k] + units[k] <= asked[k]
      BY <2>1 DEF MoveInv, CopyOK, BeingMoved, WishTypeOK, RowsType, ClickType, Click, Cart
    <3> QED
      BY <2>1, <3>1
  <2> QED
    BY <2>2, <2>3 DEF MoveInv, NeverMovedTwice
<1>16. CASE UNCHANGED wishVars
  BY <1>16, <1>b, <1>d DEF wishVars, theList, theRows
<1> QED
  BY <1>1, <1>2, <1>3, <1>4, <1>5, <1>6, <1>7, <1>8, <1>9, <1>10, <1>11, <1>12, <1>13,
     <1>14, <1>15, <1>16 DEF WishNext

\* However many moves, adds, removals and cart requests overlap, and wherever a worker
\* dies, the list and the cart together hold no more of a line than was put on it.
THEOREM MovedOnce == WishSpec => []NeverMovedTwice
<1>1. WishInit => MoveInv
  BY IdleClickType DEF WishInit, MoveInv, NeverMovedTwice, CopyOK
<1>2. WishTypeOK /\ WishTypeOK' /\ MoveInv /\ [WishNext]_wishVars => MoveInv'
  BY MoveStep
<1>3. MoveInv => NeverMovedTwice
  BY DEF MoveInv
<1> QED
  BY <1>1, <1>2, <1>3, WishTypeCorrect, PTL DEF WishSpec
=============================================================================
