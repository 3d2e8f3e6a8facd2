---------------------------- MODULE InventoryProofs ----------------------------
(***************************************************************************)
(* Machine-checked proofs about Inventory, for any orders, lines, products *)
(* and variants, and any number of concurrent decrements.                  *)
(***************************************************************************)
EXTENDS Inventory, FiniteSetTheorems, TLAPS

\* The items a worker reads are pairs of a line and the row it decrements.
LEMMA ItemsType ==
  ASSUME NEW o \in Orders, rows \subseteq Targets
  PROVE  TrackedItems(o) \in SUBSET (Lines \X Targets)
<1>1. ASSUME NEW l \in Lines PROVE TargetOf(l) \in Targets
  BY LinesAssumption, RowsAssumption DEF TargetOf, Targets
<1> QED
  BY <1>1 DEF TrackedItems

\* The variables keep their types.
THEOREM TypeCorrect == Spec => []TypeOK
<1> USE LinesAssumption, RowsAssumption, StockAssumption
<1>1. Init => TypeOK
  BY DEF Init, TypeOK, Levels
<1>2. TypeOK /\ [Next]_vars => TypeOK'
  <2> SUFFICES ASSUME TypeOK, [Next]_vars PROVE TypeOK'
    OBVIOUS
  <2> USE DEF TypeOK
  <2>1. ASSUME NEW o \in Orders, ReadItems(o) PROVE TypeOK'
    BY <2>1, ItemsType DEF ReadItems
  <2>2. ASSUME NEW o \in Orders, CountItem(o) PROVE TypeOK'
    <3>1. PICK item \in todo[o] :
            /\ todo' = [todo EXCEPT ![o] = @ \ {item}]
            /\ need' = [need EXCEPT ![o][item[2]] = Added(@, LineQty[item[1]])]
      BY <2>2 DEF CountItem
    <3>2. item[1] \in Lines /\ item[2] \in Targets
      OBVIOUS
    <3>3. need[o][item[2]] + LineQty[item[1]] \in Nat
      BY <3>2
    <3>4. need' \in [Orders -> [Targets -> Nat]]
      BY <3>1, <3>2, <3>3 DEF Added
    <3> QED
      BY <2>2, <3>1, <3>4 DEF CountItem
  <2>3. ASSUME NEW o \in Orders, StartUpdates(o) PROVE TypeOK'
    BY <2>3 DEF StartUpdates
  <2>4. ASSUME NEW o \in Orders, NEW t \in Targets, Take(o, t) PROVE TypeOK'
    BY <2>4 DEF Take, Settle, Covers, Tracked
  <2>5. ASSUME NEW o \in Orders, NEW t \in Targets, FallShort(o, t) PROVE TypeOK'
    BY <2>5 DEF FallShort
  <2>6. ASSUME NEW o \in Orders, Clamp(o) PROVE TypeOK'
    BY <2>6 DEF Clamp, Settle
  <2>7. ASSUME NEW o \in Orders, Return(o) PROVE TypeOK'
    BY <2>7 DEF Return
  <2>8. ASSUME NEW o \in Orders, Abandon(o) PROVE TypeOK'
    BY <2>8 DEF Abandon
  <2>9. ASSUME NEW t \in Targets, NEW level \in Levels, SetStock(t, level) PROVE TypeOK'
    BY <2>9 DEF SetStock, Levels
  <2>10. ASSUME NEW t \in Targets, DeleteRow(t) PROVE TypeOK'
    BY <2>10 DEF DeleteRow
  <2>11. CASE UNCHANGED vars
    BY <2>11 DEF vars
  <2> QED
    BY <2>1, <2>2, <2>3, <2>4, <2>5, <2>6, <2>7, <2>8, <2>9, <2>10, <2>11 DEF Next
<1> QED
  BY <1>1, <1>2, PTL DEF Spec

-----------------------------------------------------------------------------
(* Never negative                                                          *)

\* No interleaving of conditional updates, clamps and admin forms makes a
\* tracked stock negative.
THEOREM StockNeverNegative == Spec => []NeverNegative
<1> USE StockAssumption
<1>1. Init => NeverNegative
  BY DEF Init, NeverNegative, Levels, Tracked
<1>2. TypeOK /\ NeverNegative /\ [Next]_vars => NeverNegative'
  <2> SUFFICES ASSUME TypeOK, NeverNegative, [Next]_vars PROVE NeverNegative'
    OBVIOUS
  <2> USE DEF TypeOK, NeverNegative, Tracked
  <2>1. ASSUME NEW o \in Orders, NEW t \in Targets, Take(o, t) PROVE NeverNegative'
    BY <2>1 DEF Take, Covers
  <2>2. ASSUME NEW o \in Orders, Clamp(o) PROVE NeverNegative'
    BY <2>2 DEF Clamp
  <2>3. ASSUME NEW t \in Targets, NEW level \in Levels, SetStock(t, level)
        PROVE  NeverNegative'
    BY <2>3 DEF SetStock, Levels
  <2>4. ASSUME UNCHANGED stock PROVE NeverNegative'
    BY <2>4
  <2> QED
    BY <2>1, <2>2, <2>3, <2>4 DEF Next, ReadItems, CountItem, StartUpdates, FallShort,
       Return, Abandon, DeleteRow, vars
<1> QED
  BY <1>1, <1>2, TypeCorrect, PTL DEF Spec

-----------------------------------------------------------------------------
(* Accounting                                                              *)

\* Until an analyst sets a stock, a worker about to clamp really is short:
\* since its conditional UPDATE failed the stock can only have gone down.
AccountInv == NeverNegative /\ StockAccounted /\ ClampOnlyWhenTaken

\* The base of a tracked row is a number as long as no analyst sets a stock.
BaseInv == edits = 0 => \A t \in Targets : Tracked(t) => base[t] \in Nat

\* The accounting invariant is inductive: a taken quantity is covered by the
\* stock, a clamped one is more than the stock.
LEMMA AccountStep ==
  TypeOK /\ BaseInv /\ AccountInv /\ [Next]_vars => AccountInv' /\ BaseInv'
<1> SUFFICES ASSUME TypeOK, BaseInv, AccountInv, [Next]_vars
             PROVE  AccountInv' /\ BaseInv'
  OBVIOUS
<1> USE StockAssumption
<1> USE DEF AccountInv, NeverNegative, StockAccounted, ClampOnlyWhenTaken, ClampOnlyWhenShort,
        BaseInv, Tracked, Clampable, AtLeastZero
<1>1. ASSUME NEW o \in Orders, NEW t \in Targets, Take(o, t)
      PROVE  AccountInv' /\ BaseInv'
  <2>1. /\ stock[t] \in Int /\ need[o][t] \in Nat /\ stock[t] >= need[o][t]
        /\ applied[t] \in Nat
        /\ stock' = [stock EXCEPT ![t] = stock[t] - need[o][t]]
        /\ applied' = [applied EXCEPT ![t] = applied[t] + need[o][t]]
        /\ need' = [need EXCEPT ![o][t] = 0]
        /\ pc[o] = "updating" /\ t \in rows /\ stock[t] # Untracked
        /\ UNCHANGED <<rows, pc, cur, edits, base>>
    BY <1>1 DEF Take, Settle, Covers, TypeOK
  <2>2. NeverNegative'
    BY <2>1 DEF TypeOK
  <2>3. StockAccounted'
    BY <2>1 DEF TypeOK
  <2>4. ClampOnlyWhenTaken'
    BY <2>1 DEF TypeOK
  <2> QED
    BY <2>1, <2>2, <2>3, <2>4 DEF TypeOK
<1>2. ASSUME NEW o \in Orders, Clamp(o) PROVE AccountInv' /\ BaseInv'
  <2> DEFINE t == cur[o]
  <2>1. /\ t \in Targets /\ need[o][t] \in Nat /\ applied[t] \in Nat
        /\ pc[o] = "clamping" /\ pc' = [pc EXCEPT ![o] = "updating"]
        /\ cur' = [cur EXCEPT ![o] = NoRow]
        /\ applied' = [applied EXCEPT ![t] = applied[t] + need[o][t]]
        /\ need' = [need EXCEPT ![o][t] = 0]
        /\ stock' = IF Clampable(t) THEN [stock EXCEPT ![t] = 0] ELSE stock
        /\ UNCHANGED <<rows, edits, base>>
    BY <1>2 DEF Clamp, Settle, TypeOK
  <2> HIDE DEF t
  <2>2. NeverNegative'
    BY <2>1 DEF TypeOK
  <2>3. StockAccounted'
    <3> SUFFICES ASSUME edits = 0, NEW r \in rows, stock'[r] # Untracked
                 PROVE  stock'[r] = AtLeastZero(base[r] - applied'[r])
      BY <2>1
    <3>1. CASE r # t
      BY <3>1, <2>1 DEF TypeOK
    <3>2. CASE r = t
      <4>1. stock[t] # Untracked /\ stock'[t] = 0 /\ base[t] \in Nat
        BY <3>2, <2>1 DEF TypeOK
      <4>2. stock[t] < need[o][t]
        BY <2>1, <3>2, <4>1 DEF t
      <4>3. stock[t] = AtLeastZero(base[t] - applied[t])
        BY <3>2, <4>1
      <4>4. applied'[t] = applied[t] + need[o][t]
        BY <2>1 DEF TypeOK
      <4> QED
        BY <3>2, <2>1, <4>1, <4>2, <4>3, <4>4
    <3> QED
      BY <3>1, <3>2
  <2>4. ClampOnlyWhenTaken'
    <3> SUFFICES ASSUME edits = 0, NEW q \in Orders, pc'[q] = "clamping",
                        cur'[q] \in rows, stock'[cur'[q]] # Untracked
                 PROVE  stock'[cur'[q]] < need'[q][cur'[q]]
      BY <2>1
    <3>1. q # o /\ pc[q] = "clamping" /\ cur'[q] = cur[q] /\ need'[q] = need[q]
      BY <2>1 DEF TypeOK
    <3>2. cur[q] \in Targets /\ stock[cur[q]] # Untracked /\ need[q][cur[q]] \in Nat
      BY <2>1, <3>1 DEF TypeOK
    <3>3. stock[cur[q]] \in Int /\ stock[cur[q]] >= 0 /\ stock[cur[q]] < need[q][cur[q]]
      BY <3>1, <3>2 DEF TypeOK
    <3>4. stock'[cur[q]] <= stock[cur[q]] /\ stock'[cur[q]] \in Int
      BY <2>1, <3>2, <3>3 DEF TypeOK
    <3> QED
      BY <3>1, <3>2, <3>3, <3>4
  <2>5. BaseInv'
    BY <2>1 DEF TypeOK
  <2> QED
    BY <2>2, <2>3, <2>4, <2>5
<1>3. ASSUME NEW t \in Targets, NEW level \in Levels, SetStock(t, level)
      PROVE  AccountInv' /\ BaseInv'
  BY <1>3 DEF SetStock, Levels, TypeOK
<1>4. ASSUME NEW t \in Targets, DeleteRow(t) PROVE AccountInv' /\ BaseInv'
  BY <1>4 DEF DeleteRow
<1>5. ASSUME NEW o \in Orders, NEW t \in Targets, FallShort(o, t)
      PROVE  AccountInv' /\ BaseInv'
  BY <1>5 DEF FallShort, Covers, TypeOK
<1>6. ASSUME NEW o \in Orders, CountItem(o) PROVE AccountInv' /\ BaseInv'
  <2>1. /\ pc[o] = "counting"
        /\ \A q \in Orders : q # o => need'[q] = need[q]
        /\ UNCHANGED <<rows, stock, pc, cur, edits, base, applied>>
    BY <1>6 DEF CountItem, TypeOK
  <2> QED
    BY <2>1
<1>7. ASSUME NEW o \in Orders, ReadItems(o) \/ StartUpdates(o) \/ Return(o) \/ Abandon(o)
      PROVE  AccountInv' /\ BaseInv'
  BY <1>7 DEF ReadItems, StartUpdates, Return, Abandon, TypeOK
<1>8. CASE UNCHANGED vars
  BY <1>8 DEF vars
<1> QED
  BY <1>1, <1>2, <1>3, <1>4, <1>5, <1>6, <1>7, <1>8 DEF Next

\* The strengthening holds throughout every behaviour.
LEMMA AccountInvariant == Spec => [](AccountInv /\ BaseInv)
<1>1. Init => AccountInv /\ BaseInv
  BY StockAssumption
  DEF Init, AccountInv, BaseInv, NeverNegative, StockAccounted, ClampOnlyWhenTaken,
      ClampOnlyWhenShort, Tracked, Levels, AtLeastZero
<1> QED
  BY <1>1, AccountStep, TypeCorrect, PTL DEF Spec

\* Without manual edits of the stock, every tracked row holds what it had less
\* everything decrement_for_order took from it, or zero, at every moment of
\* every interleaving.
THEOREM Accounted == Spec => []StockAccounted
<1>1. AccountInv => StockAccounted
  BY DEF AccountInv
<1> QED
  BY <1>1, AccountInvariant, PTL

\* Without manual edits a row is set to zero by the clamp only if it really is
\* short of what the order asks for, whatever other orders took in between.
THEOREM ClampedWhenTaken == Spec => []ClampOnlyWhenTaken
<1>1. AccountInv => ClampOnlyWhenTaken
  BY DEF AccountInv
<1> QED
  BY <1>1, AccountInvariant, PTL

\* Only an analyst starts tracking a row: neither a decrement nor a clamp ever
\* writes a stock that is NULL.
THEOREM NullStaysNull == Spec => UntrackedUntouched
<1>1. TypeOK /\ [Next]_vars =>
        [\A t \in Targets : ~Tracked(t) /\ Tracked(t)' => edits' > edits]_vars
  <2> SUFFICES ASSUME TypeOK, [Next]_vars, NEW t \in Targets, ~Tracked(t), Tracked(t)'
               PROVE  edits' > edits
    OBVIOUS
  <2> USE DEF TypeOK, Tracked
  <2>1. ASSUME NEW o \in Orders, NEW r \in Targets, Take(o, r) PROVE FALSE
    BY <2>1 DEF Take, Covers
  <2>2. ASSUME NEW o \in Orders, Clamp(o) PROVE FALSE
    BY <2>2 DEF Clamp, Clampable
  <2>3. ASSUME NEW r \in Targets, NEW level \in Levels, SetStock(r, level)
        PROVE  edits' > edits
    BY <2>3, StockAssumption DEF SetStock
  <2>4. ASSUME UNCHANGED stock PROVE FALSE
    BY <2>4
  <2> QED
    BY <2>1, <2>2, <2>3, <2>4 DEF Next, ReadItems, CountItem, StartUpdates, FallShort,
       Return, Abandon, DeleteRow, vars
<1> QED
  BY <1>1, TypeCorrect, PTL DEF Spec, UntrackedUntouched
-----------------------------------------------------------------------------
(* Whole orders                                                            *)

Size(lines) == Cardinality(Units(lines))

\* The units of finitely many lines can be counted; no line has none.
LEMMA SizeType ==
  ASSUME NEW S \in SUBSET Lines
  PROVE  IsFiniteSet(Units(S)) /\ Size(S) \in Nat /\ (Size(S) = 0 => S = {})
<1>1. IsFiniteSet(S)
  BY LinesAssumption, FS_Subset
<1> DEFINE Own(l) == {l} \X (1..LineQty[l])
           Parts == {Own(l) : l \in S}
<1>2. \A P \in Parts : IsFiniteSet(P)
  <2>1. ASSUME NEW l \in S PROVE IsFiniteSet(Own(l))
    <3>1. IsFiniteSet({l})
      BY FS_Singleton
    <3>2. 1 \in Int /\ LineQty[l] \in Int
      BY LinesAssumption
    <3>3. IsFiniteSet(1..LineQty[l])
      BY <3>2, FS_Interval
    <3> QED
      BY <3>1, <3>3, FS_Product
  <2> QED
    BY <2>1
<1>3. IsFiniteSet(Parts)
  <2>1. [l \in S |-> Own(l)] \in Surjection(S, Parts)
    BY DEF Surjection
  <2> QED
    BY <1>1, <2>1, FS_Surjection
<1>4. IsFiniteSet(Units(S))
  BY <1>2, <1>3, FS_UNION DEF Units
<1>5. ASSUME NEW l \in S PROVE <<l, 1>> \in Units(S)
  BY LinesAssumption DEF Units
<1> QED
  BY <1>4, <1>5, FS_CardinalityType, FS_EmptySet DEF Size

\* Disjoint sets of lines have disjoint units.
LEMMA SizeUnion ==
  ASSUME NEW S \in SUBSET Lines, NEW T \in SUBSET Lines, S \cap T = {}
  PROVE  Size(S \cup T) = Size(S) + Size(T)
<1>1. Units(S \cup T) = Units(S) \cup Units(T)
  BY DEF Units
<1>2. Units(S) \cap Units(T) = {}
  BY DEF Units
<1>3. Cardinality(Units(S) \cup Units(T)) = Size(S) + Size(T) - Cardinality({})
  BY <1>2, SizeType, FS_Union DEF Size
<1>4. Cardinality({}) = 0 /\ Size(S) \in Nat /\ Size(T) \in Nat
  BY SizeType, FS_EmptySet
<1>5. Size(S \cup T) = Cardinality(Units(S) \cup Units(T))
  BY <1>1, Zenon DEF Size
<1> QED
  BY <1>3, <1>4, <1>5

\* A line has as many units as it says.
LEMMA SizeOfLine ==
  ASSUME NEW l \in Lines
  PROVE  Size({l}) = LineQty[l]
<1>1. Units({l}) = {l} \X (1..LineQty[l])
  BY DEF Units
<1>2. IsFiniteSet(1..LineQty[l]) /\ Cardinality(1..LineQty[l]) = LineQty[l]
  BY LinesAssumption, FS_Interval
<1>3. IsFiniteSet({l}) /\ Cardinality({l}) = 1
  BY FS_Singleton
<1>4. Cardinality({l} \X (1..LineQty[l])) = 1 * LineQty[l]
  BY <1>2, <1>3, FS_Product, ZenonT(60)
<1>5. LineQty[l] \in Nat
  BY LinesAssumption
<1>6. Cardinality({l} \X (1..LineQty[l])) = LineQty[l]
  BY <1>4, <1>5
<1> QED
  BY <1>1, <1>6, Zenon DEF Size

LinesOf(o, t) == {l \in Lines : LineOrder[l] = o /\ TargetOf(l) = t}

\* The worker of an order is through with a row, and so with the lines that name it.
Settled(o, t) == pc[o] \in {"updating", "clamping", "done"} /\ need[o][t] = 0
SettledLines(t) == {l \in Lines : TargetOf(l) = t /\ Settled(LineOrder[l], t)}

\* What a worker has added up: of the lines it has been through while it counts, of all
\* of them or none once it updates.
CountedUp(o, t) ==
  /\ pc[o] = "waiting" => need[o][t] = 0
  /\ pc[o] = "counting" =>
       need[o][t] = Size({l \in LinesOf(o, t) : <<l, t>> \notin todo[o]})
  /\ pc[o] \in {"updating", "clamping"} => need[o][t] \in {0, Size(LinesOf(o, t))}
  /\ pc[o] = "done" => need[o][t] = 0

\* As long as nobody edits, deletes or fails, what was taken of a row are the units of
\* the lines settled with it.
Whole == Undisturbed /\ \A o \in Orders : pc[o] # "abandoned"
TakenInv ==
  Whole =>
    /\ \A o \in Orders : \A item \in todo[o] :
         LineOrder[item[1]] = o /\ TargetOf(item[1]) = item[2]
    /\ \A o \in Orders : pc[o] = "clamping" => need[o][cur[o]] > 0
    /\ \A t \in Targets :
         /\ Tracked(t) <=> base[t] # Untracked
         /\ Tracked(t) => /\ applied[t] = Size(SettledLines(t))
                          /\ \A o \in Orders : CountedUp(o, t)

\* Nothing is counted or taken at the start.
LEMMA TakenStart == Init => TakenInv
<1> SUFFICES ASSUME Init PROVE TakenInv
  OBVIOUS
<1>1. Size({}) = 0
  BY FS_EmptySet DEF Size, Units
<1>2. ASSUME NEW t \in Targets PROVE SettledLines(t) = {}
  BY LinesAssumption DEF Init, SettledLines, Settled
<1> QED
  BY <1>1, <1>2 DEF Init, TakenInv, CountedUp, Tracked

\* While no row is deleted, the lines of an order keep their rows.
LEMMA LinesKept ==
  ASSUME rows' = rows
  PROVE  /\ \A l \in Lines : TargetOf(l)' = TargetOf(l)
         /\ \A o \in Orders, t \in Targets :
              /\ LinesOf(o, t)' = LinesOf(o, t)
              /\ LinesOf(o, t) \in SUBSET Lines
BY DEF TargetOf, LinesOf

\* An order that the step does not concern keeps what it has added up.
LEMMA CountedUpKept ==
  ASSUME NEW o \in Orders, NEW t \in Targets, rows' = rows,
         pc'[o] = pc[o], todo'[o] = todo[o], need'[o][t] = need[o][t],
         CountedUp(o, t)
  PROVE  CountedUp(o, t)'
<1>1. LinesOf(o, t)' = LinesOf(o, t)
  BY LinesKept
<1>2. {l \in LinesOf(o, t) : <<l, t>> \notin todo[o]}' = {l \in LinesOf(o, t) : <<l, t>> \notin todo[o]}
  BY <1>1
<1>3. Size(LinesOf(o, t))' = Size(LinesOf(o, t))
  BY <1>1 DEF Size, Units
<1>4. Size({l \in LinesOf(o, t) : <<l, t>> \notin todo[o]})' =
        Size({l \in LinesOf(o, t) : <<l, t>> \notin todo[o]})
  BY <1>2 DEF Size, Units
<1> QED
  BY <1>3, <1>4 DEF CountedUp

\* A row is settled with the same lines as before unless a worker settles with it.
LEMMA SettledKept ==
  ASSUME NEW t \in Targets, rows' = rows, \A o \in Orders : Settled(o, t)' <=> Settled(o, t)
  PROVE  Size(SettledLines(t))' = Size(SettledLines(t))
<1>1. SettledLines(t)' = SettledLines(t)
  BY LinesKept, LinesAssumption DEF SettledLines
<1> QED
  BY <1>1 DEF Size, Units

\* A worker that settles a row adds its lines to those the row is settled with.
LEMMA SettledMore ==
  ASSUME NEW o \in Orders, NEW t \in Targets, rows' = rows,
         ~Settled(o, t), Settled(o, t)',
         \A q \in Orders \ {o} : Settled(q, t)' <=> Settled(q, t)
  PROVE  Size(SettledLines(t))' = Size(SettledLines(t)) + Size(LinesOf(o, t))
<1>1. SettledLines(t)' = SettledLines(t) \cup LinesOf(o, t)
  BY LinesKept, LinesAssumption DEF SettledLines, LinesOf
<1>2. SettledLines(t) \cap LinesOf(o, t) = {}
  BY DEF SettledLines, LinesOf
<1>3. SettledLines(t) \in SUBSET Lines /\ LinesOf(o, t) \in SUBSET Lines
  BY DEF SettledLines, LinesOf
<1>4. Size(SettledLines(t) \cup LinesOf(o, t)) = Size(SettledLines(t)) + Size(LinesOf(o, t))
  BY <1>2, <1>3, SizeUnion
<1> QED
  BY <1>1, <1>4 DEF Size, Units

\* Reading an order finds all its lines of tracked rows; none of them is added up yet.
LEMMA ReadCounts ==
  ASSUME TypeOK, rows = Targets, rows' = rows, NEW o \in Orders, ReadItems(o),
         NEW t \in Targets, Tracked(t), CountedUp(o, t)
  PROVE  /\ CountedUp(o, t)' /\ ~Settled(o, t) /\ ~Settled(o, t)'
         /\ \A item \in todo'[o] :
              LineOrder[item[1]] = o /\ TargetOf(item[1]) = item[2]
<1>1. pc[o] = "waiting" /\ pc'[o] = "counting" /\ todo'[o] = TrackedItems(o) /\ need' = need
  BY DEF ReadItems, TypeOK
<1>2. {l \in LinesOf(o, t) : <<l, t>> \notin todo'[o]} = {}
  BY <1>1, LinesAssumption, RowsAssumption DEF TrackedItems, LinesOf, Targets, TargetOf
<1>3. {l \in LinesOf(o, t) : <<l, t>> \notin todo[o]}' = {}
  BY <1>2, LinesKept
<1>4. Size({l \in LinesOf(o, t) : <<l, t>> \notin todo[o]})' = 0
  BY <1>3, FS_EmptySet DEF Size, Units
<1>5. need'[o][t] = 0
  BY <1>1 DEF CountedUp
<1>6. \A item \in todo'[o] : LineOrder[item[1]] = o /\ TargetOf(item[1]) = item[2]
  BY <1>1 DEF TrackedItems
<1> QED
  BY <1>1, <1>4, <1>5, <1>6 DEF CountedUp, Settled

\* Adding up one more line.
LEMMA CountCounts ==
  ASSUME TypeOK, rows' = rows, NEW o \in Orders, CountItem(o), NEW t \in Targets,
         CountedUp(o, t),
         \A item \in todo[o] : LineOrder[item[1]] = o /\ TargetOf(item[1]) = item[2]
  PROVE  CountedUp(o, t)'
<1>1. PICK item \in todo[o] :
        /\ todo' = [todo EXCEPT ![o] = @ \ {item}]
        /\ need' = [need EXCEPT ![o][item[2]] = Added(@, LineQty[item[1]])]
  BY DEF CountItem
<1>2. pc[o] = "counting" /\ pc' = pc /\ item \in Lines \X Targets
  BY DEF CountItem, TypeOK
<1> DEFINE Before == {l \in LinesOf(o, t) : <<l, t>> \notin todo[o]}
<1>3. Before \in SUBSET Lines
  BY DEF LinesOf
<1>4. CASE item[2] = t
  <2>1. item = <<item[1], t>> /\ item[1] \in LinesOf(o, t) /\ item[1] \in Lines
    BY <1>1, <1>2, <1>4 DEF LinesOf
  <2>2. item[1] \notin Before
    BY <1>1, <2>1
  <2>3. {l \in LinesOf(o, t) : <<l, t>> \notin todo'[o]} = Before \cup {item[1]}
    BY <1>1, <2>1 DEF TypeOK
  <2>4. {l \in LinesOf(o, t) : <<l, t>> \notin todo[o]}' = Before \cup {item[1]}
    BY <2>3, LinesKept
  <2>5. Size(Before \cup {item[1]}) = Size(Before) + LineQty[item[1]]
    BY <1>3, <2>1, <2>2, SizeUnion, SizeOfLine, ZenonT(60)
  <2>6. need'[o][t] = need[o][t] + LineQty[item[1]]
    BY <1>1, <1>2, <1>4 DEF TypeOK, Added
  <2>7. Size({l \in LinesOf(o, t) : <<l, t>> \notin todo[o]})' = Size(Before) + LineQty[item[1]]
    BY <2>4, <2>5 DEF Size, Units
  <2> QED
    BY <1>2, <2>6, <2>7 DEF CountedUp
<1>5. CASE item[2] # t
  <2>1. {l \in LinesOf(o, t) : <<l, t>> \notin todo'[o]} = Before
    BY <1>1, <1>2, <1>5 DEF TypeOK
  <2>2. {l \in LinesOf(o, t) : <<l, t>> \notin todo[o]}' = Before
    BY <2>1, LinesKept
  <2>3. Size({l \in LinesOf(o, t) : <<l, t>> \notin todo[o]})' = Size(Before)
    BY <2>2 DEF Size, Units
  <2>4. need'[o][t] = need[o][t]
    BY <1>1, <1>2, <1>5 DEF TypeOK
  <2>5. need[o][t] = Size(Before)
    BY <1>2 DEF CountedUp
  <2>6. need'[o][t] = Size({l \in LinesOf(o, t) : <<l, t>> \notin todo[o]})'
    BY <2>3, <2>4, <2>5
  <2> QED
    BY <1>2, <2>6 DEF CountedUp
<1> QED
  BY <1>4, <1>5

\* A settled row: the quantity of the order moves from its map to what was applied.
LEMMA SettleCounts ==
  ASSUME TypeOK, rows' = rows, NEW o \in Orders, NEW r \in Targets, Settle(o, r),
         pc[o] \in {"updating", "clamping"}, pc'[o] = "updating", todo' = todo,
         \A q \in Orders \ {o} : pc'[q] = pc[q],
         need[o][r] > 0,
         NEW t \in Targets, applied[t] = Size(SettledLines(t)),
         \A q \in Orders : CountedUp(q, t)
  PROVE  applied'[t] = Size(SettledLines(t))' /\ \A q \in Orders : CountedUp(q, t)'
<1>1. /\ \A q \in Orders : q # o => need'[q] = need[q]
      /\ need'[o] = [need[o] EXCEPT ![r] = 0]
      /\ applied' = [applied EXCEPT ![r] = @ + need[o][r]]
  BY DEF Settle, TypeOK
<1>2. ASSUME NEW q \in Orders \ {o} PROVE CountedUp(q, t)' /\ (Settled(q, t)' <=> Settled(q, t))
  BY <1>1, <1>2, CountedUpKept DEF Settled
<1>3. CASE t = r
  <2>1. need'[o][t] = 0 /\ need[o][t] = Size(LinesOf(o, t)) /\ need[o][t] > 0
    <3>1. need'[o][t] = 0 /\ need[o][t] > 0
      BY <1>1, <1>3 DEF TypeOK
    <3>2. need[o][t] \in {0, Size(LinesOf(o, t))}
      BY DEF CountedUp
    <3> QED
      BY <3>1, <3>2
  <2>2. CountedUp(o, t)'
    BY <2>1 DEF CountedUp
  <2>3. ~Settled(o, t) /\ Settled(o, t)'
    BY <2>1 DEF Settled
  <2>4. Size(SettledLines(t))' = Size(SettledLines(t)) + Size(LinesOf(o, t))
    BY <1>2, <2>3, SettledMore
  <2>5. applied'[t] = applied[t] + need[o][t]
    BY <1>1, <1>3 DEF TypeOK
  <2> QED
    BY <1>2, <2>1, <2>2, <2>4, <2>5
<1>4. CASE t # r
  <2>1. need'[o][t] = need[o][t] /\ applied'[t] = applied[t]
    BY <1>1, <1>4 DEF TypeOK
  <2>2. Settled(o, t)' <=> Settled(o, t)
    BY <2>1 DEF Settled
  <2>3. Size(LinesOf(o, t))' = Size(LinesOf(o, t))
    BY LinesKept DEF Size, Units
  <2>4. CountedUp(o, t)'
    BY <2>1, <2>3 DEF CountedUp
  <2>5. Size(SettledLines(t))' = Size(SettledLines(t))
    BY <1>2, <2>2, SettledKept
  <2> QED
    BY <1>2, <2>1, <2>4, <2>5
<1> QED
  BY <1>3, <1>4

\* What an order has been through changes neither the rows it is settled with nor what it
\* has added up, when only its pc or nothing moves.
LEMMA OtherCounts ==
  ASSUME TypeOK, rows' = rows, NEW o \in Orders, UNCHANGED <<need, applied>>,
         \A q \in Orders \ {o} : pc'[q] = pc[q] /\ todo'[q] = todo[q],
         NEW t \in Targets, Settled(o, t)' <=> Settled(o, t), CountedUp(o, t)',
         applied[t] = Size(SettledLines(t)), \A q \in Orders : CountedUp(q, t)
  PROVE  applied'[t] = Size(SettledLines(t))' /\ \A q \in Orders : CountedUp(q, t)'
<1>1. ASSUME NEW q \in Orders \ {o} PROVE CountedUp(q, t)' /\ (Settled(q, t)' <=> Settled(q, t))
  BY <1>1, CountedUpKept DEF Settled
<1>2. Size(SettledLines(t))' = Size(SettledLines(t))
  BY <1>1, SettledKept
<1> QED
  BY <1>1, <1>2

\* Where nothing is edited, deleted or abandoned after a step, nothing was before it, and
\* no tracked row turned untracked.
LEMMA WholeBefore ==
  ASSUME TypeOK, [Next]_vars, Whole'
  PROVE  /\ Whole
         /\ rows = Targets /\ rows' = rows /\ base' = base
         /\ \A t \in Targets : Tracked(t)' <=> Tracked(t)
         /\ \A o \in Orders : ~Abandon(o)
         /\ \A t \in Targets : ~DeleteRow(t) /\ \A level \in Levels : ~SetStock(t, level)
<1>1. ASSUME NEW o \in Orders, Abandon(o) PROVE FALSE
  BY <1>1 DEF Abandon, TypeOK, Whole
<1>2. ASSUME NEW t \in Targets, DeleteRow(t) PROVE FALSE
  BY <1>2 DEF DeleteRow, Whole, Undisturbed
<1>3. ASSUME NEW t \in Targets, NEW level \in Levels, SetStock(t, level) PROVE FALSE
  BY <1>3 DEF SetStock, Whole, Undisturbed, TypeOK
<1>4. rows' = rows /\ edits' = edits /\ base' = base
  BY <1>1, <1>2, <1>3 DEF Next, vars, ReadItems, CountItem, StartUpdates, Take, FallShort,
     Clamp, Return
<1>5. ASSUME NEW q \in Orders, pc[q] = "abandoned" PROVE FALSE
  <2>1. pc'[q] = "abandoned"
    BY <1>1, <1>2, <1>3, <1>5 DEF Next, vars, TypeOK, ReadItems, CountItem, StartUpdates, Take,
       FallShort, Clamp, Return
  <2> QED
    BY <2>1 DEF Whole
<1>6. ASSUME NEW t \in Targets PROVE Tracked(t)' <=> Tracked(t)
  <2>1. CASE UNCHANGED stock
    BY <2>1 DEF Tracked
  <2>2. ASSUME NEW o \in Orders, NEW r \in Targets, Take(o, r) PROVE Tracked(t)' <=> Tracked(t)
    BY <2>2, StockAssumption DEF Take, Covers, Tracked, TypeOK
  <2>3. ASSUME NEW o \in Orders, Clamp(o) PROVE Tracked(t)' <=> Tracked(t)
    BY <2>3, StockAssumption DEF Clamp, Clampable, Tracked, TypeOK
  <2> QED
    BY <1>1, <1>2, <1>3, <2>1, <2>2, <2>3 DEF Next, vars, ReadItems, CountItem, StartUpdates,
       FallShort, Return
<1> QED
  BY <1>1, <1>2, <1>3, <1>4, <1>5, <1>6 DEF Whole, Undisturbed

\* Every step of every worker keeps TakenInv; an edit, a deletion or a failure ends what
\* it speaks of.
LEMMA TakenStep == TypeOK /\ TakenInv /\ [Next]_vars => TakenInv'
<1> SUFFICES ASSUME TypeOK, TakenInv, [Next]_vars, Whole'
             PROVE  TakenInv'
  BY DEF TakenInv
<1>1. /\ Whole /\ rows = Targets /\ rows' = rows /\ base' = base
      /\ \A t \in Targets : Tracked(t)' <=> Tracked(t)
      /\ \A o \in Orders : ~Abandon(o)
      /\ \A t \in Targets : ~DeleteRow(t) /\ \A level \in Levels : ~SetStock(t, level)
  BY WholeBefore
<1>2. /\ \A o \in Orders : \A item \in todo[o] :
           LineOrder[item[1]] = o /\ TargetOf(item[1]) = item[2]
      /\ \A o \in Orders : pc[o] = "clamping" => need[o][cur[o]] > 0
      /\ \A t \in Targets : Tracked(t) <=> base[t] # Untracked
      /\ \A t \in Targets : Tracked(t) =>
           applied[t] = Size(SettledLines(t)) /\ \A o \in Orders : CountedUp(o, t)
  BY <1>1 DEF TakenInv
<1> DEFINE Items == \A o \in Orders : \A item \in todo[o] :
                      LineOrder[item[1]] = o /\ TargetOf(item[1]) = item[2]
           Clamping == \A o \in Orders : pc[o] = "clamping" => need[o][cur[o]] > 0
           Counts(t) == applied[t] = Size(SettledLines(t)) /\ \A o \in Orders : CountedUp(o, t)
<1>3. SUFFICES Items' /\ Clamping' /\ \A t \in Targets : Tracked(t) => Counts(t)'
  BY <1>1, <1>2 DEF TakenInv
<1>4. ASSUME NEW o \in Orders, todo'[o] \subseteq todo[o] \cup TrackedItems(o),
             \A q \in Orders \ {o} : todo'[q] = todo[q]
      PROVE  Items'
  <2>1. \A item \in TrackedItems(o) : LineOrder[item[1]] = o /\ TargetOf(item[1]) = item[2]
    BY DEF TrackedItems
  <2>2. ASSUME NEW q \in Orders, NEW item \in todo'[q]
        PROVE  LineOrder[item[1]] = q /\ TargetOf(item[1]) = item[2]
    BY <1>2, <1>4, <2>1, <2>2
  <2> QED
    BY <1>1, <2>2 DEF TargetOf
<1>5. ASSUME NEW o \in Orders, ReadItems(o)
      PROVE  Items' /\ Clamping' /\ \A t \in Targets : Tracked(t) => Counts(t)'
  <2>1. Items'
    BY <1>4, <1>5 DEF ReadItems, TypeOK
  <2>2. Clamping'
    BY <1>2, <1>5 DEF ReadItems, TypeOK
  <2>3. ASSUME NEW t \in Targets, Tracked(t) PROVE Counts(t)'
    <3>1. CountedUp(o, t)' /\ (Settled(o, t)' <=> Settled(o, t))
      BY <1>1, <1>2, <1>5, <2>3, ReadCounts
    <3>2. UNCHANGED <<need, applied>> /\ \A q \in Orders \ {o} : pc'[q] = pc[q] /\ todo'[q] = todo[q]
      BY <1>5 DEF ReadItems, TypeOK
    <3> QED
      BY <1>1, <1>2, <2>3, <3>1, <3>2, OtherCounts
  <2> QED
    BY <2>1, <2>2, <2>3
<1>6. ASSUME NEW o \in Orders, CountItem(o)
      PROVE  Items' /\ Clamping' /\ \A t \in Targets : Tracked(t) => Counts(t)'
  <2>1. Items'
    BY <1>4, <1>6 DEF CountItem, TypeOK
  <2>2. \A q \in Orders \ {o} : pc'[q] = pc[q] /\ todo'[q] = todo[q] /\ need'[q] = need[q]
    BY <1>6 DEF CountItem, TypeOK
  <2>3. Clamping'
    BY <1>2, <1>6, <2>2 DEF CountItem
  <2>4. ASSUME NEW t \in Targets, Tracked(t) PROVE Counts(t)'
    <3>1. CountedUp(o, t)'
      BY <1>1, <1>2, <1>6, <2>4, CountCounts
    <3>2. ASSUME NEW q \in Orders \ {o} PROVE CountedUp(q, t)' /\ (Settled(q, t)' <=> Settled(q, t))
      BY <1>1, <1>2, <2>2, <2>4, <3>2, CountedUpKept DEF Settled
    <3>3. ~Settled(o, t) /\ ~Settled(o, t)'
      BY <1>6 DEF CountItem, Settled
    <3>4. Size(SettledLines(t))' = Size(SettledLines(t))
      BY <1>1, <3>2, <3>3, SettledKept
    <3> QED
      BY <1>2, <1>6, <2>4, <3>1, <3>2, <3>4 DEF CountItem
  <2> QED
    BY <2>1, <2>3, <2>4
<1>7. ASSUME NEW o \in Orders, StartUpdates(o)
      PROVE  Items' /\ Clamping' /\ \A t \in Targets : Tracked(t) => Counts(t)'
  <2>1. /\ pc[o] = "counting" /\ pc'[o] = "updating" /\ todo[o] = {}
        /\ UNCHANGED <<todo, need, applied, cur>>
        /\ \A q \in Orders \ {o} : pc'[q] = pc[q]
    BY <1>7 DEF StartUpdates, TypeOK
  <2>2. Items' /\ Clamping'
    BY <1>2, <1>4, <2>1
  <2>3. ASSUME NEW t \in Targets, Tracked(t) PROVE Counts(t)'
    <3>1. {l \in LinesOf(o, t) : <<l, t>> \notin todo[o]} = LinesOf(o, t)
      BY <2>1
    <3>2. need[o][t] = Size(LinesOf(o, t))
      BY <1>2, <2>1, <2>3, <3>1 DEF CountedUp
    <3>3. Size(LinesOf(o, t))' = Size(LinesOf(o, t))
      BY <1>1, LinesKept DEF Size, Units
    <3>4. CountedUp(o, t)'
      BY <2>1, <3>2, <3>3 DEF CountedUp
    <3>5. ASSUME NEW q \in Orders \ {o} PROVE CountedUp(q, t)' /\ (Settled(q, t)' <=> Settled(q, t))
      BY <1>1, <1>2, <2>1, <2>3, <3>5, CountedUpKept DEF Settled
    <3>6. ~Settled(o, t) /\ (Settled(o, t)' <=> need[o][t] = 0)
      BY <2>1 DEF Settled
    <3>7. Size(SettledLines(t))' = Size(SettledLines(t))
      <4>1. CASE need[o][t] # 0
        BY <1>1, <3>5, <3>6, <4>1, SettledKept
      <4>2. CASE need[o][t] = 0
        <5>1. Size(SettledLines(t))' = Size(SettledLines(t)) + Size(LinesOf(o, t))
          BY <1>1, <3>5, <3>6, <4>2, SettledMore
        <5>2. Size(SettledLines(t)) \in Nat
          BY SizeType DEF SettledLines
        <5>3. Size(LinesOf(o, t)) = 0
          BY <3>2, <4>2
        <5>4. Size(SettledLines(t))' = Size(SettledLines(t)) + 0
          BY <5>1, <5>3
        <5> QED
          BY <5>2, <5>4
      <4> QED
        BY <4>1, <4>2
    <3> QED
      BY <1>2, <2>1, <2>3, <3>4, <3>5, <3>7
  <2> QED
    BY <2>2, <2>3
<1>8. ASSUME NEW o \in Orders, NEW r \in Targets, Settle(o, r), need[o][r] > 0,
             pc[o] \in {"updating", "clamping"}, pc'[o] = "updating", todo' = todo,
             \A q \in Orders \ {o} : pc'[q] = pc[q] /\ cur'[q] = cur[q]
      PROVE  Items' /\ Clamping' /\ \A t \in Targets : Tracked(t) => Counts(t)'
  <2>1. Items'
    BY <1>4, <1>8
  <2>2. Clamping'
    BY <1>2, <1>8 DEF Settle, TypeOK
  <2>3. ASSUME NEW t \in Targets, Tracked(t) PROVE Counts(t)'
    BY <1>1, <1>2, <1>8, <2>3, SettleCounts
  <2> QED
    BY <2>1, <2>2, <2>3
<1>9. ASSUME NEW o \in Orders, NEW r \in Targets, Take(o, r)
      PROVE  Items' /\ Clamping' /\ \A t \in Targets : Tracked(t) => Counts(t)'
  BY <1>8, <1>9 DEF Take
<1>10. ASSUME NEW o \in Orders, Clamp(o)
       PROVE  Items' /\ Clamping' /\ \A t \in Targets : Tracked(t) => Counts(t)'
  <2>1. cur[o] \in Targets /\ need[o][cur[o]] > 0
    BY <1>2, <1>10 DEF Clamp, TypeOK
  <2> QED
    BY <1>8, <1>10, <2>1 DEF Clamp, TypeOK
<1>11. ASSUME NEW o \in Orders, UNCHANGED <<todo, need, applied>>,
              \A q \in Orders \ {o} : pc'[q] = pc[q] /\ cur'[q] = cur[q],
              pc[o] = "updating",
              \/ pc'[o] = "clamping" /\ need[o][cur'[o]] > 0
              \/ pc'[o] = "done" /\ \A t \in Targets : need[o][t] = 0
       PROVE  Items' /\ Clamping' /\ \A t \in Targets : Tracked(t) => Counts(t)'
  <2>1. Items' /\ Clamping'
    BY <1>2, <1>4, <1>11
  <2>2. ASSUME NEW t \in Targets, Tracked(t) PROVE Counts(t)'
    <3>1. Settled(o, t)' <=> Settled(o, t)
      BY <1>11 DEF Settled
    <3>2. Size(LinesOf(o, t))' = Size(LinesOf(o, t))
      BY <1>1, LinesKept DEF Size, Units
    <3>3. CountedUp(o, t)'
      BY <1>2, <1>11, <2>2, <3>2 DEF CountedUp
    <3> QED
      BY <1>1, <1>2, <1>11, <2>2, <3>1, <3>3, OtherCounts
  <2> QED
    BY <2>1, <2>2
<1>12. ASSUME NEW o \in Orders, NEW t \in Targets, FallShort(o, t)
       PROVE  Items' /\ Clamping' /\ \A r \in Targets : Tracked(r) => Counts(r)'
  BY <1>11, <1>12 DEF FallShort, TypeOK
<1>13. ASSUME NEW o \in Orders, Return(o)
       PROVE  Items' /\ Clamping' /\ \A t \in Targets : Tracked(t) => Counts(t)'
  BY <1>11, <1>13 DEF Return, TypeOK
<1>14. CASE UNCHANGED vars
  <2>1. Items' /\ Clamping'
    BY <1>2, <1>14 DEF vars, TargetOf
  <2>2. ASSUME NEW t \in Targets, Tracked(t) PROVE Counts(t)'
    <3>1. ASSUME NEW q \in Orders PROVE CountedUp(q, t)' /\ (Settled(q, t)' <=> Settled(q, t))
      BY <1>1, <1>2, <1>14, <2>2, CountedUpKept DEF Settled, vars
    <3>2. Size(SettledLines(t))' = Size(SettledLines(t))
      BY <1>1, <3>1, SettledKept
    <3> QED
      BY <1>2, <1>14, <2>2, <3>1, <3>2 DEF vars
  <2> QED
    BY <2>1, <2>2
<1> QED
  <2> HIDE DEF Items, Clamping, Counts
  <2> QED
    BY <1>1, <1>5, <1>6, <1>7, <1>9, <1>10, <1>12, <1>13, <1>14 DEF Next

\* decrement_for_order takes whole orders: once every paid order is through and nothing
\* failed, was deleted or set by hand, each tracked row lost the units of all lines that
\* name it, or is at zero, however the workers overlapped (WholeOrdersTaken).
THEOREM WholeTaken == Spec => []WholeOrdersTaken
<1>1. Init => TakenInv
  BY TakenStart
<1>2. TypeOK /\ TakenInv /\ [Next]_vars => TakenInv'
  BY TakenStep
<1>3. TypeOK /\ StockAccounted /\ TakenInv => WholeOrdersTaken
  <2> SUFFICES ASSUME TypeOK, StockAccounted, TakenInv, Undisturbed,
                      \A o \in Orders : pc[o] = "done", NEW t \in Targets, Tracked(t)
               PROVE  stock[t] = AtLeastZero(base[t] - Ordered(t))
    BY DEF WholeOrdersTaken
  <2>1. /\ applied[t] = Size(SettledLines(t))
        /\ \A o \in Orders : CountedUp(o, t)
    BY DEF TakenInv, Whole
  <2>2. \A o \in Orders : Settled(o, t)
    BY <2>1 DEF CountedUp, Settled
  <2>3. SettledLines(t) = {l \in Lines : TargetOf(l) = t}
    BY <2>2, LinesAssumption DEF SettledLines
  <2>4. applied[t] = Ordered(t)
    BY <2>1, <2>3 DEF Ordered, Size
  <2> QED
    BY <2>4 DEF StockAccounted, Undisturbed
<1> QED
  BY <1>1, <1>2, <1>3, TypeCorrect, Accounted, PTL DEF Spec

-----------------------------------------------------------------------------
(* The refinement of StockTaken                                            *)

\* The map of a worker that has read nothing is empty; one about to clamp has a row to clamp.
StartInv ==
  /\ \A o \in Orders : pc[o] = "waiting" => \A t \in Targets : need[o][t] = 0
  /\ \A o \in Orders : pc[o] = "clamping" => need[o][cur[o]] > 0

\* Every step of every worker keeps that.
LEMMA StartStep == TypeOK /\ StartInv /\ [Next]_vars => StartInv'
<1> SUFFICES ASSUME TypeOK, StartInv, [Next]_vars PROVE StartInv'
  OBVIOUS
<1> USE DEF TypeOK, StartInv
<1>1. ASSUME NEW o \in Orders, pc[o] # "waiting", pc'[o] # "waiting",
             pc'[o] = "clamping" => need'[o][cur'[o]] > 0,
             \A q \in Orders \ {o} : /\ pc'[q] = pc[q] /\ need'[q] = need[q] /\ cur'[q] = cur[q]
      PROVE  StartInv'
  <2>1. ASSUME NEW q \in Orders
        PROVE  /\ pc'[q] = "waiting" => \A t \in Targets : need'[q][t] = 0
               /\ pc'[q] = "clamping" => need'[q][cur'[q]] > 0
    <3>1. CASE q = o
      BY <1>1, <3>1
    <3>2. CASE q # o
      <4>1. pc'[q] = pc[q] /\ need'[q] = need[q] /\ cur'[q] = cur[q]
        BY <1>1, <3>2
      <4> QED
        BY <4>1
    <3> QED
      BY <3>1, <3>2
  <2> QED
    BY <2>1
<1>2. ASSUME NEW o \in Orders, ReadItems(o) PROVE StartInv'
  BY <1>2 DEF ReadItems
<1>3. ASSUME NEW o \in Orders, CountItem(o) PROVE StartInv'
  BY <1>1, <1>3 DEF CountItem
<1>4. ASSUME NEW o \in Orders, StartUpdates(o) PROVE StartInv'
  BY <1>1, <1>4 DEF StartUpdates
<1>5. ASSUME NEW o \in Orders, NEW t \in Targets, Take(o, t) PROVE StartInv'
  BY <1>1, <1>5 DEF Take, Settle
<1>6. ASSUME NEW o \in Orders, NEW t \in Targets, FallShort(o, t) PROVE StartInv'
  BY <1>1, <1>6 DEF FallShort
<1>7. ASSUME NEW o \in Orders, Clamp(o) PROVE StartInv'
  BY <1>1, <1>7 DEF Clamp, Settle
<1>8. ASSUME NEW o \in Orders, Return(o) \/ Abandon(o) PROVE StartInv'
  BY <1>1, <1>8 DEF Return, Abandon
<1>9. ASSUME UNCHANGED <<pc, need, cur>> PROVE StartInv'
  BY <1>9
<1> QED
  BY <1>2, <1>3, <1>4, <1>5, <1>6, <1>7, <1>8, <1>9 DEF Next, vars, SetStock, DeleteRow

\* What an order is still to take of a row depends on nothing but the order's own worker.
LEMMA LeftKept ==
  ASSUME NEW q \in Orders, NEW t \in Targets,
         pc'[q] = pc[q], todo'[q] = todo[q], need'[q] = need[q]
  PROVE  LeftOf(q, t)' = LeftOf(q, t)
BY DEF LeftOf, Units

\* Only the units of one order move.
LEMMA LeftOfOne ==
  ASSUME NEW o \in Orders, NEW f,
         \A q \in Orders \ {o} : pc'[q] = pc[q] /\ todo'[q] = todo[q] /\ need'[q] = need[q],
         \A t \in Targets : LeftOf(o, t)' = f[t]
  PROVE  Left' = [Left EXCEPT ![o] = [t \in Targets |-> f[t]]]
<1>1. ASSUME NEW q \in Orders, q # o, NEW t \in Targets PROVE LeftOf(q, t)' = LeftOf(q, t)
  <2>1. pc'[q] = pc[q] /\ todo'[q] = todo[q] /\ need'[q] = need[q]
    BY <1>1
  <2> QED
    BY <2>1, LeftKept
<1>2. Left' = [q \in Orders |-> [t \in Targets |-> LeftOf(q, t)']]
  BY DEF Left
<1>3. Left = [q \in Orders |-> [t \in Targets |-> LeftOf(q, t)]]
  BY DEF Left
<1>4. ASSUME NEW q \in Orders
      PROVE  [t \in Targets |-> LeftOf(q, t)'] =
               IF q = o THEN [t \in Targets |-> f[t]] ELSE [t \in Targets |-> LeftOf(q, t)]
  BY <1>1
<1> QED
  BY <1>2, <1>3, <1>4

\* A step that leaves an order as much to take as before is none of StockTaken.
LEMMA LeftSame ==
  ASSUME rows' = rows, UNCHANGED <<stock, edits>>, NEW o \in Orders,
         \A q \in Orders \ {o} : pc'[q] = pc[q] /\ todo'[q] = todo[q] /\ need'[q] = need[q],
         pc[o] # "waiting", pc'[o] # "waiting",
         \A t \in Targets : LeftOf(o, t)' = LeftOf(o, t)
  PROVE  UNCHANGED Promise!vars
<1>1. Left' = Left
  <2>1. ASSUME NEW q \in Orders, NEW t \in Targets PROVE LeftOf(q, t)' = LeftOf(q, t)
    BY LeftKept, <2>1
  <2> QED
    BY <2>1 DEF Left
<1>2. Begun' = Begun
  BY DEF Begun
<1> QED
  BY <1>1, <1>2 DEF Promise!vars

\* Reading the lines is the abstract Begin: the items are the lines that name a row, if it
\* is tracked.
LEMMA ReadBegins ==
  ASSUME TypeOK, StartInv, NEW o \in Orders, ReadItems(o)
  PROVE  Promise!Begin(o)
<1>1. /\ pc[o] = "waiting" /\ pc'[o] = "counting" /\ todo'[o] = TrackedItems(o)
      /\ need' = need
      /\ \A q \in Orders \ {o} : pc'[q] = pc[q] /\ todo'[q] = todo[q]
      /\ UNCHANGED <<rows, stock, edits>>
  BY DEF ReadItems, TypeOK
<1>2. ASSUME NEW t \in Targets
      PROVE  LeftOf(o, t)' = IF stock[t] = Untracked THEN 0 ELSE Asks[rows][o][t]
  <2> DEFINE Mine == {l \in Lines : LineOrder[l] = o /\ LineProduct[l] \in rows
                                    /\ t = TargetOf(l)}
  <2>1. Asks[rows][o][t] = Size(Mine)
    <3>1. Asks[rows][o][t] = AsksOf(rows, o, t)
      BY DEF Asks, TypeOK
    <3> QED
      BY <3>1 DEF AsksOf, TargetOf, Size
  <2>2. need[o][t] = 0
    BY <1>1 DEF StartInv
  <2>3. {l \in Lines : <<l, t>> \in todo'[o]} = IF stock[t] = Untracked THEN {} ELSE Mine
    BY <1>1 DEF TrackedItems, Tracked
  <2>4. LeftOf(o, t)' = 0 + Size(IF stock[t] = Untracked THEN {} ELSE Mine)
    BY <1>1, <2>2, <2>3 DEF LeftOf, Size, Units
  <2>5. Size(Mine) \in Nat /\ Size({}) = 0
    BY SizeType, FS_EmptySet DEF Size, Units
  <2> QED
    BY <2>1, <2>4, <2>5
<1>3. Left' = [Left EXCEPT ![o] =
                 [t \in Targets |-> IF stock[t] = Untracked THEN 0 ELSE Asks[rows][o][t]]]
  <2> DEFINE f == [t \in Targets |-> IF stock[t] = Untracked THEN 0 ELSE Asks[rows][o][t]]
  <2>1. \A t \in Targets : LeftOf(o, t)' = f[t]
    BY <1>2
  <2>2. f = [t \in Targets |-> f[t]]
    OBVIOUS
  <2> HIDE DEF f
  <2>3. Left' = [Left EXCEPT ![o] = [t \in Targets |-> f[t]]]
    BY <1>1, <2>1, LeftOfOne
  <2> QED
    BY <2>2, <2>3 DEF f
<1>4. Begun' = Begun \cup {o} /\ o \notin Begun
  BY <1>1 DEF Begun
<1> QED
  BY <1>1, <1>3, <1>4 DEF Promise!Begin

\* Adding up an item moves its units from what is not counted yet to what is.
LEMMA CountKeepsLeft ==
  ASSUME TypeOK, NEW o \in Orders, CountItem(o)
  PROVE  UNCHANGED Promise!vars
<1>1. PICK item \in todo[o] :
        /\ todo' = [todo EXCEPT ![o] = @ \ {item}]
        /\ need' = [need EXCEPT ![o][item[2]] = Added(@, LineQty[item[1]])]
  BY DEF CountItem
<1>2. /\ pc[o] = "counting" /\ pc' = pc /\ UNCHANGED <<rows, stock, edits>>
      /\ item[1] \in Lines /\ item[2] \in Targets /\ item = <<item[1], item[2]>>
      /\ need[o] \in [Targets -> Nat] /\ LineQty[item[1]] \in Nat
      /\ \A q \in Orders \ {o} : todo'[q] = todo[q] /\ need'[q] = need[q]
  BY <1>1, LinesAssumption DEF CountItem, TypeOK
<1>3. ASSUME NEW t \in Targets PROVE LeftOf(o, t)' = LeftOf(o, t)
  <2> DEFINE Open == {l \in Lines : <<l, t>> \in todo[o]}
             Rest == {l \in Lines : <<l, t>> \in todo'[o]}
  <2>1. LeftOf(o, t) = need[o][t] + Size(Open) /\ LeftOf(o, t)' = need'[o][t] + Size(Rest)
    BY <1>2 DEF LeftOf, Size, Units
  <2>2. Size(Open) \in Nat /\ Size(Rest) \in Nat
    BY SizeType
  <2>3. CASE item[2] = t
    <3> DEFINE line == item[1]
    <3>1. todo'[o] = todo[o] \ {<<line, t>>} /\ <<line, t>> \in todo[o] /\ line \in Lines
      BY <1>1, <1>2, <2>3 DEF TypeOK
    <3> HIDE DEF line
    <3>2. Open = Rest \cup {line} /\ Rest \cap {line} = {}
      BY <3>1
    <3>3. Rest \in SUBSET Lines /\ {line} \in SUBSET Lines
      BY <3>1
    <3> HIDE DEF Open, Rest
    <3>4. Size(Rest \cup {line}) = Size(Rest) + Size({line})
      BY <3>2, <3>3, SizeUnion
    <3>5. Size(Open) = Size(Rest) + LineQty[item[1]]
      BY <3>1, <3>2, <3>4, SizeOfLine DEF line
    <3>6. need'[o][t] = need[o][t] + LineQty[item[1]]
      BY <1>1, <1>2, <2>3 DEF TypeOK, Added
    <3> QED
      BY <1>2, <2>1, <2>2, <3>5, <3>6
  <2>4. CASE item[2] # t
    <3>1. Open = Rest
      BY <1>1, <1>2, <2>4 DEF TypeOK
    <3>2. need'[o][t] = need[o][t]
      BY <1>1, <1>2, <2>4 DEF TypeOK
    <3> QED
      BY <2>1, <3>1, <3>2
  <2> QED
    BY <2>3, <2>4
<1> QED
  BY <1>2, <1>3, LeftSame

\* Once everything is counted nothing is left uncounted.
LEMMA StartKeepsLeft ==
  ASSUME TypeOK, NEW o \in Orders, StartUpdates(o)
  PROVE  UNCHANGED Promise!vars
<1>1. /\ pc[o] = "counting" /\ pc'[o] = "updating" /\ todo[o] = {} /\ need[o] \in [Targets -> Nat]
      /\ UNCHANGED <<rows, stock, edits, need, todo>>
      /\ \A q \in Orders \ {o} : pc'[q] = pc[q]
  BY DEF StartUpdates, TypeOK
<1>2. ASSUME NEW t \in Targets PROVE LeftOf(o, t)' = LeftOf(o, t)
  <2>1. {l \in Lines : <<l, t>> \in todo[o]} = {}
    BY <1>1
  <2>2. LeftOf(o, t) = need[o][t] + Size({})
    BY <1>1, <2>1 DEF LeftOf, Size
  <2>3. Size({}) = 0
    BY FS_EmptySet DEF Size, Units
  <2>4. LeftOf(o, t)' = need[o][t]
    BY <1>1 DEF LeftOf
  <2> QED
    BY <1>1, <2>2, <2>3, <2>4
<1> QED
  BY <1>1, <1>2, LeftSame

\* A row an order is through with: what it had to take of this row is gone, the rest stays.
LEMMA SettleLeaves ==
  ASSUME TypeOK, NEW o \in Orders, NEW r \in Targets, Settle(o, r),
         pc[o] \in {"updating", "clamping"}, pc'[o] = "updating", UNCHANGED <<rows, todo>>,
         \A q \in Orders \ {o} : pc'[q] = pc[q]
  PROVE  /\ Left' = [Left EXCEPT ![o][r] = 0]
         /\ Begun' = Begun /\ o \in Begun /\ Left[o][r] = need[o][r]
<1>1. /\ need' = [need EXCEPT ![o][r] = 0] /\ need[o] \in [Targets -> Nat]
      /\ \A q \in Orders \ {o} : need'[q] = need[q]
  BY DEF Settle, TypeOK
<1>2. \A t \in Targets : LeftOf(o, t) = need[o][t]
  BY DEF LeftOf
<1> DEFINE f == [need[o] EXCEPT ![r] = 0]
<1>3. f = [t \in Targets |-> f[t]] /\ need'[o] = f
  BY <1>1 DEF TypeOK
<1>4. \A t \in Targets : LeftOf(o, t)' = f[t]
  BY <1>3 DEF LeftOf
<1>5. Left' = [Left EXCEPT ![o] = [t \in Targets |-> f[t]]]
  <2> HIDE DEF f
  <2> QED
    BY <1>1, <1>4, LeftOfOne
<1>6. Left[o] = need[o]
  BY <1>1, <1>2 DEF Left
<1>7. [Left EXCEPT ![o] = f] = [Left EXCEPT ![o][r] = 0]
  BY <1>6
<1>8. Begun' = Begun /\ o \in Begun
  BY DEF Begun
<1> QED
  BY <1>3, <1>5, <1>6, <1>7, <1>8

\* The conditional UPDATE that matched takes all units at once.
LEMMA TakeTakes ==
  ASSUME TypeOK, NEW o \in Orders, NEW t \in Targets, Take(o, t)
  PROVE  Promise!Take(o, t)
<1>1. /\ pc[o] = "updating" /\ pc' = pc /\ need[o][t] > 0 /\ Settle(o, t)
      /\ t \in rows /\ stock[t] # Untracked /\ stock[t] >= need[o][t]
      /\ stock' = [stock EXCEPT ![t] = stock[t] - need[o][t]]
      /\ UNCHANGED <<rows, todo, edits>>
  BY DEF Take, Covers, Tracked
<1>2. /\ Left' = [Left EXCEPT ![o][t] = 0]
      /\ Begun' = Begun /\ o \in Begun /\ Left[o][t] = need[o][t]
  BY <1>1, SettleLeaves
<1>3. Promise!AtLeastZero(stock[t] - Left[o][t]) = stock[t] - need[o][t]
  <2>1. stock[t] \in Int /\ need[o][t] \in Nat
    BY <1>1 DEF TypeOK
  <2> QED
    BY <1>1, <1>2, <2>1 DEF Promise!AtLeastZero
<1> QED
  BY <1>1, <1>2, <1>3 DEF Promise!Take, Promise!Takable

\* The clamp takes what there is, of a row that is short; of one that an analyst has
\* restocked it takes everything; of a deleted or untracked row nothing.
LEMMA ClampTakes ==
  ASSUME TypeOK, StartInv, AccountInv, NEW o \in Orders, Clamp(o)
  PROVE  Promise!Next
<1> DEFINE t == cur[o]
<1>1. /\ t \in Targets /\ pc[o] = "clamping" /\ Settle(o, t) /\ need[o][t] > 0
      /\ pc'[o] = "updating" /\ \A q \in Orders \ {o} : pc'[q] = pc[q]
      /\ stock' = IF Clampable(t) THEN [stock EXCEPT ![t] = 0] ELSE stock
      /\ UNCHANGED <<rows, todo, edits>>
  BY DEF Clamp, StartInv, TypeOK
<1>2. /\ Left' = [Left EXCEPT ![o][t] = 0]
      /\ Begun' = Begun /\ o \in Begun /\ Left[o][t] = need[o][t]
  BY <1>1, SettleLeaves
<1>3. Clampable(t) <=> Promise!Takable(t)
  BY DEF Clampable, Tracked, Promise!Takable
<1>4. CASE ~Clampable(t)
  <2>1. Promise!Miss(o, t)
    BY <1>1, <1>2, <1>3, <1>4 DEF Promise!Miss
  <2> QED
    BY <1>1, <2>1 DEF Promise!Next
<1>5. CASE Clampable(t) /\ edits > 0
  <2>1. Promise!Wipe(o, t)
    BY <1>1, <1>2, <1>3, <1>5 DEF Promise!Wipe
  <2> QED
    BY <1>1, <2>1 DEF Promise!Next
<1>6. CASE Clampable(t) /\ ~(edits > 0)
  <2>1. edits = 0
    BY <1>6, StockAssumption DEF TypeOK
  <2>2. stock[t] < need[o][t]
    BY <1>1, <1>6, <2>1 DEF AccountInv, ClampOnlyWhenTaken, ClampOnlyWhenShort
  <2>3. stock[t] \in Int /\ need[o][t] \in Nat
    BY <1>1, <1>6 DEF TypeOK, Clampable, Tracked
  <2>4. Promise!AtLeastZero(stock[t] - Left[o][t]) = 0
    BY <1>2, <2>2, <2>3 DEF Promise!AtLeastZero
  <2>5. Promise!Take(o, t)
    BY <1>1, <1>2, <1>3, <1>6, <2>4 DEF Promise!Take
  <2> QED
    BY <1>1, <2>5 DEF Promise!Next
<1> QED
  BY <1>4, <1>5, <1>6

\* An order that dies takes nothing more.
LEMMA AbandonFails ==
  ASSUME TypeOK, NEW o \in Orders, Abandon(o)
  PROVE  Promise!Fail(o)
<1>1. /\ pc[o] # "waiting" /\ pc'[o] = "abandoned" /\ \A q \in Orders \ {o} : pc'[q] = pc[q]
      /\ UNCHANGED <<rows, stock, todo, need, edits>>
  BY DEF Abandon, TypeOK
<1> DEFINE f == [t \in Targets |-> 0]
<1>2. \A t \in Targets : LeftOf(o, t)' = f[t]
  BY <1>1 DEF LeftOf
<1>3. f = [t \in Targets |-> f[t]]
  OBVIOUS
<1>4. Left' = [Left EXCEPT ![o] = [t \in Targets |-> f[t]]]
  <2> HIDE DEF f
  <2> QED
    BY <1>1, <1>2, LeftOfOne
<1>5. Left' = [Left EXCEPT ![o] = f]
  <2> HIDE DEF f
  <2> QED
    BY <1>3, <1>4
<1>6. Begun' = Begun /\ o \in Begun
  BY <1>1 DEF Begun
<1> QED
  BY <1>1, <1>5, <1>6 DEF Promise!Fail

\* A deletion changes nothing for the orders that have read their lines.
LEMMA DeleteDeletes ==
  ASSUME NEW t \in Targets, DeleteRow(t)
  PROVE  Promise!Next
<1>1. PICK gone \in SUBSET Targets : rows' = rows \ gone
  BY DEF DeleteRow, Targets
<1>2. UNCHANGED <<stock, pc, todo, need, edits>>
  BY DEF DeleteRow
<1>3. ASSUME NEW q \in Orders, NEW r \in Targets PROVE LeftOf(q, r)' = LeftOf(q, r)
  BY <1>2, LeftKept
<1>4. Left' = Left /\ Begun' = Begun
  BY <1>2, <1>3 DEF Left, Begun
<1>5. Promise!Delete(gone)
  BY <1>1, <1>2, <1>4 DEF Promise!Delete
<1> QED
  BY <1>5 DEF Promise!Next

\* decrement_for_order implements StockTaken: although it reads, adds up, tries a conditional
\* UPDATE and clamps, with other orders, analysts and failures in between, each order takes
\* all it asks of a row at one instant and once, or leaves it for a reason.
THEOREM TakesAsPromised == Spec => StockPromise
<1>1. Init => Promise!Init
  <2> SUFFICES ASSUME Init PROVE Promise!Init
    OBVIOUS
  <2>1. ASSUME NEW o \in Orders, NEW t \in Targets PROVE LeftOf(o, t) = 0
    BY DEF Init, LeftOf
  <2>2. Left = [o \in Orders |-> [t \in Targets |-> 0]]
    BY <2>1 DEF Left
  <2>3. Begun = {} /\ (edits > 0) = FALSE
    BY DEF Init, Begun
  <2> QED
    BY <2>2, <2>3, StockAssumption DEF Init, Promise!Init, Levels
<1>2. Init => StartInv
  BY DEF Init, StartInv
<1>3. TypeOK /\ StartInv /\ AccountInv /\ [Next]_vars => [Promise!Next]_(Promise!vars)
  <2> SUFFICES ASSUME TypeOK, StartInv, AccountInv, [Next]_vars
               PROVE  [Promise!Next]_(Promise!vars)
    OBVIOUS
  <2>1. ASSUME NEW o \in Orders, ReadItems(o) PROVE Promise!Next
    BY <2>1, ReadBegins DEF Promise!Next
  <2>2. ASSUME NEW o \in Orders, CountItem(o) \/ StartUpdates(o) PROVE UNCHANGED Promise!vars
    BY <2>2, CountKeepsLeft, StartKeepsLeft
  <2>3. ASSUME NEW o \in Orders, NEW t \in Targets, Take(o, t) PROVE Promise!Next
    BY <2>3, TakeTakes DEF Promise!Next
  <2>4. ASSUME NEW o \in Orders, Return(o) \/ \E t \in Targets : FallShort(o, t)
        PROVE  UNCHANGED Promise!vars
    <3>1. /\ pc[o] = "updating" /\ pc'[o] \in {"clamping", "done"}
          /\ \A q \in Orders \ {o} : pc'[q] = pc[q]
          /\ UNCHANGED <<rows, stock, todo, need, edits>>
      BY <2>4 DEF Return, FallShort, TypeOK
    <3>2. ASSUME NEW t \in Targets PROVE LeftOf(o, t)' = LeftOf(o, t)
      BY <3>1 DEF LeftOf
    <3> QED
      BY <3>1, <3>2, LeftSame
  <2>5. ASSUME NEW o \in Orders, Clamp(o) PROVE Promise!Next
    BY <2>5, ClampTakes
  <2>6. ASSUME NEW o \in Orders, Abandon(o) PROVE Promise!Next
    BY <2>6, AbandonFails DEF Promise!Next
  <2>7. ASSUME NEW t \in Targets, NEW level \in Levels, SetStock(t, level) PROVE Promise!Next
    <3>1. /\ t \in rows /\ stock' = [stock EXCEPT ![t] = level] /\ edits' = edits + 1
          /\ UNCHANGED <<rows, pc, todo, need>>
      BY <2>7 DEF SetStock
    <3>2. ASSUME NEW q \in Orders, NEW r \in Targets PROVE LeftOf(q, r)' = LeftOf(q, r)
      BY <3>1, LeftKept
    <3>3. Left' = Left /\ Begun' = Begun
      BY <3>1, <3>2 DEF Left, Begun
    <3>4. (edits > 0)' = TRUE
      BY <3>1, StockAssumption DEF TypeOK
    <3>5. stock'[t] = level /\ level \in Nat \cup {Untracked}
      BY <3>1 DEF TypeOK, Levels
    <3>6. Promise!Edit(t)
      BY <3>1, <3>3, <3>4, <3>5 DEF Promise!Edit
    <3> QED
      BY <3>6 DEF Promise!Next
  <2>8. ASSUME NEW t \in Targets, DeleteRow(t) PROVE Promise!Next
    BY <2>8, DeleteDeletes
  <2>9. CASE UNCHANGED vars
    <3>1. ASSUME NEW q \in Orders, NEW r \in Targets PROVE LeftOf(q, r)' = LeftOf(q, r)
      BY <2>9, LeftKept DEF vars
    <3> QED
      BY <2>9, <3>1 DEF vars, Promise!vars, Left, Begun
  <2> QED
    BY <2>1, <2>2, <2>3, <2>4, <2>5, <2>6, <2>7, <2>8, <2>9 DEF Next
<1>4. TypeOK /\ StartInv /\ [Next]_vars => StartInv'
  BY StartStep
<1> QED
  BY <1>1, <1>2, <1>3, <1>4, TypeCorrect, AccountInvariant, PTL
  DEF Spec, StockPromise, Promise!Spec
=============================================================================
