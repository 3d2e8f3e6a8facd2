------------------------------- MODULE Inventory -------------------------------
(***************************************************************************)
(* shop/inventory.py: decrement_for_order, run once for each paid order    *)
(* (PaymentWebhook, EffectsAtMostOnce) by concurrent webhook workers, next *)
(* to analysts who set stock or delete rows in the admin.  Each UPDATE is  *)
(* atomic; nothing holds a row between the conditional UPDATE that fails   *)
(* and the UPDATE that clamps it.                                          *)
(***************************************************************************)
EXTENDS Integers, FiniteSets

CONSTANTS
  Orders,          \* paid orders
  Lines,           \* their order items
  LineOrder, LineProduct, LineVariant, LineQty,  \* functions on Lines
  Products, Variants,
  ParentOf,        \* the product of each variant
  NoRow,           \* a line without a variant
  Untracked,       \* stock IS NULL
  MaxStock,        \* bound: the stock levels an analyst enters
  MaxEdits,        \* bound: admin forms that set a stock
  MayFail          \* may the database raise during a decrement?

Targets == Products \cup Variants

ASSUME LinesAssumption ==
  /\ IsFiniteSet(Lines)
  /\ LineOrder \in [Lines -> Orders]
  /\ LineProduct \in [Lines -> Products]
  /\ LineVariant \in [Lines -> Variants \cup {NoRow}]
  /\ LineQty \in [Lines -> Nat \ {0}]
ASSUME RowsAssumption ==
  /\ ParentOf \in [Variants -> Products]
  /\ NoRow \notin Targets
ASSUME StockAssumption ==
  /\ MaxStock \in Nat /\ MaxEdits \in Nat
  /\ Untracked \notin Int
  /\ MayFail \in BOOLEAN

VARIABLES
  rows,      \* products and variants not deleted
  stock,     \* the stock column
  pc,        \* where the worker of each order is in decrement_for_order
  todo,      \* items the worker has read and not added up yet
  need,      \* the worker's targets map: quantity per row still to take
  cur,       \* the row a worker is about to clamp
  edits,     \* stock values set by analysts so far
  base,      \* history: the stock at the beginning
  applied    \* history: quantity per row that was taken or clamped away

vars == <<rows, stock, pc, todo, need, cur, edits, base, applied>>

Levels == 0..MaxStock \cup {Untracked}

TypeOK ==
  /\ rows \subseteq Targets
  /\ stock \in [Targets -> Int \cup {Untracked}]
  /\ pc \in [Orders -> {"waiting", "counting", "updating", "clamping", "done", "abandoned"}]
  /\ todo \in [Orders -> SUBSET (Lines \X Targets)]
  /\ need \in [Orders -> [Targets -> Nat]]
  /\ cur \in [Orders -> Targets \cup {NoRow}]
  /\ \A o \in Orders : pc[o] = "clamping" => cur[o] \in Targets
  /\ edits \in 0..MaxEdits
  /\ base \in [Targets -> Nat \cup {Untracked}]
  /\ applied \in [Targets -> Nat]

Init ==
  /\ rows = Targets
  /\ stock \in [Targets -> Levels]
  /\ pc = [o \in Orders |-> "waiting"]
  /\ todo = [o \in Orders |-> {}]
  /\ need = [o \in Orders |-> [t \in Targets |-> 0]]
  /\ cur = [o \in Orders |-> NoRow]
  /\ edits = 0
  /\ base = stock
  /\ applied = [t \in Targets |-> 0]

Tracked(t) == stock[t] # Untracked

-----------------------------------------------------------------------------
(* decrement_for_order *)

\* The order items with their rows, read in one query.  A deleted product took
\* its lines along (CASCADE), a deleted variant left its lines to the product
\* (SET_NULL); a line of an untracked row is skipped.
TargetOf(l) == IF LineVariant[l] \in rows THEN LineVariant[l] ELSE LineProduct[l]

TrackedItems(o) ==
  {<<l, TargetOf(l)>> : l \in {k \in Lines : /\ LineOrder[k] = o
                                             /\ LineProduct[k] \in rows
                                             /\ Tracked(TargetOf(k))}}

ReadItems(o) ==
  /\ pc[o] = "waiting"
  /\ pc' = [pc EXCEPT ![o] = "counting"]
  /\ todo' = [todo EXCEPT ![o] = TrackedItems(o)]
  /\ UNCHANGED <<rows, stock, need, cur, edits, base, applied>>

\* Quantities are added up per row before anything is written.
AddedLast(n, q) == q   \* mutant: = in place of +=
Added(n, q) == n + q

CountItem(o) ==
  /\ pc[o] = "counting"
  /\ \E item \in todo[o] :
       /\ todo' = [todo EXCEPT ![o] = @ \ {item}]
       /\ need' = [need EXCEPT ![o][item[2]] = Added(@, LineQty[item[1]])]
  /\ UNCHANGED <<rows, stock, pc, cur, edits, base, applied>>

StartUpdates(o) ==
  /\ pc[o] = "counting"
  /\ todo[o] = {}
  /\ pc' = [pc EXCEPT ![o] = "updating"]
  /\ UNCHANGED <<rows, stock, todo, need, cur, edits, base, applied>>

\* The row no longer has to be updated; its quantity is accounted for.
Settle(o, t) ==
  /\ need' = [need EXCEPT ![o][t] = 0]
  /\ applied' = [applied EXCEPT ![t] = @ + need[o][t]]

\* UPDATE ... SET stock = stock - qty WHERE stock >= qty; NULL never matches.
CoversAlways(o, t) == t \in rows /\ Tracked(t)   \* mutant: no stock__gte
Covers(o, t) == t \in rows /\ Tracked(t) /\ stock[t] >= need[o][t]

Take(o, t) ==
  /\ pc[o] = "updating"
  /\ need[o][t] > 0
  /\ Covers(o, t)
  /\ stock' = [stock EXCEPT ![t] = @ - need[o][t]]
  /\ Settle(o, t)
  /\ UNCHANGED <<rows, pc, todo, cur, edits, base>>

\* The conditional UPDATE matched no row ...
FallShort(o, t) ==
  /\ pc[o] = "updating"
  /\ need[o][t] > 0
  /\ ~Covers(o, t)
  /\ pc' = [pc EXCEPT ![o] = "clamping"]
  /\ cur' = [cur EXCEPT ![o] = t]
  /\ UNCHANGED <<rows, stock, todo, need, edits, base, applied>>

\* ... so a second one clamps: SET stock = 0 WHERE stock >= 0, again not for NULL.
ClampableRow(t) == t \in rows   \* mutant: no stock__gte=0
ClampableNever(t) == FALSE   \* mutant: only the warning
Clampable(t) == t \in rows /\ Tracked(t)

Clamp(o) ==
  LET t == cur[o] IN
  /\ pc[o] = "clamping"
  /\ stock' = IF Clampable(t) THEN [stock EXCEPT ![t] = 0] ELSE stock
  /\ Settle(o, t)
  /\ pc' = [pc EXCEPT ![o] = "updating"]
  /\ cur' = [cur EXCEPT ![o] = NoRow]
  /\ UNCHANGED <<rows, todo, edits, base>>

Return(o) ==
  /\ pc[o] = "updating"
  /\ \A t \in Targets : need[o][t] = 0
  /\ pc' = [pc EXCEPT ![o] = "done"]
  /\ UNCHANGED <<rows, stock, todo, need, cur, edits, base, applied>>

\* A database error or a killed worker: the rest of the order is never taken.
Abandon(o) ==
  /\ MayFail
  /\ pc[o] \in {"counting", "updating", "clamping"}
  /\ pc' = [pc EXCEPT ![o] = "abandoned"]
  /\ cur' = [cur EXCEPT ![o] = NoRow]
  /\ UNCHANGED <<rows, stock, todo, need, edits, base, applied>>

-----------------------------------------------------------------------------
(* The catalog admin *)

\* A product form writes every column, stock included: a new level, or the one
\* the form showed when it was opened.
SetStock(t, level) ==
  /\ t \in rows
  /\ edits < MaxEdits
  /\ edits' = edits + 1
  /\ stock' = [stock EXCEPT ![t] = level]
  /\ UNCHANGED <<rows, pc, todo, need, cur, base, applied>>

\* Deleting a product deletes its variants.
DeleteRow(t) ==
  /\ t \in rows
  /\ rows' = rows \ ({t} \cup {v \in Variants : ParentOf[v] = t})
  /\ UNCHANGED <<stock, pc, todo, need, cur, edits, base, applied>>

Next ==
  \/ \E o \in Orders :
       \/ ReadItems(o) \/ CountItem(o) \/ StartUpdates(o)
       \/ \E t \in Targets : Take(o, t) \/ FallShort(o, t)
       \/ Clamp(o) \/ Return(o) \/ Abandon(o)
  \/ \E t \in Targets : DeleteRow(t) \/ \E level \in Levels : SetStock(t, level)

Spec == Init /\ [][Next]_vars

-----------------------------------------------------------------------------
(* Properties *)

\* Stock is never negative, however many orders take the same row at once
\* ("Never negative" in the module's docstring).
NeverNegative == \A t \in Targets : Tracked(t) => stock[t] >= 0

AtLeastZero(n) == IF n < 0 THEN 0 ELSE n

\* As long as no analyst sets a stock, a tracked row holds exactly what it had
\* less everything ordered, or zero: no interleaving of takers, failed
\* conditional updates and clamps loses or invents a unit.
StockAccounted ==
  edits = 0 =>
    \A t \in rows : Tracked(t) => stock[t] = AtLeastZero(base[t] - applied[t])

\* The units of some lines, and what all lines ask of a row while no row is deleted.
Units(lines) == UNION {{l} \X (1..LineQty[l]) : l \in lines}
Ordered(t) == Cardinality(Units({l \in Lines : TargetOf(l) = t}))

\* When every order is through and nothing failed, was deleted or set by hand,
\* each tracked row lost the units of all lines that name it, and nothing else.
Undisturbed == edits = 0 /\ rows = Targets
WholeOrdersTaken ==
  Undisturbed /\ (\A o \in Orders : pc[o] = "done") =>
    \A t \in Targets : Tracked(t) => stock[t] = AtLeastZero(base[t] - Ordered(t))

\* A row is clamped only when it is short: "already sold through (or a concurrent
\* taker won the row)" ...
ClampOnlyWhenShort ==
  \A o \in Orders :
    pc[o] = "clamping" /\ Clampable(cur[o]) => stock[cur[o]] < need[o][cur[o]]

\* ... which holds as long as no analyst restocks it in between.
ClampOnlyWhenTaken == edits = 0 => ClampOnlyWhenShort

\* An untracked row stays untracked unless an analyst starts tracking it, also
\* when it was tracked while the order was being read.
UntrackedUntouched ==
  [][\A t \in Targets : ~Tracked(t) /\ Tracked(t)' => edits' > edits]_vars
-----------------------------------------------------------------------------
(* The refinement mapping to StockTaken *)

\* What an order asks of a row, when only the rows in live exist as it reads its lines.
AsksOf(live, o, t) ==
  Cardinality(Units({l \in Lines :
    /\ LineOrder[l] = o /\ LineProduct[l] \in live
    /\ t = IF LineVariant[l] \in live THEN LineVariant[l] ELSE LineProduct[l]}))
Asks == [live \in SUBSET Targets |-> [o \in Orders |-> [t \in Targets |-> AsksOf(live, o, t)]]]

\* What it is still to take: while it counts, what is counted and what is not yet,
\* afterwards what its map says.
LeftOf(o, t) ==
  CASE pc[o] = "counting" -> need[o][t] + Cardinality(Units({l \in Lines : <<l, t>> \in todo[o]}))
    [] pc[o] = "abandoned" -> 0
    [] OTHER -> need[o][t]

Left == [o \in Orders |-> [t \in Targets |-> LeftOf(o, t)]]
Begun == {o \in Orders : pc[o] # "waiting"}

Promise == INSTANCE StockTaken WITH
  Rows <- Targets, left <- Left, begun <- Begun, edited <- edits > 0

\* decrement_for_order, in its many steps and with everything that may come between them,
\* implements "each order takes all it asks of a row at one instant, once".
StockPromise == Promise!Spec
=============================================================================
