------------------------------ MODULE StockTaken ------------------------------
(***************************************************************************)
(* What the inventory promises of the units that paid orders take,         *)
(* whatever orders overlap, fail, or meet an analyst's edits: an order     *)
(* reads its lines once, each row counts if it is tracked then; from then  *)
(* on it takes of a row, at one instant and at most once, all its lines    *)
(* ask of it, or the row goes to zero.  What it does not take is forgone   *)
(* for a reason: the row is deleted, is not tracked, or the order fails.   *)
(***************************************************************************)
EXTENDS Integers

CONSTANTS
  Orders, Rows, Untracked,
  Asks       \* Asks[live][o][t]: what o asks of row t, read while the rows in live exist

VARIABLES
  rows,      \* the rows not deleted
  stock,     \* the level of each row
  left,      \* what each order is still to take of each row
  begun,     \* the orders that have read their lines
  edited     \* has an analyst set a level?

vars == <<rows, stock, left, begun, edited>>

AtLeastZero(n) == IF n < 0 THEN 0 ELSE n
Takable(t) == t \in rows /\ stock[t] # Untracked

Init ==
  /\ rows = Rows
  /\ stock \in [Rows -> Nat \cup {Untracked}]
  /\ left = [o \in Orders |-> [t \in Rows |-> 0]]
  /\ begun = {}
  /\ edited = FALSE

\* The lines are read, with the rows there are; untracked rows are left out.
Begin(o) ==
  /\ o \notin begun
  /\ begun' = begun \cup {o}
  /\ left' = [left EXCEPT ![o] =
       [t \in Rows |-> IF stock[t] = Untracked THEN 0 ELSE Asks[rows][o][t]]]
  /\ UNCHANGED <<rows, stock, edited>>

\* All units of a row at once, or what there is.
Take(o, t) ==
  /\ o \in begun /\ left[o][t] > 0 /\ Takable(t)
  /\ stock' = [stock EXCEPT ![t] = AtLeastZero(@ - left[o][t])]
  /\ left' = [left EXCEPT ![o][t] = 0]
  /\ UNCHANGED <<rows, begun, edited>>

\* After an edit the row may go to zero although it covers the order.
Wipe(o, t) ==
  /\ edited
  /\ o \in begun /\ left[o][t] > 0 /\ Takable(t)
  /\ stock' = [stock EXCEPT ![t] = 0]
  /\ left' = [left EXCEPT ![o][t] = 0]
  /\ UNCHANGED <<rows, begun, edited>>

\* The row was deleted or is no longer tracked.
Miss(o, t) ==
  /\ o \in begun /\ left[o][t] > 0 /\ ~Takable(t)
  /\ left' = [left EXCEPT ![o][t] = 0]
  /\ UNCHANGED <<rows, stock, begun, edited>>

\* The order stops half-way; what it has taken stays taken.
Fail(o) ==
  /\ o \in begun
  /\ left' = [left EXCEPT ![o] = [t \in Rows |-> 0]]
  /\ UNCHANGED <<rows, stock, begun, edited>>

\* Any level at any moment.
Edit(t) ==
  /\ t \in rows
  /\ stock' = [stock EXCEPT ![t] = stock'[t]] /\ stock'[t] \in Nat \cup {Untracked}
  /\ edited' = TRUE
  /\ UNCHANGED <<rows, left, begun>>

Delete(gone) ==
  /\ rows' = rows \ gone
  /\ UNCHANGED <<stock, left, begun, edited>>

Next ==
  \/ \E o \in Orders :
       \/ Begin(o) \/ Fail(o)
       \/ \E t \in Rows : Take(o, t) \/ Wipe(o, t) \/ Miss(o, t)
  \/ \E t \in Rows : Edit(t)
  \/ \E gone \in SUBSET Rows : Delete(gone)

Spec == Init /\ [][Next]_vars
=============================================================================
