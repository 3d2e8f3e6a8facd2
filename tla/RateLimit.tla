------------------------------- MODULE RateLimit -------------------------------
(***************************************************************************)
(* rate_limit: the fixed-window counter of one client and one scope, with  *)
(* requests that race each other and the end of the window.  The cache's   *)
(* add and incr are atomic and never extend a timeout.                     *)
(***************************************************************************)
EXTENDS Integers, FiniteSets

CONSTANTS
  Attempts,       \* concurrent POSTs of the client
  Limit,          \* attempts per window
  NoCount,        \* the key is not in the cache
  MaxWindows,     \* bound: windows started
  MaxPosts        \* bound: POSTs made

ASSUME LimitAssumption ==
  /\ IsFiniteSet(Attempts)
  /\ Limit \in Nat /\ MaxWindows \in Nat /\ MaxPosts \in Nat /\ NoCount \notin Nat

VARIABLES
  counter,    \* the count under the key, NoCount if it has expired
  windows,    \* windows started so far
  attempt,    \* where each request is
  posts,      \* POSTs made so far
  passed      \* history: requests of each window that reached the view

limitVars == <<counter, windows, attempt, posts, passed>>

\* window: the one the request was counted in.
Idle == [step |-> "idle", count |-> 0, window |-> 0]

Attempt == [step : {"idle", "add", "incr", "addAgain", "incrAgain", "counted"},
            count : Nat, window : 0..MaxWindows]

LimitTypeOK ==
  /\ counter \in Nat \cup {NoCount}
  /\ windows \in 0..MaxWindows /\ posts \in 0..MaxPosts
  /\ attempt \in [Attempts -> Attempt]
  /\ passed \in [0..MaxWindows -> Nat]

LimitInit ==
  /\ counter = NoCount
  /\ windows = 0
  /\ attempt = [a \in Attempts |-> Idle]
  /\ posts = 0
  /\ passed = [w \in 0..MaxWindows |-> 0]

Goto(a, step) == attempt' = [attempt EXCEPT ![a].step = step]

Post(a) ==
  /\ attempt[a].step = "idle"
  /\ posts < MaxPosts
  /\ posts' = posts + 1
  /\ Goto(a, "add")
  /\ UNCHANGED <<counter, windows, passed>>

\* mutant: the key is set, whether it is there or not
SetKey(a) ==
  /\ attempt[a].step \in {"add", "addAgain"}
  /\ counter' = 0
  /\ IF counter = NoCount THEN windows < MaxWindows /\ windows' = windows + 1
     ELSE UNCHANGED windows
  /\ Goto(a, IF attempt[a].step = "add" THEN "incr" ELSE "incrAgain")
  /\ UNCHANGED <<posts, passed>>

\* cache.add(key, 0): only if there is no window, and then it starts one.
AddKey(a) ==
  /\ attempt[a].step \in {"add", "addAgain"}
  /\ IF counter = NoCount
     THEN windows < MaxWindows /\ counter' = 0 /\ windows' = windows + 1
     ELSE UNCHANGED <<counter, windows>>
  /\ Goto(a, IF attempt[a].step = "add" THEN "incr" ELSE "incrAgain")
  /\ UNCHANGED <<posts, passed>>

\* cache.incr(key)
Count(a) ==
  /\ attempt[a].step \in {"incr", "incrAgain"}
  /\ counter # NoCount
  /\ counter' = counter + 1
  /\ attempt' = [attempt EXCEPT ![a] = [step |-> "counted", count |-> counter', window |-> windows]]
  /\ UNCHANGED <<windows, posts, passed>>

\* The window ended between add() and incr(): once more, and then the error is a 500.
WindowGone(a) ==
  /\ attempt[a].step \in {"incr", "incrAgain"}
  /\ counter = NoCount
  /\ IF attempt[a].step = "incr" THEN Goto(a, "addAgain")
     ELSE attempt' = [attempt EXCEPT ![a] = Idle]
  /\ UNCHANGED <<counter, windows, posts, passed>>

\* The view runs, or the answer is 429.
Decide(a) ==
  /\ attempt[a].step = "counted"
  /\ passed' = IF attempt[a].count > Limit THEN passed
               ELSE [passed EXCEPT ![attempt[a].window] = @ + 1]
  /\ attempt' = [attempt EXCEPT ![a] = Idle]
  /\ UNCHANGED <<counter, windows, posts>>

EndWindow ==
  /\ counter # NoCount
  /\ counter' = NoCount
  /\ UNCHANGED <<windows, attempt, posts, passed>>

LimitNext ==
  \/ \E a \in Attempts : Post(a) \/ AddKey(a) \/ Count(a) \/ WindowGone(a) \/ Decide(a)
  \/ EndWindow

LimitSpec == LimitInit /\ [][LimitNext]_limitVars

\* However requests race each other and the end of a window, no window lets more than
\* Limit of them through to the view, and what a window's counter says is never less
\* than what it let through.
WindowHoldsLimit ==
  /\ \A w \in 0..MaxWindows : passed[w] <= Limit
  /\ counter # NoCount => passed[windows] <= counter
=============================================================================
