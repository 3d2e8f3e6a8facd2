------------------------------- MODULE PaidOnce -------------------------------
(***************************************************************************)
(* What the payment side of the shop promises about one order, whatever    *)
(* Stripe delivers and however often: an order takes one payment and keeps *)
(* it, and each after-payment effect (fraud scoring, stock decrement,      *)
(* confirmation mail) is carried out at most once, after the payment and   *)
(* in that order.  An effect may be missed: nothing here says it happens.  *)
(***************************************************************************)
EXTENDS Integers

CONSTANTS Orders, Intents, NoIntent

VARIABLES
  payment,   \* the payment intent recorded for each order, or NoIntent
  done       \* how often each effect of each order was carried out

vars == <<payment, done>>

\* The effects, numbered in the order the webhook carries them out.
Effects == {"fraud", "stock", "mail"}
Rank == [fraud |-> 1, stock |-> 2, mail |-> 3]

Init ==
  /\ payment = [o \in Orders |-> NoIntent]
  /\ done = [o \in Orders |-> [e \in Effects |-> 0]]

\* The first payment is recorded; no later one replaces it.
Pay(o, i) ==
  /\ payment[o] = NoIntent
  /\ payment' = [payment EXCEPT ![o] = i]
  /\ UNCHANGED done

\* One effect of a paid order, before any effect that comes after it.
Effect(o, e) ==
  /\ payment[o] # NoIntent
  /\ \A f \in Effects : Rank[f] >= Rank[e] => done[o][f] = 0
  /\ done' = [done EXCEPT ![o][e] = 1]
  /\ UNCHANGED payment

Next ==
  \E o \in Orders :
    \/ \E i \in Intents : Pay(o, i)
    \/ \E e \in Effects : Effect(o, e)

Spec == Init /\ [][Next]_vars
=============================================================================
