---------------------------- MODULE PaymentWebhook ----------------------------
(***************************************************************************)
(* Taking a payment: the payment_process view that opens a Stripe Checkout *)
(* session, Stripe's at-least-once delivery of checkout.session.completed, *)
(* and the stripe_webhook view that marks the order paid and carries out   *)
(* the after-payment effects.  Web workers handle deliveries concurrently; *)
(* there is no transaction around a request (autocommit), so every query   *)
(* is a step of its own and a worker can stop between any two of them.     *)
(***************************************************************************)
EXTENDS Integers, FiniteSets

CONSTANTS
  Orders,         \* order ids
  Intents,        \* Checkout sessions, each with the payment intent it yields
  Workers,        \* web workers that serve webhook deliveries
  Tabs,           \* browser tabs on the payment page
  NoIntent,       \* Order.stripe_id == ''
  NoOrder,
  Forgetful,      \* orders whose idempotency key Stripe may forget (after 24h)
  MaxCrashes,     \* bound: how many workers may be killed in a request
  MaxRefusals     \* bound: how many mail tasks the broker may refuse

ASSUME OrdersAssumption == NoOrder \notin Orders
ASSUME IntentsAssumption == NoIntent \notin Intents
ASSUME FaultsAssumption == MaxCrashes \in Nat /\ MaxRefusals \in Nat
ASSUME ForgetfulAssumption == Forgetful \subseteq Orders

VARIABLES
  order,     \* the payment columns of each Order row
  exists,    \* orders not deleted
  sess,      \* Stripe: state of each Checkout session
  owner,     \* Stripe: client_reference_id of each session
  key,       \* Stripe: the session remembered under key 'order-<id>'
  acked,     \* Stripe: sessions whose event was answered 200
  tab,       \* the order a tab read as unpaid and is about to send to Stripe
  pc,        \* where each worker is in stripe_webhook
  evt,       \* the session whose event the worker handles
  runs,      \* how often each after-payment effect of an order was carried out
  crashes, refusals

vars == <<order, exists, sess, owner, key, acked, tab, pc, evt, runs, crashes, refusals>>
stripe == <<sess, owner, key>>
faults == <<crashes, refusals>>

Effects == {"fraud", "stock", "mail"}
Status == {"PENDING", "PAID"}
OrderRow == [paid : BOOLEAN, stripe_id : Intents \cup {NoIntent}, status : Status]
Points == {"idle", "received", "loaded", "paid", "scored", "stocked", "done"}

TypeOK ==
  /\ order \in [Orders -> OrderRow]
  /\ exists \subseteq Orders
  /\ sess \in [Intents -> {"unused", "open", "expired", "charged"}]
  /\ owner \in [Intents -> Orders \cup {NoOrder}]
  /\ key \in [Orders -> Intents \cup {NoIntent}]
  /\ acked \subseteq Intents
  /\ tab \in [Tabs -> Orders \cup {NoOrder}]
  /\ pc \in [Workers -> Points]
  /\ evt \in [Workers -> Intents \cup {NoIntent}]
  /\ \A w \in Workers : pc[w] # "idle" => evt[w] \in Intents /\ owner[evt[w]] \in Orders
  /\ \A i \in Intents : sess[i] # "unused" => owner[i] \in Orders
  /\ runs \in [Orders -> [Effects -> Nat]]
  /\ crashes \in 0..MaxCrashes /\ refusals \in 0..MaxRefusals

NewOrder == [paid |-> FALSE, stripe_id |-> NoIntent, status |-> "PENDING"]

Init ==
  /\ order = [o \in Orders |-> NewOrder]
  /\ exists = Orders
  /\ sess = [i \in Intents |-> "unused"]
  /\ owner = [i \in Intents |-> NoOrder]
  /\ key = [o \in Orders |-> NoIntent]
  /\ acked = {}
  /\ tab = [t \in Tabs |-> NoOrder]
  /\ pc = [w \in Workers |-> "idle"]
  /\ evt = [w \in Workers |-> NoIntent]
  /\ runs = [o \in Orders |-> [e \in Effects |-> 0]]
  /\ crashes = 0 /\ refusals = 0

-----------------------------------------------------------------------------
(* payment_process *)

\* The order is read; a paid one goes to the completed page, no Stripe call.
OpenPaymentPage(t, o) ==
  /\ tab[t] = NoOrder
  /\ o \in exists /\ ~order[o].paid
  /\ tab' = [tab EXCEPT ![t] = o]
  /\ UNCHANGED <<order, exists, stripe, acked, pc, evt, runs, faults>>

\* Session.create under the order's idempotency key: Stripe answers with the
\* session it remembers, or opens a new one.  A deleted order has no items, and
\* Stripe refuses a session without any.
RememberedNever(o) == FALSE   \* mutant: a fresh key for every call
Remembered(o) == key[o] # NoIntent

\* Mutant: no client_reference_id.
OpenSessionUnreferenced(o, i) ==
  /\ sess[i] = "unused"
  /\ sess' = [sess EXCEPT ![i] = "open"]
  /\ key' = [key EXCEPT ![o] = i]
  /\ UNCHANGED owner

OpenSession(o, i) ==
  /\ sess[i] = "unused"
  /\ sess' = [sess EXCEPT ![i] = "open"]
  /\ owner' = [owner EXCEPT ![i] = o]
  /\ key' = [key EXCEPT ![o] = i]

CreateSession(t) ==
  LET o == tab[t] IN
  /\ o # NoOrder
  /\ tab' = [tab EXCEPT ![t] = NoOrder]
  /\ \/ Remembered(o) /\ UNCHANGED stripe
     \/ o \in exists /\ ~Remembered(o) /\ \E i \in Intents : OpenSession(o, i)
     \/ o \notin exists /\ UNCHANGED stripe
  /\ UNCHANGED <<order, exists, acked, pc, evt, runs, faults>>

-----------------------------------------------------------------------------
(* Stripe and the customer *)

CustomerPays(i) ==
  /\ sess[i] = "open"
  /\ sess' = [sess EXCEPT ![i] = "charged"]
  /\ UNCHANGED <<order, exists, owner, key, acked, tab, pc, evt, runs, faults>>

\* After 24h the idempotency key is forgotten; a session left open expires.
ForgetKey(o) ==
  /\ o \in Forgetful
  /\ key[o] # NoIntent
  /\ key' = [key EXCEPT ![o] = NoIntent]
  /\ sess' = [sess EXCEPT ![key[o]] = IF @ = "open" THEN "expired" ELSE @]
  /\ UNCHANGED <<order, exists, owner, acked, tab, pc, evt, runs, faults>>

\* At-least-once: any completed session's event can arrive, at any time, again.
\* Only one that says payment_status == "paid" is acted on.
Completed(i) == sess[i] = "charged"

Deliver(w, i) ==
  /\ pc[w] = "idle"
  /\ Completed(i)
  /\ pc' = [pc EXCEPT ![w] = "received"]
  /\ evt' = [evt EXCEPT ![w] = i]
  /\ UNCHANGED <<order, exists, stripe, acked, tab, runs, faults>>

-----------------------------------------------------------------------------
(* stripe_webhook *)

OrderOf(w) == owner[evt[w]]

Goto(w, p) == pc' = [pc EXCEPT ![w] = p] /\ UNCHANGED evt
Finish(w) == pc' = [pc EXCEPT ![w] = "idle"] /\ evt' = [evt EXCEPT ![w] = NoIntent]
Carried(o, e) == runs' = [runs EXCEPT ![o][e] = @ + 1]

\* Order.objects.get: an unknown order is answered 400, so Stripe tries again.
LoadOrder(w) ==
  /\ pc[w] = "received"
  /\ \/ OrderOf(w) \in exists /\ Goto(w, "loaded")
     \/ OrderOf(w) \notin exists /\ Finish(w)
  /\ UNCHANGED <<order, exists, stripe, acked, tab, runs, faults>>

\* The guarded UPDATE ... WHERE paid = FALSE: only the delivery that flips the
\* row goes on to the effects.
CanFlipAgain(o) == o \in exists   \* mutant: WHERE id only
CanFlip(o) == o \in exists /\ ~order[o].paid

\* Mutant: an error of the UPDATE swallowed and the event answered 200.
MarkPaidSwallowed(w) ==
  /\ pc[w] = "loaded"
  /\ Goto(w, "done")
  /\ UNCHANGED <<order, exists, stripe, acked, tab, runs, faults>>

MarkPaid(w) ==
  LET o == OrderOf(w) IN
  /\ pc[w] = "loaded"
  /\ \/ /\ CanFlip(o)
        /\ order' = [order EXCEPT ![o] =
             [paid |-> TRUE, stripe_id |-> evt[w], status |-> "PAID"]]
        /\ Goto(w, "paid")
     \/ /\ ~CanFlip(o)
        /\ UNCHANGED order
        /\ Goto(w, "done")
  /\ UNCHANGED <<exists, stripe, acked, tab, runs, faults>>

\* evaluate + UPDATE in one try: an exception is logged and the order goes on.
\* On a deleted order the UPDATE matches no row.
\* Mutant: without the try, an exception ends the request.
ScoreFraudUncaught(w) ==
  /\ pc[w] = "paid"
  /\ Finish(w)
  /\ UNCHANGED <<order, exists, stripe, acked, tab, runs, faults>>

ScoreFraud(w) ==
  /\ pc[w] = "paid"
  /\ Goto(w, "scored")
  /\ \/ UNCHANGED runs
     \/ OrderOf(w) \in exists /\ Carried(OrderOf(w), "fraud")
  /\ UNCHANGED <<order, exists, stripe, acked, tab, faults>>

\* inventory.decrement_for_order, its exception logged only (module Inventory
\* has its steps).  A deleted order has no items left to decrement.
DecrementStock(w) ==
  /\ pc[w] = "scored"
  /\ Goto(w, "stocked")
  /\ \/ UNCHANGED runs
     \/ OrderOf(w) \in exists /\ Carried(OrderOf(w), "stock")
  /\ UNCHANGED <<order, exists, stripe, acked, tab, faults>>

\* payment_completed.delay, in no try: a broker error leaves the view as a 500.
DispatchMail(w) ==
  /\ pc[w] = "stocked"
  /\ \/ Carried(OrderOf(w), "mail") /\ Goto(w, "done") /\ UNCHANGED refusals
     \/ /\ refusals < MaxRefusals
        /\ refusals' = refusals + 1
        /\ Finish(w) /\ UNCHANGED runs
  /\ UNCHANGED <<order, exists, stripe, acked, tab, crashes>>

\* 200: Stripe stops retrying the event.
Respond(w) ==
  /\ pc[w] = "done"
  /\ acked' = acked \cup {evt[w]}
  /\ Finish(w)
  /\ UNCHANGED <<order, exists, stripe, tab, runs, faults>>

Handle(w) ==
  \/ LoadOrder(w) \/ MarkPaid(w) \/ ScoreFraud(w)
  \/ DecrementStock(w) \/ DispatchMail(w) \/ Respond(w)

\* The worker is killed (deploy, out of memory, gunicorn timeout).
Crash(w) ==
  /\ pc[w] # "idle"
  /\ crashes < MaxCrashes
  /\ crashes' = crashes + 1
  /\ Finish(w)
  /\ UNCHANGED <<order, exists, stripe, acked, tab, runs, refusals>>

\* An analyst deletes the order in the admin.
DeleteOrder(o) ==
  /\ o \in exists
  /\ exists' = exists \ {o}
  /\ UNCHANGED <<order, stripe, acked, tab, pc, evt, runs, faults>>

Next ==
  \/ \E t \in Tabs, o \in Orders : OpenPaymentPage(t, o)
  \/ \E t \in Tabs : CreateSession(t)
  \/ \E i \in Intents : CustomerPays(i)
  \/ \E o \in Orders : ForgetKey(o) \/ DeleteOrder(o)
  \/ \E w \in Workers, i \in Intents : Deliver(w, i)
  \/ \E w \in Workers : Handle(w) \/ Crash(w)

Spec == Init /\ [][Next]_vars

\* A worker finishes the request it serves unless it is killed; Stripe keeps
\* retrying an event that was not answered 200.
Redeliver(i) == i \notin acked /\ \E w \in Workers : Deliver(w, i)

Fairness ==
  /\ \A w \in Workers : WF_vars(Handle(w))
  /\ \A i \in Intents : SF_vars(Redeliver(i))

FairSpec == Spec /\ Fairness

-----------------------------------------------------------------------------
(* Properties *)

\* Replays and concurrent duplicates are no-ops: whatever is delivered, fraud
\* scoring, the stock decrement and the mail of an order happen at most once
\* (the "updated == 1" gate of stripe_webhook).
EffectsAtMostOnce == \A o \in Orders, e \in Effects : runs[o][e] <= 1

\* An order's stripe_id is the intent of a session opened for this very order
\* and charged: webhook and payment page agree about who paid what.
PaidByOwnCharge ==
  \A o \in Orders : order[o].paid =>
    /\ order[o].stripe_id \in Intents
    /\ owner[order[o].stripe_id] = o
    /\ sess[order[o].stripe_id] = "charged"

\* A charge is on its order: the row is paid and names this very session.
OnOrder(i) == order[owner[i]].paid /\ order[owner[i]].stripe_id = i

\* The second charge of an order: a tab that read the order as unpaid opened a new session
\* after Stripe forgot the key, and the order records the other session that was charged.
Superseded(i) ==
  /\ owner[i] \in Forgetful
  /\ \E j \in Intents \ {i} : owner[j] = owner[i] /\ sess[j] = "charged" /\ OnOrder(j)

\* Stripe is told 200, and so stops retrying, only about a charge that is on its order, in
\* stripe_id, unless the order is gone.  One case is left out by name: the second charge of
\* an order whose key was forgotten finds the row paid, is answered 200 and recorded nowhere.
AckedIsRecorded ==
  \A i \in acked : owner[i] \in exists => OnOrder(i) \/ Superseded(i)

\* The first payment wins: once paid, an order's row keeps its stripe_id and
\* stays paid, also when a second session is paid for it.
FirstPaymentWins ==
  [][\A o \in Orders : order[o].paid => order'[o] = order[o]]_vars

\* While Stripe remembers the idempotency key, retries and double clicks on
\* the payment page never charge an order twice.
ChargedAtMostOnce ==
  \A i, j \in Intents :
    sess[i] = "charged" /\ sess[j] = "charged" /\ owner[i] = owner[j] =>
      i = j \/ owner[i] \in Forgetful

\* A charge ends up on its order, as the session its stripe_id names, in spite of crashes,
\* failed responses and an order that was looked up before it existed no more.  Left out by
\* name: an order that is gone, and the second charge after a forgotten key.
ChargeIsRecorded ==
  \A i \in Intents :
    sess[i] = "charged" ~> (owner[i] \notin exists \/ OnOrder(i) \/ Superseded(i))

\* What the comments of stripe_webhook promise: the mail dispatch is
\* unconditional once the order is paid.
MailAlwaysDispatched ==
  \A o \in Orders : order[o].paid ~> runs[o]["mail"] = 1

\* What the code does: an order that is paid has its mail dispatched unless a
\* worker is killed or the broker refuses a task; neither fraud scoring, nor the
\* stock, nor a second delivery, nor the deletion of the order prevents it.
MailDispatched ==
  \A o \in Orders :
    order[o].paid ~> (runs[o]["mail"] = 1 \/ crashes > 0 \/ refusals > 0)

\* The webhook implements PaidOnce.
Promise == INSTANCE PaidOnce WITH
  payment <- [o \in Orders |-> IF order[o].paid THEN order[o].stripe_id ELSE NoIntent],
  done <- runs

PaidOncePromise == Promise!Spec
=============================================================================
