-------------------------------- MODULE Refunds --------------------------------
(***************************************************************************)
(* Refunds of paid orders: refund_order (payment/refunds.py) as called by  *)
(* concurrent admin requests, and the charge.refunded branch of            *)
(* stripe_webhook, which copies Stripe's cumulative amount onto the order. *)
(* Stripe keeps the charge and its refunds, refuses to refund more than    *)
(* the charge, and delivers each event at least once, in any order.        *)
(* Amounts are integer cents; _cents and the division by 100 are exact on  *)
(* the two-decimal prices of this shop.                                    *)
(***************************************************************************)
EXTENDS Integers

CONSTANTS
  Orders, Items,
  ItemOrder, Cost,    \* the order and the line cost of each item
  Charge,             \* what Stripe charged for each order
  Callers,            \* admin requests that call refund_order
  Hooks,              \* web workers that serve charge.refunded deliveries
  PaidAtStart,        \* orders already marked paid (the others follow late)
  Full,               \* amount=None: the whole remaining charge
  Nobody,             \* no order
  MaxRefunds,         \* bound: Stripe refunds per charge
  MaxCrashes,         \* bound: killed workers
  MayLoseAnswer,      \* may Stripe carry out a refund whose answer is lost?
  MayDeleteItems      \* may products of paid orders be deleted?

ASSUME ItemsAssumption ==
  /\ ItemOrder \in [Items -> Orders]
  /\ Cost \in [Items -> Nat \ {0}]
  /\ Charge \in [Orders -> Nat]
  /\ \A x \in Items : Cost[x] <= Charge[ItemOrder[x]]
ASSUME RefundsAssumption ==
  /\ PaidAtStart \subseteq Orders
  /\ Full \notin Nat /\ Nobody \notin Orders
  /\ MaxRefunds \in Nat /\ MaxCrashes \in Nat
  /\ MayLoseAnswer \in BOOLEAN /\ MayDeleteItems \in BOOLEAN

VARIABLES
  paid,       \* Order.paid with its stripe_id
  items,      \* order items not deleted
  total,      \* Order.get_total_cost(): the cost of the items still there
  refunded,   \* Order.refunded_amount
  refundId,   \* Order.refund_id: the number of a Stripe refund, 0 for ''
  ledger,     \* Stripe: sum and number of the refunds of each charge
  events,     \* Stripe: the charge.refunded events emitted
  acked,      \* Stripe: those answered 200
  call,       \* the refund_order call of each admin request
  hook,       \* the delivery each worker handles
  dropped,    \* history: orders an event of which found no paid order
  crashes

vars == <<paid, items, total, refunded, refundId, ledger, events, acked, call,
          hook, dropped, crashes>>
row == <<paid, items, total, dropped>>
stripe == <<ledger, events, acked>>

Event == [order : Orders, sum : Nat, count : Nat]
Amount == (Nat \ {0}) \cup {Full}

\* refund is the number Stripe gave the refund (0: none), ok the result.
Call == [pc : {"idle", "loaded", "guarded", "refunded", "returned"},
         order : Orders \cup {Nobody}, amount : Amount,
         soFar : Nat, delta : Nat, refund : Nat, ok : BOOLEAN]
IdleCall == [pc |-> "idle", order |-> Nobody, amount |-> Full,
             soFar |-> 0, delta |-> 0, refund |-> 0, ok |-> FALSE]

Hook == [pc : {"idle", "received", "matched", "applied"},
         order : Orders \cup {Nobody}, sum : Nat, count : Nat]
IdleHook == [pc |-> "idle", order |-> Nobody, sum |-> 0, count |-> 0]

RowType ==
  /\ paid \in [Orders -> BOOLEAN]
  /\ items \subseteq Items
  /\ total \in [Orders -> Nat]
  /\ refunded \in [Orders -> Nat]
  /\ refundId \in [Orders -> Nat]
  /\ dropped \subseteq Orders

StripeType ==
  /\ ledger \in [Orders -> [sum : Nat, count : Nat]]
  /\ events \subseteq Event
  /\ acked \subseteq Event

CallType ==
  /\ call \in [Callers -> Call]
  /\ \A c \in Callers : call[c].pc # "idle" => call[c].order \in Orders

HookType ==
  /\ hook \in [Hooks -> Hook]
  /\ \A h \in Hooks : hook[h].pc # "idle" => hook[h].order \in Orders

TypeOK ==
  /\ RowType /\ StripeType /\ CallType /\ HookType
  /\ crashes \in 0..MaxCrashes

Init ==
  /\ paid = [o \in Orders |-> o \in PaidAtStart]
  /\ items = Items
  /\ total = Charge
  /\ refunded = [o \in Orders |-> 0]
  /\ refundId = [o \in Orders |-> 0]
  /\ ledger = [o \in Orders |-> [sum |-> 0, count |-> 0]]
  /\ events = {}
  /\ acked = {}
  /\ call = [c \in Callers |-> IdleCall]
  /\ hook = [h \in Hooks |-> IdleHook]
  /\ dropped = {}
  /\ crashes = 0

-----------------------------------------------------------------------------
(* Stripe *)

Remaining(o) == Charge[o] - ledger[o].sum

\* Stripe refunds n cents of the charge and emits charge.refunded.
Refund(o, n) ==
  LET new == [sum |-> ledger[o].sum + n, count |-> ledger[o].count + 1] IN
  /\ 0 < n /\ n <= Remaining(o)
  /\ ledger[o].count < MaxRefunds
  /\ ledger' = [ledger EXCEPT ![o] = new]
  /\ events' = events \cup {[order |-> o, sum |-> new.sum, count |-> new.count]}
  /\ UNCHANGED acked

\* A refund made in the Stripe dashboard.
DashboardRefund(o, n) ==
  /\ Refund(o, n)
  /\ UNCHANGED <<row, refunded, refundId, call, hook, crashes>>

-----------------------------------------------------------------------------
(* The order row, as other parts of the shop write it *)

\* checkout.session.completed arrives (module PaymentWebhook).
MarkPaid(o) ==
  /\ ~paid[o]
  /\ paid' = [paid EXCEPT ![o] = TRUE]
  /\ UNCHANGED <<items, total, refunded, refundId, stripe, call, hook, dropped, crashes>>

\* A product is deleted and takes its order items along (CASCADE), so the
\* order's total shrinks.  (The items of an order cost no more than its total.)
DeleteItem(x) ==
  LET o == ItemOrder[x] IN
  /\ MayDeleteItems
  /\ x \in items
  /\ Cost[x] <= total[o]
  /\ items' = items \ {x}
  /\ total' = [total EXCEPT ![o] = @ - Cost[x]]
  /\ UNCHANGED <<paid, refunded, refundId, stripe, call, hook, dropped, crashes>>

-----------------------------------------------------------------------------
(* refund_order(order, amount) *)

\* Guards 1 and 2: an instance loaded as paid, a positive amount.
BeginRefund(c, o, amount) ==
  /\ call[c].pc = "idle"
  /\ paid[o]
  /\ amount \in Amount
  /\ call' = [call EXCEPT ![c] =
       [IdleCall EXCEPT !.pc = "loaded", !.order = o, !.amount = amount]]
  /\ UNCHANGED <<row, refunded, refundId, stripe, hook, crashes>>

\* Guard 3 compares the persisted amount with the total.  Both are used after
\* the Stripe call, whatever happens to the row meanwhile.  The two are read one
\* after the other (refunds.py:103 and :104), here in one step: what is written
\* or deleted just between the two reads is not explored.
AlreadyRefundedNever(o) == FALSE   \* mutant: no guard 3
AlreadyRefunded(o) == refunded[o] >= total[o]

CheckRefunded(c) ==
  LET o == call[c].order
      amount == call[c].amount
      delta == IF amount = Full THEN total[o] - refunded[o] ELSE amount
  IN
  /\ call[c].pc = "loaded"
  /\ \/ /\ AlreadyRefunded(o)
        /\ call' = [call EXCEPT ![c].pc = "returned"]
     \/ /\ ~AlreadyRefunded(o)
        /\ call' = [call EXCEPT ![c].pc = "guarded", ![c].soFar = refunded[o],
                                ![c].delta = delta]
  /\ UNCHANGED <<row, refunded, refundId, stripe, hook, crashes>>

\* stripe.Refund.create: without an amount Stripe refunds what remains.
Asked(c) == IF call[c].amount = Full THEN Remaining(call[c].order) ELSE call[c].amount

StripeRefunds(c) ==
  LET o == call[c].order IN
  /\ call[c].pc = "guarded"
  /\ Refund(o, Asked(c))
  /\ call' = [call EXCEPT ![c].pc = "refunded", ![c].refund = ledger[o].count + 1]
  /\ UNCHANGED <<row, refunded, refundId, hook, crashes>>

\* A StripeError: (False, 'stripe error: ...').
StripeRefuses(c) ==
  /\ call[c].pc = "guarded"
  /\ call' = [call EXCEPT ![c].pc = "returned"]
  /\ UNCHANGED <<row, refunded, refundId, stripe, hook, crashes>>

\* Stripe refunds, but the connection breaks before its answer: the same result.
AnswerLost(c) ==
  /\ MayLoseAnswer
  /\ call[c].pc = "guarded"
  /\ Refund(call[c].order, Asked(c))
  /\ call' = [call EXCEPT ![c].pc = "returned"]
  /\ UNCHANGED <<row, refunded, refundId, hook, crashes>>

\* The targeted UPDATE of the refund columns.
NewAmountTwice(c) == call[c].soFar + call[c].delta + call[c].delta   \* mutant
NewAmount(c) == call[c].soFar + call[c].delta

RecordRefund(c) ==
  LET o == call[c].order IN
  /\ call[c].pc = "refunded"
  /\ refunded' = [refunded EXCEPT ![o] = NewAmount(c)]
  /\ refundId' = [refundId EXCEPT ![o] = call[c].refund]
  /\ call' = [call EXCEPT ![c].pc = "returned", ![c].ok = TRUE]
  /\ UNCHANGED <<row, stripe, hook, crashes>>

\* The caller has its result.
EndRefund(c) ==
  /\ call[c].pc = "returned"
  /\ call' = [call EXCEPT ![c] = IdleCall]
  /\ UNCHANGED <<row, refunded, refundId, stripe, hook, crashes>>

\* The worker serving the admin request is killed.
CrashCall(c) ==
  /\ call[c].pc # "idle"
  /\ crashes < MaxCrashes
  /\ crashes' = crashes + 1
  /\ call' = [call EXCEPT ![c] = IdleCall]
  /\ UNCHANGED <<row, refunded, refundId, stripe, hook>>

RefundStep(c) ==
  \/ CheckRefunded(c) \/ StripeRefunds(c) \/ StripeRefuses(c)
  \/ AnswerLost(c) \/ RecordRefund(c)

-----------------------------------------------------------------------------
(* stripe_webhook, charge.refunded: _apply_refunded_event *)

Deliver(h, e) ==
  /\ hook[h].pc = "idle"
  /\ hook' = [hook EXCEPT ![h] =
       [pc |-> "received", order |-> e.order, sum |-> e.sum, count |-> e.count]]
  /\ UNCHANGED <<row, refunded, refundId, stripe, call, crashes>>

\* The order is looked up by stripe_id, which only a paid one carries; a refund
\* of an unknown payment is dropped.
MatchOrder(h) ==
  LET o == hook[h].order IN
  /\ hook[h].pc = "received"
  /\ \/ /\ paid[o]
        /\ hook' = [hook EXCEPT ![h].pc = "matched"]
        /\ UNCHANGED dropped
     \/ /\ ~paid[o]
        /\ hook' = [hook EXCEPT ![h].pc = "applied"]
        /\ dropped' = dropped \cup {o}
  /\ UNCHANGED <<paid, items, total, refunded, refundId, stripe, call, crashes>>

\* The cumulative amount is written as it is; the id is blank unless the charge
\* was refunded exactly once.
WrittenTwice(h) == refunded[hook[h].order] + hook[h].sum   \* mutant: added up
Written(h) == hook[h].sum

ApplyRefunded(h) ==
  LET o == hook[h].order IN
  /\ hook[h].pc = "matched"
  /\ refunded' = [refunded EXCEPT ![o] = Written(h)]
  /\ refundId' = [refundId EXCEPT ![o] = IF hook[h].count = 1 THEN 1 ELSE 0]
  /\ hook' = [hook EXCEPT ![h].pc = "applied"]
  /\ UNCHANGED <<row, stripe, call, crashes>>

HookEvent(h) == [order |-> hook[h].order, sum |-> hook[h].sum, count |-> hook[h].count]

Respond(h) ==
  /\ hook[h].pc = "applied"
  /\ acked' = acked \cup {HookEvent(h)}
  /\ hook' = [hook EXCEPT ![h] = IdleHook]
  /\ UNCHANGED <<row, refunded, refundId, ledger, events, call, crashes>>

CrashHook(h) ==
  /\ hook[h].pc # "idle"
  /\ crashes < MaxCrashes
  /\ crashes' = crashes + 1
  /\ hook' = [hook EXCEPT ![h] = IdleHook]
  /\ UNCHANGED <<row, refunded, refundId, stripe, call>>

HookStep(h) == MatchOrder(h) \/ ApplyRefunded(h) \/ Respond(h)

Environment ==
  \/ \E o \in Orders : MarkPaid(o) \/ \E n \in 1..Charge[o] : DashboardRefund(o, n)
  \/ \E x \in Items : DeleteItem(x)
  \/ \E h \in Hooks : HookStep(h) \/ CrashHook(h) \/ \E e \in events : Deliver(h, e)

\* issue_full_refund asks for the rest; the amount parameter is there for the
\* line cost of a returned item.
Next ==
  \/ Environment
  \/ \E c \in Callers :
       \/ \E o \in Orders :
            BeginRefund(c, o, Full) \/ \E n \in 1..Charge[o] : BeginRefund(c, o, n)
       \/ RefundStep(c) \/ EndRefund(c) \/ CrashCall(c)

Spec == Init /\ [][Next]_vars

-----------------------------------------------------------------------------
(* Properties *)

\* The order never claims a larger refund than Stripe has made, whatever calls
\* and events overlap: guard 3 turns an analyst away only rightly.
RecordNotAhead == \A o \in Orders : refunded[o] <= ledger[o].sum

\* Nothing is under way: no call, no delivery, no event still to be delivered.
Quiet ==
  /\ \A c \in Callers : call[c].pc = "idle"
  /\ \A h \in Hooks : hook[h].pc = "idle"
  /\ acked = events

\* Once everything has been delivered, an order that was refunded at most once,
\* lost no product and had no event dropped carries what Stripe refunded, wherever
\* the refund was made and whatever crashed, got lost or overlapped on the way.
Intact(o) == total[o] = Charge[o] /\ o \notin dropped
SettledRecord ==
  Quiet => \A o \in Orders :
    ledger[o].count <= 1 /\ Intact(o) => refunded[o] = ledger[o].sum

\* What the webhook promises ("inbound truth for refunds"): the same of any order.
RefundReflected == Quiet => \A o \in Orders : refunded[o] = ledger[o].sum
=============================================================================
