# Formal models of django-ecommerce

TLA+ modules of the shop's own logic (`src/be/ecommerce`, `src/docker/backup`), TLC
configurations that check them on small instances, and theorems about all of them
that TLAPS proves for every value of the constants. Every definition is translated from the
source; `PROJECT.json` names, for each, the lines it stands for, and lists the
hazards the properties are for.

- [1 The system](#1-the-system)
- [2 Modules and the code they model](#2-modules-and-the-code-they-model)
- [3 Runs, bounds, and what they show](#3-runs-bounds-and-what-they-show)
- [4 Fairness](#4-fairness)
- [5 Proofs](#5-proofs)
- [6 Where code and documentation disagree](#6-where-code-and-documentation-disagree)
- [7 What is not modelled](#7-what-is-not-modelled)
- [8 Plan](#8-plan)

To check a run: `tlc -workers 2 -config MCOrderForm.cfg MCOrderForm`. To check
the proofs of a module: `tlapm PaymentWebhookProofs.tla`.

## 1 The system

A Django shop: Gunicorn workers serve requests concurrently, PostgreSQL holds the rows,
and the sessions, Redis the cache, a broker the Celery tasks, and Stripe takes the money
and calls back. No view runs in a transaction of its own
(`ATOMIC_REQUESTS` is off): each ORM call commits by itself, the admin's forms excepted.
So a worker that dies leaves behind whatever it has committed, and two requests
interleave between any two statements. That, together with Stripe's retries, the
session that a request loads and writes back as a whole, and the browser's and the
customers' impatience, is what makes this code hard to test.

| Component | State | Operations | What is hard | What makes it correct |
|---|---|---|---|---|
| Payment webhook, payment page | `Order.paid/stripe_id/status`; Stripe's sessions, keys and events | open the page, create a session, `checkout.session.completed` | at-least-once, concurrent, late deliveries; a kill or a refused task between the guarded UPDATE and its effects | effects at most once, paid by the order's own charge, first payment wins, nothing charged is lost |
| Inventory | `stock` of products and variants | `decrement_for_order`, admin forms | read, conditional UPDATE, clamp: three steps without a lock | never negative, every unit accounted for, NULL stays NULL |
| Refunds | `refunded_amount`, `refund_id`; Stripe's ledger | `refund_order`, `charge.refunded` | an amount read before a remote call and written after it; cumulative events out of order | the order never claims more than Stripe refunded, and ends up with it |
| Return requests | `status`, `refund_id` | submit, approve, reject, cancel, refund | decisions on loaded instances; crashes around the remote call | one refund per request, of its cost; REFUNDED only with a refund |
| Cart and checkout, coupons | the session (cart, order id), orders and items | add, update, remove, apply, `order_create` | whole-session write-back; `order_create` is five commits and a task | only announced orders can be paid, whole but for products deleted since; without overlap no unit is lost or ordered twice |
| Wish lists | lists and items, the session cart | add, remove, clear, move to the cart | get-then-create, read-add-delete; a unique constraint over NULL | one row per variant, nothing duplicated by a move |
| Listing, facets, search, cache, thumbnails, reviews | product rows, cached pages and counts, the registry of keys, files | listing pages and links, `save`, reviews | lost registry updates, invalidation inside the transaction, keys that tell too little apart | the cache says what the database says; a count is what its link leads to |
| Accounts, e-mail verification | accounts, tokens | register, edit, resend, follow a link | changes between issue and click, overlapping issues | a verified address was verified by its own link |
| Rate limiting | a counter and a deadline in the cache | one POST | expiry between `add` and `incr` | no window lets more than its limit through |
| Infinite scroll | the DOM and three flags | scroll, click, answer | two triggers, failures, catalog changes | each product once, in order, to the last |
| Backups | files of two kinds | dump, archive, rotate | a stop at any point, rotation of partial files | the newest complete backup survives |
| Fraud scoring, order review | score, flag and notes of an order | `evaluate`, `mark_rules_reviewed` | rules that raise; notes loaded before and saved after the scoring | a scored order keeps its score, and its flag until it is accepted |
| The order's change form | the row as the page showed it | open, submit | every column is saved as it was shown, `paid` included: the gate of the webhook opens again | each outdated form costs one round of effects at most; no second charge, no other order's payment |
| Database routing | `DATABASES` of each process | read, follow a relation, save, UPDATE, migrate | a router installed by name; an instance remembers where it came from | nothing is ever written to a replica |
| Request ids, tracing, metrics | a context variable per thread and process, counters | bind, reset, dispatch, log, count | threads and processes outlive their jobs; kills between two steps | a line shows its own request's id, a request that gets to the view, and a task that ends, is counted once |
| Seed data | what the command has not committed yet | get-or-create, update, save images, users, sample orders | one transaction over a shop in use, repeated, overlapping, killed | a row and a sample order once, sold stock stays sold |
| Tasks, mails, PDF; order tracking; recommendations; detail page | none of their own | render, send, read | - | - |
| The other admin forms, cart script, deployment, restore drill, settings, headers, validators | see section 7 | | | |

`PROJECT.json` lists all thirty components with their source files, and for each what is
modelled of it or why it is not.

How they interact: the **payment page** turns the session's order into a Stripe session
(with the order's idempotency key); Stripe's event reaches the **webhook**, which marks
the order paid with one guarded UPDATE and, only if that changed a row, runs **fraud
scoring**, **`decrement_for_order`** and **`payment_completed.delay`** in this order.
Analysts call **`refund_order`** directly or through a **return request**; Stripe's
`charge.refunded` comes back to the same webhook view. **`order_create`** empties the
cart into an order and leaves its id in the session, where the payment page finds it;
the **wish list** moves lines into the same session cart. A **product save**
and a **review** clear what the **listing** has cached, a **decrement** does not (section
6); the listing's pages are what **infinite scroll** fetches. Analysts accept the flags that
**fraud scoring** set (**order review**), and save orders as a **form** showed them. Below all of them, every query asks the
**database router** where to go, and every request and task runs under a **request id**
that the middleware binds, the message carries and the log lines show. The **seed**
command writes the same rows as staff and customers, in one long transaction.

## 2 Modules and the code they model

| Module | Source | Variables ↔ code |
|---|---|---|
| `PaidOnce` | what the webhook promises | the abstract specification: an order gets one payment; fraud, stock, mail happen at most once each, after it, in that order |
| `PaymentWebhook` | `payment/views/stripe_webhook_view.py`, `payment_process_view.py` | `order`, `exists`: the rows; `stripe` (`sess`, `owner`, `key`): Stripe's sessions and idempotency keys; `pc`, `evt`: the request each worker serves; `acked`: events answered 200; `runs`: how often each effect ran |
| `OrderReview` (extends `PaymentWebhook`) | `orders/fraud.py`, `orders/admin.py` | `signals`: `fraud_score`, `is_flagged`, `fraud_notes`; `review`: an analyst's action with the instances it loaded; `verdict` is history |
| `OrderForm` (extends `OrderReview`) | `OrderAdmin` in `orders/admin.py` | `form`: the form each analyst has open, with the columns as shown; `reverted`, history: how many forms of an order were saved over a row that had changed |
| `StockTaken` | what the inventory promises | the abstract specification: an order reads its lines once; from then on it takes of each row, at one instant and at most once, all its lines ask, or forgoes it for a reason |
| `Inventory` | `shop/inventory.py` | `rows`, `stock`; `pc`, `todo`, `need`, `cur`: the locals of each `decrement_for_order`; `base`, `applied` are history; mapped to `StockTaken` by `Left` (what a worker has counted and not taken, and what it has still to count) and `Begun` |
| `Refunds` | `payment/refunds.py`, `_apply_refunded_event` | `refunded`, `refundId`, `paid`, `items`, `total`: the order; `ledger`, `events`, `acked`: Stripe; `call`, `hook`: requests under way with what they have read |
| `Returns` (extends `Refunds`) | `returns/`, `orders/admin.py` | `status`, `resolvedBy`: the request; `job`: the admin action with its loaded instance; `issued` is history |
| `BackOffice` (extends `Returns`) | - | `setting`: which analysts, requests and faults there are, fixed at the start; what a setting leaves out is held fixed; `crossed`, history: requests whose refund id a delivery replaced before it was read back |
| `Catalog` | `Cart._cart_key` and the variant's foreign key | constants only |
| `Checkout` | `cart/`, `coupons/views`, `orders/views/order_create_view.py` | `store`: the saved session; `tab`: a request with its copy of the session; `created`, `items`, `missing`, `announced`: the orders |
| `WishList` | `wishlist/` | `list`, `rows`, `units`: the list and its rows; `cart`: the session's; `click`: a request with what it has read |
| `Listing` | `shop/facets.py`, `views/product_list_view.py`, `cache_keys.py`, `signals.py`, `image_utils.py`, the template's links | `shelf`: products; `counted`, `listed`, `registry`: the cache; `visit`: a page request; `save`: a staff transaction |
| `EmailVerification` | `accounts/` | `account`, `token`: rows; `sentTo`: the mails; `form`: requests |
| `InfiniteScroll` | `shop/static/js/infinite-scroll.js` | `grid`, `next`, `button`: the DOM; `loading`, `finished`, `watching`: `state`; `fetches`: pages asked for |
| `RateLimit` | `ecommerce/rate_limit.py` | `counter`: the key; `attempt`: where each request is |
| `Backup` | `docker/backup/backup.sh`, `retain.py` | `file`: the directory; `job`: running backups |
| `ReadReplica` | `ecommerce/db_config.py`, `db_router.py`, `settings.py` | `databases`: `DATABASES` of each process; `instance`: the database of the instance it holds; `served`, `written` collect where reads and writes went |
| `Tracing` | `ecommerce/middleware/`, `celery.py`, `metrics/`, `logging.py` | `context`: the variable of each thread and process; `serves`, `point`: its job; `tasks`: the broker's queue; `lines`, `answers`: what was logged and answered; `counted`, `tallied`: the counters |
| `Seed` | `shop/management/commands/seed.py` | `rooms`, `goods`, `people`, `samples`: committed rows; `run`, `wrote`: a run's locals and what it has not committed; `sold` is history |
| `MC*` | - | instances for TLC; `MCSite` and `MCStorefront` put independent components into one run, `MCOrderForm` several settings of one (section 3) |
| `PaymentWebhookProofs`, `InventoryProofs`, `RefundsProofs`, `ReturnsProofs`, `CheckoutProofs`, `WishListProofs`, `SiteProofs`, `PlatformProofs` | - | theorems (section 5); `PaymentWebhookProofs` covers OrderReview and OrderForm, `ReturnsProofs` BackOffice, `SiteProofs` Listing, EmailVerification, Backup and `MCSite`, `PlatformProofs` ReadReplica, Tracing, RateLimit, InfiniteScroll, Seed and `MCStorefront` |

Conventions. One action per statement that commits, reads or calls out; what a handler
does without giving anybody a chance to interfere is one action. A request is a record
with a `step` and its local variables. Names are the source's where TLA+ allows it.
*History* variables remember what properties speak about and no action reads them. Bounds
are constants (`Max...`) that only disable further *inputs* (a click, an edit, a crash),
never the completion of something begun. The operators marked "mutant" next to a
definition are plausible bugs of it that the property named in `PROJECT.json` must catch;
no behaviour uses them.

Some modelling decisions worth knowing:

- **Stripe** (external) keeps one session per idempotency key until it forgets the key
  (`ForgetKey`, its 24 hours), charges a session at most once, delivers each event at
  least once, to several workers at a time if it likes, until it is answered 200. It
  refuses to refund more than the charge and carries a cumulative sum in each event.
- **The session** is loaded by the first access and written back as a whole if the
  request modified it and did not end in a 500. `Cart.__init__` marks the session
  modified whenever the cart is empty, so a page view can write, too.
- **Amounts** are integer cents; `_cents` and its inverse are exact on two-decimal
  prices. The discount of an order is 0, since nothing sets it.
- **Crashes**: a worker may be killed between any two actions; what it held is lost,
  what it committed stays.
- **The cache** is an association from keys to results; a result remembers which
  products it shows. Time is abstract: whatever has a TTL may expire at any moment.
- **The router** is the one Django makes of the dotted name in `settings.py`: it is
  instantiated without arguments, so its list of replicas is empty. Django's fallback
  (the instance's own database, else default) is part of the model.
- **Fraud rules** read facts of an order that do not change once it is placed; what
  changes is which other orders exist. A rule that raises counts as not fired.
- **An order's form** writes the payment and fraud columns back as it showed them; what the
  analyst types into the others (an address, say) is left out. `MaxReverts` bounds how many
  outdated forms of an order are submitted.
- **The seed command** runs at READ COMMITTED: a run sees what is committed and what it
  wrote itself, and waits for a row another run has written (or for a unique key another
  run has inserted). `(category, slug)` of a product is not unique.
- **A deleted product** takes the items of its orders along, the ones an `order_create` is
  just making included (`OrderItem.product` is CASCADE); a deleted variant leaves the item
  behind (SET_NULL). `withdrawn` remembers what a deletion took from which order.
- **The middleware** around the view (`settings.py:118`) counts in its innermost layer and
  binds the id in its outermost one. The layers between are Django's and WhiteNoise's: they
  may answer early (`AnswerEarly`, never counted) or replace a counted answer (`Final`: a 404
  becomes a redirect, a lost session makes it a 400).
- **E-mail addresses** are compared without regard to case by every query involved, so
  an address stands for all its spellings.

## 3 Runs, bounds, and what they show

All passing runs are exhaustive for their bounds. `CHECK_DEADLOCK FALSE` is set because
bounded inputs run out: then the system rests, as a shop nobody visits does.

**`webhook_safety`** - four parts, chosen at the start (`part`).
- *payment*: two orders (Stripe may forget the key of one), two payment intents, two
  workers, a payment page, one kill and one refused task. Two orders and two intents are
  enough for every way to confuse an order with another's payment, two workers for every
  duplicate delivery; a third of either only repeats what they do.
- *rules*: one delivery at a time, analysts who accept flags, six rules of which two may
  raise, an order that fires all of them (their weights add up to more than the cap) and one
  that fires some.
- *forms*: one order, two workers, and two analysts whose outdated forms may be saved over
  it twice.
- *both*: one order, one delivery at a time, a kill, one analyst with forms and one who
  accepts flags.

`PaidByOwnCharge` and `ChargedAtMostOnce` hold in all four. The other three say what forms
can undo, and where nobody saves one (`reverted` is 0, the first two parts) what holds
without them: an effect is carried out once (`RepeatedPerRevert`: once more for each
outdated form), Stripe hears 200 only about a charge that its order carries as `stripe_id`
(`AckedUnlessReverted`; the exceptions are under `webhook_live`), and a scored order keeps its score, and its flag and rule names
until they are accepted (`SignalsUnlessReverted`). Two saves over one row are enough to see
the bound reached and not passed: after the second the gate is closed again.

**`webhook_live`** (one order whose key may be forgotten, two intents, two workers, one kill,
one refused task, fair): `ChargeIsRecorded`, every charge ends up on its order, in
`stripe_id`, whatever is killed or refused. Two exceptions are in the formula: the order is
deleted, or it carries its other charge (`Superseded`: Stripe forgot the idempotency key, a
tab that had read the order as unpaid opened a second session, both were charged; the second
is answered 200 and recorded nowhere). `MailDispatched`, without a kill or refusal every
paid order has its mail dispatched. In the same run `PaidOncePromise`, the module implements
`PaidOnce` (the promise is about each order by itself, and both intents may be charged for
this one). It implies `EffectsAtMostOnce` and `FirstPaymentWins`, which are proved.

**`back_office`** - one order of two items (1 and 2 cents, so two partial refunds fit and a
third does not) in three settings, chosen at the start (`setting`). One order is enough:
calls, requests and events name their order and touch no other.
- *refunds*: two analysts and a webhook worker, dashboard refunds, two refunds per
  charge, one kill, lost answers, deleted items. `RecordNotAhead`: see 5.
  `SettledRecord`: when everything has been delivered, an order with at most one refund,
  its products and its events says what Stripe refunded.
- *many*: one request, two analysts and everything that can go wrong:
  `RefundedMeansIssued`.
- *one*: two requests (an item's and a whole order's), one analyst at a time and a webhook
  worker; no kill inside `refund_order`, no lost answer, no deleted product:
  `OneAnalystRefundsOnce`, `OneAnalystRefundsCost`, `OneAnalystOwnRefund`,
  `OneAnalystTerminalStays`. These four do fail with two analysts; `returns_twice` shows
  the first, section 6 says how the others do. A `charge.refunded` event that is applied
  between the UPDATE of `refund_order` and the read-back in `mark_refunded` replaces the id
  that is read, with one analyst as well: the history variable `crossed` holds those
  requests, and `OneAnalystOwnRefund` speaks of the others.

**`site`** - four components that share no variable: a behaviour chooses one at the start
(`part`) and the others rest in one fixed initial state, so the run is the union of their
state spaces.
- *Inventory*: a product and its variant, one order with two lines of the product and
  one of the variant, another that competes for the variant, and for the product once the
  variant is deleted; stock up to 3 (more than either row is asked for, or just as much) or
  untracked, one admin edit, deletions, errors. `NeverNegative`, `StockAccounted`,
  `UntrackedUntouched`: see 5. `WholeOrdersTaken`: undisturbed, the rows lose the sum of
  all lines that name them, once each. `StockPromise`: the module implements `StockTaken`.
  That without an edit only short rows are clamped (`ClampOnlyWhenTaken`) is proved.
- *Listing*: two products that differ in all facets, two categories, pages of one
  product, two visitors who open two pages (typed with junk parameters, then any link of
  the page) or a page each, a save or a review. `CachedIsCurrent`: unless one of the mishaps of
  section 6 happened, whatever is cached is what the database says, and the thumbnails it
  needs exist. `CountsNeverLie`: as long as what is on the screen is current, the number next
  to a facet is the length of the listing its link leads to, through the parser that narrows, the link builder that does not, and
  the keys under which pages and counts are cached.
- *EmailVerification*: two accounts, two addresses (so they compete for them), two
  overlapping requests, two tokens. `VerifiedByItsLink`, `OneLinkAtATime`.
- *Backup*: three backups, two at a time, keeping one or two; each may stop anywhere.
  `NewestBackupKept`.

**`storefront`** - seven more, in the same way: the customer's side of the shop and what
runs below and beside it.
- *Checkout*: a product and its variant, up to two units, two overlapping requests, two
  orders. `PayableIsWhole`: an order that can be paid was announced and has an item for
  every line, but for those a deleted product took along. `UnitsConserved`: see 5.
- *WishList*: the same catalog, two overlapping requests, two rows, two lists, two units
  per line. `VariantOnListOnce`, `NeverMovedTwice`: see 5.
- *RateLimit*: a limit of one, three concurrent requests, four POSTs, three windows: the
  window may end between `add` and `incr` of a request twice. `WindowHoldsLimit`.
- *InfiniteScroll*: up to five products in pages of two, any page opened first, four
  requests, any of which may fail, a change of the catalog. `GridIsWhole`: while the
  catalog stays, the grid shows the products from the page that was opened on, each once,
  in order, and the last one has been shown when loading stops.

- *ReadReplica*: one process, up to two segments in `DB_REPLICA_URLS` (blank, good, or bad
  in each way the parser tells apart), every kind of `DB_CONN_MAX_AGE`. Processes share
  nothing but the databases, so one is enough. `WritesOnPrimary`.
- *Tracing*: one thread, one worker process, two requests (one with a malformed id) and
  their tasks, one kill: two jobs follow each other in the same thread and process, with
  a kill in between. `LinesTraceBack`: every line of a request and of its task shows the
  id the client is told. `EachJobCountedOnce`: a request that got to the view is counted
  at most once, and once if it was answered, in a group the answer may come from; what an outer
  layer answered by itself is not counted; a task that ended is counted once.
- *Seed*: two runs of the command (overlapping, or one after the other), one row, one
  customer, an empty or a stocked shop, two edits or sales, up to three products.
  `SeededOnce`: a row has one product unless runs overlap or staff move a second one
  in; a customer gets the sample orders once even then. `SeedKeepsStock`: what was sold
  during a run without images stays sold.

`FormTypeOK`, `BackOfficeTypeOK`, `PartsTypeOK`, `ShopTypeOK` are the type invariants; the
last two are those of the part that moves.

Seven runs expect a violation; each checks one sentence of a comment or document, see 6:
`webhook_mail_lost`, `review_trail`, `replica_inert`, `inventory_restock`,
`refunds_reordered`, `returns_twice`, `wishlist_twice`.

Symmetry is used only where the module treats the values alike (requests, workers,
accounts) and never in a run with a liveness property.

## 4 Fairness

Only `webhook_live` (and `webhook_mail_lost`) assume any.
- `WF_vars(Handle(w))`: a worker that serves a request goes on with it. It may still be
  killed: `Crash` is another way out of the request, bounded by `MaxCrashes`.
- `SF_vars(Redeliver(i))`: an event that was never answered 200 is delivered again. Strong,
  because delivery is disabled whenever the workers are busy; justified by Stripe's
  retries (the view's own comments rely on them). Stripe gives up after days; that kills,
  refusals and outages end before is what `MaxCrashes` and `MaxRefusals` say.

No fairness is assumed of customers, analysts, the payment page, deletions or key expiry.

## 5 Proofs

Each theorem holds for every value of the constants that satisfies the module's
`ASSUME`s (which say that functions are on the right sets, bounds are natural numbers,
quantities positive, and placeholder values are none of the real ones). TLC evaluates the
assumptions in the runs of the same module.

**`PaymentWebhookProofs`.** `TypeCorrect`. For the rest, `GateInv` strengthens
`EffectsAtMostOnce` and `PaidByOwnCharge`: workers serve charged sessions only
(`ServesCharged`); an unpaid order has had no effect (`UnpaidUntouched`); of all workers
that got `updated == 1` at most one is between the flip and its response
(`OneFlipper`); and what such a worker has still to do has not been done (`AheadUndone`).
Without the last two the invariant is not inductive: the counter of an effect could
already be one when the flipper reaches it. `AckedRecorded`: `AckInv` adds that a worker
about to answer 200 has found or left its order paid, or gone; paid orders keep their row and
deleted ones stay deleted, so neither is undone before Stripe hears it. By which charge the
order is paid follows from `PaidByOwnCharge` and `KeyInv` (the lemma `PaidByWhich`): by this
one, or, if the key was forgotten, by another that was charged. From `GateInv`: `AtMostOnce`, `PaidByOwn`; `FirstWins`
needs only that the guarded UPDATE writes an order that is not paid; `OneCharge` uses
`KeyInv`: the session of an order whose key Stripe keeps is the one under that key. `Refinement`
proves `Spec => PaidOncePromise` with `PaymentOf` (the intent of a paid order, `NoIntent`
otherwise) and `runs` as the refinement mapping: `MarkPaid` by the winner is the abstract
payment, each effect the abstract effect, everything else stutters.

*OrderReview*, in the same module. `ReviewUsesPayment`: `ReviewSpec => Spec`, so everything
proved of payments holds with analysts at work. `SignalsKept`: `StandOn(Orders)` adds to
`SignalsStand` that an analyst who loaded an order before it was scored holds no rule names
for it, which is why such a save cannot look like an unreviewed order. `ScoreIsSum`: `evaluate`
caps the running score after each rule, and what it stores is the sum of the weights of the
rules that fired, or 100 if they weigh more. `Score` is a recursive function over the
registry, which has six entries, so no induction is needed: the lemma `ScoreSteps` shows that
it is the last of six running scores, `AtMost100` that capping before an addition and
after it comes to capping after it.

*OrderForm*, in the same module. With forms, `EffectsAtMostOnce` and `AckedIsRecorded` are
false, and `GateInv` with them: an order may be unpaid again while a worker is between the
gate and its effects.
- `RepeatsCounted`: `CostInv` counts, for an order and an effect, how often it was carried out,
  the workers that are past the gate and have it still before them (`Ahead`), and one if
  the gate is open (`NotYet`). Together they are at most 1 plus the forms that were saved over
  a changed row: a flip closes the gate and puts one worker ahead, an effect takes its
  worker out of those ahead, and only an outdated form opens the gate without closing
  anything. Not even "one worker past the gate at a time" is needed, which forms break.
- `FormsKeepOwn`: `OwnInv` says of every row a form shows what `PaidByOwnCharge` says of the
  order; a session once charged stays so, and stays its owner's.
- `FormsChargeOnce`: a form writes neither sessions nor keys, so `KeyInv` is not disturbed.
- `AckedUntilReverted`: in `SettledInv` the order of a worker past the gate, or about to answer,
  is paid, gone, or was written over. A form that is not outdated cannot unpay an order. By
  which charge: as for `AckedRecorded`, from these two.
- `SignalsUntilReverted`: `StandOn` again, on the orders no outdated form was saved over
  (`Untouched`), a set that only shrinks.

**`InventoryProofs`.** `TypeCorrect`; `StockNeverNegative`; `Accounted` and
`ClampedWhenTaken` from `AccountInv` and `BaseInv`: as long as nobody edits, a tracked
row holds what it had less everything applied, or zero; a failed conditional UPDATE then
stays failed, since stock only shrinks;
`NullStaysNull` (`UntrackedUntouched`), an action property. `WholeTaken`: in `TakenInv` what
was taken of a row are the units of the lines whose worker is through with it
(`SettledLines`), and a worker that still counts has added up exactly the lines it has been
through (`CountedUp`). Units are counted as a set of pairs, so that a line more is a
disjoint union and no sum has to be computed by induction.
`TakesAsPromised`: `Spec => StockPromise`, the refinement of `StockTaken`. Reading the lines is
the abstract `Begin`; counting an item moves its units from what is not counted to what
is, and changes nothing abstract (`CountKeepsLeft`); a conditional UPDATE that matches is
`Take`; a clamp is `Take` if the row is short, which `AccountInv` guarantees as long as nobody
edits, `Wipe` (after an edit) if it is not, and `Miss` if the row is gone or untracked.
`StartInv` (nothing is counted before the lines are read, and what is about to be clamped is
wanted) ties the program counters to the abstract state.

**`RefundsProofs`.** `TypeCorrect`. `RecordWithinLedger`: `LedgerInv` says that the row,
every event and every amount a delivery is about to write are within Stripe's sum, and
(`CallWithin`) so is what a call has read when it passes the guard, and what it read plus
what it refunded once Stripe has answered. The difficulty is that a call adds to a value
it read earlier: between the two Stripe's sum grew by the amount this very call refunded,
and it never shrinks. `RecordSettles`: `SettledInv` says of an order refunded once that
every write under way, a call's or a delivery's, would write the sum of that one refund
(`SettlesOnce`), so their order does not matter, and that an answered event has written
it. `InFlight` is needed for a full refund: what it will write is capped by the total.

**`ReturnsProofs`.** `UsesRefunds`: `ReturnsSpec => Spec`, the return actions call
`refund_order` only in ways `Refunds` allows, so everything proved there holds here
(`ReturnsWithinLedger`). `ScopeInv` is needed for the amounts: a job that was loaded with
its item has an item cost within the charge. `RefundedHasRefund`: `IssuedInv` ties each
job to the state of its `refund_order` call: once the call has reached "refunded", the
request has an issued refund, and only such a job closes a request.
*BackOffice*, in the same module: `BackOfficeTypeCorrect` for its three settings, and for
one analyst at a time `OneRefundsOnce`, `OneRefundsCost`, `OneOwnRefund` and the action
property `OneTerminalStays`. All four rest on `OneInv`: the instance an action loaded is
still the row (`OwnJob`: with two analysts this is what fails), and a request with a refund
is closed with its id or in the hands of the action that has it (`OwnMoney`), so it cannot
be refunded again. Deliveries touch neither requests nor calls; they can only replace the
id on the order, and doing so while a call has reported success and its action has not read
the id back is what puts a request into `crossed` (`OutsideKeepsOne`).

**`CheckoutProofs`.** `TypeCorrect`. `OnlyWholeOrdersPaid`: `WholeInv` extends the property
from the saved session to every copy a request holds and to the order a request is
making: what is still missing from it is exactly what it has still to do or was deleted
with its product after it was made (`Lacking` leaves that out), and it gets
into a session only after the mail task. `Conserved`: `ConservedInv` says what holds
while requests do not overlap: at most one runs, its copy is the saved session (`Alone`),
and one in the middle of `order_create` has made items for exactly the lines of its cart
it has been through (`ItemsSoFar`), so that dying there loses nothing. The items of a
deleted product go with it, which is why its lines only have an inequality.

**`WishListProofs`.** `WishTypeCorrect`, which includes that a line has units exactly if it
has rows; `OnListOnce`; `MovedOnce`: `MoveInv` bounds, for every request's copy of the
cart, what it would write back by what was asked for less what is on the list
(`CopyOK`), where a request between `cart.add` and `remove` is entitled to count the line
it is moving (`BeingMoved`). Deleting a line makes room for the copy that holds it; the
lemmas `DeleteSlack` and `AddSlack` are that bookkeeping.

**`SiteProofs`.** *Listing*: `ListingTypeCorrect`. `CacheCurrent`: `CacheInv` says that, until one of
the mishaps, whatever is cached is in the registry and in the copy of it that a save is about
to clear; once it has cleared, nothing is cached until its transaction ends, and no request
holds a result it computed meanwhile (`Cleared`, `Fresh`); a request stores a result only
under a key that is registered by then. So a commit never makes an entry stale.
`CountsTrue` takes the current cache and shows, for each kind of link, that the key of the
URL it leads to (through the parser) selects what was counted. The price bands are disjoint
and cover all prices, which is why a band next to selected ones leads to as many *more*.
The premise of `CountsNeverLie` asks for current counts and a current page: with a save
in between, the page on the screen can mix the two.
- *EmailVerification*, `LinkVerifies`: `LinkInv` ties every request to the account, address and row it
  works for. `LinksAreSingle`: in `IssueInv` at most one request of an account is between
  deleting its old rows and creating the new one, and nothing is outstanding then.
- *Backup*, `NewestSurvives`: in `OrderlyInv` the running backup is the newest, and while it
  rotates it is itself the complete one, whose files the rotation keeps as the newest.
- Side by side: `SiteIsItsParts`, `SiteSpec` implies the specifications of Inventory, Listing,
  EmailVerification and Backup, so what is proved of each holds in the run `site`;
  `SiteTypeCorrect` (`PartsTypeOK`) follows.

**`PlatformProofs`**, five components that share nothing.
- *ReadReplica*, `PrimaryOnly`: `HeldFromPrimary` (no instance was loaded from a replica), as
  an instance's own database is where Django saves it.
- *Tracing*, `LinesAreTraced`: `TracedInv` says that whoever *works* is bound to the id of its
  request; one that rests may still hold the last id. `CountedJobs`: in `CountInv` a
  request is at one place at a time (with a thread, or answered; its task in the queue,
  with one process, or ended), so no counter is raised twice for it. `CountedSoFar` says what
  the counter holds at each point of a thread: nothing up to the view, and on the way out the
  one group that `point` carries, from which the answer is made.
- *RateLimit*, `LimitHolds`: in `LimitInv` the requests that have passed and those counted
  with a number within the limit (`Entitled`) are together no more than the limit, and
  no more than the counter while its window lasts; a request that comes back from
  `incr` without a window starts a new one and is counted there.
- *InfiniteScroll*, `GridWhole`: in `ScrollInv` the grid ends where the next page begins, a
  request is under way only while `loading`, and asks for that page.
- *Seed*, `SeedStockKept` and `SeedOnce` from `SeedInv`: no two runs have written the same row
  (`Locked`); without images, what a run has written of a row has the stock that is
  committed, which nobody else can change meanwhile (`StockSeen`); a run that has written a
  customer's sample orders holds the customer's row and found none (`SampledOnce`); and
  while one run at a time is at work, what it sees has one product of a row, and it holds
  that one (`OneEach`).

For each of the five also that its type invariant holds (`ReplicaTypeCorrect`, and so on).
Some need more than themselves: a thread that rests serves nothing (`Resting`), at most one
page is being fetched and none after the last (`ScrollTypes`), which bounds `next` by the
pages of the largest listing (`PagesWithin`). Side by side with Checkout and WishList:
`ShopIsItsParts` and `ShopTypeCorrect`, as for the site.

Only model-checked:
- liveness (`ChargeIsRecorded`, `MailDispatched`): fairness and `ENABLED` are out of the
  prover's reach;
- the violations of section 6.

## 6 Where code and documentation disagree

Shown by a run that expects the violation:

1. `webhook_mail_lost`: if the broker refuses `payment_completed.delay`, the retried
   delivery finds the order paid and the mail is never dispatched; the comments say it
   always is (`stripe_webhook_view.py:86,107`, `docs/architecture.md:374`).
2. `review_trail`: an analyst's action that loaded an order before the webhook scored it and
   saves after it writes `reviewed: ` over the rule names and clears the flag; the
   docstring says they stay in the audit trail (`orders/admin.py:63,67`).
3. `replica_inert`: Django instantiates the router without the aliases, so with replicas
   configured every read still goes to the primary (`settings.py:264`; `db_router.py:9`
   promises otherwise, `test_db_router.py:153` passes the aliases itself).
4. `inventory_restock`: the clamp does not repeat the condition that failed, so a restock
   committed in between is wiped (`inventory.py:58`).
5. `refunds_reordered`: an older cumulative refund event that arrives late lowers
   `refunded_amount` for good (`stripe_webhook_view.py:122`).
6. `returns_twice`: two analysts (or two clicks) refund one request twice
   (`return_request_model.py:25`, `returns/admin.py:107`).
7. `wishlist_twice`: overlapping adds of a plain product make two rows, since the unique
   constraint includes a NULL (`wishlist_model.py:59`).

Not a disagreement, though close to the fourth: the docstring of `inventory.py:22` leaves open
a "theoretical under-count window under concurrent takers". It can be read as units that
are sold and never subtracted, which the conditional UPDATE excludes (`StockAccounted`: a
tracked row holds what it had less what was applied), or as the clamp, by which two takers of
too few units leave zero while more was asked for than there was. The formula allows the
latter (a row is at zero) and nothing else; that a clamp also needs a row that is short
(`ClampOnlyWhenTaken`) is proved.

Seen while modelling; the properties exclude these by a named condition or speak of
something else:

- *Payments*: once Stripe has forgotten the idempotency key, a tab that read the order as
  unpaid opens a second session; if both are charged, the second charge is answered 200
  and is on no order (`Superseded`).
- *Refunds*: a `charge.refunded` before the order is paid is answered 200 and dropped
  (`dropped`); after a product was deleted the amount a full refund credits is less than
  what Stripe gave back; a refund is counted twice in the metric if its event is faster than
  its caller.
- *Returns*: a status saved from a stale instance takes a request out of a final status;
  the id on a request is read back from a row that an event may have rewritten (`crossed`),
  and is then that event's or blank; a request whose item was deleted widens to the whole
  order (no product is deleted where `OneAnalystRefundsCost` is checked).
- *Checkout*: a product deleted after its item was made leaves an order without that line,
  which the payment page offers and charges for the rest (`withdrawn`); the coupon is never charged (known, `docs/testing.md:307`); posting the form
  again with an empty cart replaces the order to pay by an empty one; a deleted product
  leaves a cart that can neither be emptied nor ordered; removing a line whose variant is
  gone removes the plain line; overlapping requests lose each other's changes (`disturbed`).
- *Wish list*: the line of a delisted product cannot be removed (404); after a
  duplicate row the product's page fails on `get()`; what is added to a line while it is moved
  is lost.
- *Listing* (`mishaps`): two requests writing the registry over each other, a page
  computed between the signal and the commit, a save that dies after the clean-up of its
  files, and a decrement that takes the last unit through `update()`, which sends no
  signal, each leave a stale entry until it expires; a page out of range shows the last page,
  not the first; the category links drop the other filters.
- *Accounts*: overlapping issues leave two outstanding links (`crossed`); the same
  address can be registered twice by overlapping forms, as only the form checks; the
  profile form writes back the whole row.
- *Infinite scroll*: a catalog change repeats or skips cards; a sentinel that stays in
  view does not fire again; it re-runs a lazy-loader hook that is never exported.
- *Backups* (`unruly`): if `retain.py` fails, its empty answer makes the rotation delete
  every file of the kind; overlapping backups can push out whole files by partial ones.
- *Order administration*: the order form has no read-only field and saves the whole row as
  the page showed it (`orders/admin.py:112`): a payment, refund or score recorded while
  it was open is written back. After a payment, the next delivery passes the gate again:
  stock is taken and the invoice mailed a second time, although "replays never re-evaluate"
  (`stripe_webhook_view.py:78`) and `decrement_for_order` "is called exactly once per paid
  order" (`inventory.py:3`). `RepeatedPerRevert` says how often.
- *Seed* (`mishaps`): an image is saved with every column of the product as it was read,
  so units sold meanwhile come back; overlapping runs both create a product, and later
  runs end in `MultipleObjectsReturned`; a product that staff moved out of its category
  gets a second one; a rolled back run leaves its files, a repeated one the old files.
- *Tracing*: a worker never resets the request id (`celery.py:20`), so a task without one
  would log under the last (none of the repository's is dispatched without); Django's own
  lines about 4xx answers come after the middleware's reset; a request answered before the
  view is not counted, and one whose answer an outer layer replaces is counted by the old one; its `except` branch never
  runs, as Django turns exceptions into responses below it; tasks are acknowledged
  early, so a killed worker loses its task; `record_order_paid` is never called.
- *Cart script*: answers applied out of order leave an old number in the badge until the
  next page.
- *Deployment*: a repeated cutover first applies the overlay, which resets the selector to
  blue; the selector is patched without a namespace, while the step that waits looks
  into the default one; the runbook scales the wrong deployment in both directions.

## 7 What is not modelled

- *Read-only pages*: order tracking, recommendations, the detail page, the return list,
  exports, the dashboard, `/metrics` and `/health`. They decide nothing and change nothing.
- *Order tasks, mails, PDF*: their dispatch is modelled, and in Tracing that and how they
  end; what they render keeps no state.
- *Admin forms* that write a row as a whole, but for the order's payment and fraud columns
  (OrderForm) and a product's stock (Inventory): their save is Django's, and no document says
  what an open form may undo. The form of an order next to a refund is one of them. *Moderation* of
  reviews is one of them.
- *Cart script*: it copies what an answer says into the page. Nothing is decided by the
  number shown, and the session behind it is Checkout's.
- *Blue-green deployment*: a sequence of `kubectl` calls run by one person; its state is in
  the cluster and its manifests, whose behaviour the repository does not define.
- *Restore drill*: one command after the other on a scratch database.
- *Validators, settings, Google sign-in*: static checks of files, configuration, a library.
- *Redaction of logs, security headers, error reports*: pure functions of one record,
  response or environment without interaction; unit tests reach them.
- *Seed next to deletions*: the shop edits and sells while the command runs, but deletes
  nothing, so a save of a row that is gone (an insert, without `update_fields`) is left out.
- *Reads merged into one step*: the two reads of `refunds.py:103` and `:104`, and the look-up
  and the save of an order's form.
- *Replication lag*: no read reaches a replica (section 6), so nothing can be stale.
- Within modelled parts: prices, totals and discounts (nothing that is modelled depends
  on them), form validation that only refuses, messages, durations and business metrics,
  resizing of images, the rank of search results, the address bar of the growing
  listing, the Redis dump.

## 8 Plan

Done, in this order: payment webhook and its abstract specification; inventory; refunds;
return requests on top of refunds; cart and checkout; wish list; listing and cache;
verification; infinite scroll; rate limiting; backups; fraud scoring and its review on top
of payments; the order's form next to both; database routing; request ids and metrics; seed data; proofs for all of them; the
inventory's abstract specification.

What could come next: when the router is given its aliases, the lag of replicas in the
handlers that read their own writes; the order's form next
to refunds; `RulesStayNamed` and the other violated sentences, once the code keeps
them.
