------------------------- MODULE PaymentWebhookProofs -------------------------
(***************************************************************************)
(* Machine-checked proofs about PaymentWebhook, for any sets of orders,    *)
(* sessions, workers and tabs: type correctness, the inductive invariant   *)
(* behind "at most once", and the refinement of PaidOnce.  Then those      *)
(* about OrderReview, for any orders, rules that raise, limits, weights    *)
(* and analysts: analysts do not disturb payments, scores and notes keep   *)
(* their types, and the signals of a scored order stand.                   *)
(***************************************************************************)
EXTENDS OrderForm, FiniteSetTheorems, TLAPS

\* Counting one more run of an effect keeps the counters natural numbers.
LEMMA CarriedType ==
  ASSUME runs \in [Orders -> [Effects -> Nat]], NEW o \in Orders, NEW e \in Effects,
         Carried(o, e)
  PROVE  runs' \in [Orders -> [Effects -> Nat]]
BY DEF Carried

\* The webhook and the payment page only ever write values their columns can hold.
LEMMA TypeStep == TypeOK /\ [Next]_vars => TypeOK'
<1> SUFFICES ASSUME TypeOK, [Next]_vars PROVE TypeOK'
  OBVIOUS
<1> USE OrdersAssumption, IntentsAssumption, FaultsAssumption
<1> USE DEF TypeOK, OrderRow, Status, Points, stripe, faults
<1>1. ASSUME NEW t \in Tabs, NEW o \in Orders, OpenPaymentPage(t, o)
      PROVE  TypeOK'
  BY <1>1 DEF OpenPaymentPage
<1>2. ASSUME NEW t \in Tabs, CreateSession(t) PROVE TypeOK'
  <2>1. ASSUME NEW i \in Intents, OpenSession(tab[t], i), tab[t] \in Orders,
               UNCHANGED <<order, exists, acked, pc, evt, runs, faults>>,
               tab' = [tab EXCEPT ![t] = NoOrder]
        PROVE  TypeOK'
    BY <2>1 DEF OpenSession
  <2>2. CASE UNCHANGED stripe
    BY <1>2, <2>2 DEF CreateSession
  <2> QED
    BY <1>2, <2>1, <2>2 DEF CreateSession
<1>3. ASSUME NEW i \in Intents, CustomerPays(i) PROVE TypeOK'
  BY <1>3 DEF CustomerPays
<1>4. ASSUME NEW o \in Orders, ForgetKey(o) PROVE TypeOK'
  BY <1>4 DEF ForgetKey
<1>5. ASSUME NEW o \in Orders, DeleteOrder(o) PROVE TypeOK'
  BY <1>5 DEF DeleteOrder
<1>6. ASSUME NEW w \in Workers, NEW i \in Intents, Deliver(w, i) PROVE TypeOK'
  BY <1>6 DEF Deliver, Completed
<1>7. ASSUME NEW w \in Workers, LoadOrder(w) PROVE TypeOK'
  BY <1>7 DEF LoadOrder, Goto, Finish
<1>8. ASSUME NEW w \in Workers, MarkPaid(w) PROVE TypeOK'
  <2>1. order' \in [Orders -> OrderRow]
    <3>1. OrderOf(w) \in Orders /\ evt[w] \in Intents
      BY <1>8 DEF MarkPaid, OrderOf
    <3>2. [paid |-> TRUE, stripe_id |-> evt[w], status |-> "PAID"] \in OrderRow
      BY <3>1
    <3> QED
      BY <1>8, <3>1, <3>2, ZenonT(60) DEF MarkPaid
  <2> QED
    BY <1>8, <2>1 DEF MarkPaid, Goto
<1>9. ASSUME NEW w \in Workers, ScoreFraud(w) PROVE TypeOK'
  <2>1. runs' \in [Orders -> [Effects -> Nat]]
    BY <1>9, CarriedType DEF ScoreFraud, OrderOf, Effects
  <2> QED
    BY <1>9, <2>1 DEF ScoreFraud, Goto
<1>10. ASSUME NEW w \in Workers, DecrementStock(w) PROVE TypeOK'
  <2>1. runs' \in [Orders -> [Effects -> Nat]]
    BY <1>10, CarriedType DEF DecrementStock, OrderOf, Effects
  <2> QED
    BY <1>10, <2>1 DEF DecrementStock, Goto
<1>11. ASSUME NEW w \in Workers, DispatchMail(w) PROVE TypeOK'
  <2>1. runs' \in [Orders -> [Effects -> Nat]]
    BY <1>11, CarriedType DEF DispatchMail, OrderOf, Effects
  <2>2. refusals' \in 0..MaxRefusals
    BY <1>11 DEF DispatchMail
  <2> QED
    BY <1>11, <2>1, <2>2 DEF DispatchMail, Goto, Finish
<1>12. ASSUME NEW w \in Workers, Respond(w) PROVE TypeOK'
  BY <1>12 DEF Respond, Finish
<1>13. ASSUME NEW w \in Workers, Crash(w) PROVE TypeOK'
  BY <1>13 DEF Crash, Finish
<1>14. CASE UNCHANGED vars
  BY <1>14 DEF vars
<1> QED
  BY <1>1, <1>2, <1>3, <1>4, <1>5, <1>6, <1>7, <1>8, <1>9, <1>10, <1>11,
     <1>12, <1>13, <1>14 DEF Next, Handle

\* The variables keep their types.
THEOREM TypeCorrect == Spec => []TypeOK
<1>1. Init => TypeOK
  BY OrdersAssumption, IntentsAssumption, FaultsAssumption
  DEF Init, TypeOK, NewOrder, OrderRow, Status, Points, Effects
<1> QED
  BY <1>1, TypeStep, PTL DEF Spec

-----------------------------------------------------------------------------
(* The inductive invariant.                                                *)

\* A busy worker handles the event of a charged session.
ServesCharged == \A w \in Workers : pc[w] # "idle" => sess[evt[w]] = "charged"

\* No effect is carried out before the order is paid.
UnpaidUntouched ==
  \A o \in Orders : ~order[o].paid => \A e \in Effects : runs[o][e] = 0

Flipped(w) == pc[w] \in {"paid", "scored", "stocked"}

\* At most one worker is past the gate of an order.
OneFlipper ==
  \A v, w \in Workers :
    Flipped(v) /\ Flipped(w) /\ OrderOf(v) = OrderOf(w) => v = w

\* What the worker past the gate has still to do was not done before.
AheadUndone ==
  \A w \in Workers :
    /\ Flipped(w) => order[OrderOf(w)].paid
    /\ pc[w] = "paid" => runs[OrderOf(w)]["fraud"] = 0
    /\ pc[w] \in {"paid", "scored"} => runs[OrderOf(w)]["stock"] = 0
    /\ Flipped(w) => runs[OrderOf(w)]["mail"] = 0

GateInv ==
  /\ ServesCharged
  /\ UnpaidUntouched
  /\ OneFlipper
  /\ AheadUndone
  /\ EffectsAtMostOnce
  /\ PaidByOwnCharge

\* GateInv holds initially: no order is paid and no worker is busy.
LEMMA GateInit == Init => GateInv
  BY DEF Init, GateInv, ServesCharged, UnpaidUntouched, OneFlipper, AheadUndone,
         EffectsAtMostOnce, PaidByOwnCharge, NewOrder, Flipped, Effects

\* What Carried does to the counters: one of them grows, the others stay.
LEMMA CarriedValue ==
  ASSUME runs \in [Orders -> [Effects -> Nat]], NEW o \in Orders,
         NEW e \in Effects, Carried(o, e), NEW p \in Orders, NEW f \in Effects
  PROVE  runs'[p][f] = IF p = o /\ f = e THEN runs[p][f] + 1 ELSE runs[p][f]
BY DEF Carried

\* Steps of the payment page, of Stripe and of the admin leave the workers, the
\* payment columns and the effects alone, and never touch a charged session.
LEMMA OutsideStep ==
  ASSUME TypeOK, GateInv, UNCHANGED <<order, pc, evt, runs>>,
         \A i \in Intents : sess[i] = "charged" =>
           sess'[i] = "charged" /\ owner'[i] = owner[i]
  PROVE  GateInv'
<1>1. \A w \in Workers : pc[w] # "idle" =>
        evt[w] \in Intents /\ sess[evt[w]] = "charged" /\ OrderOf(w)' = OrderOf(w)
  BY DEF TypeOK, GateInv, ServesCharged, OrderOf
<1>2. ServesCharged'
  BY <1>1 DEF ServesCharged
<1>3. UnpaidUntouched' /\ EffectsAtMostOnce'
  BY DEF GateInv, UnpaidUntouched, EffectsAtMostOnce
<1>4. OneFlipper'
  BY <1>1 DEF GateInv, OneFlipper, Flipped
<1>5. AheadUndone'
  BY <1>1 DEF GateInv, AheadUndone, Flipped
<1>6. PaidByOwnCharge'
  BY DEF GateInv, PaidByOwnCharge
<1> QED
  BY <1>2, <1>3, <1>4, <1>5, <1>6 DEF GateInv

\* Steps that only move one worker, to a point that is not past the gate.
LEMMA OffGateStep ==
  ASSUME TypeOK, GateInv, UNCHANGED <<order, runs, sess, owner>>,
         NEW w \in Workers, NEW p \in Points \ {"paid", "scored", "stocked"},
         NEW i, p # "idle" => i \in Intents /\ sess[i] = "charged",
         pc' = [pc EXCEPT ![w] = p], evt' = [evt EXCEPT ![w] = i]
  PROVE  GateInv'
<1> USE DEF TypeOK
<1>1. ServesCharged'
  BY DEF GateInv, ServesCharged
<1>2. UnpaidUntouched' /\ EffectsAtMostOnce' /\ PaidByOwnCharge'
  BY DEF GateInv, UnpaidUntouched, EffectsAtMostOnce, PaidByOwnCharge
<1>3. \A v \in Workers : Flipped(v)' =>
        v # w /\ Flipped(v) /\ pc'[v] = pc[v] /\ OrderOf(v)' = OrderOf(v)
  BY DEF Flipped, OrderOf
<1>4. OneFlipper'
  BY <1>3 DEF GateInv, OneFlipper
<1>5. AheadUndone'
  BY <1>3 DEF GateInv, AheadUndone, Flipped
<1> QED
  BY <1>1, <1>2, <1>4, <1>5 DEF GateInv

\* The flip: the order was unpaid, so no worker was past its gate and none of
\* its effects had been carried out.
LEMMA FlipStep ==
  ASSUME TypeOK, GateInv, NEW w \in Workers, MarkPaid(w), CanFlip(OrderOf(w))
  PROVE  GateInv'
<1> DEFINE o == OrderOf(w)
<1> USE DEF TypeOK
<1>1. o \in Orders /\ evt[w] \in Intents /\ sess[evt[w]] = "charged"
  BY DEF MarkPaid, OrderOf, GateInv, ServesCharged
<1>2. /\ order' = [order EXCEPT ![o] =
           [paid |-> TRUE, stripe_id |-> evt[w], status |-> "PAID"]]
      /\ pc' = [pc EXCEPT ![w] = "paid"]
      /\ UNCHANGED <<evt, runs, sess, owner>>
      /\ ~order[o].paid
  BY DEF MarkPaid, CanFlip, Goto, stripe
<1>3. \A p \in Orders : p # o => order'[p] = order[p]
  BY <1>2
<1>4. order'[o].paid /\ order'[o].stripe_id = evt[w]
  BY <1>1, <1>2
<1>5. \A v \in Workers : v # w => Flipped(v)' = Flipped(v) /\ pc'[v] = pc[v]
  BY <1>2 DEF Flipped
<1>6. \A v \in Workers : OrderOf(v)' = OrderOf(v)
  BY <1>2 DEF OrderOf
<1>7. \A v \in Workers : Flipped(v) => OrderOf(v) # o
  BY <1>2 DEF GateInv, AheadUndone
<1>8. pc'[w] = "paid"
  BY <1>2
<1>9. \A e \in Effects : runs[o][e] = 0
  BY <1>1, <1>2 DEF GateInv, UnpaidUntouched
<1> HIDE DEF o
<1>10. ServesCharged'
  BY <1>1, <1>2 DEF GateInv, ServesCharged
<1>11. UnpaidUntouched'
  BY <1>2, <1>3, <1>4 DEF GateInv, UnpaidUntouched
<1>12. OneFlipper'
  BY <1>5, <1>6, <1>7 DEF GateInv, OneFlipper, o
<1>13. AheadUndone'
  <2> SUFFICES ASSUME NEW v \in Workers, Flipped(v)'
               PROVE  /\ order'[OrderOf(v)].paid
                      /\ pc'[v] = "paid" => runs[OrderOf(v)]["fraud"] = 0
                      /\ pc'[v] \in {"paid", "scored"} => runs[OrderOf(v)]["stock"] = 0
                      /\ runs[OrderOf(v)]["mail"] = 0
    BY <1>2, <1>6 DEF AheadUndone, Flipped
  <2>1. CASE v = w
    BY <2>1, <1>4, <1>9 DEF o, Effects
  <2>2. CASE v # w
    <3>1. OrderOf(v) \in Orders /\ OrderOf(v) # o
      BY <2>2, <1>5, <1>7 DEF Flipped, OrderOf
    <3> QED
      BY <2>2, <3>1, <1>3, <1>5 DEF GateInv, AheadUndone
  <2> QED
    BY <2>1, <2>2
<1>14. EffectsAtMostOnce'
  BY <1>2 DEF GateInv, EffectsAtMostOnce
<1>15. PaidByOwnCharge'
  <2>1. owner[evt[w]] = o
    BY DEF o, OrderOf
  <2> QED
    BY <1>1, <1>2, <1>3, <1>4, <2>1 DEF GateInv, PaidByOwnCharge
<1> QED
  BY <1>10, <1>11, <1>12, <1>13, <1>14, <1>15 DEF GateInv

\* An effect: the worker past the gate moves to the next point, its effect is
\* counted or not.
LEMMA EffectStep ==
  ASSUME TypeOK, GateInv, NEW w \in Workers, NEW e \in Effects, NEW p,
         \/ pc[w] = "paid" /\ e = "fraud" /\ p = "scored"
         \/ pc[w] = "scored" /\ e = "stock" /\ p = "stocked"
         \/ pc[w] = "stocked" /\ e = "mail" /\ p = "done",
         Goto(w, p), UNCHANGED runs \/ Carried(OrderOf(w), e),
         UNCHANGED <<order, sess, owner>>
  PROVE  GateInv'
<1> DEFINE o == OrderOf(w)
<1>1. o \in Orders /\ Flipped(w) /\ pc[w] # "idle" /\ order[o].paid
  BY DEF TypeOK, OrderOf, Flipped, GateInv, AheadUndone
<1>2. runs[o][e] = 0
  BY DEF GateInv, AheadUndone, Flipped
<1>3. \A q \in Orders, f \in Effects : q # o \/ f # e => runs'[q][f] = runs[q][f]
  BY <1>1, CarriedValue DEF TypeOK
<1>4. runs'[o][e] <= 1
  BY <1>1, <1>2, CarriedValue DEF TypeOK
<1>5. /\ pc' = [pc EXCEPT ![w] = p] /\ pc'[w] = p
      /\ UNCHANGED evt
      /\ \A v \in Workers : OrderOf(v)' = OrderOf(v)
      /\ \A v \in Workers : v # w => pc'[v] = pc[v]
  BY DEF Goto, TypeOK, OrderOf
<1>6. \A v \in Workers : Flipped(v)' => Flipped(v)
  BY <1>1, <1>5 DEF Flipped
<1>7. \A v \in Workers : v # w /\ Flipped(v) => OrderOf(v) \in Orders /\ OrderOf(v) # o
  BY <1>1 DEF GateInv, OneFlipper, TypeOK, Flipped, OrderOf
<1> HIDE DEF o
<1>8. ServesCharged'
  BY <1>1, <1>5 DEF GateInv, ServesCharged
<1>9. UnpaidUntouched'
  BY <1>1, <1>3 DEF GateInv, UnpaidUntouched
<1>10. OneFlipper'
  BY <1>5, <1>6 DEF GateInv, OneFlipper
<1>11. AheadUndone'
  <2> SUFFICES ASSUME NEW v \in Workers, Flipped(v)'
               PROVE  /\ order[OrderOf(v)].paid
                      /\ pc'[v] = "paid" => runs'[OrderOf(v)]["fraud"] = 0
                      /\ pc'[v] \in {"paid", "scored"} => runs'[OrderOf(v)]["stock"] = 0
                      /\ runs'[OrderOf(v)]["mail"] = 0
    BY <1>5 DEF AheadUndone, Flipped
  <2>1. CASE v = w
    BY <2>1, <1>1, <1>3, <1>5 DEF GateInv, AheadUndone, Flipped, Effects, o
  <2>2. CASE v # w
    BY <2>2, <1>3, <1>5, <1>6, <1>7 DEF GateInv, AheadUndone, Effects
  <2> QED
    BY <2>1, <2>2
<1>12. EffectsAtMostOnce'
  BY <1>3, <1>4 DEF GateInv, EffectsAtMostOnce
<1>13. PaidByOwnCharge'
  BY DEF GateInv, PaidByOwnCharge
<1> QED
  BY <1>8, <1>9, <1>10, <1>11, <1>12, <1>13 DEF GateInv

\* GateInv is inductive: the guarded UPDATE lets one worker per order through,
\* and each step of that worker uses up one effect.
LEMMA GateStep == TypeOK /\ GateInv /\ [Next]_vars => GateInv'
<1> SUFFICES ASSUME TypeOK, GateInv, [Next]_vars PROVE GateInv'
  OBVIOUS
<1> USE DEF stripe
<1>1. ASSUME NEW t \in Tabs, NEW o \in Orders, OpenPaymentPage(t, o)
      PROVE  GateInv'
  BY <1>1, OutsideStep DEF OpenPaymentPage
<1>2. ASSUME NEW t \in Tabs, CreateSession(t) PROVE GateInv'
  <2>1. \A i \in Intents : sess[i] = "charged" =>
          sess'[i] = "charged" /\ owner'[i] = owner[i]
    BY <1>2 DEF CreateSession, OpenSession, TypeOK
  <2> QED
    BY <1>2, <2>1, OutsideStep DEF CreateSession
<1>3. ASSUME NEW i \in Intents, CustomerPays(i) PROVE GateInv'
  <2>1. \A j \in Intents : sess[j] = "charged" =>
          sess'[j] = "charged" /\ owner'[j] = owner[j]
    BY <1>3 DEF CustomerPays, TypeOK
  <2> QED
    BY <1>3, <2>1, OutsideStep DEF CustomerPays
<1>4. ASSUME NEW o \in Orders, ForgetKey(o) PROVE GateInv'
  <2>1. \A i \in Intents : sess[i] = "charged" =>
          sess'[i] = "charged" /\ owner'[i] = owner[i]
    BY <1>4 DEF ForgetKey, TypeOK
  <2> QED
    BY <1>4, <2>1, OutsideStep DEF ForgetKey
<1>5. ASSUME NEW o \in Orders, DeleteOrder(o) PROVE GateInv'
  BY <1>5, OutsideStep DEF DeleteOrder
<1>6. ASSUME NEW w \in Workers, NEW i \in Intents, Deliver(w, i) PROVE GateInv'
  BY <1>6, OffGateStep DEF Deliver, Completed, Points
<1>7. ASSUME NEW w \in Workers, Finish(w), UNCHANGED <<order, runs, sess, owner>>
      PROVE  GateInv'
  BY <1>7, OffGateStep DEF Finish, Points
<1>8. ASSUME NEW w \in Workers, NEW p \in {"loaded", "done"}, Goto(w, p),
             pc[w] # "idle", UNCHANGED <<order, runs, sess, owner>>
      PROVE  GateInv'
  <2>1. evt' = [evt EXCEPT ![w] = evt[w]] /\ evt[w] \in Intents
        /\ sess[evt[w]] = "charged"
    BY <1>8 DEF Goto, TypeOK, GateInv, ServesCharged
  <2>2. pc' = [pc EXCEPT ![w] = p]
    BY <1>8 DEF Goto
  <2> QED
    BY <1>8, <2>1, <2>2, OffGateStep DEF Points
<1>9. ASSUME NEW w \in Workers, LoadOrder(w) PROVE GateInv'
  BY <1>7, <1>8, <1>9 DEF LoadOrder
<1>10. ASSUME NEW w \in Workers, MarkPaid(w) PROVE GateInv'
  <2>1. CASE CanFlip(OrderOf(w))
    BY <1>10, <2>1, FlipStep
  <2>2. CASE ~CanFlip(OrderOf(w))
    BY <1>8, <1>10, <2>2 DEF MarkPaid
  <2> QED
    BY <2>1, <2>2
<1>11. ASSUME NEW w \in Workers, ScoreFraud(w) PROVE GateInv'
  BY <1>11, EffectStep DEF ScoreFraud, Effects
<1>12. ASSUME NEW w \in Workers, DecrementStock(w) PROVE GateInv'
  BY <1>12, EffectStep DEF DecrementStock, Effects
<1>13. ASSUME NEW w \in Workers, DispatchMail(w) PROVE GateInv'
  <2>1. CASE Finish(w) /\ UNCHANGED runs
    BY <1>7, <1>13, <2>1 DEF DispatchMail
  <2>2. CASE Carried(OrderOf(w), "mail") /\ Goto(w, "done")
    BY <1>13, <2>2, EffectStep DEF DispatchMail, Effects
  <2> QED
    BY <1>13, <2>1, <2>2 DEF DispatchMail
<1>14. ASSUME NEW w \in Workers, Respond(w) PROVE GateInv'
  BY <1>7, <1>14 DEF Respond
<1>15. ASSUME NEW w \in Workers, Crash(w) PROVE GateInv'
  BY <1>7, <1>15 DEF Crash
<1>16. CASE UNCHANGED vars
  BY <1>16, OutsideStep DEF vars
<1> QED
  BY <1>1, <1>2, <1>3, <1>4, <1>5, <1>6, <1>9, <1>10, <1>11, <1>12, <1>13,
     <1>14, <1>15, <1>16 DEF Next, Handle

\* GateInv holds throughout.
LEMMA GateInvariant == Spec => []GateInv
  BY GateInit, GateStep, TypeCorrect, PTL DEF Spec

\* Whatever Stripe delivers, however often and to however many workers, and
\* wherever workers die: fraud scoring, stock decrement and mail dispatch of an
\* order happen at most once.
THEOREM AtMostOnce == Spec => []EffectsAtMostOnce
<1>1. GateInv => EffectsAtMostOnce
  BY DEF GateInv
<1> QED
  BY <1>1, GateInvariant, PTL

\* An order marked paid carries the intent of a session that was opened for it
\* and charged.
THEOREM PaidByOwn == Spec => []PaidByOwnCharge
<1>1. GateInv => PaidByOwnCharge
  BY DEF GateInv
<1> QED
  BY <1>1, GateInvariant, PTL

\* The only step that writes the payment columns is the flip of an unpaid order.
LEMMA OrderWrites ==
  ASSUME TypeOK, [Next]_vars, NEW o \in Orders, order[o].paid
  PROVE  order'[o] = order[o]
<1>1. ASSUME NEW w \in Workers, MarkPaid(w) PROVE order'[o] = order[o]
  BY <1>1 DEF MarkPaid, CanFlip, TypeOK
<1> QED
  BY <1>1 DEF Next, Handle, OpenPaymentPage, CreateSession, CustomerPays, ForgetKey,
     DeleteOrder, Deliver, LoadOrder, ScoreFraud, DecrementStock, DispatchMail,
     Respond, Crash, vars

\* Once paid, an order keeps its payment, whichever further payments arrive.
THEOREM FirstWins == Spec => FirstPaymentWins
<1>1. TypeOK /\ [Next]_vars =>
        [\A o \in Orders : order[o].paid => order'[o] = order[o]]_vars
  BY OrderWrites
<1> QED
  BY <1>1, TypeCorrect, PTL DEF Spec, FirstPaymentWins

-----------------------------------------------------------------------------
(* What is answered 200 has been recorded.                                 *)

\* The order is paid, or gone.
Recorded(o) == o \in exists => order[o].paid

\* Whose event was answered has been charged and recorded; so has the one a worker is
\* about to answer.
AckInv ==
  /\ \A i \in acked : sess[i] = "charged" /\ Recorded(owner[i])
  /\ \A w \in Workers : pc[w] = "done" => Recorded(OrderOf(w))

\* Charges are final, and no deleted order comes back.
LEMMA ChargeStays ==
  ASSUME TypeOK, [Next]_vars
  PROVE  /\ \A i \in Intents : sess[i] = "charged" =>
              sess'[i] = "charged" /\ owner'[i] = owner[i]
         /\ exists' \subseteq exists
<1> USE DEF TypeOK, stripe
<1>1. ASSUME NEW t \in Tabs, CreateSession(t)
      PROVE  /\ \A i \in Intents : sess[i] = "charged" =>
                  sess'[i] = "charged" /\ owner'[i] = owner[i]
             /\ exists' \subseteq exists
  BY <1>1 DEF CreateSession, OpenSession
<1>2. ASSUME NEW o \in Orders, ForgetKey(o)
      PROVE  /\ \A i \in Intents : sess[i] = "charged" =>
                  sess'[i] = "charged" /\ owner'[i] = owner[i]
             /\ exists' \subseteq exists
  BY <1>2 DEF ForgetKey
<1> QED
  BY <1>1, <1>2 DEF Next, Handle, OpenPaymentPage, CustomerPays, DeleteOrder, Deliver,
     LoadOrder, MarkPaid, ScoreFraud, DecrementStock, DispatchMail, Respond, Crash, vars

\* A recorded order stays recorded.
LEMMA RecordedStays ==
  ASSUME TypeOK, [Next]_vars, NEW o \in Orders, Recorded(o)
  PROVE  Recorded(o)'
<1>1. order[o].paid => order'[o] = order[o]
  BY OrderWrites
<1> QED
  BY <1>1, ChargeStays DEF Recorded

\* A worker reaches "done" past the gate, or because the order is paid or gone; only from
\* there is an event answered.
LEMMA AckStep == TypeOK /\ GateInv /\ AckInv /\ [Next]_vars => AckInv'
<1> SUFFICES ASSUME TypeOK, GateInv, AckInv, [Next]_vars PROVE AckInv'
  OBVIOUS
<1>1. \A w \in Workers : pc[w] # "idle" =>
        evt[w] \in Intents /\ sess[evt[w]] = "charged" /\ OrderOf(w) \in Orders
        /\ owner'[evt[w]] = OrderOf(w)
  BY ChargeStays DEF TypeOK, GateInv, ServesCharged, OrderOf
<1>2. \A i \in acked : sess'[i] = "charged" /\ Recorded(owner[i])' /\ owner'[i] = owner[i]
  BY ChargeStays, RecordedStays DEF TypeOK, AckInv
<1>3. \A i \in acked' : i \in acked \/ \E w \in Workers : pc[w] = "done" /\ i = evt[w]
  BY DEF Next, Handle, OpenPaymentPage, CreateSession, CustomerPays, ForgetKey, DeleteOrder,
     Deliver, LoadOrder, MarkPaid, ScoreFraud, DecrementStock, DispatchMail, Respond, Crash,
     vars
<1>4. ASSUME NEW i \in acked'
      PROVE  sess'[i] = "charged" /\ Recorded(owner[i])'
  <2>1. CASE i \in acked
    BY <2>1, <1>2 DEF Recorded
  <2>2. ASSUME NEW w \in Workers, pc[w] = "done", i = evt[w]
        PROVE  sess'[i] = "charged" /\ Recorded(owner[i])'
    <3>1. PICK o \in Orders : o = OrderOf(w)
      BY <1>1, <2>2
    <3>2. Recorded(o)'
      BY <2>2, <3>1, RecordedStays DEF AckInv
    <3> QED
      BY <1>1, <2>2, <3>1, <3>2, ChargeStays DEF Recorded
  <2> QED
    BY <1>3, <2>1, <2>2
<1>5. ASSUME NEW w \in Workers, pc'[w] = "done"
      PROVE  Recorded(OrderOf(w))'
  <2>1. /\ evt'[w] = evt[w]
        /\ pc[w] \in {"loaded", "stocked", "done"}
        /\ pc[w] = "loaded" => MarkPaid(w)
    BY <1>5 DEF TypeOK, Next, Handle, OpenPaymentPage, CreateSession, CustomerPays,
       ForgetKey, DeleteOrder, Deliver, LoadOrder, MarkPaid, ScoreFraud, DecrementStock,
       DispatchMail, Respond, Crash, Goto, Finish, vars
  <2>2. PICK o \in Orders : o = OrderOf(w)
    BY <1>1, <2>1
  <2>3. Recorded(o)
    <3>1. CASE pc[w] = "loaded"
      BY <1>5, <2>1, <2>2, <3>1 DEF MarkPaid, CanFlip, Recorded, Goto, TypeOK
    <3>2. CASE pc[w] = "stocked"
      BY <2>2, <3>2 DEF GateInv, AheadUndone, Flipped, Recorded
    <3>3. CASE pc[w] = "done"
      BY <2>2, <3>3 DEF AckInv
    <3> QED
      BY <2>1, <3>1, <3>2, <3>3
  <2>4. Recorded(o)'
    BY <2>3, RecordedStays
  <2> QED
    BY <1>1, <2>1, <2>2, <2>4 DEF Recorded, OrderOf
<1> QED
  BY <1>4, <1>5 DEF AckInv

-----------------------------------------------------------------------------
(* One charge per order while idempotency keys are remembered.             *)

\* The session of an order is the one remembered under its key.
KeyInv ==
  \A i \in Intents :
    sess[i] # "unused" /\ owner[i] \notin Forgetful => key[owner[i]] = i

\* Only a session opened while no key is remembered becomes the one under the key.
LEMMA KeyStep == TypeOK /\ KeyInv /\ [Next]_vars => KeyInv'
<1> SUFFICES ASSUME TypeOK, KeyInv, [Next]_vars PROVE KeyInv'
  OBVIOUS
<1> USE DEF KeyInv, TypeOK, stripe
<1>1. ASSUME NEW t \in Tabs, CreateSession(t) PROVE KeyInv'
  BY <1>1, IntentsAssumption DEF CreateSession, OpenSession, Remembered
<1>2. ASSUME NEW i \in Intents, CustomerPays(i) PROVE KeyInv'
  BY <1>2 DEF CustomerPays
<1> QED
  BY <1>1, <1>2 DEF Next, Handle, OpenPaymentPage, ForgetKey, DeleteOrder,
     Deliver, LoadOrder, MarkPaid, ScoreFraud, DecrementStock, DispatchMail,
     Respond, Crash, vars

\* No session is used at the start.
LEMMA KeyStart == Init => KeyInv
BY DEF Init, KeyInv

\* Two charged sessions of an order whose key is remembered are the same.
LEMMA KeyCharges == KeyInv => ChargedAtMostOnce
BY DEF KeyInv, ChargedAtMostOnce

\* As long as its key is not forgotten, a retried or doubled payment page never
\* leads to two charges of an order.
THEOREM OneCharge == Spec => []ChargedAtMostOnce
BY KeyStart, KeyStep, KeyCharges, TypeCorrect, PTL DEF Spec

-----------------------------------------------------------------------------
(* What is answered is on its order.                                       *)

\* A charge of an order that is paid is the one the order names; another one is charged
\* too only after the order's key was forgotten.
LEMMA PaidByWhich ==
  ASSUME PaidByOwnCharge, ChargedAtMostOnce, NEW i \in Intents,
         sess[i] = "charged", owner[i] \in Orders, order[owner[i]].paid
  PROVE  OnOrder(i) \/ Superseded(i)
<1> DEFINE j == order[owner[i]].stripe_id
<1>1. j \in Intents /\ owner[j] = owner[i] /\ sess[j] = "charged"
  BY DEF PaidByOwnCharge
<1>2. CASE i = j
  BY <1>2 DEF OnOrder
<1>3. CASE i # j
  <2>1. owner[i] \in Forgetful
    BY <1>1, <1>3 DEF ChargedAtMostOnce
  <2>2. OnOrder(j)
    BY <1>1 DEF OnOrder
  <2> QED
    BY <1>1, <1>3, <2>1, <2>2 DEF Superseded
<1> QED
  BY <1>2, <1>3

\* Stripe is never told 200 about a charge that its order does not name as the one it was
\* paid by, whichever deliveries overlap or crash, unless the order is deleted or the
\* charge is the second one of an order whose key was forgotten.
THEOREM AckedRecorded == Spec => []AckedIsRecorded
<1>1. Init => AckInv
  BY DEF Init, AckInv
<1>2. TypeOK /\ GateInv /\ AckInv /\ KeyInv => AckedIsRecorded
  <2> SUFFICES ASSUME TypeOK, GateInv, AckInv, KeyInv, NEW i \in acked, owner[i] \in exists
               PROVE  OnOrder(i) \/ Superseded(i)
    BY DEF AckedIsRecorded
  <2>1. i \in Intents /\ sess[i] = "charged" /\ owner[i] \in Orders /\ order[owner[i]].paid
    BY DEF TypeOK, AckInv, Recorded
  <2> QED
    BY <2>1, PaidByWhich, KeyCharges DEF GateInv
<1> QED
  BY <1>1, <1>2, AckStep, KeyStart, KeyStep, TypeCorrect, GateInvariant, PTL DEF Spec

-----------------------------------------------------------------------------
(* Refinement: the webhook keeps the promise of PaidOnce.                  *)

PaymentOf == [o \in Orders |-> IF order[o].paid THEN order[o].stripe_id ELSE NoIntent]

\* An unpaid order maps to no payment and a paid one to a payment.
LEMMA PaymentOfPaid ==
  ASSUME GateInv, NEW o \in Orders
  PROVE  order[o].paid <=> PaymentOf[o] # NoIntent
BY IntentsAssumption DEF PaymentOf, GateInv, PaidByOwnCharge

\* An effect of the webhook is an effect of PaidOnce.
LEMMA EffectRefines ==
  ASSUME TypeOK, GateInv, NEW w \in Workers, NEW e \in Effects,
         \/ pc[w] = "paid" /\ e = "fraud"
         \/ pc[w] = "scored" /\ e = "stock"
         \/ pc[w] = "stocked" /\ e = "mail",
         Carried(OrderOf(w), e), UNCHANGED order
  PROVE  Promise!Next
<1> DEFINE o == OrderOf(w)
<1>1. o \in Orders /\ order[o].paid
  BY DEF TypeOK, OrderOf, GateInv, AheadUndone, Flipped
<1>2. \A f \in Promise!Effects : Promise!Rank[f] >= Promise!Rank[e] => runs[o][f] = 0
  BY <1>1 DEF GateInv, AheadUndone, Flipped, Promise!Effects, Promise!Rank
<1>3. runs[o][e] = 0
  BY DEF GateInv, AheadUndone, Flipped
<1>4. runs' = [runs EXCEPT ![o][e] = 1]
  BY <1>3 DEF Carried
<1>5. PaymentOf' = PaymentOf
  BY DEF PaymentOf
<1>6. Promise!Effect(o, e)
  BY <1>1, <1>2, <1>4, <1>5, PaymentOfPaid DEF Promise!Effect, PaymentOf
<1> QED
  BY <1>1, <1>6 DEF Promise!Next, Promise!Effects, Effects

\* stripe_webhook, with everything Stripe and the workers may do, implements
\* "one payment per order, each effect at most once, after it and in order".
THEOREM Refinement == Spec => PaidOncePromise
<1>1. Init => Promise!Init
  BY DEF Init, Promise!Init, NewOrder, Effects, Promise!Effects
<1>2. TypeOK /\ GateInv /\ [Next]_vars => [Promise!Next]_(Promise!vars)
  <2> SUFFICES ASSUME TypeOK, GateInv, [Next]_vars
               PROVE  [Promise!Next]_(Promise!vars)
    OBVIOUS
  <2>1. ASSUME UNCHANGED <<order, runs>> PROVE UNCHANGED Promise!vars
    BY <2>1 DEF Promise!vars
  <2>2. ASSUME NEW w \in Workers, MarkPaid(w), CanFlip(OrderOf(w)) PROVE Promise!Next
    <3>1. PICK o \in Orders, i \in Intents : o = OrderOf(w) /\ i = evt[w]
      BY <2>2 DEF MarkPaid, OrderOf, TypeOK
    <3>2. /\ ~order[o].paid
          /\ order' = [order EXCEPT ![o] =
               [paid |-> TRUE, stripe_id |-> i, status |-> "PAID"]]
          /\ runs' = runs
      BY <2>2, <3>1 DEF MarkPaid, CanFlip
    <3>3. PaymentOf' = [PaymentOf EXCEPT ![o] = i] /\ PaymentOf[o] = NoIntent
      BY <3>2 DEF PaymentOf, TypeOK
    <3>4. Promise!Pay(o, i)
      BY <3>2, <3>3 DEF Promise!Pay, PaymentOf
    <3> QED
      BY <3>4 DEF Promise!Next
  <2>3. ASSUME NEW w \in Workers, ScoreFraud(w) \/ DecrementStock(w) \/ DispatchMail(w)
        PROVE  [Promise!Next]_(Promise!vars)
    BY <2>1, <2>3, EffectRefines DEF ScoreFraud, DecrementStock, DispatchMail, Effects
  <2>4. ASSUME NEW w \in Workers, MarkPaid(w), ~CanFlip(OrderOf(w))
        PROVE  UNCHANGED Promise!vars
    BY <2>1, <2>4 DEF MarkPaid
  <2> QED
    BY <2>1, <2>2, <2>3, <2>4 DEF Next, Handle, OpenPaymentPage, CreateSession,
       CustomerPays, ForgetKey, DeleteOrder, Deliver, LoadOrder, Respond, Crash, vars
<1> QED
  BY <1>1, <1>2, TypeCorrect, GateInvariant, PTL DEF Spec, PaidOncePromise, Promise!Spec

-----------------------------------------------------------------------------
(* OrderReview *)


\* The review action reads and writes none of what a payment uses: everything proved
\* of the webhook holds with analysts at work.
THEOREM ReviewUsesPayment == ReviewSpec => Spec
<1>1. ReviewInit => Init
  BY DEF ReviewInit
<1>2. [ReviewNext]_<<vars, reviewVars>> => [Next]_vars
  BY DEF ReviewNext, ShopStep, SaveReview, LoadForReview
<1> QED
  BY <1>1, <1>2, PTL DEF ReviewSpec, Spec

\* No step takes back an effect that was carried out, and a delivery carries out one
\* effect at a time.
LEMMA ScoredStays ==
  ASSUME TypeOK, [Next]_vars, NEW o \in Orders, runs[o]["fraud"] # 0
  PROVE  runs'[o]["fraud"] # 0
<1>1. ASSUME NEW p \in Orders, NEW e \in Effects, Carried(p, e) PROVE runs'[o]["fraud"] # 0
  BY <1>1 DEF Carried, TypeOK, Effects
<1>2. ASSUME NEW w \in Workers, Handle(w) PROVE runs'[o]["fraud"] # 0
  <2>1. pc[w] # "idle" => OrderOf(w) \in Orders
    BY DEF TypeOK, OrderOf
  <2>2. CASE ScoreFraud(w)
    BY <1>1, <2>1, <2>2 DEF ScoreFraud, Effects
  <2>3. CASE DecrementStock(w)
    BY <1>1, <2>1, <2>3 DEF DecrementStock, Effects
  <2>4. CASE DispatchMail(w)
    BY <1>1, <2>1, <2>4 DEF DispatchMail, Effects
  <2>5. CASE LoadOrder(w) \/ MarkPaid(w) \/ Respond(w)
    BY <2>5 DEF LoadOrder, MarkPaid, Respond
  <2> QED
    BY <1>2, <2>2, <2>3, <2>4, <2>5 DEF Handle
<1> QED
  BY <1>2 DEF Next, vars, OpenPaymentPage, CreateSession, CustomerPays, ForgetKey,
    DeleteOrder, Deliver, Crash

\* A step of the shop scores one order at most.
LEMMA ScoresOne ==
  ASSUME TypeOK, [Next]_vars, NEW p \in Orders, runs'[p]["fraud"] # runs[p]["fraud"],
         NEW o \in Orders \ {p}
  PROVE  runs'[o]["fraud"] = runs[o]["fraud"]
<1>1. ASSUME NEW q \in Orders, NEW e \in Effects, Carried(q, e)
      PROVE runs'[o]["fraud"] = runs[o]["fraud"]
  BY <1>1 DEF Carried, TypeOK, Effects
<1>2. ASSUME NEW w \in Workers, Handle(w) PROVE runs'[o]["fraud"] = runs[o]["fraud"]
  <2>1. pc[w] # "idle" => OrderOf(w) \in Orders
    BY DEF TypeOK, OrderOf
  <2>2. CASE ScoreFraud(w)
    BY <1>1, <2>1, <2>2 DEF ScoreFraud, Effects
  <2>3. CASE DecrementStock(w)
    BY <1>1, <2>1, <2>3 DEF DecrementStock, Effects
  <2>4. CASE DispatchMail(w)
    BY <1>1, <2>1, <2>4 DEF DispatchMail, Effects
  <2>5. CASE LoadOrder(w) \/ MarkPaid(w) \/ Respond(w)
    BY <2>5 DEF LoadOrder, MarkPaid, Respond
  <2> QED
    BY <1>2, <2>2, <2>3, <2>4, <2>5 DEF Handle
<1> QED
  BY <1>2 DEF Next, vars, OpenPaymentPage, CreateSession, CustomerPays, ForgetKey,
    DeleteOrder, Deliver, Crash

\* The signals stand on a set S of orders: the rows are functions of the order, and an
\* analyst who loaded an order of S that is not scored yet holds no rule names for it.
StandOn(S) ==
  /\ \A o \in S : SignalsStandOf(o)
  /\ signals = [o \in Orders |-> signals[o]]
  /\ verdict = [o \in Orders |-> verdict[o]]
  /\ \A a \in Analysts : review[a] # NoReview =>
       /\ review[a].order \in Orders
       /\ review[a].order \in S /\ runs[review[a].order]["fraud"] = 0 => review[a].notes = {}
  /\ review = [a \in Analysts |-> review[a]]

\* No order is scored and no action is under way at the start.
LEMMA StandStart == ReviewInit => StandOn(Orders)
BY DEF ReviewInit, Init, StandOn, SignalsStandOf, NoSignals, NoReview, Effects

\* Scoring writes the verdict of this evaluation; the other steps of the shop leave
\* signals and verdicts alone.
LEMMA ShopKeepsSignals ==
  ASSUME TypeOK, NEW S \in SUBSET Orders, StandOn(S), ShopStep
  PROVE  StandOn(S)'
<1>1. ASSUME NEW o \in Orders, runs[o]["fraud"] # 0 PROVE runs'[o]["fraud"] # 0
  BY <1>1, ScoredStays DEF ShopStep
<1>2. CASE (\A o \in Orders : ~ScoredNow(o)) /\ UNCHANGED <<signals, verdict>>
  BY <1>2 DEF StandOn, SignalsStandOf, ScoredNow, ShopStep, Flagged
<1>3. ASSUME NEW p \in Orders, NEW raised \in SUBSET MayRaise,
             ScoredNow(p), runs'[p]["fraud"] # 0,
             verdict' = [verdict EXCEPT ![p] =
               [score |-> Score(Fired(p, raised)), notes |-> Fired(p, raised)]],
             signals' = [signals EXCEPT ![p] =
               [score |-> Score(Fired(p, raised)), flagged |-> Flagged(Score(Fired(p, raised))),
                notes |-> Fired(p, raised), reviewed |-> FALSE]],
             \A o \in Orders \ {p} : runs'[o]["fraud"] = runs[o]["fraud"]
      PROVE  StandOn(S)'
  <2> DEFINE flags == Fired(p, raised)
             score == Score(flags)
  <2>1. /\ signals'[p].score = score /\ signals'[p].notes = flags
        /\ signals'[p].flagged <=> Flagged(score)
        /\ verdict'[p].score = score /\ verdict'[p].notes = flags
    BY <1>3 DEF StandOn
  <2>2. ASSUME NEW o \in Orders \ {p}
        PROVE  signals'[o] = signals[o] /\ verdict'[o] = verdict[o]
    BY <1>3 DEF StandOn
  <2> HIDE DEF flags, score
  <2>3. \A o \in S : SignalsStandOf(o)'
    <3> SUFFICES ASSUME NEW o \in S
          PROVE IF runs'[o]["fraud"] = 0
                THEN signals'[o].score = 0 /\ ~signals'[o].flagged /\ signals'[o].notes = {}
                ELSE /\ signals'[o].score = verdict'[o].score
                     /\ ~signals'[o].reviewed => /\ signals'[o].notes = verdict'[o].notes
                                                 /\ signals'[o].flagged <=> Flagged(verdict'[o].score)
      BY DEF SignalsStandOf, Flagged
    <3>1. CASE o = p
      BY <1>3, <2>1, <3>1
    <3>2. CASE o # p
      BY <1>3, <2>2, <3>2, ZenonT(60) DEF StandOn, SignalsStandOf
    <3> QED
      BY <3>1, <3>2
  <2>4. /\ signals' = [o \in Orders |-> signals'[o]]
        /\ verdict' = [o \in Orders |-> verdict'[o]]
    BY <1>3 DEF StandOn
  <2> QED
    BY <1>1, <1>3, <2>3, <2>4 DEF StandOn, ShopStep
<1>4. ASSUME NEW p \in Orders, ScoredNow(p)
      PROVE  runs'[p]["fraud"] # 0 /\ \A o \in Orders \ {p} : runs'[o]["fraud"] = runs[o]["fraud"]
  BY <1>1, <1>4, ScoresOne DEF ScoredNow, ShopStep
<1> QED
  BY <1>2, <1>3, <1>4 DEF ShopStep

\* An analyst's save touches the flag and the notes of one row, never its score.
LEMMA ReviewKeepsSignals ==
  ASSUME NEW S \in SUBSET Orders, StandOn(S), NEW a \in Analysts, SaveReview(a)
  PROVE  StandOn(S)'
<1> DEFINE p == review[a].order
<1>1. p \in Orders /\ review[a] # NoReview
  BY DEF StandOn, SaveReview
<1>2. UNCHANGED <<runs, verdict>>
  BY DEF SaveReview, vars
<1>3. ASSUME NEW o \in Orders
      PROVE  signals'[o] = signals[o] \/ (o = p /\ signals'[o] = Saved(a))
  BY <1>1, <1>3 DEF SaveReview, StandOn
<1>4. \A o \in S : SignalsStandOf(o)'
  <2> SUFFICES ASSUME NEW o \in S
        PROVE IF runs[o]["fraud"] = 0
              THEN signals'[o].score = 0 /\ ~signals'[o].flagged /\ signals'[o].notes = {}
              ELSE /\ signals'[o].score = verdict[o].score
                   /\ ~signals'[o].reviewed => /\ signals'[o].notes = verdict[o].notes
                                               /\ signals'[o].flagged <=> Flagged(verdict[o].score)
    BY <1>2 DEF SignalsStandOf, Flagged
  <2>1. CASE signals'[o] = signals[o]
    BY <2>1 DEF StandOn, SignalsStandOf
  <2>2. CASE o = p /\ signals'[o] = Saved(a)
    <3>1. SignalsStandOf(o)
      BY DEF StandOn
    <3>2. runs[o]["fraud"] = 0 => review[a].notes = {}
      BY <1>1, <2>2 DEF StandOn
    <3>3. /\ signals'[o].score = signals[o].score /\ signals'[o].reviewed
          /\ ~signals'[o].flagged /\ signals'[o].notes = review[a].notes
      BY <2>2 DEF Saved
    <3> QED
      BY <3>1, <3>2, <3>3 DEF SignalsStandOf
  <2> QED
    BY <1>3, <2>1, <2>2
<1>5. signals' = [o \in Orders |-> signals'[o]]
  BY DEF SaveReview, StandOn
<1>6. review' = [review EXCEPT ![a] = NoReview]
  BY DEF SaveReview
<1>7. review' = [b \in Analysts |-> review'[b]]
  BY <1>6 DEF StandOn
<1>8. ASSUME NEW b \in Analysts, review'[b] # NoReview PROVE review'[b] = review[b]
  BY <1>6, <1>8 DEF StandOn
<1> QED
  BY <1>2, <1>4, <1>5, <1>7, <1>8 DEF StandOn

\* Loading an order copies its notes, which are blank as long as it is not scored.
LEMMA LoadKeepsSignals ==
  ASSUME NEW S \in SUBSET Orders, StandOn(S), NEW a \in Analysts, NEW o \in Orders, LoadForReview(a, o)
  PROVE  StandOn(S)'
<1> DEFINE loaded == [order |-> o, notes |-> signals[o].notes, score |-> signals[o].score]
<1>1. UNCHANGED <<runs, verdict, signals>>
  BY DEF LoadForReview, vars
<1>2. review' = [review EXCEPT ![a] = loaded]
  BY DEF LoadForReview
<1>3. review' = [b \in Analysts |-> review'[b]]
  BY <1>2 DEF StandOn
<1>4. o \in S /\ runs[o]["fraud"] = 0 => loaded.notes = {}
  BY DEF StandOn, SignalsStandOf
<1>5. ASSUME NEW b \in Analysts PROVE review'[b] = review[b] \/ review'[b] = loaded
  BY <1>2 DEF StandOn
<1>6. \A p \in S : SignalsStandOf(p)'
  BY <1>1 DEF StandOn, SignalsStandOf, Flagged
<1> QED
  BY <1>1, <1>3, <1>4, <1>5, <1>6 DEF StandOn

\* The signals keep standing on any set of orders on which they stand.
LEMMA StandStep ==
  ASSUME TypeOK, NEW S \in SUBSET Orders, StandOn(S), [ReviewNext]_<<vars, reviewVars>>
  PROVE  StandOn(S)'
<1>1. CASE ShopStep
  BY <1>1, ShopKeepsSignals
<1>2. ASSUME NEW a \in Analysts, SaveReview(a) PROVE StandOn(S)'
  BY <1>2, ReviewKeepsSignals
<1>3. ASSUME NEW a \in Analysts, NEW o \in Orders, LoadForReview(a, o) PROVE StandOn(S)'
  BY <1>3, LoadKeepsSignals
<1>4. CASE UNCHANGED <<vars, reviewVars>>
  BY <1>4 DEF vars, reviewVars, StandOn, SignalsStandOf, Flagged
<1> QED
  BY <1>1, <1>2, <1>3, <1>4 DEF ReviewNext

\* Whatever is delivered, deleted, crashed or saved from a stale instance, a scored
\* order keeps its score, and its flag and rule names until an analyst accepts them.
THEOREM SignalsKept == ReviewSpec => []SignalsStand
<1>1. TypeOK /\ StandOn(Orders) /\ [ReviewNext]_<<vars, reviewVars>> => StandOn(Orders)'
  BY StandStep
<1>2. StandOn(Orders) => SignalsStand
  BY DEF StandOn, SignalsStand
<1> QED
  BY <1>1, <1>2, StandStart, ReviewUsesPayment, TypeCorrect, PTL DEF ReviewSpec

\* The running score after the first i rules of the registry, written out.
Steps(fired) ==
  LET add(score, i) ==
        IF Registry[i] \in fired THEN AddWeight(score, Registry[i]) ELSE score
      first == add(0, 1)
      second == add(first, 2)
      third == add(second, 3)
      fourth == add(third, 4)
      fifth == add(fourth, 5)
  IN  <<first, second, third, fourth, fifth, add(fifth, 6)>>

\* The score is the running score after the last rule.
LEMMA ScoreSteps == ASSUME NEW fired PROVE Score(fired) = Steps(fired)[6]
<1> DEFINE Add(score, i) ==
             IF Registry[i] \in fired THEN AddWeight(score, Registry[i]) ELSE score
           Follows(u) == [i \in 0..Len(Registry) |->
             IF i = 0 THEN 0
             ELSE IF Registry[i] \in fired THEN AddWeight(u[i - 1], Registry[i])
             ELSE u[i - 1]]
           total == CHOOSE u : u = Follows(u)
           written == [i \in 0..Len(Registry) |-> IF i = 0 THEN 0 ELSE Steps(fired)[i]]
<1>1. Len(Registry) = 6
  BY DEF Registry
<1>2. written = Follows(written)
  <2> DEFINE a == Add(0, 1)
             b == Add(a, 2)
             c == Add(b, 3)
             d == Add(c, 4)
             e == Add(d, 5)
  <2>1. Steps(fired) = <<a, b, c, d, e, Add(e, 6)>>
    BY DEF Steps
  <2> HIDE DEF Add
  <2>2. /\ written[0] = 0 /\ written[1] = Add(written[0], 1) /\ written[2] = Add(written[1], 2)
        /\ written[3] = Add(written[2], 3) /\ written[4] = Add(written[3], 4)
        /\ written[5] = Add(written[4], 5) /\ written[6] = Add(written[5], 6)
    <3>1. written[0] = 0 /\ \A i \in 1..6 : written[i] = Steps(fired)[i]
      BY <1>1
    <3> HIDE DEF written
    <3> QED
      BY <2>1, <3>1
  <2>3. written = [i \in 0..6 |-> written[i]]
    BY <1>1
  <2> HIDE DEF written, a, b, c, d, e
  <2>4. ASSUME NEW i \in 0..6 PROVE written[i] = Follows(written)[i]
    <3>1. i \in {0, 1, 2, 3, 4, 5, 6}
      OBVIOUS
    <3> QED
      BY <1>1, <2>2, <3>1 DEF Add
  <2> QED
    BY <1>1, <2>3, <2>4
<1>3. total = Follows(total)
  BY <1>2
<1>4. Score(fired) = total[6]
  BY <1>1 DEF Score
<1> HIDE DEF total
<1>5. /\ total[0] = 0 /\ total[1] = Add(total[0], 1) /\ total[2] = Add(total[1], 2)
      /\ total[3] = Add(total[2], 3) /\ total[4] = Add(total[3], 4)
      /\ total[5] = Add(total[4], 5) /\ total[6] = Add(total[5], 6)
  BY <1>1, <1>3
<1>6. Steps(fired)[6] = Add(Add(Add(Add(Add(Add(0, 1), 2), 3), 4), 5), 6)
  BY DEF Steps
<1> HIDE DEF Add
<1> QED
  BY <1>4, <1>5, <1>6

\* What a rule adds to the score when it fires, and a sum held at 100.
Worth(fired, i) == IF Registry[i] \in fired THEN Weight[Registry[i]] ELSE 0
AtMost100(n) == IF n > 100 THEN 100 ELSE n

\* Capping after each rule comes to capping once: the score evaluate stores is the sum of
\* the weights of the rules that fired, or 100 if they weigh more.
THEOREM ScoreIsSum ==
  ASSUME NEW fired
  PROVE  Score(fired) = AtMost100(Worth(fired, 1) + Worth(fired, 2) + Worth(fired, 3)
                                  + Worth(fired, 4) + Worth(fired, 5) + Worth(fired, 6))
<1> DEFINE Add(score, i) ==
             IF Registry[i] \in fired THEN AddWeight(score, Registry[i]) ELSE score
           w(i) == Worth(fired, i)
<1>1. \A i \in 1..6 : w(i) \in Nat
  BY ReviewAssumption DEF Worth, Registry, Rules
<1>2. ASSUME NEW i \in 1..6, NEW n \in Nat PROVE Add(AtMost100(n), i) = AtMost100(n + w(i))
  <2>1. w(i) \in Nat
    BY <1>1
  <2> QED
    BY <2>1 DEF Worth, AddWeight, AtMost100
<1>3. Steps(fired)[6] = Add(Add(Add(Add(Add(Add(0, 1), 2), 3), 4), 5), 6)
  BY DEF Steps
<1>4. w(1) \in Nat /\ w(2) \in Nat /\ w(3) \in Nat /\ w(4) \in Nat /\ w(5) \in Nat /\ w(6) \in Nat
  BY <1>1
<1>5. 0 = AtMost100(0)
  BY DEF AtMost100
<1> HIDE DEF Add, w
<1>6. Add(0, 1) = AtMost100(w(1))
  BY <1>2, <1>4, <1>5
<1>7. Add(Add(0, 1), 2) = AtMost100(w(1) + w(2))
  BY <1>2, <1>4, <1>6
<1>8. Add(Add(Add(0, 1), 2), 3) = AtMost100(w(1) + w(2) + w(3))
  BY <1>2, <1>4, <1>7
<1>9. Add(Add(Add(Add(0, 1), 2), 3), 4) = AtMost100(w(1) + w(2) + w(3) + w(4))
  BY <1>2, <1>4, <1>8
<1>10. Add(Add(Add(Add(Add(0, 1), 2), 3), 4), 5) = AtMost100(w(1) + w(2) + w(3) + w(4) + w(5))
  BY <1>2, <1>4, <1>9
<1>11. Add(Add(Add(Add(Add(Add(0, 1), 2), 3), 4), 5), 6)
         = AtMost100(w(1) + w(2) + w(3) + w(4) + w(5) + w(6))
  BY <1>2, <1>4, <1>10
<1> QED
  BY <1>3, <1>11, ScoreSteps DEF w

\* Whatever rules fire and whatever they weigh, the score is at most 100.
LEMMA ScoreType == ASSUME NEW fired PROVE Score(fired) \in 0..100
<1> DEFINE w(i) == Worth(fired, i)
<1>1. w(1) \in Nat /\ w(2) \in Nat /\ w(3) \in Nat /\ w(4) \in Nat /\ w(5) \in Nat /\ w(6) \in Nat
  BY ReviewAssumption DEF Worth, Registry, Rules
<1> HIDE DEF w
<1>2. \A n \in Nat : AtMost100(n) \in 0..100
  BY DEF AtMost100
<1>3. w(1) + w(2) + w(3) + w(4) + w(5) + w(6) \in Nat
  BY <1>1
<1> QED
  BY <1>2, <1>3, ScoreIsSum DEF w

\* The types of the variables that OrderReview adds.
ReviewRows ==
  /\ signals \in [Orders -> Signals]
  /\ verdict \in [Orders -> [score : 0..100, notes : SUBSET Rules]]
  /\ review \in [Analysts -> [order : Orders \cup {NoOrder}, notes : SUBSET Rules, score : 0..100]]

\* What a scoring or an analyst stores is of the right type: scores stay within 0..100,
\* and notes name rules of the registry.
LEMMA ReviewRowsStep ==
  ReviewRows /\ [ReviewNext]_<<vars, reviewVars>> => ReviewRows'
<1> SUFFICES ASSUME ReviewRows, [ReviewNext]_<<vars, reviewVars>> PROVE ReviewRows'
  OBVIOUS
<1> USE DEF ReviewRows
<1>1. ASSUME NEW p \in Orders, NEW raised \in SUBSET MayRaise,
             verdict' = [verdict EXCEPT ![p] =
               [score |-> Score(Fired(p, raised)), notes |-> Fired(p, raised)]],
             signals' = [signals EXCEPT ![p] =
               [score |-> Score(Fired(p, raised)),
                flagged |-> Flagged(Score(Fired(p, raised))),
                notes |-> Fired(p, raised), reviewed |-> FALSE]],
             UNCHANGED review
      PROVE  ReviewRows'
  <2> DEFINE flags == Fired(p, raised)
             score == Score(flags)
  <2>1. score \in 0..100
    BY ScoreType
  <2>2. flags \in SUBSET Rules
    BY DEF Fired
  <2>3. Flagged(score) \in BOOLEAN
    BY DEF Flagged
  <2> QED
    BY <1>1, <2>1, <2>2, <2>3 DEF Signals
<1>2. CASE ShopStep
  BY <1>1, <1>2 DEF ShopStep
<1>3. ASSUME NEW a \in Analysts, SaveReview(a) PROVE ReviewRows'
  <2> DEFINE p == review[a].order
  <2>1. review' = [review EXCEPT ![a] = NoReview] /\ verdict' = verdict
    BY <1>3 DEF SaveReview
  <2>2. NoReview \in [order : Orders \cup {NoOrder}, notes : SUBSET Rules, score : 0..100]
    BY DEF NoReview
  <2>3. p \in Orders => Saved(a) \in Signals
    BY DEF Saved, Signals
  <2>4. signals' \in [Orders -> Signals]
    BY <1>3, <2>3 DEF SaveReview
  <2> QED
    BY <2>1, <2>2, <2>4
<1>4. ASSUME NEW a \in Analysts, NEW o \in Orders, LoadForReview(a, o) PROVE ReviewRows'
  BY <1>4 DEF LoadForReview, Signals
<1>5. CASE UNCHANGED <<vars, reviewVars>>
  BY <1>5 DEF reviewVars
<1> QED
  BY <1>2, <1>3, <1>4, <1>5 DEF ReviewNext

\* The signals, verdicts and loaded instances keep their types.
THEOREM ReviewTypeCorrect == ReviewSpec => []ReviewTypeOK
<1>1. ReviewInit => ReviewRows
  BY DEF ReviewInit, ReviewRows, NoSignals, NoReview, Signals
<1>2. TypeOK /\ ReviewRows => ReviewTypeOK
  BY DEF ReviewTypeOK, ReviewRows
<1> QED
  BY <1>1, <1>2, ReviewRowsStep, ReviewUsesPayment, TypeCorrect, PTL DEF ReviewSpec

-----------------------------------------------------------------------------
(* OrderForm *)

\* A step of the shop or of the reviews leaves the forms alone; the other steps open a
\* form or submit one.
LEMMA FormSteps ==
  ASSUME [FormNext]_<<vars, reviewVars, formVars>>
  PROVE  \/ [Next]_vars /\ [ReviewNext]_<<vars, reviewVars>> /\ UNCHANGED formVars
         \/ \E a \in Analysts : SubmitForm(a) \/ \E o \in Orders : OpenForm(a, o)
<1>1. ReviewNext => [Next]_vars
  BY DEF ReviewNext, ShopStep, SaveReview, LoadForReview
<1>2. CASE UNCHANGED <<vars, reviewVars, formVars>>
  BY <1>2 DEF vars, reviewVars, formVars
<1>3. CASE ReviewNext /\ UNCHANGED formVars
  BY <1>1, <1>3
<1> QED
  BY <1>2, <1>3 DEF FormNext

\* Opening a form changes nothing else.
LEMMA OpenChanges ==
  ASSUME NEW a \in Analysts, NEW o \in Orders, OpenForm(a, o)
  PROVE  UNCHANGED <<order, exists, sess, owner, key, acked, tab, pc, evt, runs, crashes,
                     refusals, signals, verdict, review, reverted>>
BY DEF OpenForm, vars, reviewVars

\* A form writes the columns it shows, of the order it shows.
LEMMA SubmitChanges ==
  ASSUME FormTypeOK, NEW a \in Analysts, SubmitForm(a)
  PROVE  /\ form[a].order \in Orders
         /\ UNCHANGED <<exists, sess, owner, key, acked, tab, pc, evt, runs, crashes,
                        refusals, verdict, review>>
         /\ order' = order \/ order' = [order EXCEPT ![form[a].order] = form[a].row]
         /\ signals' = signals \/ signals' = [signals EXCEPT ![form[a].order] = form[a].signals]
BY DEF SubmitForm, FormTypeOK, Written, stripe, faults

\* What a form puts on an order that stays unreverted is what was there.
LEMMA SubmitKeeps ==
  ASSUME FormTypeOK, NEW a \in Analysts, SubmitForm(a), NEW o \in Orders, reverted'[o] = 0
  PROVE  reverted[o] = 0 /\ order'[o] = order[o] /\ signals'[o] = signals[o]
<1>1. /\ form[a].order \in Orders
      /\ order \in [Orders -> OrderRow] /\ signals \in [Orders -> Signals]
      /\ reverted \in [Orders -> 0..MaxReverts]
  BY SubmitChanges DEF FormTypeOK, ReviewTypeOK, TypeOK
<1>2. CASE o # form[a].order
  BY <1>1, <1>2, SubmitChanges DEF SubmitForm
<1>3. CASE o = form[a].order /\ o \notin exists
  BY <1>1, <1>3 DEF SubmitForm
<1>4. CASE o = form[a].order /\ o \in exists /\ form[a] # Shown(o)
  BY <1>1, <1>4, FormAssumption DEF SubmitForm
<1>5. CASE o = form[a].order /\ o \in exists /\ form[a] = Shown(o)
  BY <1>1, <1>5 DEF SubmitForm, Written, Shown
<1> QED
  BY <1>2, <1>3, <1>4, <1>5

\* Reverts are only ever counted up.
LEMMA RevertsGrow ==
  ASSUME FormTypeOK, [FormNext]_<<vars, reviewVars, formVars>>, NEW o \in Orders
  PROVE  reverted'[o] \in Nat /\ reverted[o] <= reverted'[o]
<1>1. reverted \in [Orders -> 0..MaxReverts]
  BY DEF FormTypeOK
<1>2. ASSUME NEW a \in Analysts, SubmitForm(a) PROVE reverted'[o] \in Nat /\ reverted[o] <= reverted'[o]
  BY <1>1, <1>2, FormAssumption DEF SubmitForm
<1>3. CASE UNCHANGED reverted
  BY <1>1, <1>3, FormAssumption
<1> QED
  BY <1>2, <1>3, FormSteps, OpenChanges DEF formVars

\* What a form shows, and so what it writes, is a row the columns can hold.
LEMMA FormTypeStep == FormTypeOK /\ [FormNext]_<<vars, reviewVars, formVars>> => FormTypeOK'
<1> SUFFICES ASSUME FormTypeOK, [FormNext]_<<vars, reviewVars, formVars>> PROVE FormTypeOK'
  OBVIOUS
<1> DEFINE Form == [order : Orders \cup {NoOrder}, row : OrderRow, signals : Signals]
<1>1. /\ TypeOK /\ ReviewRows
      /\ form \in [Analysts -> Form] /\ reverted \in [Orders -> 0..MaxReverts]
  BY DEF FormTypeOK, ReviewTypeOK, ReviewRows
<1>2. TypeOK' /\ ReviewRows' /\ form' \in [Analysts -> Form] /\ reverted' \in [Orders -> 0..MaxReverts]
      => FormTypeOK'
  BY DEF FormTypeOK, ReviewTypeOK, ReviewRows
<1>3. NoForm \in Form
  BY IntentsAssumption DEF NoForm, NewOrder, NoSignals, OrderRow, Status, Signals
<1>4. CASE [Next]_vars /\ [ReviewNext]_<<vars, reviewVars>> /\ UNCHANGED formVars
  BY <1>1, <1>2, <1>4, TypeStep, ReviewRowsStep DEF formVars
<1>5. ASSUME NEW a \in Analysts, SubmitForm(a) PROVE FormTypeOK'
  <2>1. form[a].row \in OrderRow /\ form[a].signals \in Signals
    BY <1>1
  <2>2. order' \in [Orders -> OrderRow] /\ signals' \in [Orders -> Signals]
    BY <1>1, <1>5, <2>1, SubmitChanges DEF TypeOK, ReviewRows
  <2>3. TypeOK' /\ ReviewRows'
    BY <1>1, <1>5, <2>2, SubmitChanges DEF TypeOK, ReviewRows
  <2>4. form' \in [Analysts -> Form]
    BY <1>1, <1>3, <1>5 DEF SubmitForm
  <2>5. reverted' \in [Orders -> 0..MaxReverts]
    BY <1>1, <1>5, FormAssumption DEF SubmitForm
  <2> QED
    BY <1>2, <2>3, <2>4, <2>5
<1>6. ASSUME NEW a \in Analysts, NEW o \in Orders, OpenForm(a, o) PROVE FormTypeOK'
  <2>1. Shown(o) \in Form
    BY <1>1 DEF Shown, TypeOK, ReviewRows
  <2>2. form' \in [Analysts -> Form]
    BY <1>1, <1>6, <2>1 DEF OpenForm
  <2>3. TypeOK' /\ ReviewRows'
    BY <1>1, <1>6, OpenChanges DEF TypeOK, ReviewRows
  <2> QED
    BY <1>1, <1>2, <1>6, <2>2, <2>3, OpenChanges
<1> QED
  BY <1>4, <1>5, <1>6, FormSteps

\* With forms open, the variables keep their types.
THEOREM FormTypeCorrect == FormSpec => []FormTypeOK
<1>1. FormInit => FormTypeOK
  <2>1. ReviewInit => ReviewTypeOK
    BY OrdersAssumption, IntentsAssumption, FaultsAssumption
    DEF ReviewInit, ReviewTypeOK, NoSignals, NoReview, Signals,
        Init, TypeOK, NewOrder, OrderRow, Status, Points, Effects
  <2>2. NoForm \in [order : Orders \cup {NoOrder}, row : OrderRow, signals : Signals]
    BY IntentsAssumption DEF NoForm, NewOrder, NoSignals, OrderRow, Status, Signals
  <2> QED
    BY <2>1, <2>2, FormAssumption DEF FormInit, FormTypeOK
<1> QED
  BY <1>1, FormTypeStep, PTL DEF FormSpec

\* A worker serves charged sessions only.
LEMMA ServesStep == TypeOK /\ ServesCharged /\ [Next]_vars => ServesCharged'
<1> SUFFICES ASSUME TypeOK, ServesCharged, [Next]_vars, NEW w \in Workers, pc'[w] # "idle"
             PROVE  sess'[evt'[w]] = "charged"
  BY DEF ServesCharged
<1>1. \/ evt'[w] = evt[w] /\ pc[w] # "idle"
      \/ \E i \in Intents : evt'[w] = i /\ sess[i] = "charged"
  BY DEF TypeOK, Next, Handle, OpenPaymentPage, CreateSession, CustomerPays, ForgetKey,
     DeleteOrder, Deliver, Completed, LoadOrder, MarkPaid, ScoreFraud, DecrementStock,
     DispatchMail, Respond, Crash, Goto, Finish, vars
<1> QED
  BY <1>1, ChargeStays DEF ServesCharged, TypeOK

\* A busy worker serves the order it served before.
LEMMA OrderOfStays ==
  ASSUME TypeOK, ServesCharged, [Next]_vars, NEW w \in Workers, pc[w] # "idle",
         evt'[w] = evt[w]
  PROVE  OrderOf(w) \in Orders /\ OrderOf(w)' = OrderOf(w)
BY ChargeStays DEF TypeOK, ServesCharged, OrderOf

-----------------------------------------------------------------------------
(* What an outdated form costs.                                            *)

\* The points at which a worker past the gate has an effect still to do.
Before(e) ==
  CASE e = "fraud" -> {"paid"}
    [] e = "stock" -> {"paid", "scored"}
    [] e = "mail"  -> {"paid", "scored", "stocked"}

\* The workers that may still carry out an effect of an order, and the one that may yet
\* pass the gate.
Ahead(o, e) == {w \in Workers : pc[w] \in Before(e) /\ OrderOf(w) = o}
NotYet(o) == IF order[o].paid THEN 0 ELSE 1
Due(o, e) == runs[o][e] + Cardinality(Ahead(o, e)) + NotYet(o)

\* Every effect that was carried out, or still can be, has had its turn at the gate: one
\* for the order, and one for each time an outdated form wrote over its row.
CostInv == ServesCharged /\ \A o \in Orders, e \in Effects : Due(o, e) <= 1 + reverted[o]

\* How many workers are ahead is a number.
LEMMA AheadCounted ==
  ASSUME NEW o, NEW e
  PROVE  /\ IsFiniteSet(Ahead(o, e)) /\ Cardinality(Ahead(o, e)) \in Nat
         /\ IsFiniteSet(Ahead(o, e)') /\ Cardinality(Ahead(o, e)') \in Nat
<1>1. Ahead(o, e) \subseteq Workers /\ Ahead(o, e)' \subseteq Workers
  BY DEF Ahead
<1> QED
  BY <1>1, FormAssumption, FS_Subset, FS_CardinalityType

\* A flip takes the order's turn at the gate and puts its worker ahead.
LEMMA FlipCost ==
  ASSUME TypeOK, ServesCharged, NEW w \in Workers, MarkPaid(w), CanFlip(OrderOf(w)),
         NEW o \in Orders, NEW e \in Effects
  PROVE  Due(o, e)' <= Due(o, e)
<1>1. /\ OrderOf(w) \in Orders /\ pc[w] = "loaded" /\ ~order[OrderOf(w)].paid
      /\ order' = [order EXCEPT ![OrderOf(w)] =
           [paid |-> TRUE, stripe_id |-> evt[w], status |-> "PAID"]]
      /\ pc' = [pc EXCEPT ![w] = "paid"]
      /\ UNCHANGED <<evt, runs, owner>>
  BY DEF MarkPaid, CanFlip, Goto, stripe, TypeOK, OrderOf
<1>2. runs[o][e] \in Nat /\ runs'[o][e] = runs[o][e]
  BY <1>1 DEF TypeOK
<1>3. \A v \in Workers : OrderOf(v)' = OrderOf(v)
  BY <1>1 DEF OrderOf
<1>4. "loaded" \notin Before(e)
  BY DEF Before, Effects
<1>5. \A v \in Workers : v # w => pc'[v] = pc[v]
  BY <1>1 DEF TypeOK
<1>6. CASE OrderOf(w) = o
  <2>1. NotYet(o) = 1 /\ NotYet(o)' = 0
    BY <1>1, <1>6 DEF NotYet, TypeOK
  <2>2. w \notin Ahead(o, e)
    BY <1>1, <1>4 DEF Ahead
  <2>3. Ahead(o, e)' \subseteq Ahead(o, e) \cup {w}
    BY <1>3, <1>5 DEF Ahead
  <2>4. /\ IsFiniteSet(Ahead(o, e) \cup {w})
        /\ Cardinality(Ahead(o, e) \cup {w}) = Cardinality(Ahead(o, e)) + 1
    BY <2>2, AheadCounted, FS_AddElement
  <2>5. Cardinality(Ahead(o, e)') <= Cardinality(Ahead(o, e)) + 1
    BY <2>3, <2>4, FS_Subset
  <2> QED
    BY <1>2, <2>1, <2>5, AheadCounted DEF Due
<1>7. CASE OrderOf(w) # o
  <2>1. NotYet(o)' = NotYet(o) /\ NotYet(o) \in Nat
    BY <1>1, <1>7 DEF NotYet, TypeOK
  <2>2. Ahead(o, e)' \subseteq Ahead(o, e)
    BY <1>3, <1>5, <1>7 DEF Ahead
  <2>3. Cardinality(Ahead(o, e)') <= Cardinality(Ahead(o, e))
    BY <2>2, AheadCounted, FS_Subset
  <2> QED
    BY <1>2, <2>1, <2>3, AheadCounted DEF Due
<1> QED
  BY <1>6, <1>7

\* An effect takes its worker out of those ahead.
LEMMA EffectCost ==
  ASSUME TypeOK, ServesCharged, NEW w \in Workers, NEW f \in Effects, NEW p,
         \/ pc[w] = "paid" /\ f = "fraud" /\ p = "scored"
         \/ pc[w] = "scored" /\ f = "stock" /\ p = "stocked"
         \/ pc[w] = "stocked" /\ f = "mail" /\ p = "done",
         Goto(w, p), Carried(OrderOf(w), f), UNCHANGED <<order, owner>>,
         NEW o \in Orders, NEW e \in Effects
  PROVE  Due(o, e)' <= Due(o, e)
<1>1. /\ OrderOf(w) \in Orders
      /\ pc' = [pc EXCEPT ![w] = p]
      /\ UNCHANGED evt
  BY DEF Goto, TypeOK, OrderOf
<1>2. \A v \in Workers : OrderOf(v)' = OrderOf(v) /\ (v # w => pc'[v] = pc[v])
  BY <1>1 DEF OrderOf, TypeOK
<1>3. pc'[w] = p
  BY <1>1 DEF TypeOK
<1>4. pc'[w] \in Before(e) => pc[w] \in Before(e)
  BY <1>3 DEF Before, Effects
<1>5. Ahead(o, e)' \subseteq Ahead(o, e)
  BY <1>2, <1>4 DEF Ahead
<1>6. NotYet(o)' = NotYet(o) /\ NotYet(o) \in Nat
  BY DEF NotYet
<1>7. runs[o][e] \in Nat /\ runs'[o][e] = IF o = OrderOf(w) /\ e = f THEN runs[o][e] + 1 ELSE runs[o][e]
  BY <1>1, CarriedValue DEF TypeOK
<1>8. CASE o = OrderOf(w) /\ e = f
  <2>1. w \in Ahead(o, e) /\ w \notin Ahead(o, e)'
    BY <1>3, <1>8 DEF Ahead, Before
  <2>2. Ahead(o, e)' \subseteq Ahead(o, e) \ {w}
    BY <1>5, <2>1
  <2>3. /\ IsFiniteSet(Ahead(o, e) \ {w})
        /\ Cardinality(Ahead(o, e) \ {w}) = Cardinality(Ahead(o, e)) - 1
    BY <2>1, AheadCounted, FS_RemoveElement
  <2>4. Cardinality(Ahead(o, e)') <= Cardinality(Ahead(o, e)) - 1
    BY <2>2, <2>3, FS_Subset
  <2> QED
    BY <1>6, <1>7, <1>8, <2>4, AheadCounted DEF Due
<1>9. CASE ~(o = OrderOf(w) /\ e = f)
  <2>1. Cardinality(Ahead(o, e)') <= Cardinality(Ahead(o, e))
    BY <1>5, AheadCounted, FS_Subset
  <2> QED
    BY <1>6, <1>7, <1>9, <2>1, AheadCounted DEF Due
<1> QED
  BY <1>8, <1>9

\* A step that carries out nothing and puts nobody ahead costs nothing.
LEMMA IdleCost ==
  ASSUME TypeOK, UNCHANGED <<order, runs>>, NEW o \in Orders, NEW e \in Effects,
         Ahead(o, e)' \subseteq Ahead(o, e)
  PROVE  Due(o, e)' <= Due(o, e)
<1>1. Cardinality(Ahead(o, e)') <= Cardinality(Ahead(o, e))
  BY AheadCounted, FS_Subset
<1>2. runs[o][e] \in Nat /\ NotYet(o)' = NotYet(o) /\ NotYet(o) \in Nat
  BY DEF TypeOK, NotYet
<1> QED
  BY <1>1, <1>2, AheadCounted DEF Due

\* No step of the shop raises what is due.
LEMMA ShopCost ==
  ASSUME TypeOK, ServesCharged, [Next]_vars, NEW o \in Orders, NEW e \in Effects
  PROVE  Due(o, e)' <= Due(o, e)
<1>1. Before(e) \subseteq {"paid", "scored", "stocked"}
  BY DEF Before, Effects
<1>2. ASSUME UNCHANGED <<order, runs>>,
             \A v \in Workers : pc'[v] \in Before(e) =>
               pc[v] \in Before(e) /\ evt'[v] = evt[v]
      PROVE  Due(o, e)' <= Due(o, e)
  <2>1. ASSUME NEW v \in Ahead(o, e)' PROVE v \in Ahead(o, e)
    <3>1. v \in Workers /\ pc[v] \in Before(e) /\ evt'[v] = evt[v] /\ OrderOf(v)' = o
      BY <1>2, <2>1 DEF Ahead
    <3>2. OrderOf(v)' = OrderOf(v)
      BY <1>1, <3>1, OrderOfStays
    <3> QED
      BY <3>1, <3>2 DEF Ahead
  <2> QED
    BY <1>2, <2>1, IdleCost
<1>3. ASSUME NEW w \in Workers, MarkPaid(w) PROVE Due(o, e)' <= Due(o, e)
  <2>1. CASE CanFlip(OrderOf(w))
    BY <1>3, <2>1, FlipCost
  <2>2. CASE ~CanFlip(OrderOf(w))
    BY <1>1, <1>2, <1>3, <2>2 DEF MarkPaid, Goto, TypeOK
  <2> QED
    BY <2>1, <2>2
<1>4. ASSUME NEW w \in Workers, ScoreFraud(w) PROVE Due(o, e)' <= Due(o, e)
  <2>1. CASE UNCHANGED runs
    BY <1>2, <1>4, <2>1 DEF ScoreFraud, Goto, TypeOK, Before, Effects
  <2>2. CASE Carried(OrderOf(w), "fraud")
    BY <1>4, <2>2, EffectCost DEF ScoreFraud, stripe, Effects
  <2> QED
    BY <1>4, <2>1, <2>2 DEF ScoreFraud
<1>5. ASSUME NEW w \in Workers, DecrementStock(w) PROVE Due(o, e)' <= Due(o, e)
  <2>1. CASE UNCHANGED runs
    BY <1>2, <1>5, <2>1 DEF DecrementStock, Goto, TypeOK, Before, Effects
  <2>2. CASE Carried(OrderOf(w), "stock")
    BY <1>5, <2>2, EffectCost DEF DecrementStock, stripe, Effects
  <2> QED
    BY <1>5, <2>1, <2>2 DEF DecrementStock
<1>6. ASSUME NEW w \in Workers, Finish(w), UNCHANGED <<order, runs>> PROVE Due(o, e)' <= Due(o, e)
  BY <1>1, <1>2, <1>6 DEF Finish, TypeOK
<1>7. ASSUME NEW w \in Workers, DispatchMail(w) PROVE Due(o, e)' <= Due(o, e)
  <2>1. CASE Carried(OrderOf(w), "mail") /\ Goto(w, "done")
    BY <1>7, <2>1, EffectCost DEF DispatchMail, stripe, Effects
  <2>2. CASE Finish(w) /\ UNCHANGED runs
    BY <1>6, <1>7, <2>2 DEF DispatchMail
  <2> QED
    BY <1>7, <2>1, <2>2 DEF DispatchMail
<1>8. ASSUME NEW w \in Workers, LoadOrder(w) PROVE Due(o, e)' <= Due(o, e)
  BY <1>1, <1>2, <1>6, <1>8 DEF LoadOrder, Goto, TypeOK
<1>9. ASSUME NEW w \in Workers, Respond(w) \/ Crash(w) PROVE Due(o, e)' <= Due(o, e)
  BY <1>6, <1>9 DEF Respond, Crash
<1>10. ASSUME NEW w \in Workers, NEW i \in Intents, Deliver(w, i) PROVE Due(o, e)' <= Due(o, e)
  BY <1>1, <1>2, <1>10 DEF Deliver, TypeOK
<1>11. CASE UNCHANGED <<order, runs, pc, evt>>
  BY <1>2, <1>11
<1> QED
  BY <1>3, <1>4, <1>5, <1>7, <1>8, <1>9, <1>10, <1>11
  DEF Next, Handle, OpenPaymentPage, CreateSession, CustomerPays, ForgetKey, DeleteOrder, vars

\* Submitting a form that is not outdated leaves what is due as it is; an outdated one
\* may open the gate once more, and is counted.
LEMMA SubmitCost ==
  ASSUME FormTypeOK, CostInv, NEW a \in Analysts, SubmitForm(a)
  PROVE  CostInv'
<1>1. UNCHANGED <<sess, owner, pc, evt, runs>>
  BY SubmitChanges
<1>2. ServesCharged'
  BY <1>1 DEF CostInv, ServesCharged
<1>3. ASSUME NEW o \in Orders, NEW e \in Effects PROVE Due(o, e)' <= 1 + reverted'[o]
  <2>1. Ahead(o, e)' = Ahead(o, e)
    BY <1>1 DEF Ahead, OrderOf
  <2>2. runs[o][e] \in Nat /\ Due(o, e) <= 1 + reverted[o]
    BY DEF FormTypeOK, ReviewTypeOK, TypeOK, CostInv
  <2>3. NotYet(o) \in {0, 1} /\ NotYet(o)' \in {0, 1}
    BY DEF NotYet
  <2>4. /\ form[a].order \in Orders
        /\ order \in [Orders -> OrderRow] /\ reverted \in [Orders -> 0..MaxReverts]
    BY SubmitChanges DEF FormTypeOK, ReviewTypeOK, TypeOK
  <2>5. \/ order'[o] = order[o] /\ reverted'[o] = reverted[o]
        \/ reverted'[o] = reverted[o] + 1
    <3>1. CASE o # form[a].order
      BY <2>4, <3>1 DEF SubmitForm
    <3>2. CASE o = form[a].order /\ o \notin exists
      BY <2>4, <3>2 DEF SubmitForm
    <3>3. CASE o = form[a].order /\ o \in exists /\ form[a] # Shown(o)
      BY <2>4, <3>3 DEF SubmitForm
    <3>4. CASE o = form[a].order /\ o \in exists /\ form[a] = Shown(o)
      BY <2>4, <3>4 DEF SubmitForm, Written, Shown
    <3> QED
      BY <3>1, <3>2, <3>3, <3>4
  <2>6. reverted[o] \in Nat
    BY <2>4, FormAssumption
  <2>7. order'[o] = order[o] => NotYet(o)' = NotYet(o)
    BY DEF NotYet
  <2> QED
    BY <1>1, <2>1, <2>2, <2>3, <2>5, <2>6, <2>7, AheadCounted DEF Due
<1> QED
  BY <1>2, <1>3 DEF CostInv

\* The cost stays bounded, whatever is delivered, crashes or is saved.
LEMMA CostStep == FormTypeOK /\ CostInv /\ [FormNext]_<<vars, reviewVars, formVars>> => CostInv'
<1> SUFFICES ASSUME FormTypeOK, CostInv, [FormNext]_<<vars, reviewVars, formVars>> PROVE CostInv'
  OBVIOUS
<1>1. TypeOK /\ ServesCharged
  BY DEF FormTypeOK, ReviewTypeOK, CostInv
<1>2. CASE [Next]_vars /\ UNCHANGED formVars
  <2>1. ServesCharged'
    BY <1>1, <1>2, ServesStep
  <2>2. ASSUME NEW o \in Orders, NEW e \in Effects PROVE Due(o, e)' <= 1 + reverted'[o]
    <3>1. Due(o, e)' <= Due(o, e)
      BY <1>1, <1>2, ShopCost
    <3>2. reverted'[o] = reverted[o] /\ reverted[o] \in Nat
      BY <1>2, FormAssumption DEF formVars, FormTypeOK
    <3>3. Due(o, e) \in Int /\ Due(o, e)' \in Int
      <4>1. runs[o][e] \in Nat /\ runs'[o][e] \in Nat
        BY <1>1, <1>2, TypeStep DEF TypeOK
      <4>2. NotYet(o) \in Nat /\ NotYet(o)' \in Nat
        BY DEF NotYet
      <4> QED
        BY <4>1, <4>2, AheadCounted DEF Due
    <3>4. Due(o, e) <= 1 + reverted[o]
      BY DEF CostInv
    <3> QED
      BY <3>1, <3>2, <3>3, <3>4
  <2> QED
    BY <2>1, <2>2 DEF CostInv
<1>3. ASSUME NEW a \in Analysts, SubmitForm(a) PROVE CostInv'
  BY <1>3, SubmitCost
<1>4. ASSUME NEW a \in Analysts, NEW o \in Orders, OpenForm(a, o) PROVE CostInv'
  <2>1. UNCHANGED <<order, sess, owner, pc, evt, runs, reverted>>
    BY <1>4, OpenChanges
  <2> QED
    BY <2>1 DEF CostInv, ServesCharged, Due, Ahead, OrderOf, NotYet
<1> QED
  BY <1>2, <1>3, <1>4, FormSteps

\* No worker is past a gate at the start, and every order has one turn.
LEMMA CostStart == FormInit => CostInv
<1> SUFFICES ASSUME FormInit PROVE CostInv
  OBVIOUS
<1>1. ServesCharged
  BY DEF FormInit, ReviewInit, Init, ServesCharged
<1>2. ASSUME NEW o \in Orders, NEW e \in Effects PROVE Due(o, e) <= 1 + reverted[o]
  <2>1. Ahead(o, e) = {}
    BY DEF Ahead, Before, Effects, FormInit, ReviewInit, Init
  <2>2. runs[o][e] = 0 /\ reverted[o] = 0 /\ NotYet(o) = 1
    BY DEF FormInit, ReviewInit, Init, NotYet, NewOrder
  <2> QED
    BY <2>1, <2>2, FS_EmptySet DEF Due
<1> QED
  BY <1>1, <1>2 DEF CostInv

\* Forms that save what is no longer so open the gate of the webhook again, but each of
\* them once: an effect of an order is never carried out more often than that.
THEOREM RepeatsCounted == FormSpec => []RepeatedPerRevert
<1>1. FormTypeOK /\ CostInv => RepeatedPerRevert
  <2> SUFFICES ASSUME FormTypeOK, CostInv, NEW o \in Orders, NEW e \in Effects
               PROVE  runs[o][e] <= 1 + reverted[o]
    BY DEF RepeatedPerRevert
  <2>1. runs[o][e] \in Nat /\ reverted[o] \in Nat /\ Due(o, e) <= 1 + reverted[o]
    BY FormAssumption DEF FormTypeOK, ReviewTypeOK, TypeOK, CostInv
  <2>2. NotYet(o) \in Nat
    BY DEF NotYet
  <2> QED
    BY <2>1, <2>2, AheadCounted DEF Due
<1> QED
  BY <1>1, CostStart, CostStep, FormTypeCorrect, PTL DEF FormSpec

-----------------------------------------------------------------------------
(* What forms cannot break, and what they break on their own order only.   *)

\* A form writes neither a session nor a key: no outdated form leads to a second charge.
THEOREM FormsChargeOnce == FormSpec => []ChargedAtMostOnce
<1>1. FormInit => KeyInv
  BY KeyStart DEF FormInit, ReviewInit
<1>2. FormTypeOK /\ KeyInv /\ [FormNext]_<<vars, reviewVars, formVars>> => KeyInv'
  <2> SUFFICES ASSUME FormTypeOK, KeyInv, [FormNext]_<<vars, reviewVars, formVars>> PROVE KeyInv'
    OBVIOUS
  <2>1. CASE [Next]_vars
    BY <2>1, KeyStep DEF FormTypeOK, ReviewTypeOK
  <2>2. CASE UNCHANGED <<sess, owner, key>>
    BY <2>2 DEF KeyInv
  <2> QED
    BY <2>1, <2>2, FormSteps, SubmitChanges, OpenChanges
<1> QED
  BY <1>1, <1>2, KeyCharges, FormTypeCorrect, PTL DEF FormSpec

\* A row that says paid names a charged session of the order.
OwnCharge(row, o) ==
  row.paid => /\ row.stripe_id \in Intents
              /\ owner[row.stripe_id] = o
              /\ sess[row.stripe_id] = "charged"

\* So does every row that a form shows.
OwnInv ==
  /\ ServesCharged
  /\ \A o \in Orders : OwnCharge(order[o], o)
  /\ \A a \in Analysts : OwnCharge(form[a].row, form[a].order)

\* A flip writes the intent of the session whose event it serves.
LEMMA OwnRows ==
  ASSUME TypeOK, ServesCharged, [Next]_vars, NEW o \in Orders, OwnCharge(order[o], o)
  PROVE  OwnCharge(order[o], o)'
<1>1. ASSUME NEW w \in Workers, MarkPaid(w), order'[o] # order[o] PROVE OwnCharge(order[o], o)'
  <2>1. pc[w] = "loaded" /\ o = OrderOf(w) /\ order'[o].stripe_id = evt[w]
    BY <1>1 DEF MarkPaid, TypeOK
  <2>2. evt[w] \in Intents /\ sess[evt[w]] = "charged" /\ owner[evt[w]] = o
    BY <2>1 DEF TypeOK, ServesCharged, OrderOf
  <2> QED
    BY <2>1, <2>2, ChargeStays DEF OwnCharge
<1>2. CASE order'[o] = order[o]
  BY <1>2, ChargeStays DEF OwnCharge
<1> QED
  BY <1>1, <1>2 DEF Next, Handle, OpenPaymentPage, CreateSession, CustomerPays, ForgetKey,
     DeleteOrder, Deliver, LoadOrder, ScoreFraud, DecrementStock, DispatchMail, Respond,
     Crash, vars

\* A form writes back a row that was the order's own when it was shown, and charges are
\* final: even a payment that comes and goes is the order's own charge.
LEMMA OwnStep == FormTypeOK /\ OwnInv /\ [FormNext]_<<vars, reviewVars, formVars>> => OwnInv'
<1> SUFFICES ASSUME FormTypeOK, OwnInv, [FormNext]_<<vars, reviewVars, formVars>> PROVE OwnInv'
  OBVIOUS
<1>1. /\ TypeOK /\ ServesCharged
      /\ form = [a \in Analysts |-> form[a]] /\ order \in [Orders -> OrderRow]
  BY DEF FormTypeOK, ReviewTypeOK, TypeOK, OwnInv
<1>2. CASE [Next]_vars /\ UNCHANGED formVars
  <2>1. ServesCharged'
    BY <1>1, <1>2, ServesStep
  <2>2. ASSUME NEW o \in Orders PROVE OwnCharge(order[o], o)'
    BY <1>1, <1>2, OwnRows DEF OwnInv
  <2>3. ASSUME NEW a \in Analysts PROVE OwnCharge(form[a].row, form[a].order)'
    BY <1>1, <1>2, ChargeStays DEF OwnInv, OwnCharge, formVars
  <2> QED
    BY <2>1, <2>2, <2>3 DEF OwnInv, OwnCharge
<1>3. ASSUME NEW a \in Analysts, SubmitForm(a) PROVE OwnInv'
  <2>1. /\ UNCHANGED <<sess, owner, pc, evt>>
        /\ form[a].order \in Orders
        /\ form' = [form EXCEPT ![a] = NoForm]
    BY <1>3, SubmitChanges DEF SubmitForm
  <2>2. \A o \in Orders : order'[o] = order[o] \/ (o = form[a].order /\ order'[o] = form[a].row)
    BY <1>1, <1>3, SubmitChanges
  <2>3. \A b \in Analysts : form'[b] = form[b] \/ form'[b] = NoForm
    BY <1>1, <2>1
  <2>4. ~NoForm.row.paid
    BY DEF NoForm, NewOrder
  <2>5. ASSUME NEW o \in Orders PROVE OwnCharge(order[o], o)'
    BY <2>1, <2>2 DEF OwnInv, OwnCharge
  <2>6. ASSUME NEW b \in Analysts PROVE OwnCharge(form[b].row, form[b].order)'
    BY <2>1, <2>3, <2>4 DEF OwnInv, OwnCharge
  <2>7. ServesCharged'
    BY <2>1 DEF OwnInv, ServesCharged
  <2> QED
    BY <2>5, <2>6, <2>7 DEF OwnInv, OwnCharge
<1>4. ASSUME NEW a \in Analysts, NEW o \in Orders, OpenForm(a, o) PROVE OwnInv'
  <2>1. UNCHANGED <<order, sess, owner, pc, evt>> /\ form' = [form EXCEPT ![a] = Shown(o)]
    BY <1>4, OpenChanges DEF OpenForm
  <2>2. \A b \in Analysts : form'[b] = form[b] \/ form'[b] = Shown(o)
    BY <1>1, <2>1
  <2>3. OwnCharge(Shown(o).row, Shown(o).order)
    BY DEF Shown, OwnInv
  <2>4. ASSUME NEW b \in Analysts PROVE OwnCharge(form[b].row, form[b].order)'
    BY <2>1, <2>2, <2>3 DEF OwnInv, OwnCharge
  <2>5. ServesCharged' /\ \A p \in Orders : OwnCharge(order[p], p)'
    BY <2>1 DEF OwnInv, ServesCharged, OwnCharge
  <2> QED
    BY <2>4, <2>5 DEF OwnInv, OwnCharge
<1> QED
  BY <1>2, <1>3, <1>4, FormSteps

\* Whatever forms write back, an order that says paid was paid by its own charge.
THEOREM FormsKeepOwn == FormSpec => []PaidByOwnCharge
<1>1. FormInit => OwnInv
  BY DEF FormInit, ReviewInit, Init, OwnInv, ServesCharged, OwnCharge, NewOrder, NoForm
<1>2. OwnInv => PaidByOwnCharge
  BY DEF OwnInv, OwnCharge, PaidByOwnCharge
<1> QED
  BY <1>1, <1>2, OwnStep, FormTypeCorrect, PTL DEF FormSpec

\* The order is paid, gone, or was written over by an outdated form.
Settled(o) == o \in exists /\ reverted[o] = 0 => order[o].paid

\* The orders whose event was answered, or whose worker is past the gate, are settled.
SettledInv ==
  /\ ServesCharged
  /\ \A i \in acked : sess[i] = "charged" /\ Settled(owner[i])
  /\ \A w \in Workers : Flipped(w) \/ pc[w] = "done" => Settled(OrderOf(w))

\* A settled order stays settled: the shop never unpays it, and a form that does is
\* outdated.
LEMMA SettledStays ==
  ASSUME FormTypeOK, [FormNext]_<<vars, reviewVars, formVars>>, NEW o \in Orders, Settled(o)
  PROVE  Settled(o)'
<1>1. TypeOK /\ reverted[o] \in Nat
  BY FormAssumption DEF FormTypeOK, ReviewTypeOK
<1>2. CASE [Next]_vars /\ UNCHANGED formVars
  <2>1. order[o].paid => order'[o] = order[o]
    BY <1>1, <1>2, OrderWrites
  <2> QED
    BY <1>1, <1>2, <2>1, ChargeStays DEF Settled, formVars
<1>3. ASSUME NEW a \in Analysts, SubmitForm(a) PROVE Settled(o)'
  <2>1. exists' = exists
    BY <1>3, SubmitChanges
  <2>2. reverted'[o] = 0 => reverted[o] = 0 /\ order'[o] = order[o]
    BY <1>3, SubmitKeeps
  <2> QED
    BY <2>1, <2>2 DEF Settled
<1>4. ASSUME NEW a \in Analysts, NEW p \in Orders, OpenForm(a, p) PROVE Settled(o)'
  BY <1>4, OpenChanges DEF Settled
<1> QED
  BY <1>2, <1>3, <1>4, FormSteps

\* A worker gets past the gate by paying the order, and to the answer from there or
\* because the order is paid or gone.
LEMMA SettledStep ==
  FormTypeOK /\ SettledInv /\ [FormNext]_<<vars, reviewVars, formVars>> => SettledInv'
<1> SUFFICES ASSUME FormTypeOK, SettledInv, [FormNext]_<<vars, reviewVars, formVars>>
             PROVE  SettledInv'
  OBVIOUS
<1>1. TypeOK /\ ServesCharged
  BY DEF FormTypeOK, ReviewTypeOK, SettledInv
<1>2. \A w \in Workers : pc[w] # "idle" =>
        evt[w] \in Intents /\ sess[evt[w]] = "charged" /\ OrderOf(w) \in Orders
  BY <1>1 DEF TypeOK, ServesCharged, OrderOf
<1>3. \A i \in acked : i \in Intents /\ sess[i] = "charged" /\ owner[i] \in Orders
  BY <1>1 DEF TypeOK, SettledInv
<1>4. CASE [Next]_vars /\ UNCHANGED formVars
  <2>1. ServesCharged'
    BY <1>1, <1>4, ServesStep
  <2>2. \A i \in Intents : sess[i] = "charged" => sess'[i] = "charged" /\ owner'[i] = owner[i]
    BY <1>1, <1>4, ChargeStays
  <2>3. ASSUME NEW i \in acked' PROVE sess'[i] = "charged" /\ Settled(owner[i])' /\ i \in Intents
    <3>1. i \in acked \/ \E w \in Workers : pc[w] = "done" /\ i = evt[w]
      BY <1>4 DEF Next, Handle, OpenPaymentPage, CreateSession, CustomerPays, ForgetKey,
         DeleteOrder, Deliver, LoadOrder, MarkPaid, ScoreFraud, DecrementStock, DispatchMail,
         Respond, Crash, vars
    <3>2. i \in Intents /\ sess[i] = "charged" /\ owner[i] \in Orders /\ Settled(owner[i])
      BY <1>2, <1>3, <3>1 DEF SettledInv, OrderOf
    <3>3. PICK o \in Orders : o = owner[i]
      BY <3>2
    <3>4. Settled(o)'
      BY <3>2, <3>3, SettledStays
    <3> QED
      BY <2>2, <3>2, <3>3, <3>4
  <2>4. ASSUME NEW w \in Workers, Flipped(w)' \/ pc'[w] = "done" PROVE Settled(OrderOf(w))'
    <3>1. /\ evt'[w] = evt[w] /\ pc[w] # "idle"
          /\ \/ Flipped(w) \/ pc[w] = "done"
             \/ MarkPaid(w)
      BY <1>1, <1>4, <2>4
      DEF TypeOK, Next, Handle, OpenPaymentPage, CreateSession, CustomerPays,
       ForgetKey, DeleteOrder, Deliver, LoadOrder, MarkPaid, ScoreFraud, DecrementStock,
       DispatchMail, Respond, Crash, Goto, Finish, Flipped, vars
    <3>2. PICK o \in Orders : o = OrderOf(w)
      BY <1>2, <3>1
    <3>3. Settled(o)'
      <4>1. CASE Flipped(w) \/ pc[w] = "done"
        BY <3>2, <4>1, SettledStays DEF SettledInv
      <4>2. CASE MarkPaid(w) /\ CanFlip(o)
        BY <1>1, <3>2, <4>2 DEF MarkPaid, TypeOK, Settled
      <4>3. CASE MarkPaid(w) /\ ~CanFlip(o)
        BY <3>2, <4>3, SettledStays DEF MarkPaid, CanFlip, Settled
      <4> QED
        BY <3>1, <4>1, <4>2, <4>3
    <3>4. OrderOf(w)' = o
      BY <1>1, <1>4, <3>1, <3>2, OrderOfStays
    <3> QED
      BY <3>3, <3>4
  <2> QED
    BY <2>1, <2>2, <2>3, <2>4 DEF SettledInv, Settled
<1>5. CASE UNCHANGED <<sess, owner, acked, pc, evt>>
  <2>1. ServesCharged'
    BY <1>1, <1>5 DEF ServesCharged
  <2>2. ASSUME NEW i \in acked PROVE Settled(owner[i])'
    <3>1. PICK o \in Orders : o = owner[i]
      BY <1>3
    <3>2. Settled(o)'
      BY <3>1, SettledStays DEF SettledInv
    <3> QED
      BY <1>5, <3>1, <3>2
  <2>3. ASSUME NEW w \in Workers, Flipped(w) \/ pc[w] = "done" PROVE Settled(OrderOf(w))'
    <3>1. PICK o \in Orders : o = OrderOf(w)
      BY <1>2, <2>3 DEF Flipped
    <3>2. Settled(o)'
      BY <2>3, <3>1, SettledStays DEF SettledInv
    <3> QED
      BY <1>5, <3>1, <3>2 DEF OrderOf
  <2> QED
    BY <1>5, <2>1, <2>2, <2>3 DEF SettledInv, Flipped, Settled, OrderOf
<1> QED
  BY <1>4, <1>5, FormSteps, SubmitChanges, OpenChanges

\* An order whose charge was answered 200 names that charge, unless it is gone, an outdated
\* form of that very order was saved or the charge is the second one after a forgotten key.
THEOREM AckedUntilReverted == FormSpec => []AckedUnlessReverted
<1>1. FormInit => SettledInv
  BY DEF FormInit, ReviewInit, Init, SettledInv, ServesCharged, Flipped
<1>2. FormTypeOK /\ SettledInv /\ PaidByOwnCharge /\ ChargedAtMostOnce => AckedUnlessReverted
  <2> SUFFICES ASSUME FormTypeOK, SettledInv, PaidByOwnCharge, ChargedAtMostOnce,
                      NEW i \in acked, owner[i] \in exists, reverted[owner[i]] = 0
               PROVE  OnOrder(i) \/ Superseded(i)
    BY DEF AckedUnlessReverted
  <2>1. i \in Intents /\ sess[i] = "charged" /\ owner[i] \in Orders /\ order[owner[i]].paid
    BY DEF FormTypeOK, ReviewTypeOK, TypeOK, SettledInv, Settled
  <2> QED
    BY <2>1, PaidByWhich
<1> QED
  BY <1>1, <1>2, SettledStep, FormTypeCorrect, FormsKeepOwn, FormsChargeOnce, PTL DEF FormSpec

\* The orders no outdated form was saved for.
Untouched == {o \in Orders : reverted[o] = 0}

\* The signals of the others stand on.
LEMMA UntouchedStep ==
  FormTypeOK /\ StandOn(Untouched) /\ [FormNext]_<<vars, reviewVars, formVars>>
    => StandOn(Untouched)'
<1> SUFFICES ASSUME FormTypeOK, StandOn(Untouched), [FormNext]_<<vars, reviewVars, formVars>>
             PROVE  StandOn(Untouched)'
  OBVIOUS
<1>1. /\ TypeOK /\ signals \in [Orders -> Signals]
      /\ reverted \in [Orders -> 0..MaxReverts]
  BY DEF FormTypeOK, ReviewTypeOK
<1>2. PICK S \in SUBSET Orders : S = Untouched
  BY DEF Untouched
<1>3. StandOn(S)
  BY <1>2
<1>4. Untouched' \subseteq S
  <2>1. ASSUME NEW o \in Untouched' PROVE reverted[o] = 0
    <3>1. o \in Orders /\ reverted'[o] = 0
      BY <2>1 DEF Untouched
    <3>2. reverted[o] \in Nat /\ reverted[o] <= reverted'[o]
      BY <1>1, <3>1, FormAssumption, RevertsGrow
    <3> QED
      BY <3>1, <3>2
  <2> QED
    BY <1>2, <2>1 DEF Untouched
<1>5. CASE [ReviewNext]_<<vars, reviewVars>>
  BY <1>1, <1>3, <1>4, <1>5, StandStep DEF StandOn
<1>6. ASSUME NEW a \in Analysts, SubmitForm(a) PROVE StandOn(Untouched)'
  <2>1. UNCHANGED <<runs, verdict, review>> /\ signals' = [o \in Orders |-> signals'[o]]
    BY <1>1, <1>6, SubmitChanges
  <2>2. ASSUME NEW o \in Untouched' PROVE SignalsStandOf(o)'
    <3>1. o \in Orders /\ reverted'[o] = 0 /\ o \in S
      BY <1>4, <2>2 DEF Untouched
    <3>2. signals'[o] = signals[o]
      BY <1>6, <3>1, SubmitKeeps
    <3> QED
      BY <1>3, <2>1, <3>1, <3>2 DEF StandOn, SignalsStandOf, Flagged
  <2> QED
    BY <1>3, <1>4, <2>1, <2>2 DEF StandOn
<1>7. ASSUME NEW a \in Analysts, NEW o \in Orders, OpenForm(a, o) PROVE StandOn(Untouched)'
  <2>1. UNCHANGED <<runs, signals, verdict, review>>
    BY <1>7, OpenChanges
  <2> QED
    BY <1>3, <1>4, <2>1 DEF StandOn, SignalsStandOf, Flagged
<1> QED
  BY <1>5, <1>6, <1>7, FormSteps

\* The signals of an order stand until an outdated form of that very order is saved,
\* whatever forms of other orders write back.
THEOREM SignalsUntilReverted == FormSpec => []SignalsUnlessReverted
<1>1. FormInit => StandOn(Untouched)
  BY StandStart DEF FormInit, StandOn, Untouched
<1>2. StandOn(Untouched) => SignalsUnlessReverted
  BY DEF StandOn, Untouched, SignalsUnlessReverted
<1> QED
  BY <1>1, <1>2, UntouchedStep, FormTypeCorrect, PTL DEF FormSpec
=============================================================================
