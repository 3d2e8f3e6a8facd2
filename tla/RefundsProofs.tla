----------------------------- MODULE RefundsProofs -----------------------------
(***************************************************************************)
(* Machine-checked proofs about Refunds, for any orders, charges, callers  *)
(* and deliveries: types, that an order never claims a larger refund than  *)
(* Stripe made, and that an order refunded once ends up with that refund.  *)
(***************************************************************************)
EXTENDS Refunds, TLAPS

\* What a Stripe refund does to the ledger and the events, types included.
LEMMA RefundEffect ==
  ASSUME StripeType, NEW o \in Orders, NEW n \in Nat, Refund(o, n)
  PROVE  /\ StripeType'
         /\ acked' = acked /\ events \subseteq events'
         /\ ledger'[o].sum = ledger[o].sum + n
         /\ ledger'[o].sum <= Charge[o]
         /\ \A p \in Orders : p # o => ledger'[p] = ledger[p]
         /\ \A e \in events' : e \in events \/ (e.order = o /\ e.sum = ledger'[o].sum)
<1> DEFINE s == ledger[o].sum + n
           k == ledger[o].count + 1
           new == [sum |-> s, count |-> k]
           e0 == [order |-> o, sum |-> s, count |-> k]
<1>1. ledger[o] \in [sum : Nat, count : Nat] /\ Charge[o] \in Nat
  BY ItemsAssumption DEF StripeType
<1>2. s \in Nat /\ k \in Nat
  BY <1>1
<1>3. /\ ledger' = [ledger EXCEPT ![o] = new]
      /\ events' = events \cup {e0}
      /\ acked' = acked
      /\ n <= Charge[o] - ledger[o].sum
  BY DEF Refund, Remaining
<1>4. s <= Charge[o]
  BY <1>1, <1>3
<1>5. s = ledger[o].sum + n
  OBVIOUS
<1> HIDE DEF s, k
<1>6. new \in [sum : Nat, count : Nat] /\ new.sum = s
  BY <1>2
<1>7. e0 \in Event /\ e0.order = o /\ e0.sum = s
  BY <1>2 DEF Event
<1> HIDE DEF new, e0
<1>8. ledger'[o] = new /\ \A p \in Orders : p # o => ledger'[p] = ledger[p]
  BY <1>3 DEF StripeType
<1>9. StripeType'
  BY <1>3, <1>6, <1>7 DEF StripeType
<1> QED
  BY <1>3, <1>4, <1>5, <1>6, <1>7, <1>8, <1>9

\* The fields of a call.
LEMMA CallFields ==
  ASSUME CallType, NEW c \in Callers, call[c].pc # "idle"
  PROVE  /\ call[c] \in Call /\ call[c].order \in Orders
         /\ call[c].amount \in Amount /\ call[c].soFar \in Nat
         /\ call[c].delta \in Nat /\ call[c].refund \in Nat
BY DEF CallType, Call

\* A call that is replaced by a well-typed one.
LEMMA CallUpdate ==
  ASSUME CallType, NEW c \in Callers, NEW k \in Call, call' = [call EXCEPT ![c] = k],
         k.pc # "idle" => k.order \in Orders
  PROVE  CallType'
BY DEF CallType

\* A delivery that is replaced by a well-typed one.
LEMMA HookUpdate ==
  ASSUME HookType, NEW h \in Hooks, NEW k \in Hook, hook' = [hook EXCEPT ![h] = k],
         k.pc # "idle" => k.order \in Orders
  PROVE  HookType'
BY DEF HookType

\* The variables keep their types; in particular guard 3 keeps the amount a full
\* refund adds to the row positive.
THEOREM TypeCorrect == Spec => []TypeOK
<1>1. Init => TypeOK
  <2> SUFFICES ASSUME Init PROVE TypeOK
    OBVIOUS
  <2>1. IdleCall \in Call /\ IdleCall.pc = "idle"
    BY DEF IdleCall, Call, Amount
  <2>2. IdleHook \in Hook /\ IdleHook.pc = "idle"
    BY DEF IdleHook, Hook
  <2>3. RowType /\ StripeType
    BY ItemsAssumption, RefundsAssumption DEF Init, RowType, StripeType
  <2>4. CallType /\ HookType
    BY <2>1, <2>2 DEF Init, CallType, HookType
  <2> QED
    BY <2>3, <2>4, RefundsAssumption DEF Init, TypeOK
<1>2. TypeOK /\ [Next]_vars => TypeOK'
  <2> SUFFICES ASSUME TypeOK, [Next]_vars PROVE TypeOK'
    OBVIOUS
  <2>0. RowType /\ StripeType /\ CallType /\ HookType
    BY DEF TypeOK
  <2> USE DEF row, stripe
  <2>1. ASSUME NEW o \in Orders, NEW n \in 1..Charge[o], DashboardRefund(o, n)
        PROVE  TypeOK'
    <3>1. n \in Nat
      OBVIOUS
    <3>2. StripeType'
      BY <2>0, <2>1, <3>1, RefundEffect DEF DashboardRefund
    <3> QED
      BY <2>1, <3>2 DEF DashboardRefund, TypeOK, RowType, CallType, HookType
  <2>2. ASSUME NEW o \in Orders, MarkPaid(o) PROVE TypeOK'
    BY <2>2 DEF MarkPaid, TypeOK, RowType, StripeType, CallType, HookType
  <2>3. ASSUME NEW x \in Items, DeleteItem(x) PROVE TypeOK'
    <3>1. RowType'
      BY <2>0, <2>3, ItemsAssumption DEF DeleteItem, RowType
    <3> QED
      BY <2>3, <3>1 DEF DeleteItem, TypeOK, StripeType, CallType, HookType
  <2>4. ASSUME NEW c \in Callers, CallType',
               UNCHANGED <<row, refunded, refundId, stripe, hook>>,
               crashes' \in 0..MaxCrashes
        PROVE  TypeOK'
    BY <2>4 DEF TypeOK, RowType, StripeType, HookType
  <2>5. crashes \in 0..MaxCrashes
    BY DEF TypeOK
  <2>6. ASSUME NEW c \in Callers, NEW o \in Orders, NEW a, BeginRefund(c, o, a)
        PROVE  TypeOK'
    <3> DEFINE k == [IdleCall EXCEPT !.pc = "loaded", !.order = o, !.amount = a]
    <3>1. k \in Call /\ k.order = o /\ call' = [call EXCEPT ![c] = k]
      BY <2>6 DEF BeginRefund, IdleCall, Call
    <3> HIDE DEF k
    <3>2. CallType'
      BY <2>0, <3>1, CallUpdate
    <3> QED
      BY <2>4, <2>5, <2>6, <3>2 DEF BeginRefund
  <2>7. ASSUME NEW c \in Callers, CheckRefunded(c) PROVE TypeOK'
    <3> DEFINE o == call[c].order
               d == IF call[c].amount = Full THEN total[o] - refunded[o] ELSE call[c].amount
               k1 == [call[c] EXCEPT !.pc = "returned"]
               k2 == [call[c] EXCEPT !.pc = "guarded", !.soFar = refunded[o], !.delta = d]
    <3>1. /\ o \in Orders /\ call[c] \in Call /\ call[c].amount \in Amount
          /\ refunded[o] \in Nat /\ total[o] \in Nat
      BY <2>0, <2>7, CallFields DEF CheckRefunded, RowType
    <3>2. CASE AlreadyRefunded(o)
      <4>1. k1 \in Call /\ k1.order = o
        BY <3>1 DEF Call
      <4>2. call' = [call EXCEPT ![c] = k1]
        BY <2>7, <3>2 DEF CheckRefunded
      <4> HIDE DEF k1
      <4>3. CallType'
        BY <2>0, <3>1, <4>1, <4>2, CallUpdate
      <4> QED
        BY <2>4, <2>5, <2>7, <4>3 DEF CheckRefunded
    <3>3. CASE ~AlreadyRefunded(o)
      <4>1. d \in Nat
        BY <3>1, <3>3 DEF AlreadyRefunded, Amount
      <4>2. call' = [call EXCEPT ![c] = k2]
        BY <2>7, <3>3 DEF CheckRefunded
      <4> HIDE DEF d
      <4>3. k2 \in Call /\ k2.order = o
        BY <3>1, <4>1 DEF Call
      <4> HIDE DEF k2
      <4>4. CallType'
        BY <2>0, <3>1, <4>2, <4>3, CallUpdate
      <4> QED
        BY <2>4, <2>5, <2>7, <4>4 DEF CheckRefunded
    <3> QED
      BY <3>2, <3>3
  <2>8. ASSUME NEW c \in Callers, StripeRefunds(c) \/ AnswerLost(c) PROVE TypeOK'
    <3> DEFINE o == call[c].order
    <3>1. /\ o \in Orders /\ call[c] \in Call /\ call[c].amount \in Amount
          /\ Refund(o, Asked(c))
      BY <2>0, <2>8, CallFields DEF StripeRefunds, AnswerLost
    <3>2. Asked(c) \in Nat /\ ledger[o].count + 1 \in Nat
      <4>1. ledger[o].sum \in Nat /\ ledger[o].count \in Nat /\ Charge[o] \in Nat
        BY <2>0, <3>1, ItemsAssumption DEF StripeType
      <4>2. 0 < Asked(c)
        BY <3>1 DEF Refund
      <4>3. Asked(c) \in Int
        BY <3>1, <4>1 DEF Asked, Remaining, Amount
      <4> QED
        BY <4>1, <4>2, <4>3
    <3>3. StripeType'
      BY <2>0, <3>1, <3>2, RefundEffect
    <3>4. CallType'
      <4> DEFINE k1 == [call[c] EXCEPT !.pc = "returned"]
                 k2 == [call[c] EXCEPT !.pc = "refunded", !.refund = ledger[o].count + 1]
      <4>1. call' = [call EXCEPT ![c] = k1] \/ call' = [call EXCEPT ![c] = k2]
        BY <2>8 DEF StripeRefunds, AnswerLost
      <4>2. k1 \in Call /\ k2 \in Call /\ k1.order = o /\ k2.order = o
        BY <3>1, <3>2 DEF Call
      <4> HIDE DEF k1, k2
      <4> QED
        BY <2>0, <3>1, <4>1, <4>2, CallUpdate
    <3> QED
      BY <2>8, <3>3, <3>4 DEF StripeRefunds, AnswerLost, TypeOK, RowType, HookType
  <2>9. ASSUME NEW c \in Callers, StripeRefuses(c) PROVE TypeOK'
    <3> DEFINE k == [call[c] EXCEPT !.pc = "returned"]
    <3>1. call[c] \in Call /\ call[c].order \in Orders
      BY <2>0, <2>9, CallFields DEF StripeRefuses
    <3>2. k \in Call /\ k.order \in Orders /\ call' = [call EXCEPT ![c] = k]
      BY <2>9, <3>1 DEF StripeRefuses, Call
    <3> HIDE DEF k
    <3>3. CallType'
      BY <2>0, <3>2, CallUpdate
    <3> QED
      BY <2>4, <2>5, <2>9, <3>3 DEF StripeRefuses
  <2>10. ASSUME NEW c \in Callers, RecordRefund(c) PROVE TypeOK'
    <3> DEFINE k == [call[c] EXCEPT !.pc = "returned", !.ok = TRUE]
    <3>1. /\ call[c] \in Call /\ call[c].order \in Orders /\ NewAmount(c) \in Nat
          /\ call[c].refund \in Nat /\ call[c].delta \in Nat
      BY <2>0, <2>10, CallFields DEF RecordRefund, NewAmount
    <3>3. k \in Call /\ k.order \in Orders /\ call' = [call EXCEPT ![c] = k]
      BY <2>10, <3>1 DEF RecordRefund, Call
    <3> HIDE DEF k
    <3>4. CallType'
      BY <2>0, <3>3, CallUpdate
    <3>5. RowType'
      BY <2>0, <2>10, <3>1 DEF RecordRefund, RowType
    <3> QED
      BY <2>10, <3>4, <3>5 DEF RecordRefund, TypeOK, StripeType, HookType
  <2>11. IdleCall \in Call /\ IdleCall.pc = "idle"
    BY DEF IdleCall, Call, Amount
  <2>12. ASSUME NEW c \in Callers, EndRefund(c) \/ CrashCall(c) PROVE TypeOK'
    <3>1. call' = [call EXCEPT ![c] = IdleCall]
      BY <2>12 DEF EndRefund, CrashCall
    <3>2. CallType'
      BY <2>0, <2>11, <3>1, CallUpdate
    <3>3. crashes' \in 0..MaxCrashes
      BY <2>5, <2>12, RefundsAssumption DEF EndRefund, CrashCall
    <3> QED
      BY <2>4, <2>12, <3>2, <3>3 DEF EndRefund, CrashCall
  <2>13. ASSUME NEW h \in Hooks, HookType',
                UNCHANGED <<row, refunded, refundId, stripe, call>>,
                crashes' \in 0..MaxCrashes
         PROVE  TypeOK'
    BY <2>13 DEF TypeOK, RowType, StripeType, CallType
  <2>14. ASSUME NEW h \in Hooks, NEW e \in events, Deliver(h, e) PROVE TypeOK'
    <3> DEFINE k == [pc |-> "received", order |-> e.order, sum |-> e.sum,
                     count |-> e.count]
    <3>1. e \in Event
      BY <2>0 DEF StripeType
    <3>2. k \in Hook /\ k.order \in Orders /\ hook' = [hook EXCEPT ![h] = k]
      BY <2>14, <3>1 DEF Deliver, Hook, Event
    <3> HIDE DEF k
    <3>3. HookType'
      BY <2>0, <3>2, HookUpdate
    <3> QED
      BY <2>5, <2>13, <2>14, <3>3 DEF Deliver
  <2>15. ASSUME NEW h \in Hooks, hook[h].pc # "idle"
         PROVE  /\ hook[h] \in Hook /\ hook[h].order \in Orders
                /\ hook[h].sum \in Nat
                /\ hook[h].count \in Nat
    BY <2>0, <2>15 DEF HookType, Hook
  <2>16. ASSUME NEW h \in Hooks, MatchOrder(h) PROVE TypeOK'
    <3> DEFINE k1 == [hook[h] EXCEPT !.pc = "matched"]
               k2 == [hook[h] EXCEPT !.pc = "applied"]
    <3>1. hook[h] \in Hook /\ hook[h].order \in Orders
      BY <2>15, <2>16 DEF MatchOrder
    <3>2. k1 \in Hook /\ k1.order \in Orders /\ k2 \in Hook /\ k2.order \in Orders
      BY <3>1 DEF Hook
    <3>3. hook' = [hook EXCEPT ![h] = k1] \/ hook' = [hook EXCEPT ![h] = k2]
      BY <2>16 DEF MatchOrder
    <3> HIDE DEF k1, k2
    <3>4. HookType'
      BY <2>0, <3>2, <3>3, HookUpdate
    <3>5. RowType'
      BY <2>0, <2>16, <3>1 DEF MatchOrder, RowType
    <3> QED
      BY <2>16, <3>4, <3>5 DEF MatchOrder, TypeOK, StripeType, CallType
  <2>17. ASSUME NEW h \in Hooks, ApplyRefunded(h) PROVE TypeOK'
    <3> DEFINE k == [hook[h] EXCEPT !.pc = "applied"]
    <3>1. /\ hook[h] \in Hook /\ hook[h].order \in Orders
          /\ hook[h].sum \in Nat
      BY <2>15, <2>17 DEF ApplyRefunded
    <3>3. k \in Hook /\ k.order \in Orders /\ hook' = [hook EXCEPT ![h] = k]
      BY <2>17, <3>1 DEF ApplyRefunded, Hook
    <3> HIDE DEF k
    <3>4. HookType'
      BY <2>0, <3>3, HookUpdate
    <3>5. RowType'
      BY <2>0, <2>17, <3>1 DEF ApplyRefunded, Written, RowType
    <3> QED
      BY <2>17, <3>4, <3>5 DEF ApplyRefunded, TypeOK, StripeType, CallType
  <2>18. IdleHook \in Hook /\ IdleHook.pc = "idle"
    BY DEF IdleHook, Hook
  <2>19. ASSUME NEW h \in Hooks, Respond(h) PROVE TypeOK'
    <3>1. HookType'
      BY <2>0, <2>18, <2>19, HookUpdate DEF Respond
    <3>2. HookEvent(h) \in Event
      BY <2>15, <2>19 DEF Respond, HookEvent, Event
    <3>3. StripeType'
      BY <2>0, <2>19, <3>2 DEF Respond, StripeType
    <3> QED
      BY <2>19, <3>1, <3>3 DEF Respond, TypeOK, RowType, CallType
  <2>20. ASSUME NEW h \in Hooks, CrashHook(h) PROVE TypeOK'
    <3>1. HookType'
      BY <2>0, <2>18, <2>20, HookUpdate DEF CrashHook
    <3>2. crashes' \in 0..MaxCrashes
      BY <2>5, <2>20, RefundsAssumption DEF CrashHook
    <3> QED
      BY <2>13, <2>20, <3>1, <3>2 DEF CrashHook
  <2>21. CASE UNCHANGED vars
    BY <2>21 DEF vars, TypeOK, RowType, StripeType, CallType, HookType
  <2> QED
    BY <2>1, <2>2, <2>3, <2>6, <2>7, <2>8, <2>9, <2>10, <2>12, <2>14, <2>16, <2>17,
       <2>19, <2>20, <2>21 DEF Next, Environment, RefundStep, HookStep
<1> QED
  BY <1>1, <1>2, PTL DEF Spec

-----------------------------------------------------------------------------
(* The order never claims more than Stripe refunded.  Guard 3 alone does not *)
(* give it: what a call adds to the row is what Stripe refunded for that very *)
(* call, and Stripe's sum only grows.                                         *)

\* What a call knows between guard 3 and its write: the amount it read is not
\* ahead of Stripe; after Stripe's answer neither is what it will write.
CallWithin(c) ==
  LET o == call[c].order IN
  /\ call[c].pc = "guarded" =>
       /\ call[c].soFar <= ledger[o].sum
       /\ call[c].amount = Full => call[c].soFar + call[c].delta <= Charge[o]
       /\ call[c].amount # Full => call[c].delta = call[c].amount
  /\ call[c].pc = "refunded" => call[c].soFar + call[c].delta <= ledger[o].sum

LedgerInv ==
  /\ \A o \in Orders : total[o] <= Charge[o] /\ ledger[o].sum <= Charge[o]
  /\ \A e \in events : e.sum <= ledger[e.order].sum
  /\ RecordNotAhead
  /\ \A h \in Hooks : hook[h].pc # "idle" => hook[h].sum <= ledger[hook[h].order].sum
  /\ \A c \in Callers : CallWithin(c)

\* A Stripe refund moves every sum it is compared with up or not at all.
LEMMA RefundKeeps ==
  ASSUME TypeOK, LedgerInv, NEW o \in Orders, NEW n \in Nat, Refund(o, n),
         UNCHANGED <<row, refunded, hook>>
  PROVE  /\ \A p \in Orders : /\ ledger[p].sum \in Nat /\ ledger'[p].sum \in Nat
                              /\ ledger[p].sum <= ledger'[p].sum
         /\ \A p \in Orders : total'[p] <= Charge[p] /\ ledger'[p].sum <= Charge[p]
         /\ \A e \in events' : e.sum <= ledger'[e.order].sum
         /\ RecordNotAhead'
         /\ \A h \in Hooks : hook'[h].pc # "idle" =>
              hook'[h].sum <= ledger'[hook'[h].order].sum
<1>1. RowType /\ StripeType /\ HookType
  BY DEF TypeOK
<1>2. /\ StripeType'
      /\ ledger'[o].sum = ledger[o].sum + n
      /\ ledger'[o].sum <= Charge[o]
      /\ \A p \in Orders : p # o => ledger'[p] = ledger[p]
      /\ \A e \in events' : e \in events \/ (e.order = o /\ e.sum = ledger'[o].sum)
  BY <1>1, RefundEffect
<1>3. ASSUME NEW p \in Orders
      PROVE  /\ ledger[p].sum \in Nat /\ ledger'[p].sum \in Nat
             /\ ledger[p].sum <= ledger'[p].sum
             /\ ledger'[p].sum <= Charge[p]
  <2>1. ledger[p] \in [sum : Nat, count : Nat] /\ ledger'[p] \in [sum : Nat, count : Nat]
    BY <1>1, <1>2 DEF StripeType
  <2>2. ledger[p].sum <= Charge[p]
    BY DEF LedgerInv
  <2> QED
    BY <1>2, <2>1, <2>2
<1>4. \A p \in Orders : total'[p] <= Charge[p]
  BY DEF LedgerInv, row
<1>5. ASSUME NEW e \in events' PROVE e.sum <= ledger'[e.order].sum
  <2>1. CASE e \in events
    <3>1. e.order \in Orders /\ e.sum \in Nat /\ e.sum <= ledger[e.order].sum
      BY <1>1, <2>1 DEF StripeType, Event, LedgerInv
    <3> QED
      BY <1>3, <3>1
  <2>2. CASE e.order = o /\ e.sum = ledger'[o].sum
    BY <1>3, <2>2
  <2> QED
    BY <1>2, <2>1, <2>2
<1>6. RecordNotAhead'
  <2>1. ASSUME NEW p \in Orders PROVE refunded'[p] <= ledger'[p].sum
    <3>1. refunded'[p] = refunded[p] /\ refunded[p] \in Nat
      BY <1>1 DEF RowType
    <3>2. refunded[p] <= ledger[p].sum
      BY DEF LedgerInv, RecordNotAhead
    <3> QED
      BY <1>3, <3>1, <3>2
  <2> QED
    BY <2>1 DEF RecordNotAhead
<1>7. ASSUME NEW h \in Hooks, hook'[h].pc # "idle"
      PROVE  hook'[h].sum <= ledger'[hook'[h].order].sum
  <2>1. hook'[h] = hook[h]
    OBVIOUS
  <2>2. hook[h].order \in Orders /\ hook[h].sum \in Nat
    BY <1>1, <1>7, <2>1 DEF HookType, Hook
  <2>3. hook[h].sum <= ledger[hook[h].order].sum
    BY <1>7, <2>1 DEF LedgerInv
  <2> QED
    BY <1>3, <2>1, <2>2, <2>3
<1> QED
  BY <1>3, <1>4, <1>5, <1>6, <1>7

\* A call that is left alone stays within a ledger that did not shrink.
LEMMA CallKeeps ==
  ASSUME TypeOK, NEW c \in Callers, CallWithin(c), call'[c] = call[c],
         \A p \in Orders : /\ ledger[p].sum \in Nat /\ ledger'[p].sum \in Nat
                           /\ ledger[p].sum <= ledger'[p].sum
  PROVE  CallWithin(c)'
<1>1. CASE call[c].pc = "idle"
  BY <1>1 DEF CallWithin
<1>2. CASE call[c].pc # "idle"
  <2>1. CallType
    BY DEF TypeOK
  <2>2. call[c].order \in Orders /\ call[c].soFar \in Nat /\ call[c].delta \in Nat
    BY <1>2, <2>1, CallFields
  <2> QED
    BY <2>2 DEF CallWithin
<1> QED
  BY <1>1, <1>2

\* Every step keeps the order's claim within Stripe's ledger.
LEMMA LedgerInvariant == Spec => []LedgerInv
<1>1. Init => LedgerInv
  <2> SUFFICES ASSUME Init PROVE LedgerInv
    OBVIOUS
  <2>1. ASSUME NEW o \in Orders
        PROVE  total[o] <= Charge[o] /\ ledger[o].sum = 0 /\ ledger[o].sum <= Charge[o]
    <3>1. Charge[o] \in Nat /\ total[o] = Charge[o]
      BY ItemsAssumption DEF Init
    <3>2. ledger[o].sum = 0
      BY DEF Init
    <3> QED
      BY <3>1, <3>2
  <2>2. \A c \in Callers : CallWithin(c)
    BY DEF Init, CallWithin, IdleCall
  <2> QED
    BY <2>1, <2>2 DEF Init, LedgerInv, RecordNotAhead, IdleHook
<1>2. TypeOK /\ TypeOK' /\ LedgerInv /\ [Next]_vars => LedgerInv'
  <2> SUFFICES ASSUME TypeOK, TypeOK', LedgerInv, [Next]_vars PROVE LedgerInv'
    OBVIOUS
  <2>0. RowType /\ StripeType /\ CallType /\ HookType
    BY DEF TypeOK
  <2> USE DEF row, stripe
  <2>1. ASSUME NEW o \in Orders, NEW n \in 1..Charge[o], DashboardRefund(o, n)
        PROVE  LedgerInv'
    <3>1. Refund(o, n) /\ UNCHANGED <<row, refunded, hook, call>> /\ n \in Nat
      BY <2>1 DEF DashboardRefund
    <3>2. \A c \in Callers : CallWithin(c)'
      BY <3>1, RefundKeeps, CallKeeps DEF LedgerInv
    <3> QED
      BY <3>1, <3>2, RefundKeeps DEF LedgerInv
  <2>2. \A p \in Orders : ledger[p].sum \in Nat
    BY <2>0 DEF StripeType
  \* An action that leaves Stripe alone: who looks at the ledger sees the same.
  <2>3. ASSUME UNCHANGED ledger, NEW c \in Callers, call'[c] = call[c] PROVE CallWithin(c)'
    BY <2>3 DEF LedgerInv, CallWithin
  <2>4. ASSUME NEW o \in Orders, MarkPaid(o) PROVE LedgerInv'
    BY <2>3, <2>4 DEF MarkPaid, LedgerInv, RecordNotAhead
  <2>5. ASSUME NEW x \in Items, DeleteItem(x) PROVE LedgerInv'
    <3>1. \A p \in Orders : total'[p] <= total[p] /\ total[p] \in Nat /\ total'[p] \in Nat
      <4>1. ItemOrder[x] \in Orders /\ Cost[x] \in Nat
        BY ItemsAssumption
      <4>2. total \in [Orders -> Nat]
        BY <2>0 DEF RowType
      <4> QED
        BY <2>5, <4>1, <4>2 DEF DeleteItem
    <3>2. \A p \in Orders : total'[p] <= Charge[p]
      BY <3>1, ItemsAssumption DEF LedgerInv
    <3> QED
      BY <2>3, <2>5, <3>2 DEF DeleteItem, LedgerInv, RecordNotAhead
  \* A step of one call that leaves the row and Stripe alone.
  <2>6. ASSUME NEW c \in Callers, UNCHANGED <<row, refunded, stripe, hook>>,
               CallWithin(c)', \A b \in Callers : b # c => call'[b] = call[b]
        PROVE  LedgerInv'
    <3>1. \A b \in Callers : CallWithin(b)'
      BY <2>3, <2>6
    <3> QED
      BY <2>6, <3>1 DEF LedgerInv, RecordNotAhead
  <2>7. ASSUME NEW c \in Callers, NEW o \in Orders, NEW a, BeginRefund(c, o, a)
        PROVE  LedgerInv'
    <3>1. call'[c].pc = "loaded"
      BY <2>0, <2>7 DEF BeginRefund, CallType, IdleCall
    <3>2. CallWithin(c)'
      BY <3>1 DEF CallWithin
    <3> QED
      BY <2>0, <2>6, <2>7, <3>2 DEF BeginRefund, CallType
  <2>8. ASSUME NEW c \in Callers, CheckRefunded(c) PROVE LedgerInv'
    <3> DEFINE o == call[c].order
    <3>1. /\ o \in Orders /\ call[c].amount \in Amount
          /\ refunded[o] \in Nat /\ total[o] \in Nat /\ total[o] <= Charge[o]
          /\ refunded[o] <= ledger[o].sum /\ ledger[o].sum \in Nat /\ Charge[o] \in Nat
      BY <2>0, <2>2, <2>8, CallFields, ItemsAssumption
         DEF CheckRefunded, RowType, LedgerInv, RecordNotAhead
    <3>2. /\ UNCHANGED <<row, refunded, stripe, hook>>
          /\ \A b \in Callers : b # c => call'[b] = call[b]
      BY <2>0, <2>8 DEF CheckRefunded, CallType
    <3>3. CASE AlreadyRefunded(o)
      <4>1. call'[c].pc = "returned"
        BY <2>0, <2>8, <3>3 DEF CheckRefunded, CallType, Call
      <4> QED
        BY <2>6, <3>2, <4>1 DEF CallWithin
    <3>4. CASE ~AlreadyRefunded(o)
      <4>1. /\ call'[c].pc = "guarded" /\ call'[c].order = o
            /\ call'[c].amount = call[c].amount /\ call'[c].soFar = refunded[o]
            /\ call'[c].delta = IF call[c].amount = Full THEN total[o] - refunded[o]
                                ELSE call[c].amount
        BY <2>0, <2>8, <3>4 DEF CheckRefunded, CallType, Call
      <4>2. CallWithin(c)'
        BY <3>1, <3>2, <4>1 DEF CallWithin
      <4> QED
        BY <2>6, <3>2, <4>2
    <3> QED
      BY <3>3, <3>4
  <2>9. ASSUME NEW c \in Callers, StripeRefunds(c) \/ AnswerLost(c) PROVE LedgerInv'
    <3> DEFINE o == call[c].order
    <3>1. /\ o \in Orders /\ call[c].amount \in Amount /\ call[c].pc = "guarded"
          /\ call[c].soFar \in Nat /\ call[c].delta \in Nat
          /\ Refund(o, Asked(c)) /\ UNCHANGED <<row, refunded, hook>>
      BY <2>0, <2>9, CallFields DEF StripeRefunds, AnswerLost
    <3>2. Asked(c) \in Nat /\ Charge[o] \in Nat
      <4>1. ledger[o].sum \in Nat /\ Charge[o] \in Nat
        BY <2>2, <3>1, ItemsAssumption
      <4>2. 0 < Asked(c) /\ Asked(c) \in Int
        BY <3>1, <4>1 DEF Refund, Asked, Remaining, Amount
      <4> QED
        BY <4>1, <4>2
    <3>3. \A p \in Orders : /\ ledger[p].sum \in Nat /\ ledger'[p].sum \in Nat
                            /\ ledger[p].sum <= ledger'[p].sum
      BY <3>1, <3>2, RefundKeeps
    <3>4. ledger'[o].sum = ledger[o].sum + Asked(c)
      BY <2>0, <3>1, <3>2, RefundEffect
    <3>5. CallWithin(c)'
      <4>1. /\ call'[c].order = o /\ call'[c].soFar = call[c].soFar
            /\ call'[c].delta = call[c].delta /\ call'[c].pc \in {"refunded", "returned"}
        BY <2>0, <2>9 DEF StripeRefunds, AnswerLost, CallType, Call
      <4>2. CallWithin(c)
        BY DEF LedgerInv
      <4>3. call[c].soFar + call[c].delta <= ledger'[o].sum
        <5>1. CASE call[c].amount = Full
          <6>1. ledger'[o].sum = Charge[o]
            BY <2>2, <3>1, <3>2, <3>4, <5>1 DEF Asked, Remaining
          <6> QED
            BY <3>1, <4>2, <5>1, <6>1 DEF CallWithin
        <5>2. CASE call[c].amount # Full
          <6>1. ledger'[o].sum = ledger[o].sum + call[c].amount
            BY <3>4, <5>2 DEF Asked
          <6> QED
            BY <2>2, <3>1, <4>2, <5>2, <6>1 DEF CallWithin
        <5> QED
          BY <5>1, <5>2
      <4> QED
        BY <4>1, <4>3 DEF CallWithin
    <3>6. ASSUME NEW b \in Callers PROVE CallWithin(b)'
      <4>1. CASE b = c
        BY <3>5, <4>1
      <4>2. CASE b # c
        <5>1. call'[b] = call[b] /\ CallWithin(b)
          BY <2>0, <2>9, <4>2 DEF StripeRefunds, AnswerLost, CallType, LedgerInv
        <5> QED
          BY <3>3, <5>1, CallKeeps
      <4> QED
        BY <4>1, <4>2
    <3> QED
      BY <3>1, <3>2, <3>6, RefundKeeps DEF LedgerInv
  <2>10. ASSUME NEW c \in Callers, StripeRefuses(c) PROVE LedgerInv'
    <3>1. call'[c].pc = "returned"
      BY <2>0, <2>10 DEF StripeRefuses, CallType, Call
    <3> QED
      BY <2>0, <2>6, <2>10, <3>1 DEF StripeRefuses, CallType, CallWithin
  <2>11. ASSUME NEW c \in Callers, RecordRefund(c) PROVE LedgerInv'
    <3>1. call[c].order \in Orders /\ NewAmount(c) <= ledger[call[c].order].sum
      BY <2>0, <2>11, CallFields DEF RecordRefund, NewAmount, LedgerInv, CallWithin
    <3>2. RecordNotAhead'
      BY <2>0, <2>11, <3>1 DEF RecordRefund, RowType, LedgerInv, RecordNotAhead
    <3>3. call'[c].pc = "returned" /\ \A b \in Callers : b # c => call'[b] = call[b]
      BY <2>0, <2>11 DEF RecordRefund, CallType, Call
    <3>4. \A b \in Callers : CallWithin(b)'
      BY <2>3, <2>11, <3>3 DEF RecordRefund, CallWithin
    <3> QED
      BY <2>11, <3>2, <3>4 DEF RecordRefund, LedgerInv
  <2>12. ASSUME NEW c \in Callers, EndRefund(c) \/ CrashCall(c) PROVE LedgerInv'
    <3>1. call'[c].pc = "idle" /\ \A b \in Callers : b # c => call'[b] = call[b]
      BY <2>0, <2>12 DEF EndRefund, CrashCall, CallType, IdleCall
    <3> QED
      BY <2>6, <2>12, <3>1 DEF EndRefund, CrashCall, CallWithin
  \* A delivery carries the sum of an event, and that is what is written.
  <2>13. ASSUME NEW h \in Hooks, UNCHANGED <<total, refunded, ledger, events, call>>,
                \A g \in Hooks : g # h => hook'[g] = hook[g],
                hook'[h].pc # "idle" => hook'[h].sum <= ledger[hook'[h].order].sum
         PROVE  LedgerInv'
    <3>1. \A c \in Callers : CallWithin(c)'
      BY <2>3, <2>13
    <3>2. \A g \in Hooks : hook'[g].pc # "idle" => hook'[g].sum <= ledger'[hook'[g].order].sum
      BY <2>13 DEF LedgerInv
    <3> QED
      BY <2>13, <3>1, <3>2 DEF LedgerInv, RecordNotAhead
  <2>14. ASSUME NEW h \in Hooks, NEW e \in events, Deliver(h, e) PROVE LedgerInv'
    <3>1. hook'[h].sum = e.sum /\ hook'[h].order = e.order
      BY <2>0, <2>14 DEF Deliver, HookType
    <3>2. e.sum <= ledger[e.order].sum
      BY DEF LedgerInv
    <3> QED
      BY <2>0, <2>13, <2>14, <3>1, <3>2 DEF Deliver, HookType
  <2>15. ASSUME NEW h \in Hooks, MatchOrder(h) PROVE LedgerInv'
    <3>1. hook'[h].sum = hook[h].sum /\ hook'[h].order = hook[h].order
      BY <2>0, <2>15 DEF MatchOrder, HookType, Hook
    <3>2. hook[h].sum <= ledger[hook[h].order].sum
      BY <2>15 DEF MatchOrder, LedgerInv
    <3> QED
      BY <2>0, <2>13, <2>15, <3>1, <3>2 DEF MatchOrder, HookType
  <2>16. ASSUME NEW h \in Hooks, ApplyRefunded(h) PROVE LedgerInv'
    <3>1. /\ hook[h].order \in Orders /\ Written(h) <= ledger[hook[h].order].sum
          /\ hook[h].sum <= ledger[hook[h].order].sum
      BY <2>0, <2>16 DEF ApplyRefunded, Written, LedgerInv, HookType
    <3>2. RecordNotAhead'
      BY <2>0, <2>16, <3>1 DEF ApplyRefunded, RowType, LedgerInv, RecordNotAhead
    <3>3. \A g \in Hooks : hook'[g].pc # "idle" => hook'[g].sum <= ledger'[hook'[g].order].sum
      <4>1. hook'[h].sum = hook[h].sum /\ hook'[h].order = hook[h].order
        BY <2>0, <2>16 DEF ApplyRefunded, HookType, Hook
      <4>2. \A g \in Hooks : g # h => hook'[g] = hook[g]
        BY <2>0, <2>16 DEF ApplyRefunded, HookType
      <4> QED
        BY <2>16, <3>1, <4>1, <4>2 DEF ApplyRefunded, LedgerInv
    <3>4. \A c \in Callers : CallWithin(c)'
      BY <2>3, <2>16 DEF ApplyRefunded
    <3> QED
      BY <2>16, <3>2, <3>3, <3>4 DEF ApplyRefunded, LedgerInv
  <2>17. ASSUME NEW h \in Hooks, Respond(h) \/ CrashHook(h) PROVE LedgerInv'
    <3>1. hook'[h].pc = "idle" /\ \A g \in Hooks : g # h => hook'[g] = hook[g]
      BY <2>0, <2>17 DEF Respond, CrashHook, HookType, IdleHook
    <3> QED
      BY <2>13, <2>17, <3>1 DEF Respond, CrashHook
  <2>18. CASE UNCHANGED vars
    BY <2>3, <2>18 DEF vars, LedgerInv, RecordNotAhead
  <2> QED
    BY <2>1, <2>4, <2>5, <2>7, <2>8, <2>9, <2>10, <2>11, <2>12, <2>14, <2>15, <2>16,
       <2>17, <2>18 DEF Next, Environment, RefundStep, HookStep
<1> QED
  BY <1>1, <1>2, TypeCorrect, PTL DEF Spec

\* The order never claims a larger refund than Stripe made, whatever calls and events
\* overlap.
THEOREM RecordWithinLedger == Spec => []RecordNotAhead
<1>1. LedgerInv => RecordNotAhead
  BY DEF LedgerInv
<1> QED
  BY <1>1, LedgerInvariant, PTL

-----------------------------------------------------------------------------
(* What the row says once everything has been delivered.  While an order has *)
(* had one refund, every write that is under way would write the sum of that *)
(* very refund, so it does not matter in which order they arrive.            *)

\* A charge without refunds has nothing refunded, one with refunds has had an event; the
\* event of the last refund carries the sum.
EventsTellSum ==
  /\ \A o \in Orders : /\ ledger[o].count = 0 => ledger[o].sum = 0
                       /\ ledger[o].count > 0 => \E e \in events : e.order = o
  /\ \A e \in events : /\ 0 < e.count /\ e.count <= ledger[e.order].count
                       /\ e.count = ledger[e.order].count => e.sum = ledger[e.order].sum
  /\ acked \subseteq events

\* Deliveries are of events, and a call that has its answer has made a refund; a call
\* for the rest of the charge will write no less than the order's total.
InFlight ==
  /\ \A h \in Hooks : hook[h].pc # "idle" => HookEvent(h) \in events
  /\ \A c \in Callers :
       /\ call[c].pc = "refunded" => ledger[call[c].order].count > 0
       /\ call[c].pc = "guarded" /\ call[c].amount = Full =>
            total[call[c].order] <= call[c].soFar + call[c].delta

\* What the row says is what Stripe refunded; an intact order refunded once.
Settled(o) == refunded[o] = ledger[o].sum
Once(o) == ledger[o].count = 1 /\ Intact(o)

\* Of an order refunded once: an event that was applied or answered has settled it, and
\* what a call is about to write settles it.
SettlesOnce(o) ==
  Once(o) =>
    /\ (\E e \in acked : e.order = o) => Settled(o)
    /\ \A h \in Hooks : hook[h].pc = "applied" /\ hook[h].order = o => Settled(o)
    /\ \A c \in Callers : call[c].pc = "refunded" /\ call[c].order = o =>
         call[c].soFar + call[c].delta = ledger[o].sum

SettledInv == EventsTellSum /\ InFlight /\ \A o \in Orders : SettlesOnce(o)

\* A step that neither refunds an order, nor makes it intact, nor puts another call
\* behind Stripe's answer, and whose writes and answers settle it.
LEMMA SettlesKept ==
  ASSUME NEW o \in Orders, SettlesOnce(o), ledger'[o] = ledger[o],
         Intact(o)' => Intact(o),
         Once(o) /\ Intact(o)' /\ Settled(o) => Settled(o)',
         \A e \in acked' : e.order = o /\ Once(o) /\ Intact(o)' => e \in acked \/ Settled(o)',
         \A h \in Hooks :
           hook'[h].pc = "applied" /\ hook'[h].order = o /\ Once(o) /\ Intact(o)' =>
             (hook[h].pc = "applied" /\ hook[h].order = o) \/ Settled(o)',
         \A c \in Callers :
           call'[c].pc = "refunded" /\ call'[c].order = o => call'[c] = call[c]
  PROVE  SettlesOnce(o)'
<1> SUFFICES ASSUME Once(o)'
             PROVE  /\ (\E e \in acked' : e.order = o) => Settled(o)'
                    /\ \A h \in Hooks : hook'[h].pc = "applied" /\ hook'[h].order = o =>
                         Settled(o)'
                    /\ \A c \in Callers : call'[c].pc = "refunded" /\ call'[c].order = o =>
                         call'[c].soFar + call'[c].delta = ledger'[o].sum
  BY DEF SettlesOnce
<1>1. Once(o) /\ Intact(o)'
  BY DEF Once
<1> QED
  BY <1>1 DEF SettlesOnce

\* What a Stripe refund does to the number of refunds and the event of the last one.
LEMMA RefundCounted ==
  ASSUME StripeType, EventsTellSum, NEW o \in Orders, NEW n \in Nat, Refund(o, n)
  PROVE  /\ EventsTellSum'
         /\ ledger'[o].count = ledger[o].count + 1 /\ ledger[o].count \in Nat
         /\ ledger'[o].sum = ledger[o].sum + n
         /\ acked' = acked /\ events \subseteq events'
         /\ \A p \in Orders \ {o} : ledger'[p] = ledger[p]
<1> DEFINE s == ledger[o].sum + n
           k == ledger[o].count + 1
           new == [sum |-> s, count |-> k]
           e0 == [order |-> o, sum |-> s, count |-> k]
<1>1. ledger[o].count \in Nat /\ ledger[o].sum \in Nat
  BY DEF StripeType
<1>2. /\ ledger' = [ledger EXCEPT ![o] = new]
      /\ events' = events \cup {e0}
      /\ acked' = acked
  BY DEF Refund
<1>3. k \in Nat /\ k > ledger[o].count /\ k > 0 /\ k = ledger[o].count + 1
      /\ s = ledger[o].sum + n
  BY <1>1
<1> HIDE DEF s, k
<1>4. new.sum = s /\ new.count = k /\ e0.order = o /\ e0.sum = s /\ e0.count = k
  OBVIOUS
<1> HIDE DEF new, e0
<1>5. ledger'[o] = new /\ \A p \in Orders \ {o} : ledger'[p] = ledger[p]
  BY <1>2 DEF StripeType
<1>6. ASSUME NEW p \in Orders
      PROVE  /\ ledger'[p].count = 0 => ledger'[p].sum = 0
             /\ ledger'[p].count > 0 => \E e \in events' : e.order = p
  <2>1. CASE p = o
    BY <1>2, <1>3, <1>4, <1>5, <2>1
  <2>2. CASE p # o
    BY <1>2, <1>5, <2>2 DEF EventsTellSum
  <2> QED
    BY <2>1, <2>2
<1>7. ASSUME NEW e \in events'
      PROVE  /\ 0 < e.count /\ e.count <= ledger'[e.order].count
             /\ e.count = ledger'[e.order].count => e.sum = ledger'[e.order].sum
  <2>1. CASE e = e0
    BY <1>3, <1>4, <1>5, <2>1
  <2>2. CASE e \in events
    <3>1. /\ e.order \in Orders /\ e.count \in Nat
          /\ 0 < e.count /\ e.count <= ledger[e.order].count
          /\ e.count = ledger[e.order].count => e.sum = ledger[e.order].sum
      BY <2>2 DEF StripeType, Event, EventsTellSum
    <3>2. CASE e.order = o
      BY <1>1, <1>3, <1>4, <1>5, <3>1, <3>2
    <3>3. CASE e.order # o
      BY <1>5, <3>1, <3>3
    <3> QED
      BY <3>2, <3>3
  <2> QED
    BY <1>2, <2>1, <2>2
<1>8. EventsTellSum'
  BY <1>2, <1>6, <1>7 DEF EventsTellSum
<1> QED
  BY <1>1, <1>2, <1>3, <1>4, <1>5, <1>8

\* The refund made for a call, or in Stripe's dashboard: the first one of an order finds
\* no event, no delivery and no other call with an answer.
LEMMA RefundSettles ==
  ASSUME TypeOK, LedgerInv, SettledInv, NEW o \in Orders, NEW n \in Nat, Refund(o, n),
         UNCHANGED <<row, refunded, hook>>,
         \A c \in Callers :
           \/ call'[c] = call[c]
           \/ call'[c].pc = "returned"
           \/ /\ call[c].pc = "guarded" /\ call'[c].pc = "refunded"
              /\ call[c].order = o /\ call'[c].order = o /\ n = Asked(c)
              /\ call'[c].soFar = call[c].soFar /\ call'[c].delta = call[c].delta
  PROVE  SettledInv'
<1>0. StripeType /\ HookType /\ CallType /\ RowType
  BY DEF TypeOK
<1>1. /\ EventsTellSum'
      /\ ledger'[o].count = ledger[o].count + 1 /\ ledger[o].count \in Nat
      /\ ledger'[o].sum = ledger[o].sum + n
      /\ acked' = acked /\ events \subseteq events'
      /\ \A p \in Orders \ {o} : ledger'[p] = ledger[p]
  BY <1>0, RefundCounted DEF SettledInv
<1>2. UNCHANGED <<total, dropped, refunded, hook>>
  BY DEF row
<1>3. \A p \in Orders : ledger[p].count \in Nat /\ (ledger[p].count > 0 => ledger'[p].count > 0)
  BY <1>0, <1>1 DEF StripeType
<1>4. \A h \in Hooks : hook'[h].pc # "idle" => HookEvent(h)' \in events'
  BY <1>1, <1>2 DEF SettledInv, InFlight, HookEvent
<1>5. ASSUME NEW c \in Callers
      PROVE  /\ call'[c].pc = "refunded" => ledger'[call'[c].order].count > 0
             /\ call'[c].pc = "guarded" /\ call'[c].amount = Full =>
                  total'[call'[c].order] <= call'[c].soFar + call'[c].delta
  <2>1. CASE call'[c] = call[c]
    BY <1>0, <1>2, <1>3, <2>1, CallFields DEF SettledInv, InFlight
  <2>2. CASE call'[c].pc = "refunded" /\ call'[c].order = o
    BY <1>1, <2>2
  <2>3. CASE call'[c].pc = "returned"
    BY <2>3
  <2> QED
    BY <2>1, <2>2, <2>3
<1>6. ASSUME NEW p \in Orders, p # o
      PROVE  SettlesOnce(p)'
  <2>1. SettlesOnce(p)
    BY DEF SettledInv
  <2>2. \A c \in Callers :
          call'[c].pc = "refunded" /\ call'[c].order = p => call'[c] = call[c]
    BY <1>6
  <2> QED
    BY <1>1, <1>2, <1>6, <2>1, <2>2, SettlesKept DEF Intact, Settled
<1>7. SettlesOnce(o)'
  <2> SUFFICES ASSUME Once(o)'
               PROVE  /\ (\E e \in acked' : e.order = o) => Settled(o)'
                      /\ \A h \in Hooks : hook'[h].pc = "applied" /\ hook'[h].order = o =>
                           Settled(o)'
                      /\ \A c \in Callers : call'[c].pc = "refunded" /\ call'[c].order = o =>
                           call'[c].soFar + call'[c].delta = ledger'[o].sum
    BY DEF SettlesOnce
  <2>1. ledger[o].count = 0 /\ ledger[o].sum = 0 /\ total[o] = Charge[o] /\ ledger'[o].sum = n
    BY <1>1, <1>2 DEF Once, Intact, SettledInv, EventsTellSum
  <2>2. \A e \in events : e.order # o
    <3> SUFFICES ASSUME NEW e \in events, e.order = o PROVE FALSE
      OBVIOUS
    <3>1. e.count \in Nat /\ 0 < e.count /\ e.count <= ledger[o].count
      BY <1>0 DEF StripeType, Event, SettledInv, EventsTellSum
    <3> QED
      BY <2>1, <3>1
  <2>3. \A e \in acked' : e.order # o
    BY <1>1, <2>2 DEF SettledInv, EventsTellSum
  <2>4. \A h \in Hooks : hook'[h].pc = "applied" => hook'[h].order # o
    <3> SUFFICES ASSUME NEW h \in Hooks, hook[h].pc = "applied", hook[h].order = o
                 PROVE  FALSE
      BY <1>2
    <3>1. HookEvent(h) \in events /\ HookEvent(h).order = o
      BY DEF SettledInv, InFlight, HookEvent
    <3> QED
      BY <2>2, <3>1
  <2>5. ASSUME NEW c \in Callers, call'[c].pc = "refunded", call'[c].order = o
        PROVE  call'[c].soFar + call'[c].delta = ledger'[o].sum
    <3>1. call'[c] # call[c]
      BY <2>1, <2>5 DEF SettledInv, InFlight
    <3>2. /\ call[c].pc = "guarded" /\ call[c].order = o /\ n = Asked(c)
          /\ call'[c].soFar = call[c].soFar /\ call'[c].delta = call[c].delta
      BY <2>5, <3>1
    <3>3. /\ call[c].amount \in Amount /\ call[c].soFar \in Nat /\ call[c].delta \in Nat
          /\ Charge[o] \in Nat
      BY <1>0, <3>2, CallFields, ItemsAssumption
    <3>4. call[c].soFar <= ledger[o].sum
      BY <3>2 DEF LedgerInv, CallWithin
    <3>5. CASE call[c].amount = Full
      <4>1. call[c].soFar + call[c].delta <= Charge[o]
        BY <3>2, <3>5 DEF LedgerInv, CallWithin
      <4>2. total[o] <= call[c].soFar + call[c].delta
        BY <3>2, <3>5 DEF SettledInv, InFlight
      <4>3. n = Charge[o]
        BY <2>1, <3>2, <3>3, <3>5 DEF Asked, Remaining
      <4> QED
        BY <2>1, <3>2, <3>3, <4>1, <4>2, <4>3
    <3>6. CASE call[c].amount # Full
      <4>1. call[c].delta = call[c].amount /\ n = call[c].amount
        BY <3>2, <3>6 DEF LedgerInv, CallWithin, Asked
      <4> QED
        BY <2>1, <3>2, <3>3, <3>4, <4>1
    <3> QED
      BY <3>5, <3>6
  <2> QED
    BY <2>3, <2>4, <2>5
<1> QED
  BY <1>1, <1>4, <1>5, <1>6, <1>7 DEF SettledInv, InFlight

\* A step of one call that leaves the row, Stripe and the deliveries alone.
LEMMA CallSettles ==
  ASSUME TypeOK, SettledInv, NEW c \in Callers,
         UNCHANGED <<row, refunded, stripe, hook>>,
         \A b \in Callers : b # c => call'[b] = call[b],
         call'[c].pc # "refunded",
         call'[c].pc = "guarded" /\ call'[c].amount = Full =>
           total[call'[c].order] <= call'[c].soFar + call'[c].delta
  PROVE  SettledInv'
<1>1. UNCHANGED <<total, dropped, refunded, ledger, events, acked, hook>>
  BY DEF row, stripe
<1>2. EventsTellSum'
  BY <1>1 DEF SettledInv, EventsTellSum
<1>3. InFlight'
  BY <1>1 DEF SettledInv, InFlight, HookEvent
<1>4. ASSUME NEW o \in Orders PROVE SettlesOnce(o)'
  <2>1. SettlesOnce(o)
    BY DEF SettledInv
  <2> QED
    BY <1>1, <2>1, SettlesKept DEF Intact, Settled
<1> QED
  BY <1>2, <1>3, <1>4 DEF SettledInv

\* A step of one delivery: it writes and answers nothing but what settles its order.
LEMMA HookSettles ==
  ASSUME TypeOK, SettledInv, NEW h \in Hooks,
         UNCHANGED <<total, ledger, events, call>>,
         \A g \in Hooks : g # h => hook'[g] = hook[g],
         hook'[h].pc # "idle" => HookEvent(h)' \in events,
         acked' \subseteq events,
         \A o \in Orders :
           /\ o \in dropped => o \in dropped'
           /\ Once(o) /\ Intact(o)' /\ Settled(o) => Settled(o)'
           /\ \A e \in acked' : e.order = o /\ Once(o) => e \in acked \/ Settled(o)'
           /\ hook'[h].pc = "applied" /\ hook'[h].order = o /\ Once(o) /\ Intact(o)' =>
                (hook[h].pc = "applied" /\ hook[h].order = o) \/ Settled(o)'
  PROVE  SettledInv'
<1>1. EventsTellSum'
  BY DEF SettledInv, EventsTellSum
<1>2. InFlight'
  <2>1. \A g \in Hooks : hook'[g].pc # "idle" => HookEvent(g)' \in events
    BY DEF SettledInv, InFlight, HookEvent
  <2> QED
    BY <2>1 DEF SettledInv, InFlight
<1>3. ASSUME NEW o \in Orders PROVE SettlesOnce(o)'
  <2>1. SettlesOnce(o) /\ (Intact(o)' => Intact(o))
    BY DEF SettledInv, Intact
  <2>2. \A g \in Hooks :
          hook'[g].pc = "applied" /\ hook'[g].order = o /\ Once(o) /\ Intact(o)' =>
            (hook[g].pc = "applied" /\ hook[g].order = o) \/ Settled(o)'
    OBVIOUS
  <2> QED
    BY <2>1, <2>2, SettlesKept
<1> QED
  BY <1>1, <1>2, <1>3 DEF SettledInv

\* Every step keeps SettledInv.
LEMMA SettledNext ==
  TypeOK /\ LedgerInv /\ SettledInv /\ [Next]_vars => SettledInv'
<1> SUFFICES ASSUME TypeOK, LedgerInv, SettledInv, [Next]_vars PROVE SettledInv'
  OBVIOUS
<1>0. RowType /\ StripeType /\ CallType /\ HookType
  BY DEF TypeOK
<1>1. ASSUME NEW o \in Orders, NEW n \in 1..Charge[o], DashboardRefund(o, n)
      PROVE  SettledInv'
  <2>1. Refund(o, n) /\ UNCHANGED <<row, refunded, hook, call>> /\ n \in Nat
    BY <1>1 DEF DashboardRefund
  <2> QED
    BY <2>1, RefundSettles
<1>2. ASSUME NEW c \in Callers, StripeRefunds(c) \/ AnswerLost(c) PROVE SettledInv'
  <2> DEFINE o == call[c].order
             n == Asked(c)
  <2>1. /\ o \in Orders /\ call[c].amount \in Amount /\ call[c].pc = "guarded"
        /\ Refund(o, n) /\ UNCHANGED <<row, refunded, hook>>
    BY <1>0, <1>2, CallFields DEF StripeRefunds, AnswerLost
  <2>2. n \in Nat
    <3>1. ledger[o].sum \in Nat /\ Charge[o] \in Nat
      BY <1>0, <2>1, ItemsAssumption DEF StripeType
    <3>2. 0 < n /\ n \in Int
      BY <2>1, <3>1 DEF Refund, Asked, Remaining, Amount
    <3> QED
      BY <3>2
  <2>3. \A b \in Callers : b # c => call'[b] = call[b]
    BY <1>0, <1>2 DEF StripeRefunds, AnswerLost, CallType
  <2>4. \/ call'[c].pc = "returned"
        \/ /\ call'[c].pc = "refunded" /\ call'[c].order = o
           /\ call'[c].soFar = call[c].soFar /\ call'[c].delta = call[c].delta
    BY <1>0, <1>2 DEF StripeRefunds, AnswerLost, CallType, Call
  <2>5. \A b \in Callers :
          \/ call'[b] = call[b]
          \/ call'[b].pc = "returned"
          \/ /\ call[b].pc = "guarded" /\ call'[b].pc = "refunded"
             /\ call[b].order = o /\ call'[b].order = o /\ n = Asked(b)
             /\ call'[b].soFar = call[b].soFar /\ call'[b].delta = call[b].delta
    BY <2>1, <2>3, <2>4
  <2> HIDE DEF o, n
  <2> QED
    BY <2>1, <2>2, <2>5, RefundSettles
<1>3. ASSUME NEW o \in Orders, MarkPaid(o) PROVE SettledInv'
  BY <1>3 DEF MarkPaid, stripe, SettledInv, EventsTellSum, InFlight, HookEvent, SettlesOnce,
     Once, Intact, Settled
<1>4. ASSUME NEW x \in Items, DeleteItem(x) PROVE SettledInv'
  <2>1. UNCHANGED <<refunded, ledger, events, acked, call, hook, dropped>>
    BY <1>4 DEF DeleteItem, stripe
  <2>2. \A p \in Orders : /\ total'[p] <= total[p] /\ total[p] \in Nat /\ total'[p] \in Nat
                          /\ total'[p] # total[p] => total'[p] < total[p]
    <3>1. ItemOrder[x] \in Orders /\ Cost[x] \in Nat /\ Cost[x] > 0
      BY ItemsAssumption
    <3>2. total \in [Orders -> Nat]
      BY <1>0 DEF RowType
    <3> QED
      BY <1>4, <3>1, <3>2 DEF DeleteItem
  <2>3. EventsTellSum'
    BY <2>1 DEF SettledInv, EventsTellSum
  <2>4. InFlight'
    <3>1. ASSUME NEW c \in Callers, call[c].pc = "guarded", call[c].amount = Full
          PROVE  total'[call[c].order] <= call[c].soFar + call[c].delta
      <4>1. call[c].order \in Orders /\ call[c].soFar \in Nat /\ call[c].delta \in Nat
        BY <1>0, <3>1, CallFields
      <4>2. total[call[c].order] <= call[c].soFar + call[c].delta
        BY <3>1 DEF SettledInv, InFlight
      <4> QED
        BY <2>2, <4>1, <4>2
    <3> QED
      BY <2>1, <3>1 DEF SettledInv, InFlight, HookEvent
  <2>5. ASSUME NEW p \in Orders PROVE SettlesOnce(p)'
    <3>1. total[p] <= Charge[p] /\ Charge[p] \in Nat
      BY ItemsAssumption DEF LedgerInv
    <3>2. Intact(p)' => Intact(p)
      BY <2>1, <2>2, <3>1 DEF Intact
    <3>3. SettlesOnce(p)
      BY DEF SettledInv
    <3> QED
      BY <2>1, <3>2, <3>3, SettlesKept DEF Settled
  <2> QED
    BY <2>3, <2>4, <2>5 DEF SettledInv
<1>5. ASSUME NEW c \in Callers, NEW o \in Orders, NEW a, BeginRefund(c, o, a)
      PROVE  SettledInv'
  <2>1. call'[c].pc = "loaded" /\ \A b \in Callers : b # c => call'[b] = call[b]
    BY <1>0, <1>5 DEF BeginRefund, CallType, IdleCall
  <2> QED
    BY <1>5, <2>1, CallSettles DEF BeginRefund
<1>6. ASSUME NEW c \in Callers, CheckRefunded(c) PROVE SettledInv'
  <2> DEFINE o == call[c].order
  <2>1. /\ o \in Orders /\ call[c].amount \in Amount
        /\ refunded[o] \in Nat /\ total[o] \in Nat
    BY <1>0, <1>6, CallFields DEF CheckRefunded, RowType
  <2>2. /\ UNCHANGED <<row, refunded, stripe, hook>>
        /\ \A b \in Callers : b # c => call'[b] = call[b]
    BY <1>0, <1>6 DEF CheckRefunded, CallType
  <2>3. CASE AlreadyRefunded(o)
    <3>1. call'[c].pc = "returned"
      BY <1>0, <1>6, <2>3 DEF CheckRefunded, CallType, Call
    <3> QED
      BY <2>2, <3>1, CallSettles
  <2>4. CASE ~AlreadyRefunded(o)
    <3>1. /\ call'[c].pc = "guarded" /\ call'[c].order = o
          /\ call'[c].amount = call[c].amount /\ call'[c].soFar = refunded[o]
          /\ call'[c].delta = IF call[c].amount = Full THEN total[o] - refunded[o]
                              ELSE call[c].amount
      BY <1>0, <1>6, <2>4 DEF CheckRefunded, CallType, Call
    <3>2. call'[c].amount = Full =>
            total[call'[c].order] <= call'[c].soFar + call'[c].delta
      BY <2>1, <3>1
    <3>3. call'[c].pc # "refunded"
      BY <3>1
    <3> QED
      BY <2>2, <3>2, <3>3, CallSettles
  <2> QED
    BY <2>3, <2>4
<1>7. ASSUME NEW c \in Callers, StripeRefuses(c) \/ EndRefund(c) \/ CrashCall(c)
      PROVE  SettledInv'
  <2>1. /\ call'[c].pc \in {"returned", "idle"}
        /\ \A b \in Callers : b # c => call'[b] = call[b]
    BY <1>0, <1>7 DEF StripeRefuses, EndRefund, CrashCall, CallType, Call, IdleCall
  <2>2. UNCHANGED <<row, refunded, stripe, hook>>
    BY <1>7 DEF StripeRefuses, EndRefund, CrashCall
  <2> QED
    BY <2>1, <2>2, CallSettles
<1>8. ASSUME NEW c \in Callers, RecordRefund(c) PROVE SettledInv'
  <2>1. /\ call[c].pc = "refunded" /\ call[c].order \in Orders
        /\ refunded' = [refunded EXCEPT ![call[c].order] = NewAmount(c)]
        /\ UNCHANGED <<total, dropped, ledger, events, acked, hook>>
    BY <1>0, <1>8, CallFields DEF RecordRefund, row, stripe
  <2>2. call'[c].pc = "returned" /\ \A b \in Callers : b # c => call'[b] = call[b]
    BY <1>0, <1>8 DEF RecordRefund, CallType, Call
  <2>3. EventsTellSum'
    BY <2>1 DEF SettledInv, EventsTellSum
  <2>4. InFlight'
    BY <2>1, <2>2 DEF SettledInv, InFlight, HookEvent
  <2>5. ASSUME NEW o \in Orders PROVE SettlesOnce(o)'
    <3>1. SettlesOnce(o)
      BY DEF SettledInv
    <3>2. Once(o) /\ o = call[c].order => refunded'[o] = ledger[o].sum
      BY <1>0, <2>1, <3>1 DEF SettlesOnce, NewAmount, RowType
    <3>3. o # call[c].order => refunded'[o] = refunded[o]
      BY <1>0, <2>1 DEF RowType
    <3> QED
      BY <2>1, <2>2, <3>1, <3>2, <3>3, SettlesKept DEF Intact, Settled
  <2> QED
    BY <2>3, <2>4, <2>5 DEF SettledInv
<1>9. ASSUME NEW h \in Hooks, NEW e \in events, Deliver(h, e) PROVE SettledInv'
  <2>1. e \in Event
    BY <1>0 DEF StripeType
  <2>2. /\ hook'[h] = [pc |-> "received", order |-> e.order, sum |-> e.sum, count |-> e.count]
        /\ \A g \in Hooks : g # h => hook'[g] = hook[g]
        /\ UNCHANGED <<total, dropped, refunded, ledger, events, acked, call>>
    BY <1>0, <1>9 DEF Deliver, HookType, row, stripe
  <2>3. HookEvent(h)' = e
    BY <2>1, <2>2 DEF HookEvent, Event
  <2> QED
    BY <2>2, <2>3, HookSettles DEF SettledInv, EventsTellSum, Settled
<1>10. ASSUME NEW h \in Hooks, MatchOrder(h) PROVE SettledInv'
  <2>1. /\ hook[h].pc = "received" /\ hook'[h].order = hook[h].order
        /\ hook'[h].sum = hook[h].sum /\ hook'[h].count = hook[h].count
        /\ hook'[h].pc = "applied" => hook[h].order \in dropped'
        /\ dropped \subseteq dropped'
    BY <1>0, <1>10 DEF MatchOrder, HookType, Hook
  <2>2. /\ \A g \in Hooks : g # h => hook'[g] = hook[g]
        /\ UNCHANGED <<total, refunded, ledger, events, acked, call>>
    BY <1>0, <1>10 DEF MatchOrder, HookType, stripe
  <2>3. HookEvent(h)' \in events
    BY <2>1 DEF HookEvent, SettledInv, InFlight
  <2>4. \A o \in Orders : ~(hook'[h].pc = "applied" /\ hook'[h].order = o /\ Intact(o)')
    BY <2>1 DEF Intact
  <2>5. /\ acked' \subseteq events
        /\ \A o \in Orders : /\ o \in dropped => o \in dropped'
                             /\ Settled(o) => Settled(o)'
                             /\ \A e \in acked' : e \in acked
    BY <2>1, <2>2 DEF SettledInv, EventsTellSum, Settled
  <2> QED
    BY <2>2, <2>3, <2>4, <2>5, HookSettles
<1>11. ASSUME NEW h \in Hooks, ApplyRefunded(h) PROVE SettledInv'
  <2>1. /\ hook[h].pc = "matched" /\ hook'[h].order = hook[h].order
        /\ hook'[h].sum = hook[h].sum /\ hook'[h].count = hook[h].count
        /\ hook[h].order \in Orders
        /\ \A g \in Hooks : g # h => hook'[g] = hook[g]
    BY <1>0, <1>11 DEF ApplyRefunded, HookType, Hook
  <2>2. /\ refunded' = [refunded EXCEPT ![hook[h].order] = hook[h].sum]
        /\ UNCHANGED <<total, dropped, ledger, events, acked, call>>
    BY <1>11 DEF ApplyRefunded, Written, row, stripe
  <2>3. HookEvent(h) \in events /\ HookEvent(h)' = HookEvent(h)
    BY <2>1 DEF HookEvent, SettledInv, InFlight
  <2>4. ASSUME NEW o \in Orders, Once(o), o = hook[h].order
        PROVE  refunded'[o] = ledger[o].sum
    <3>1. PICK e \in events : e = HookEvent(h)
      BY <2>3
    <3>2. e.order = o /\ e.sum = hook[h].sum /\ e.count \in Nat
      BY <1>0, <2>4, <3>1 DEF HookEvent, StripeType, Event
    <3>3. e.count = ledger[o].count
      BY <2>4, <3>1, <3>2 DEF SettledInv, EventsTellSum, Once
    <3>4. e.sum = ledger[o].sum
      BY <3>2, <3>3 DEF SettledInv, EventsTellSum
    <3> QED
      BY <1>0, <2>2, <2>4, <3>2, <3>4 DEF RowType
  <2>5. \A o \in Orders : o # hook[h].order => refunded'[o] = refunded[o]
    BY <1>0, <2>2 DEF RowType
  <2>6. ASSUME NEW o \in Orders
        PROVE  /\ Once(o) /\ Settled(o) => Settled(o)'
               /\ hook'[h].order = o /\ Once(o) => Settled(o)'
    BY <2>1, <2>2, <2>4, <2>5 DEF Settled
  <2> QED
    BY <2>1, <2>2, <2>3, <2>6, HookSettles DEF SettledInv, EventsTellSum
<1>12. ASSUME NEW h \in Hooks, Respond(h) \/ CrashHook(h) PROVE SettledInv'
  <2>1. hook'[h].pc = "idle" /\ \A g \in Hooks : g # h => hook'[g] = hook[g]
    BY <1>0, <1>12 DEF Respond, CrashHook, HookType, IdleHook
  <2>2. UNCHANGED <<total, dropped, refunded, ledger, events, call>>
    BY <1>12 DEF Respond, CrashHook, row, stripe
  <2>3. \/ acked' = acked
        \/ /\ acked' = acked \cup {HookEvent(h)} /\ hook[h].pc = "applied"
           /\ HookEvent(h) \in events /\ HookEvent(h).order = hook[h].order
    BY <1>12 DEF Respond, CrashHook, stripe, SettledInv, InFlight, HookEvent
  <2>4. acked' \subseteq events
    BY <2>3 DEF SettledInv, EventsTellSum
  <2>5. ASSUME NEW o \in Orders, NEW e \in acked', e.order = o, Once(o)
        PROVE  e \in acked \/ Settled(o)
    BY <2>3, <2>5 DEF SettledInv, SettlesOnce
  <2> QED
    BY <2>1, <2>2, <2>4, <2>5, HookSettles DEF Settled
<1>13. CASE UNCHANGED vars
  BY <1>13 DEF vars, SettledInv, EventsTellSum, InFlight, HookEvent, SettlesOnce, Once,
     Intact, Settled
<1> QED
  BY <1>1, <1>2, <1>3, <1>4, <1>5, <1>6, <1>7, <1>8, <1>9, <1>10, <1>11, <1>12, <1>13
     DEF Next, Environment, RefundStep, HookStep

\* Once every event has been answered and nobody is at work, an order refunded at most once
\* that lost no product and no event says what Stripe refunded: whoever made the refund,
\* and whatever was lost, repeated, overtaken or killed.
THEOREM RecordSettles == Spec => []SettledRecord
<1>1. Init => SettledInv
  BY DEF Init, SettledInv, EventsTellSum, InFlight, SettlesOnce, Once, IdleCall, IdleHook
<1>2. TypeOK /\ LedgerInv /\ SettledInv => SettledRecord
  <2> SUFFICES ASSUME TypeOK, LedgerInv, SettledInv, Quiet,
                      NEW o \in Orders, ledger[o].count <= 1, Intact(o)
               PROVE  refunded[o] = ledger[o].sum
    BY DEF SettledRecord
  <2>1. ledger[o].count \in Nat /\ refunded[o] \in Nat /\ refunded[o] <= ledger[o].sum
    BY DEF TypeOK, RowType, StripeType, LedgerInv, RecordNotAhead
  <2>2. CASE ledger[o].count = 0
    BY <2>1, <2>2 DEF SettledInv, EventsTellSum
  <2>3. CASE ledger[o].count = 1
    <3>1. \E e \in acked : e.order = o
      BY <2>3 DEF SettledInv, EventsTellSum, Quiet
    <3> QED
      BY <2>3, <3>1 DEF SettledInv, SettlesOnce, Once, Settled
  <2> QED
    BY <2>1, <2>2, <2>3
<1> QED
  BY <1>1, <1>2, SettledNext, LedgerInvariant, TypeCorrect, PTL DEF Spec
=============================================================================
