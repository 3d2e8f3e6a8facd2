------------------------------ MODULE MCOrderForm ------------------------------
(***************************************************************************)
(* Instances of OrderForm for TLC, in four parts fixed at the start:       *)
(*   "payment"  the whole of PaymentWebhook on two orders, no analyst;     *)
(*   "rules"    one session, one delivery at a time and no fault, with     *)
(*              analysts that accept flags and rules that raise;           *)
(*   "forms"    on the first order and without a fault, two analysts with  *)
(*              forms;                                                     *)
(*   "both"     on the first order, one delivery at a time, a kill, one    *)
(*              analyst with forms and one that accepts flags.             *)
(* The first order fires every rule (their weights add up to 160); it was  *)
(* placed before the window that counts the second one as its sibling.     *)
(* The limits are small stand-ins for the settings' defaults.              *)
(***************************************************************************)
EXTENDS OrderForm, TLC

CONSTANTS o1, o2, a1, a2

VARIABLE part

MCFact ==
  o1 :> [email |-> "e", hasAccount |-> TRUE, fresh |-> TRUE, sameEmail |-> FALSE,
         total |-> 10, quantity |-> 5, coupon |-> "c", recent |-> FALSE]
  @@ o2 :> [email |-> "e", hasAccount |-> FALSE, fresh |-> FALSE, sameEmail |-> FALSE,
            total |-> 3, quantity |-> 5, coupon |-> "c", recent |-> TRUE]
MCLimits == [flag |-> 40, email |-> 1, large |-> 10, bulk |-> 5, newTotal |-> 3, coupon |-> 1]
MCWeight == "velocity_email" :> 40 @@ "large_total" :> 30 @@ "bulk_quantity" :> 20
  @@ "new_account_high_value" :> 30 @@ "identity_mismatch" :> 15 @@ "coupon_velocity" :> 25

NoneRaised == \A o \in Orders : ScoredNow(o) => verdict'[o].notes = Fired(o, {})
NoFault == faults' = faults
NoRefusal == refusals' = refusals
OneSession == Cardinality({i \in Intents : sess'[i] # "unused"}) <= 1
OneDelivery == Cardinality({w \in Workers : pc'[w] # "idle"}) <= 1
KeysKept == \A o \in Orders : key[o] = NoIntent \/ key'[o] = key[o]
FirstOrder ==
  /\ o2 \in exists'
  /\ \A t \in Tabs : tab'[t] # o2
  /\ \A a \in Analysts : form'[a].order # o2 /\ review'[a].order # o2

MCInit == FormInit /\ part \in {"payment", "rules", "forms", "both"}

MCNext ==
  /\ \/ part = "payment" /\ ShopStep /\ NoneRaised /\ UNCHANGED formVars
     \/ /\ part = "rules" /\ ReviewNext /\ UNCHANGED formVars
        /\ OneSession /\ OneDelivery /\ NoFault /\ review'[a2] = NoReview
     \/ part = "forms" /\ FormNext /\ NoFault /\ review' = review
     \/ part = "both" /\ FormNext /\ OneDelivery /\ form'[a2] = NoForm /\ review'[a1] = NoReview
  /\ part \in {"forms", "both"} => FirstOrder /\ NoneRaised /\ NoRefusal /\ KeysKept
  /\ part' = part

MCSpec == MCInit /\ [][MCNext]_<<vars, reviewVars, formVars, part>>

\* Sessions and workers are interchangeable.
Symmetry == Permutations(Intents) \cup Permutations(Workers)
=============================================================================
