------------------------------- MODULE OrderReview -------------------------------
(***************************************************************************)
(* Fraud signals of orders: evaluate (orders/fraud.py), which the webhook  *)
(* runs on an order it has just marked paid, and mark_rules_reviewed, the  *)
(* admin action with which an analyst accepts the flags.  Payments are     *)
(* those of PaymentWebhook; the action loads the selected orders, then     *)
(* saves two columns of each loaded instance.                              *)
(***************************************************************************)
EXTENDS PaymentWebhook, Sequences

CONSTANTS
  Fact,       \* what evaluate reads of an order: email and coupon ("" for none),
              \* hasAccount, fresh, sameEmail (its account), total, quantity, recent
  Limits,     \* the FRAUD_* settings
  Weight,     \* FRAUD_WEIGHT_<RULE>, or the registry's weight
  MayRaise,   \* rules whose check may raise
  Analysts

Registry == <<"velocity_email", "large_total", "bulk_quantity",
              "new_account_high_value", "identity_mismatch", "coupon_velocity">>
Rules == {Registry[i] : i \in 1..Len(Registry)}

ASSUME ReviewAssumption ==
  /\ \A o \in Orders : Fact[o].total \in Nat /\ Fact[o].quantity \in Nat
  /\ \A f \in DOMAIN Limits : Limits[f] \in Nat
  /\ Weight \in [Rules -> Nat]
  /\ MayRaise \subseteq Rules

VARIABLES
  signals,   \* Order.fraud_score, is_flagged, the rules fraud_notes names (in registry
             \* order) and its 'reviewed: ' prefix
  verdict,   \* history: what evaluate returned when the order was scored
  review     \* the order each analyst's action has loaded, with its notes

reviewVars == <<signals, verdict, review>>

NoSignals == [score |-> 0, flagged |-> FALSE, notes |-> {}, reviewed |-> FALSE]
NoReview == [order |-> NoOrder, notes |-> {}, score |-> 0]

Signals == [score : 0..100, flagged : BOOLEAN, notes : SUBSET Rules, reviewed : BOOLEAN]

ReviewTypeOK ==
  /\ TypeOK
  /\ signals \in [Orders -> Signals]
  /\ verdict \in [Orders -> [score : 0..100, notes : SUBSET Rules]]
  /\ review \in [Analysts -> [order : Orders \cup {NoOrder}, notes : SUBSET Rules, score : 0..100]]

ReviewInit ==
  /\ Init
  /\ signals = [o \in Orders |-> NoSignals]
  /\ verdict = [o \in Orders |-> [score |-> 0, notes |-> {}]]
  /\ review = [a \in Analysts |-> NoReview]

-----------------------------------------------------------------------------
(* evaluate(order) *)

\* Other orders of the window that agree on a field (orders are never dated later
\* than now).
Siblings(o, field) ==
  {p \in exists \ {o} : Fact[p].recent /\ Fact[p][field] = Fact[o][field]}

Fires(o, rule) ==
  CASE rule = "velocity_email" ->
         Fact[o].email # "" /\ Cardinality(Siblings(o, "email")) >= Limits.email
    [] rule = "large_total" -> Fact[o].total >= Limits.large
    [] rule = "bulk_quantity" -> Fact[o].quantity > 0 /\ Fact[o].quantity >= Limits.bulk
    [] rule = "new_account_high_value" ->
         Fact[o].hasAccount /\ Fact[o].fresh /\ Fact[o].total >= Limits.newTotal
    [] rule = "identity_mismatch" -> Fact[o].hasAccount /\ ~Fact[o].sameEmail
    [] rule = "coupon_velocity" ->
         Fact[o].coupon # "" /\ Cardinality(Siblings(o, "coupon")) >= Limits.coupon

\* A rule that raises did not fire.
Fired(o, raised) == {rule \in Rules \ raised : Fires(o, rule)}

\* The sum of the weights, capped at 100 after each rule.
AddWeight(score, rule) == IF score + Weight[rule] > 100 THEN 100 ELSE score + Weight[rule]
Score(fired) ==
  LET upTo[i \in 0..Len(Registry)] ==
        IF i = 0 THEN 0
        ELSE IF Registry[i] \in fired THEN AddWeight(upTo[i - 1], Registry[i])
        ELSE upTo[i - 1]
  IN  upTo[Len(Registry)]

Flagged(score) == score >= Limits.flag

\* Any step of the shop (it scores one order at most); the one that scores an order also stores its signals.
\* evaluate runs on the rows as they are at its UPDATE.
ScoredNow(o) == runs'[o]["fraud"] # runs[o]["fraud"]

ShopStep ==
  /\ Next
  /\ \/ (\A o \in Orders : ~ScoredNow(o)) /\ UNCHANGED <<signals, verdict>>
     \/ \E o \in Orders, raised \in SUBSET MayRaise :
          LET flags == Fired(o, raised)
              score == Score(flags)
          IN
          /\ ScoredNow(o)
          /\ verdict' = [verdict EXCEPT ![o] = [score |-> score, notes |-> flags]]
          /\ signals' = [signals EXCEPT ![o] =
               [score |-> score, flagged |-> Flagged(score), notes |-> flags,
                reviewed |-> FALSE]]
  /\ UNCHANGED review

-----------------------------------------------------------------------------
(* mark_rules_reviewed *)

LoadForReview(a, o) ==
  /\ review[a] = NoReview
  /\ o \in exists
  /\ review' = [review EXCEPT ![a] =
       [order |-> o, notes |-> signals[o].notes, score |-> signals[o].score]]
  /\ UNCHANGED <<vars, signals, verdict>>

\* save(update_fields=['is_flagged', 'fraud_notes']); on a deleted order it raises.
\* Mutant: save() of every column.
SavedWhole(a) == [score |-> review[a].score, flagged |-> FALSE,
                  notes |-> review[a].notes, reviewed |-> TRUE]
Saved(a) == [score |-> signals[review[a].order].score, flagged |-> FALSE,
             notes |-> review[a].notes, reviewed |-> TRUE]

SaveReview(a) ==
  LET o == review[a].order IN
  /\ review[a] # NoReview
  /\ signals' = IF o \in exists THEN [signals EXCEPT ![o] = Saved(a)] ELSE signals
  /\ review' = [review EXCEPT ![a] = NoReview]
  /\ UNCHANGED <<vars, verdict>>

ReviewNext ==
  \/ ShopStep
  \/ \E a \in Analysts : SaveReview(a) \/ \E o \in Orders : LoadForReview(a, o)

ReviewSpec == ReviewInit /\ [][ReviewNext]_<<vars, reviewVars>>

-----------------------------------------------------------------------------
(* Properties *)

\* An order never scored carries no signals; a scored one has the score evaluate gave
\* it and, until an analyst accepts them, its rules and its flag.
SignalsStandOf(o) ==
  IF runs[o]["fraud"] = 0
  THEN signals[o].score = 0 /\ ~signals[o].flagged /\ signals[o].notes = {}
  ELSE /\ signals[o].score = verdict[o].score
       /\ ~signals[o].reviewed => /\ signals[o].notes = verdict[o].notes
                                  /\ signals[o].flagged <=> Flagged(verdict[o].score)

\* A scored order keeps the score evaluate gave it, whatever analysts save meanwhile,
\* and until one of them accepts the flags it is flagged exactly from the threshold
\* on, with the rules that fired named; an order never scored carries none of it.
SignalsStand == \A o \in Orders : SignalsStandOf(o)

\* "The score and the triggered rule names stay in the audit trail" (docstring of
\* mark_rules_reviewed): an order that was scored names its rules, reviewed or not.
RulesStayNamed == \A o \in Orders : signals[o].notes = verdict[o].notes
=============================================================================
