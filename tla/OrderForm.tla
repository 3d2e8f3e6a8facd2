-------------------------------- MODULE OrderForm --------------------------------
(***************************************************************************)
(* The change form of an order in the admin (OrderAdmin): it shows a row   *)
(* when it is opened and, submitted, saves every column as it was shown.   *)
(* None of its fields is read-only.  What an analyst types is left out     *)
(* (an address, say): the payment and fraud columns go back as they came.  *)
(* The check that the order still exists and its save are one step: that   *)
(* the save inserts a row deleted between the two again is left out.       *)
(***************************************************************************)
EXTENDS OrderReview

CONSTANT MaxReverts   \* bound: how many outdated forms of an order may be submitted

ASSUME FormAssumption == MaxReverts \in Nat /\ IsFiniteSet(Workers)

VARIABLES
  form,      \* the form each analyst has open: the order and its columns as shown
  reverted   \* history: how many forms of an order were submitted after it had changed

formVars == <<form, reverted>>

Shown(o) == [order |-> o, row |-> order[o], signals |-> signals[o]]
NoForm == [order |-> NoOrder, row |-> NewOrder, signals |-> NoSignals]

FormTypeOK ==
  /\ ReviewTypeOK
  /\ form \in [Analysts -> [order : Orders \cup {NoOrder}, row : OrderRow, signals : Signals]]
  /\ reverted \in [Orders -> 0..MaxReverts]

FormInit ==
  /\ ReviewInit
  /\ form = [a \in Analysts |-> NoForm]
  /\ reverted = [o \in Orders |-> 0]

OpenForm(a, o) ==
  /\ form[a].order = NoOrder
  /\ o \in exists
  /\ form' = [form EXCEPT ![a] = Shown(o)]
  /\ UNCHANGED <<vars, reviewVars, reverted>>

\* What the submitted form writes.
\* Mutant: paid is read-only and stripe_id is not.
WrittenPart(a) == [form[a].row EXCEPT !.paid = order[form[a].order].paid]
Written(a) == form[a].row

\* Submitted for an order that is gone, the form answers with an error.
SubmitForm(a) ==
  LET o == form[a].order
      outdated == o \in exists /\ form[a] # Shown(o)
  IN
  /\ o # NoOrder
  /\ form' = [form EXCEPT ![a] = NoForm]
  /\ IF o \in exists
     THEN /\ order' = [order EXCEPT ![o] = Written(a)]
          /\ signals' = [signals EXCEPT ![o] = form[a].signals]
     ELSE UNCHANGED <<order, signals>>
  /\ IF outdated
     THEN /\ reverted[o] < MaxReverts
          /\ reverted' = [reverted EXCEPT ![o] = @ + 1]
     ELSE UNCHANGED reverted
  /\ UNCHANGED <<exists, stripe, acked, tab, pc, evt, runs, faults, verdict, review>>

FormNext ==
  \/ ReviewNext /\ UNCHANGED formVars
  \/ \E a \in Analysts : SubmitForm(a) \/ \E o \in Orders : OpenForm(a, o)

FormSpec == FormInit /\ [][FormNext]_<<vars, reviewVars, formVars>>

-----------------------------------------------------------------------------
(* Properties *)

\* What an outdated form costs: the gate of stripe_webhook reads a column that the form
\* writes back, so each effect of an order may happen once more for every such form,
\* but never more often than that.
RepeatedPerRevert ==
  \A o \in Orders, e \in Effects : runs[o][e] <= 1 + reverted[o]

\* Stripe is told 200 only about a charge that is on its order, in stripe_id, unless an
\* outdated form of that order was submitted or the order is gone.  Left out by name: the
\* second charge of an order whose key was forgotten, which is answered and on no order.
AckedUnlessReverted ==
  \A i \in acked :
    owner[i] \in exists /\ reverted[owner[i]] = 0 => OnOrder(i) \/ Superseded(i)

\* The signals of an order stand unless an outdated form of that very order was
\* submitted, whatever happens to the others.
SignalsUnlessReverted ==
  \A o \in Orders : reverted[o] = 0 => SignalsStandOf(o)
=============================================================================
