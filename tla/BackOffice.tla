------------------------------- MODULE BackOffice -------------------------------
(***************************************************************************)
(* Refunds and return requests in three settings, fixed at the start of a  *)
(* behaviour and explored side by side:                                    *)
(*   "refunds"  refund_order and the charge.refunded webhook under every   *)
(*              fault, no return requests (module Refunds);                *)
(*   "many"     any number of analysts on some of the requests, killed     *)
(*              workers, lost answers and deleted products, no deliveries; *)
(*   "one"      one analyst at a time on every request, and the            *)
(*              charge.refunded deliveries next to them; no killed worker  *)
(*              inside refund_order, no lost answer, no deleted product.   *)
(* What a setting leaves out is held fixed.                                *)
(***************************************************************************)
EXTENDS Returns

CONSTANT Contended   \* the requests submitted in the setting "many"

VARIABLES
  setting,
  crossed   \* history: requests an event of whose order came before the read-back

officeVars == <<allVars, setting, crossed>>

BackOfficeInit ==
  /\ ReturnsInit
  /\ setting \in {"refunds", "many", "one"}
  /\ crossed = {}

RefundsAlone == Next /\ UNCHANGED <<requests, crossed>>

ManyAnalysts ==
  /\ ReturnsNext
  /\ hook' = hook /\ crossed' = crossed
  /\ \A r \in Requests \ Contended : status'[r] = "NONE"

AnswerIsLost ==
  \E c \in Callers :
    call[c].pc = "guarded" /\ call'[c].pc = "returned" /\ ledger' # ledger

OneAtATime == \A b, c \in Callers : job[b] # NoJob /\ job[c] # NoJob => b = c

\* refund_order has reported the refund of request r, and mark_refunded has not yet
\* read the order's refund id back (returns/admin.py:136).
ReadingBack(c, r) == job[c].kind = "refunding" /\ job[c].request = r /\ call[c].ok

\* A delivery replaces that id meanwhile, by another or a blank one.
Crossing(r) ==
  /\ \E c \in Callers : ReadingBack(c, r)
  /\ refundId'[RequestOrder[r]] # refundId[RequestOrder[r]]

OneAnalyst ==
  /\ ReturnsNext
  /\ items' = items /\ crashes' = crashes
  /\ ~AnswerIsLost /\ OneAtATime'
  /\ crossed' = crossed \cup {r \in Requests : Crossing(r)}

BackOfficeNext ==
  /\ \/ setting = "refunds" /\ RefundsAlone
     \/ setting = "many" /\ ManyAnalysts
     \/ setting = "one" /\ OneAnalyst
  /\ setting' = setting

BackOfficeSpec == BackOfficeInit /\ [][BackOfficeNext]_officeVars

-----------------------------------------------------------------------------
(* Properties *)

\* The rows, Stripe's ledger, the calls and the admin actions keep their types, and
\* an analyst's action is inside refund_order exactly while its call is open.
BackOfficeTypeOK == IF setting = "refunds" THEN TypeOK ELSE ReturnsTypeOK

\* One analyst at a time and no fault: the promise of ReturnRequest ("never refund
\* twice") is kept for every request, whatever is delivered meanwhile.
OneAnalystRefundsOnce == setting = "one" => IssuedAtMostOnce

\* One analyst at a time: an item's request takes the item's cost from the charge,
\* never the rest of the order.  No product is deleted in this setting: a request
\* whose item is gone is one for the whole order and refunds all that remains.
OneAnalystRefundsCost == setting = "one" => ItemRefundsItsCost

\* One analyst at a time: the refund id read back from the order is the one of the
\* refund made for this request, also after other refunds of the same order and with
\* their events arriving at any time, unless one was applied to the order between
\* refund_order's UPDATE and the read-back: then it is that event's id, or blank.
OneAnalystOwnRefund ==
  setting = "one" =>
    \A r \in Requests \ crossed : status[r] = "REFUNDED" => resolvedBy[r] = issued[r].last

\* One analyst at a time: a request that was refunded or rejected keeps that status,
\* whichever action selects it again.
OneAnalystTerminalStays ==
  [][setting = "one" => \A r \in Requests :
       status[r] \in {"REFUNDED", "REJECTED"} => status'[r] = status[r]]_officeVars
=============================================================================
