-------------------------------- MODULE Returns --------------------------------
(***************************************************************************)
(* Return requests on top of Refunds: customers submit requests for an     *)
(* item or a whole order, analysts run the actions of ReturnRequestAdmin   *)
(* on them.  An action loads the selected requests once, then decides on   *)
(* each loaded instance and saves it: between the two another analyst, a   *)
(* webhook or the customer may have changed the row.                       *)
(***************************************************************************)
EXTENDS Refunds

CONSTANTS
  Requests,
  RequestItem,     \* the item a request is for, or WholeOrder
  RequestOrder,
  WholeOrder,
  NoRequest

ASSUME RequestsAssumption ==
  /\ RequestOrder \in [Requests -> Orders]
  /\ RequestItem \in [Requests -> Items \cup {WholeOrder}]
  /\ \A r \in Requests : RequestItem[r] # WholeOrder =>
       ItemOrder[RequestItem[r]] = RequestOrder[r]
  /\ WholeOrder \notin Items /\ NoRequest \notin Requests

VARIABLES
  status,     \* ReturnRequest.status ("NONE" before it is submitted)
  resolvedBy, \* ReturnRequest.refund_id
  job,        \* the admin action each caller runs, with the loaded instance
  issued      \* history: the Stripe refunds made for each request

requests == <<status, resolvedBy, job, issued>>
allVars == <<vars, requests>>

Status == {"NONE", "SUBMITTED", "APPROVED", "REFUNDED", "REJECTED", "CANCELED"}
Actions == {"approve", "reject", "cancel", "refund"}
Job == [kind : Actions \cup {"none", "refunding", "full"}, request : Requests \cup {NoRequest},
        seen : Status, scoped : BOOLEAN]
NoJob == [kind |-> "none", request |-> NoRequest, seen |-> "NONE", scoped |-> FALSE]

JobType ==
  /\ status \in [Requests -> Status]
  /\ job \in [Callers -> Job]
  /\ \A c \in Callers : job[c].kind \in Actions \cup {"refunding"} => job[c].request \in Requests

ReturnsTypeOK ==
  /\ TypeOK /\ JobType
  /\ resolvedBy \in [Requests -> Nat]
  /\ issued \in [Requests -> [count : Nat, sum : Nat, last : Nat]]
  /\ \A c \in Callers : job[c].kind \in {"refunding", "full"} <=> call[c].pc # "idle"

ReturnsInit ==
  /\ Init
  /\ status = [r \in Requests |-> "NONE"]
  /\ resolvedBy = [r \in Requests |-> 0]
  /\ job = [c \in Callers |-> NoJob]
  /\ issued = [r \in Requests |-> [count |-> 0, sum |-> 0, last |-> 0]]

-----------------------------------------------------------------------------
(* The customer *)

\* return_request_create: a paid order, an item that is (still) on it.
Submit(r) ==
  /\ status[r] = "NONE"
  /\ paid[RequestOrder[r]]
  /\ RequestItem[r] \in items \cup {WholeOrder}
  /\ status' = [status EXCEPT ![r] = "SUBMITTED"]
  /\ UNCHANGED <<vars, resolvedBy, job, issued>>

-----------------------------------------------------------------------------
(* ReturnRequestAdmin *)

\* The queryset is evaluated.  The item of a request is NULL once it is deleted
\* (SET_NULL), and a request without an item is one for the whole order.
LoadRequest(c, kind, r) ==
  /\ job[c].kind = "none"
  /\ status[r] # "NONE"
  /\ job' = [job EXCEPT ![c] = [kind |-> kind, request |-> r, seen |-> status[r],
                                scoped |-> RequestItem[r] \in items]]
  /\ UNCHANGED <<vars, status, resolvedBy, issued>>

Seen(c, allowed) == job[c].seen \in allowed

\* save(update_fields=['status', 'updated']) on the loaded instance.
SaveStatus(c, kind, allowed, new) ==
  /\ job[c].kind = kind
  /\ status' = IF Seen(c, allowed) THEN [status EXCEPT ![job[c].request] = new] ELSE status
  /\ job' = [job EXCEPT ![c] = NoJob]
  /\ UNCHANGED <<vars, resolvedBy, issued>>

Approve(c) == SaveStatus(c, "approve", {"SUBMITTED"}, "APPROVED")
Reject(c) == SaveStatus(c, "reject", {"SUBMITTED", "APPROVED"}, "REJECTED")
MarkCanceledAny(c) == SaveStatus(c, "cancel", Status, "CANCELED")   \* mutant: unguarded
MarkCanceled(c) == SaveStatus(c, "cancel", Status \ {"REFUNDED", "REJECTED"}, "CANCELED")

\* mark_refunded skips a request that was not approved when it was loaded ...
ApprovedOrDone(c) == Seen(c, {"APPROVED", "REFUNDED"})   \* mutant: also a done one
Approved(c) == Seen(c, {"APPROVED"})

SkipRefund(c) ==
  /\ job[c].kind = "refund"
  /\ ~Approved(c)
  /\ job' = [job EXCEPT ![c] = NoJob]
  /\ UNCHANGED <<vars, status, resolvedBy, issued>>

\* ... and asks refund_order for the item's cost, or for everything.
WholeAlways(c) == Full   \* mutant: is_full_order() not asked
RefundAmount(c) == IF job[c].scoped THEN Cost[RequestItem[job[c].request]] ELSE Full

StartRefund(c) ==
  /\ job[c].kind = "refund"
  /\ Approved(c)
  /\ BeginRefund(c, RequestOrder[job[c].request], RefundAmount(c))
  /\ job' = [job EXCEPT ![c].kind = "refunding"]
  /\ UNCHANGED <<status, resolvedBy, issued>>

\* A step of refund_order; a Stripe refund is booked to the request.
RefundForRequest(c) ==
  LET r == job[c].request
      n == ledger'[RequestOrder[r]].sum - ledger[RequestOrder[r]].sum
  IN
  /\ job[c].kind = "refunding"
  /\ RefundStep(c)
  /\ issued' = [issued EXCEPT ![r] =
       IF n = 0 THEN @
       ELSE [count |-> @.count + 1, sum |-> @.sum + n,
             last |-> ledger'[RequestOrder[r]].count]]
  /\ UNCHANGED <<status, resolvedBy, job>>

\* On success the order's refund id is read back and the request closed; on
\* failure it stays as it is.
ReportedAlways(c) == TRUE   \* mutant: the result is not looked at
Reported(c) == call[c].ok

CloseRequest(c) ==
  LET r == job[c].request IN
  /\ job[c].kind = "refunding"
  /\ EndRefund(c)
  /\ \/ /\ Reported(c)
        /\ status' = [status EXCEPT ![r] = "REFUNDED"]
        /\ resolvedBy' = [resolvedBy EXCEPT ![r] = refundId[RequestOrder[r]]]
     \/ ~Reported(c) /\ UNCHANGED <<status, resolvedBy>>
  /\ job' = [job EXCEPT ![c] = NoJob]
  /\ UNCHANGED issued

\* OrderAdmin.issue_full_refund next to it.
IssueFullRefund(c, o) ==
  /\ job[c].kind = "none"
  /\ BeginRefund(c, o, Full)
  /\ job' = [job EXCEPT ![c].kind = "full"]
  /\ UNCHANGED <<status, resolvedBy, issued>>

FullRefundStep(c) ==
  /\ job[c].kind = "full"
  /\ \/ RefundStep(c) /\ UNCHANGED job
     \/ EndRefund(c) /\ job' = [job EXCEPT ![c] = NoJob]
  /\ UNCHANGED <<status, resolvedBy, issued>>

\* The worker is killed somewhere in the action (before refund_order: nothing but
\* the loaded instance is lost, so this needs no bound).
CrashJob(c) ==
  /\ \/ CrashCall(c)
     \/ job[c].kind \in Actions /\ UNCHANGED vars
  /\ job' = [job EXCEPT ![c] = NoJob]
  /\ UNCHANGED <<status, resolvedBy, issued>>

ReturnsNext ==
  \/ Environment /\ UNCHANGED requests
  \/ \E r \in Requests : Submit(r)
  \/ \E c \in Callers :
       \/ \E r \in Requests, kind \in Actions : LoadRequest(c, kind, r)
       \/ Approve(c) \/ Reject(c) \/ MarkCanceled(c)
       \/ SkipRefund(c) \/ StartRefund(c) \/ RefundForRequest(c) \/ CloseRequest(c)
       \/ \E o \in Orders : IssueFullRefund(c, o)
       \/ FullRefundStep(c) \/ CrashJob(c)

ReturnsSpec == ReturnsInit /\ [][ReturnsNext]_allVars

-----------------------------------------------------------------------------
(* Properties *)

\* A request says REFUNDED only if Stripe made a refund for it: no crash, lost
\* answer, refusal or overlapping action closes one without the money.
RefundedMeansIssued ==
  \A r \in Requests : status[r] = "REFUNDED" => issued[r].count > 0

\* "A double click or a webhook replay can never refund twice": one request
\* leads to one Stripe refund.
IssuedAtMostOnce == \A r \in Requests : issued[r].count <= 1

\* A request that was refunded or rejected keeps that status.
TerminalStays ==
  [][\A r \in Requests :
       status[r] \in {"REFUNDED", "REJECTED"} => status'[r] = status[r]]_allVars

\* A request for an item refunds at most the item's cost, each time it is refunded.
ItemRefundsItsCost ==
  \A r \in Requests : RequestItem[r] # WholeOrder =>
    issued[r].sum <= issued[r].count * Cost[RequestItem[r]]
=============================================================================
