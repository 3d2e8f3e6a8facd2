----------------------------- MODULE ReturnsProofs -----------------------------
(***************************************************************************)
(* Machine-checked proofs about Returns: the return actions use            *)
(* refund_order only as Refunds says, so what is proved there holds here;  *)
(* and no request is closed as refunded without a Stripe refund for it.    *)
(* Then those about the settings of BackOffice: what holds of every        *)
(* request as long as one analyst works at a time.                         *)
(***************************************************************************)
EXTENDS BackOffice, RefundsProofs

\* The loaded jobs keep their types, whatever refund_order does meanwhile.
THEOREM JobTypeCorrect == ReturnsSpec => []JobType
<1>1. ReturnsInit => JobType
  BY DEF ReturnsInit, JobType, Status, Job, NoJob, Actions
<1>2. JobType /\ [ReturnsNext]_allVars => JobType'
  <2> SUFFICES ASSUME JobType, [ReturnsNext]_allVars PROVE JobType'
    OBVIOUS
  <2>1. CASE UNCHANGED requests
    BY <2>1 DEF requests, JobType
  <2>2. ASSUME NEW r \in Requests, Submit(r) PROVE JobType'
    BY <2>2 DEF Submit, JobType, Status
  <2>3. ASSUME NEW c \in Callers, NEW k \in Job, job' = [job EXCEPT ![c] = k],
               k.kind \in Actions \cup {"refunding"} => k.request \in Requests,
               status' \in [Requests -> Status]
        PROVE  JobType'
    BY <2>3 DEF JobType
  <2>4. NoJob \in Job /\ NoJob.kind = "none"
    BY DEF NoJob, Job, Status
  <2>5. "none" \notin Actions \cup {"refunding"} /\ "full" \notin Actions \cup {"refunding"}
    BY DEF Actions
  <2>6. status \in [Requests -> Status]
    BY DEF JobType
  <2>7. ASSUME NEW c \in Callers, NEW r \in Requests, NEW kind \in Actions,
               LoadRequest(c, kind, r)
        PROVE  JobType'
    <3> DEFINE k == [kind |-> kind, request |-> r, seen |-> status[r],
                     scoped |-> RequestItem[r] \in items]
    <3>1. k \in Job /\ k.request = r
      BY <2>6 DEF Job
    <3>2. job' = [job EXCEPT ![c] = k] /\ status' = status
      BY <2>7 DEF LoadRequest
    <3> HIDE DEF k
    <3> QED
      BY <2>3, <2>6, <3>1, <3>2
  <2>8. ASSUME NEW c \in Callers, job[c].kind \in Actions, NEW kind, NEW allowed,
               NEW new \in Status, SaveStatus(c, kind, allowed, new)
        PROVE  JobType'
    <3>1. status' \in [Requests -> Status]
      BY <2>6, <2>8 DEF SaveStatus
    <3>2. job' = [job EXCEPT ![c] = NoJob]
      BY <2>8 DEF SaveStatus
    <3> QED
      BY <2>3, <2>4, <2>5, <3>1, <3>2
  <2>9. ASSUME NEW c \in Callers, Approve(c) \/ Reject(c) \/ MarkCanceled(c)
        PROVE  JobType'
    <3>1. job[c].kind \in Actions
      BY <2>9 DEF Approve, Reject, MarkCanceled, SaveStatus, Actions
    <3>2. {"APPROVED", "REJECTED", "CANCELED"} \subseteq Status
      BY DEF Status
    <3> QED
      BY <2>8, <2>9, <3>1, <3>2 DEF Approve, Reject, MarkCanceled
  <2>10. ASSUME NEW c \in Callers, UNCHANGED status, job' = [job EXCEPT ![c] = NoJob]
         PROVE  JobType'
    BY <2>3, <2>4, <2>5, <2>6, <2>10
  <2>11. ASSUME NEW c \in Callers, NEW kind \in {"refunding", "full"}, UNCHANGED status,
                job' = [job EXCEPT ![c].kind = kind],
                kind = "refunding" => job[c].kind = "refund"
         PROVE  JobType'
    <3> DEFINE k == [job[c] EXCEPT !.kind = kind]
    <3>1. k \in Job /\ (k.kind \in Actions \cup {"refunding"} => k.request \in Requests)
      BY <2>5, <2>11 DEF JobType, Job, Actions
    <3>2. job' = [job EXCEPT ![c] = k]
      BY <2>11
    <3> HIDE DEF k
    <3> QED
      BY <2>3, <2>6, <2>11, <3>1, <3>2
  <2>12. ASSUME NEW c \in Callers, SkipRefund(c) \/ CrashJob(c) PROVE JobType'
    BY <2>10, <2>12 DEF SkipRefund, CrashJob
  <2>13. ASSUME NEW c \in Callers, StartRefund(c) PROVE JobType'
    BY <2>11, <2>13 DEF StartRefund
  <2>14. ASSUME NEW c \in Callers, NEW o \in Orders, IssueFullRefund(c, o) PROVE JobType'
    BY <2>11, <2>14 DEF IssueFullRefund
  <2>15. ASSUME NEW c \in Callers, RefundForRequest(c) PROVE JobType'
    BY <2>15 DEF RefundForRequest, JobType
  <2>16. ASSUME NEW c \in Callers, FullRefundStep(c) PROVE JobType'
    <3>1. CASE UNCHANGED job
      BY <2>16, <3>1 DEF FullRefundStep, JobType
    <3>2. CASE job' = [job EXCEPT ![c] = NoJob]
      BY <2>10, <2>16, <3>2 DEF FullRefundStep
    <3> QED
      BY <2>16, <3>1, <3>2 DEF FullRefundStep
  <2>17. ASSUME NEW c \in Callers, CloseRequest(c) PROVE JobType'
    <3>1. status' \in [Requests -> Status]
      BY <2>6, <2>17 DEF CloseRequest, Status
    <3>2. job' = [job EXCEPT ![c] = NoJob]
      BY <2>17 DEF CloseRequest
    <3> QED
      BY <2>3, <2>4, <2>5, <3>1, <3>2
  <2> QED
    BY <2>1, <2>2, <2>7, <2>9, <2>12, <2>13, <2>14, <2>15, <2>16, <2>17
    DEF ReturnsNext, allVars, requests
<1> QED
  BY <1>1, <1>2, PTL DEF ReturnsSpec

\* A job that asks for an item's cost is one for an item of the order.
ScopeInv ==
  /\ items \subseteq Items
  /\ \A c \in Callers : job[c].scoped =>
       job[c].request \in Requests /\ RequestItem[job[c].request] \in Items

\* Loading scopes a job to an item the order still has; later deletions keep that.
LEMMA ScopeCorrect == ReturnsSpec => []ScopeInv
<1>1. ReturnsInit => ScopeInv
  BY DEF ReturnsInit, Init, ScopeInv, NoJob
<1>2. JobType /\ ScopeInv /\ [ReturnsNext]_allVars => ScopeInv'
  <2> SUFFICES ASSUME JobType, ScopeInv, [ReturnsNext]_allVars PROVE ScopeInv'
    OBVIOUS
  <2>1. items' \subseteq items
    <3>1. CASE Environment
      BY <3>1 DEF Environment, row, stripe, MarkPaid, DashboardRefund, DeleteItem,
         HookStep, MatchOrder, ApplyRefunded, Respond, CrashHook, Deliver
    <3>2. ASSUME NEW c \in Callers, RefundStep(c) \/ EndRefund(c) \/ CrashCall(c)
          PROVE  UNCHANGED items
      BY <3>2 DEF RefundStep, row, CheckRefunded, StripeRefunds, StripeRefuses, AnswerLost,
         RecordRefund, EndRefund, CrashCall
    <3>3. ASSUME NEW c, NEW o, NEW a, BeginRefund(c, o, a) PROVE UNCHANGED items
      BY <3>3 DEF BeginRefund, row
    <3>4. UNCHANGED vars => UNCHANGED items
      BY DEF vars
    <3> QED
      BY <3>1, <3>2, <3>3, <3>4
      DEF ReturnsNext, allVars, Submit, LoadRequest, Approve, Reject, MarkCanceled, SaveStatus,
          SkipRefund, StartRefund, RefundForRequest, CloseRequest, IssueFullRefund,
          FullRefundStep, CrashJob
  \* The loaded instance is dropped, or kept with another kind, or read afresh.
  <2>2. ASSUME NEW c \in Callers,
               \/ UNCHANGED job
               \/ job' = [job EXCEPT ![c] = NoJob]
               \/ \E kind : job' = [job EXCEPT ![c].kind = kind]
        PROVE  ScopeInv'
    <3>1. job'[c] = job[c] \/ job'[c] = NoJob
          \/ (job'[c].scoped = job[c].scoped /\ job'[c].request = job[c].request)
      BY <2>2 DEF JobType, Job
    <3>2. \A b \in Callers : b # c => job'[b] = job[b]
      BY <2>2 DEF JobType
    <3> QED
      BY <2>1, <3>1, <3>2 DEF ScopeInv, NoJob
  <2>3. ASSUME NEW c \in Callers, NEW r \in Requests, NEW kind \in Actions,
               LoadRequest(c, kind, r)
        PROVE  ScopeInv'
    <3>1. /\ job'[c].request = r
          /\ job'[c].scoped = (RequestItem[r] \in items)
          /\ \A b \in Callers : b # c => job'[b] = job[b]
      BY <2>3 DEF LoadRequest, JobType
    <3> QED
      BY <2>1, <3>1 DEF ScopeInv
  <2>4. CASE UNCHANGED job
    BY <2>1, <2>4 DEF ScopeInv
  <2> QED
    BY <2>2, <2>3, <2>4
    DEF ReturnsNext, allVars, requests, Submit, Approve, Reject, MarkCanceled, SaveStatus,
        SkipRefund, StartRefund, RefundForRequest, CloseRequest, IssueFullRefund,
        FullRefundStep, CrashJob
<1> QED
  BY <1>1, <1>2, JobTypeCorrect, PTL DEF ReturnsSpec

\* The return actions add nothing to what refund_order and the webhook do to the
\* order: they call it for a paid order, with the rest or the cost of an item.
THEOREM UsesRefunds == ReturnsSpec => Spec
<1>1. ReturnsInit => Init
  BY DEF ReturnsInit
<1>2. JobType /\ ScopeInv /\ [ReturnsNext]_allVars => [Next]_vars
  <2> SUFFICES ASSUME JobType, ScopeInv, [ReturnsNext]_allVars PROVE [Next]_vars
    OBVIOUS
  <2>1. CASE Environment
    BY <2>1 DEF Next
  <2>2. CASE UNCHANGED vars
    BY <2>2
  <2>3. ASSUME NEW c \in Callers, StartRefund(c) PROVE [Next]_vars
    <3> DEFINE r == job[c].request
    <3>1. r \in Requests /\ RequestOrder[r] \in Orders
      BY <2>3, RequestsAssumption DEF StartRefund, JobType, Actions
    <3>2. BeginRefund(c, RequestOrder[r], RefundAmount(c))
      BY <2>3 DEF StartRefund
    <3>3. CASE RefundAmount(c) = Full
      BY <3>1, <3>2, <3>3 DEF Next
    <3>4. CASE RefundAmount(c) # Full
      <4>1. RefundAmount(c) \in Nat \ {0}
        BY <3>2, <3>4 DEF BeginRefund, Amount
      <4>2. job[c].scoped /\ RefundAmount(c) = Cost[RequestItem[r]]
        BY <3>4 DEF RefundAmount
      <4>3. RefundAmount(c) <= Charge[RequestOrder[r]]
        <5>1. RequestItem[r] \in Items /\ RequestItem[r] # WholeOrder
          BY <4>2, RequestsAssumption DEF ScopeInv
        <5> QED
          BY <3>1, <4>2, <5>1, ItemsAssumption, RequestsAssumption
      <4> QED
        BY <3>1, <3>2, <4>1, <4>3, ItemsAssumption DEF Next
    <3> QED
      BY <3>3, <3>4
  <2>4. ASSUME NEW c \in Callers, RefundForRequest(c) \/ FullRefundStep(c) \/ CloseRequest(c)
                                  \/ CrashJob(c)
        PROVE  [Next]_vars
    BY <2>4 DEF RefundForRequest, FullRefundStep, CloseRequest, CrashJob, Next
  <2>5. ASSUME NEW c \in Callers, NEW o \in Orders, IssueFullRefund(c, o) PROVE [Next]_vars
    BY <2>5 DEF IssueFullRefund, Next
  <2> QED
    BY <2>1, <2>2, <2>3, <2>4, <2>5
    DEF ReturnsNext, allVars, Submit, LoadRequest, Approve, Reject, MarkCanceled,
        SaveStatus, SkipRefund
<1> QED
  BY <1>1, <1>2, JobTypeCorrect, ScopeCorrect, PTL DEF ReturnsSpec, Spec

\* What is proved of Refunds holds with the return actions on top of it.
COROLLARY ReturnsWithinLedger == ReturnsSpec => [](TypeOK /\ RecordNotAhead)
BY UsesRefunds, TypeCorrect, RecordWithinLedger, PTL

-----------------------------------------------------------------------------
(* No request is closed as refunded without money.  The proof follows the    *)
(* refund through the call: Stripe refunds (and the request is booked), then *)
(* the call reports it, then the request is closed.                          *)

\* A job and its call go together; a call past Stripe's answer has its refund
\* booked to the request it was made for.
JobCall(c) ==
  LET r == job[c].request IN
  /\ job[c].kind \in {"refunding", "full"} <=> call[c].pc # "idle"
  /\ job[c].kind = "refunding" =>
       /\ call[c].order = RequestOrder[r]
       /\ call[c].pc = "refunded" \/ call[c].ok => issued[r].count > 0

IssuedInv ==
  /\ resolvedBy \in [Requests -> Nat]
  /\ issued \in [Requests -> [count : Nat, sum : Nat, last : Nat]]
  /\ \A c \in Callers : JobCall(c)
  /\ RefundedMeansIssued

\* What a step inside refund_order does to its call and to Stripe's ledger.
LEMMA RefundStepEffect ==
  ASSUME TypeOK, NEW c \in Callers, RefundStep(c)
  PROVE  /\ call[c].pc # "idle" /\ call[c].order \in Orders
         /\ call'[c].pc # "idle" /\ call'[c].order = call[c].order
         /\ \A b \in Callers : b # c => call'[b] = call[b]
         /\ \/ /\ UNCHANGED ledger
               /\ call'[c].pc # "refunded"
               /\ call'[c].ok => call[c].ok \/ call[c].pc = "refunded"
            \/ /\ \E n \in Nat \ {0} :
                    ledger'[call[c].order].sum = ledger[call[c].order].sum + n
               /\ ledger'[call[c].order].count \in Nat
               /\ call'[c].ok = call[c].ok
<1> USE DEF stripe
<1>1. RowType /\ StripeType /\ CallType
  BY DEF TypeOK
<1>2. call[c].pc # "idle" /\ call \in [Callers -> Call] /\ call[c] \in Call
  BY <1>1 DEF RefundStep, CheckRefunded, StripeRefunds, StripeRefuses, AnswerLost, RecordRefund,
     CallType
<1>3. call[c].order \in Orders /\ call[c].amount \in Amount
  BY <1>1, <1>2, CallFields
<1>4. \A b \in Callers : b # c => call'[b] = call[b]
  BY <1>2 DEF RefundStep, CheckRefunded, StripeRefunds, StripeRefuses, AnswerLost, RecordRefund
<1>5. call'[c].pc # "idle" /\ call'[c].order = call[c].order
  BY <1>2 DEF RefundStep, CheckRefunded, StripeRefunds, StripeRefuses, AnswerLost, RecordRefund,
     Call
<1>6. CASE CheckRefunded(c) \/ StripeRefuses(c) \/ RecordRefund(c)
  <2>1. UNCHANGED ledger /\ call'[c].pc # "refunded"
    BY <1>2, <1>6 DEF CheckRefunded, StripeRefuses, RecordRefund, Call
  <2>2. call'[c].ok => call[c].ok \/ call[c].pc = "refunded"
    BY <1>2, <1>6 DEF CheckRefunded, StripeRefuses, RecordRefund, Call
  <2> QED
    BY <1>2, <1>3, <1>4, <1>5, <2>1, <2>2
<1>7. CASE StripeRefunds(c) \/ AnswerLost(c)
  <2>1. Refund(call[c].order, Asked(c)) /\ call'[c].ok = call[c].ok
    BY <1>2, <1>7 DEF StripeRefunds, AnswerLost, Call
  <2>2. Asked(c) \in Nat \ {0}
    <3>1. ledger[call[c].order].sum \in Nat /\ Charge[call[c].order] \in Nat
      BY <1>1, <1>3, ItemsAssumption DEF StripeType
    <3>2. 0 < Asked(c)
      BY <2>1 DEF Refund
    <3>3. Asked(c) \in Int
      BY <1>3, <3>1 DEF Asked, Remaining, Amount
    <3> QED
      BY <3>2, <3>3
  <2>3. /\ ledger'[call[c].order].sum = ledger[call[c].order].sum + Asked(c)
        /\ StripeType'
    BY <1>1, <1>3, <2>1, <2>2, RefundEffect
  <2>4. ledger'[call[c].order].count \in Nat
    BY <1>3, <2>3 DEF StripeType
  <2> QED
    BY <1>2, <1>3, <1>4, <1>5, <2>1, <2>2, <2>3, <2>4
<1> QED
  BY <1>6, <1>7 DEF RefundStep

\* No crash, lost answer, refusal or overlap closes a request as REFUNDED without a
\* Stripe refund made for it.
THEOREM RefundedHasRefund == ReturnsSpec => [](ReturnsTypeOK /\ RefundedMeansIssued)
<1>1. ReturnsInit => IssuedInv
  BY DEF ReturnsInit, Init, IssuedInv, JobCall, RefundedMeansIssued, IdleCall, NoJob
<1>2. TypeOK /\ TypeOK' /\ JobType /\ IssuedInv /\ [ReturnsNext]_allVars => IssuedInv'
  <2> SUFFICES ASSUME TypeOK, TypeOK', JobType, IssuedInv, [ReturnsNext]_allVars
               PROVE  IssuedInv'
    OBVIOUS
  <2> USE DEF row, stripe
  <2>0. /\ CallType /\ RowType /\ status \in [Requests -> Status] /\ job \in [Callers -> Job]
        /\ \A c \in Callers : job[c].kind \in Actions \cup {"refunding"} =>
             job[c].request \in Requests
        /\ resolvedBy \in [Requests -> Nat]
        /\ issued \in [Requests -> [count : Nat, sum : Nat, last : Nat]]
    BY DEF TypeOK, JobType, IssuedInv
  <2>1. /\ "none" \notin Actions /\ "full" \notin Actions /\ "refunding" \notin Actions
        /\ "refund" \in Actions
    BY DEF Actions
  \* A step that touches no request and no call.
  <2>2. CASE UNCHANGED <<call, requests>>
    BY <2>2 DEF requests, IssuedInv, JobCall, RefundedMeansIssued
  <2>3. CASE Environment /\ UNCHANGED requests
    <3>1. UNCHANGED call
      BY <2>3 DEF Environment, MarkPaid, DashboardRefund, DeleteItem, HookStep, MatchOrder,
         ApplyRefunded, Respond, CrashHook, Deliver
    <3> QED
      BY <2>2, <2>3, <3>1
  <2>4. ASSUME NEW r \in Requests, Submit(r) PROVE IssuedInv'
    <3>1. UNCHANGED <<call, job, resolvedBy, issued>>
      BY <2>4 DEF Submit, vars
    <3>2. RefundedMeansIssued'
      BY <2>0, <2>4, <3>1 DEF Submit, RefundedMeansIssued, IssuedInv
    <3> QED
      BY <3>1, <3>2 DEF IssuedInv, JobCall
  \* The job of one caller is set to one that has no call.
  <2>5. ASSUME NEW c \in Callers, UNCHANGED <<resolvedBy, issued>>,
               job'[c].kind \notin {"refunding", "full"}, call'[c].pc = "idle",
               \A b \in Callers : b # c => job'[b] = job[b] /\ call'[b] = call[b],
               RefundedMeansIssued'
        PROVE  IssuedInv'
    <3>1. JobCall(c)'
      BY <2>5 DEF JobCall
    <3>2. \A b \in Callers : b # c => JobCall(b)'
      BY <2>5 DEF IssuedInv, JobCall
    <3> QED
      BY <2>5, <3>1, <3>2 DEF IssuedInv
  <2>6. ASSUME NEW c \in Callers, job[c].kind \notin {"refunding", "full"}
        PROVE  call[c].pc = "idle"
    BY <2>6 DEF IssuedInv, JobCall
  <2>7. ASSUME NEW c \in Callers, NEW r \in Requests, NEW kind \in Actions,
               LoadRequest(c, kind, r)
        PROVE  IssuedInv'
    <3>1. /\ UNCHANGED <<call, status, resolvedBy, issued>>
          /\ job'[c].kind = kind /\ call[c].pc = "idle"
          /\ \A b \in Callers : b # c => job'[b] = job[b]
      BY <2>0, <2>6, <2>7 DEF LoadRequest, vars
    <3>2. RefundedMeansIssued'
      BY <3>1 DEF RefundedMeansIssued, IssuedInv
    <3> QED
      BY <2>1, <2>5, <3>1, <3>2
  \* The other actions write a status that is not REFUNDED, or none.
  <2>8. ASSUME NEW c \in Callers, job[c].kind \in Actions,
               UNCHANGED <<call, resolvedBy, issued>>, job' = [job EXCEPT ![c] = NoJob],
               NEW new \in {"APPROVED", "REJECTED", "CANCELED"},
               status' = status \/ status' = [status EXCEPT ![job[c].request] = new]
        PROVE  IssuedInv'
    <3>1. RefundedMeansIssued'
      BY <2>0, <2>8 DEF RefundedMeansIssued, IssuedInv
    <3>2. job'[c] = NoJob /\ \A b \in Callers : b # c => job'[b] = job[b]
      BY <2>0, <2>8
    <3> QED
      BY <2>1, <2>5, <2>6, <2>8, <3>1, <3>2 DEF NoJob
  <2>9. ASSUME NEW c \in Callers, Approve(c) \/ Reject(c) \/ MarkCanceled(c)
        PROVE  IssuedInv'
    <3>1. job[c].kind \in Actions
      BY <2>9 DEF Approve, Reject, MarkCanceled, SaveStatus, Actions
    <3> QED
      BY <2>8, <2>9, <3>1 DEF Approve, Reject, MarkCanceled, SaveStatus, vars
  <2>10. ASSUME NEW c \in Callers, SkipRefund(c) PROVE IssuedInv'
    BY <2>1, <2>8, <2>10 DEF SkipRefund, vars
  \* A call begins: the job and the call name the same order.
  <2>11. ASSUME NEW c \in Callers, NEW kind \in {"refunding", "full"}, NEW o, NEW a,
                BeginRefund(c, o, a), UNCHANGED <<status, resolvedBy, issued>>,
                job' = [job EXCEPT ![c].kind = kind],
                kind = "refunding" => o = RequestOrder[job[c].request]
         PROVE  IssuedInv'
    <3>1. /\ call'[c].pc = "loaded" /\ call'[c].order = o /\ ~call'[c].ok
          /\ \A b \in Callers : b # c => call'[b] = call[b]
      BY <2>0, <2>11 DEF BeginRefund, CallType, IdleCall
    <3>2. /\ job'[c].kind = kind /\ job'[c].request = job[c].request
          /\ \A b \in Callers : b # c => job'[b] = job[b]
      BY <2>0, <2>11 DEF Job
    <3>3. JobCall(c)'
      BY <2>11, <3>1, <3>2 DEF JobCall
    <3>4. \A b \in Callers : b # c => JobCall(b)'
      BY <2>11, <3>1, <3>2 DEF IssuedInv, JobCall
    <3> QED
      BY <2>11, <3>3, <3>4 DEF IssuedInv, RefundedMeansIssued
  <2>12. ASSUME NEW c \in Callers, StartRefund(c) PROVE IssuedInv'
    BY <2>11, <2>12 DEF StartRefund
  <2>13. ASSUME NEW c \in Callers, NEW o \in Orders, IssueFullRefund(c, o) PROVE IssuedInv'
    BY <2>11, <2>13 DEF IssueFullRefund
  \* Stripe's refund is booked in the same step, so no count goes down and the
  \* one of the request goes up.
  <2>14. ASSUME NEW c \in Callers, RefundForRequest(c) PROVE IssuedInv'
    <3> DEFINE r == job[c].request
               n == ledger'[RequestOrder[r]].sum - ledger[RequestOrder[r]].sum
    <3>1. /\ job[c].kind = "refunding" /\ r \in Requests /\ RefundStep(c)
          /\ UNCHANGED <<status, resolvedBy, job>>
      BY <2>0, <2>14 DEF RefundForRequest
    <3>2. JobCall(c) /\ call[c].order = RequestOrder[r]
      BY <3>1 DEF IssuedInv, JobCall
    <3>3. issued[r].count \in Nat /\ issued[r].sum \in Nat /\ issued[r].last \in Nat
      BY <2>0, <3>1
    <3>4. /\ call[c].pc # "idle" /\ call[c].order \in Orders
          /\ call'[c].pc # "idle" /\ call'[c].order = call[c].order
          /\ \A b \in Callers : b # c => call'[b] = call[b]
      BY <3>1, RefundStepEffect
    <3>5. CASE n = 0
      <4>1. ledger[RequestOrder[r]].sum \in Nat
        BY <3>2, <3>4 DEF TypeOK, StripeType
      <4>2. issued' = issued
        <5>1. issued' = [issued EXCEPT ![r] = issued[r]]
          BY <2>14, <3>5 DEF RefundForRequest
        <5> QED
          BY <2>0, <5>1
      <4>3. call'[c].pc # "refunded" /\ (call'[c].ok => call[c].ok \/ call[c].pc = "refunded")
        BY <3>1, <3>2, <3>5, <4>1, RefundStepEffect
      <4>4. JobCall(c)'
        BY <3>1, <3>2, <3>4, <4>2, <4>3 DEF JobCall
      <4>5. \A b \in Callers : b # c => JobCall(b)'
        BY <3>1, <3>4, <4>2 DEF IssuedInv, JobCall
      <4> QED
        BY <3>1, <4>2, <4>4, <4>5 DEF IssuedInv, RefundedMeansIssued
    <3>6. CASE n # 0
      <4> DEFINE k == [count |-> issued[r].count + 1, sum |-> issued[r].sum + n,
                       last |-> ledger'[RequestOrder[r]].count]
      <4>1. n \in Nat /\ ledger'[RequestOrder[r]].count \in Nat
        <5>1. ledger[RequestOrder[r]].sum \in Nat
          BY <3>2, <3>4 DEF TypeOK, StripeType
        <5>2. /\ \E m \in Nat \ {0} :
                   ledger'[RequestOrder[r]].sum = ledger[RequestOrder[r]].sum + m
              /\ ledger'[RequestOrder[r]].count \in Nat
          BY <3>1, <3>2, <3>6, <5>1, RefundStepEffect
        <5> QED
          BY <5>1, <5>2
      <4>2. issued' = [issued EXCEPT ![r] = k]
        BY <2>14, <3>6 DEF RefundForRequest
      <4> HIDE DEF n
      <4>3. k \in [count : Nat, sum : Nat, last : Nat] /\ k.count > 0
        BY <3>3, <4>1
      <4> HIDE DEF k
      <4>4. /\ issued' \in [Requests -> [count : Nat, sum : Nat, last : Nat]]
            /\ issued'[r].count > 0
            /\ \A q \in Requests : issued[q].count > 0 => issued'[q].count > 0
        BY <2>0, <3>1, <4>2, <4>3
      <4>5. JobCall(c)'
        BY <3>1, <3>2, <3>4, <4>4 DEF JobCall
      <4>6. ASSUME NEW b \in Callers, b # c PROVE JobCall(b)'
        <5>1. JobCall(b) /\ call'[b] = call[b] /\ job' = job
          BY <3>1, <3>4, <4>6 DEF IssuedInv
        <5>2. job[b].kind = "refunding" => job[b].request \in Requests
          BY <2>0
        <5> QED
          BY <4>4, <5>1, <5>2 DEF JobCall
      <4> QED
        BY <3>1, <4>4, <4>5, <4>6 DEF IssuedInv, RefundedMeansIssued
    <3> QED
      BY <3>5, <3>6
  <2>15. ASSUME NEW c \in Callers, FullRefundStep(c) PROVE IssuedInv'
    <3>1. job[c].kind = "full" /\ UNCHANGED <<status, resolvedBy, issued>>
      BY <2>15 DEF FullRefundStep
    <3>2. CASE RefundStep(c) /\ UNCHANGED job
      <4>1. call'[c].pc # "idle" /\ \A b \in Callers : b # c => call'[b] = call[b]
        BY <3>2, RefundStepEffect
      <4>2. \A b \in Callers : JobCall(b)'
        BY <3>1, <3>2, <4>1 DEF IssuedInv, JobCall
      <4> QED
        BY <3>1, <4>2 DEF IssuedInv, RefundedMeansIssued
    <3>3. CASE EndRefund(c) /\ job' = [job EXCEPT ![c] = NoJob]
      BY <2>0, <2>5, <3>1, <3>3
      DEF EndRefund, CallType, IdleCall, NoJob, IssuedInv, RefundedMeansIssued
    <3> QED
      BY <2>15, <3>2, <3>3 DEF FullRefundStep
  <2>16. ASSUME NEW c \in Callers, CloseRequest(c) PROVE IssuedInv'
    <3> DEFINE r == job[c].request
    <3>1. /\ job[c].kind = "refunding" /\ r \in Requests /\ UNCHANGED issued
          /\ call'[c].pc = "idle" /\ job'[c].kind = "none"
          /\ \A b \in Callers : b # c => job'[b] = job[b] /\ call'[b] = call[b]
      BY <2>0, <2>16 DEF CloseRequest, EndRefund, CallType, IdleCall, NoJob
    <3>2. RequestOrder[r] \in Orders
      BY <3>1, RequestsAssumption
    <3>3. resolvedBy' \in [Requests -> Nat]
      BY <2>0, <2>16, <3>1, <3>2 DEF CloseRequest, RowType
    <3>4. call[c].ok => issued[r].count > 0
      BY <3>1 DEF IssuedInv, JobCall
    <3>5. RefundedMeansIssued'
      BY <2>0, <2>16, <3>1, <3>4 DEF CloseRequest, Reported, RefundedMeansIssued, IssuedInv
    <3>6. \A b \in Callers : JobCall(b)'
      BY <3>1 DEF IssuedInv, JobCall
    <3> QED
      BY <2>0, <3>1, <3>3, <3>5, <3>6 DEF IssuedInv
  <2>17. ASSUME NEW c \in Callers, CrashJob(c) PROVE IssuedInv'
    <3>1. /\ UNCHANGED <<status, resolvedBy, issued>> /\ job'[c] = NoJob
          /\ \A b \in Callers : b # c => job'[b] = job[b]
      BY <2>0, <2>17 DEF CrashJob
    <3>2. call'[c].pc = "idle" /\ \A b \in Callers : b # c => call'[b] = call[b]
      <4>1. CASE CrashCall(c)
        BY <2>0, <4>1 DEF CrashCall, CallType, IdleCall
      <4>2. CASE job[c].kind \in Actions /\ UNCHANGED vars
        BY <2>1, <2>6, <4>2 DEF vars
      <4> QED
        BY <2>17, <4>1, <4>2 DEF CrashJob
    <3> QED
      BY <2>5, <3>1, <3>2 DEF NoJob, IssuedInv, RefundedMeansIssued
  <2>18. CASE UNCHANGED allVars
    BY <2>2, <2>18 DEF allVars, vars
  <2> QED
    BY <2>3, <2>4, <2>7, <2>9, <2>10, <2>12, <2>13, <2>14, <2>15, <2>16, <2>17, <2>18
    DEF ReturnsNext
<1>3. TypeOK /\ JobType /\ IssuedInv => ReturnsTypeOK /\ RefundedMeansIssued
  BY DEF IssuedInv, JobCall, ReturnsTypeOK
<1> QED
  BY <1>1, <1>2, <1>3, JobTypeCorrect, ReturnsWithinLedger, PTL DEF ReturnsSpec

-----------------------------------------------------------------------------
(* BackOffice: one analyst at a time.  The request in hand is as the analyst *)
(* loaded it, so its status decides rightly; and the call that refunds it is *)
(* the only one, so the refund id it leaves on the order is the one it made, *)
(* until a delivery replaces it.                                             *)

\* The setting without requests is Refunds, the others are Returns.
LEMMA AloneIsRefunds ==
  BackOfficeSpec /\ setting = "refunds" => Spec /\ [](setting = "refunds")
<1>1. BackOfficeInit => Init
  BY DEF BackOfficeInit, ReturnsInit
<1>2. setting = "refunds" /\ [BackOfficeNext]_officeVars
      => [Next]_vars /\ (setting = "refunds")'
  BY DEF BackOfficeNext, RefundsAlone, allVars, officeVars
<1> QED
  BY <1>1, <1>2, PTL DEF BackOfficeSpec, Spec

\* See AloneIsRefunds.
LEMMA AnalystsAreReturns ==
  BackOfficeSpec /\ ~(setting = "refunds") => ReturnsSpec /\ [](~(setting = "refunds"))
<1>1. BackOfficeInit => ReturnsInit
  BY DEF BackOfficeInit
<1>2. ~(setting = "refunds") /\ [BackOfficeNext]_officeVars
      => [ReturnsNext]_allVars /\ (~(setting = "refunds"))'
  BY DEF BackOfficeNext, ManyAnalysts, OneAnalyst, officeVars
<1> QED
  BY <1>1, <1>2, PTL DEF BackOfficeSpec, ReturnsSpec

\* In every setting the variables keep their types, and an analyst's action is inside
\* refund_order exactly while its call is open.
THEOREM BackOfficeTypeCorrect == BackOfficeSpec => []BackOfficeTypeOK
<1>1. TypeOK /\ setting = "refunds" => BackOfficeTypeOK
  BY DEF BackOfficeTypeOK
<1>2. ReturnsTypeOK /\ ~(setting = "refunds") => BackOfficeTypeOK
  BY DEF BackOfficeTypeOK
<1> QED
  BY <1>1, <1>2, AloneIsRefunds, AnalystsAreReturns, TypeCorrect, RefundedHasRefund, PTL

\* The action in hand saw the request as it is, and as one for an item exactly if it
\* names one.  While it refunds, its call asks for what the request is worth, and
\* Stripe's refund is the last one of the request: in the call, then on the order,
\* where it stays unless a delivery crosses the read-back.
OwnJob(c) ==
  LET r == job[c].request IN
  job[c].kind \in Actions \cup {"refunding"} =>
    /\ job[c].seen = status[r] /\ status[r] # "NONE"
    /\ job[c].scoped <=> RequestItem[r] # WholeOrder
    /\ job[c].kind = "refunding" =>
         /\ status[r] = "APPROVED"
         /\ call[c].order = RequestOrder[r] /\ call[c].amount = RefundAmount(c)
         /\ call[c].pc = "refunded" => issued[r].last = call[c].refund
         /\ call[c].ok => /\ call[c].pc = "returned"
                          /\ r \notin crossed => issued[r].last = refundId[RequestOrder[r]]

\* The action has Stripe's refund of this request, and has not closed the request.
Paying(c, r) ==
  job[c].kind = "refunding" /\ job[c].request = r /\ (call[c].pc = "refunded" \/ call[c].ok)

\* A request has one refund at most, of its item's cost; once it has one it is closed,
\* with that refund's id unless a delivery crossed the read-back, or about to be.
OwnMoney(r) ==
  /\ issued[r].count <= 1
  /\ issued[r].count = 0 => issued[r].sum = 0
  /\ RequestItem[r] # WholeOrder => issued[r].sum <= Cost[RequestItem[r]]
  /\ issued[r].count # 0 => status[r] = "REFUNDED" \/ \E c \in Callers : Paying(c, r)
  /\ status[r] = "REFUNDED" /\ r \notin crossed => resolvedBy[r] = issued[r].last

OneInv ==
  /\ items = Items /\ OneAtATime
  /\ \A c \in Callers : OwnJob(c)
  /\ \A r \in Requests : OwnMoney(r)

\* At the start nobody has a request in hand, and none has a refund.
LEMMA OneStart == ReturnsInit => OneInv
<1> SUFFICES ASSUME ReturnsInit PROVE OneInv
  OBVIOUS
<1>1. Init /\ items = Items
  BY DEF ReturnsInit, Init
<1>2. \A c \in Callers : job[c] = NoJob /\ job[c].kind = "none"
  BY DEF ReturnsInit, NoJob
<1>3. OneAtATime /\ \A c \in Callers : OwnJob(c)
  BY <1>2 DEF OneAtATime, OwnJob, Actions
<1>4. ASSUME NEW r \in Requests PROVE OwnMoney(r)
  <2>1. status[r] = "NONE" /\ issued[r] = [count |-> 0, sum |-> 0, last |-> 0]
    BY DEF ReturnsInit
  <2>2. RequestItem[r] # WholeOrder => Cost[RequestItem[r]] \in Nat
    BY RequestsAssumption, ItemsAssumption
  <2> QED
    BY <2>1, <2>2 DEF OwnMoney
<1> QED
  BY <1>1, <1>3, <1>4 DEF OneInv

\* A request whose row and refunds a step leaves alone keeps OwnMoney, unless the step
\* takes a refund out of the hands of the action that made it.
LEMMA MoneyKept ==
  ASSUME NEW r \in Requests, OwnMoney(r),
         status'[r] = status[r], resolvedBy'[r] = resolvedBy[r], issued'[r] = issued[r],
         crossed \subseteq crossed',
         \A c \in Callers : Paying(c, r) => Paying(c, r)'
  PROVE  OwnMoney(r)'
BY DEF OwnMoney

\* While an action is at work on a request, the others have nothing in hand.
LEMMA OthersIdle ==
  ASSUME OneAtATime, NEW c \in Callers, job[c].kind # "none"
  PROVE  \A b \in Callers : b # c => job[b] = NoJob /\ job[b].kind = "none"
<1>1. NoJob.kind = "none"
  BY DEF NoJob
<1>2. job[c] # NoJob
  BY <1>1
<1> QED
  BY <1>1, <1>2 DEF OneAtATime

\* A request that is neither refunded nor being refunded has had no refund.
LEMMA NotYetRefunded ==
  ASSUME OneInv, NEW r \in Requests, issued[r].count \in Nat, status[r] # "REFUNDED",
         \A c \in Callers : ~Paying(c, r)
  PROVE  issued[r].count = 0
BY DEF OneInv, OwnMoney

\* Steps that touch no request, no job and no call: a delivery they apply while a
\* refund id is about to be read back is on record as having crossed.
LEMMA OutsideKeepsOne ==
  ASSUME OneInv, ReturnsTypeOK, UNCHANGED <<call, requests>>,
         crossed' = crossed \cup {r \in Requests : Crossing(r)}
  PROVE  /\ \A c \in Callers : OwnJob(c)'
         /\ \A r \in Requests : OwnMoney(r)'
<1>1. ASSUME NEW c \in Callers, job[c].kind = "refunding", call[c].ok,
             job[c].request \notin crossed'
      PROVE  LET r == job[c].request IN r \notin crossed /\ refundId'[RequestOrder[r]] = refundId[RequestOrder[r]]
  <2>1. job[c].request \in Requests
    BY <1>1 DEF ReturnsTypeOK, JobType
  <2> QED
    BY <1>1, <2>1 DEF Crossing, ReadingBack
<1>2. ASSUME NEW c \in Callers PROVE OwnJob(c)'
  <2>1. OwnJob(c)
    BY DEF OneInv
  <2> QED
    BY <1>1, <2>1 DEF OwnJob, requests, RefundAmount
<1>3. ASSUME NEW r \in Requests PROVE OwnMoney(r)'
  BY MoneyKept DEF OneInv, requests, Paying
<1> QED
  BY <1>2, <1>3

\* The environment is in nobody's call.
LEMMA EnvironmentKeepsCalls ==
  ASSUME Environment
  PROVE  call' = call
<1>1. ASSUME NEW o \in Orders,
             MarkPaid(o) \/ \E n \in 1..Charge[o] : DashboardRefund(o, n)
      PROVE  call' = call
  BY <1>1 DEF MarkPaid, DashboardRefund
<1>2. ASSUME NEW x \in Items, DeleteItem(x) PROVE call' = call
  BY <1>2 DEF DeleteItem
<1>3. ASSUME NEW h \in Hooks, HookStep(h) \/ CrashHook(h) PROVE call' = call
  BY <1>3 DEF HookStep, MatchOrder, ApplyRefunded, Respond, CrashHook
<1>4. ASSUME NEW h \in Hooks, NEW e \in events, Deliver(h, e) PROVE call' = call
  BY <1>4 DEF Deliver
<1> QED
  BY <1>1, <1>2, <1>3, <1>4 DEF Environment

\* A customer submits a request nobody can have in hand yet.
LEMMA SubmitKeepsOne ==
  ASSUME OneInv, ReturnsTypeOK, NEW r \in Requests, Submit(r),
         crossed \subseteq crossed'
  PROVE  /\ \A c \in Callers : OwnJob(c)'
         /\ \A q \in Requests : OwnMoney(q)'
<1>1. /\ status' = [status EXCEPT ![r] = "SUBMITTED"] /\ status[r] = "NONE"
      /\ UNCHANGED <<call, refundId, resolvedBy, job, issued>>
  BY DEF Submit, vars
<1>2. /\ status'[r] = "SUBMITTED"
      /\ \A q \in Requests : q # r => status'[q] = status[q]
      /\ \A q \in Requests : issued[q].count \in Nat
  BY <1>1 DEF ReturnsTypeOK, JobType
<1>3. ASSUME NEW c \in Callers, job[c].kind \in Actions \cup {"refunding"}
      PROVE  job[c].request \in Requests /\ job[c].request # r
  BY <1>1, <1>3 DEF OneInv, OwnJob, ReturnsTypeOK, JobType
<1>4. ASSUME NEW c \in Callers PROVE OwnJob(c)'
  BY <1>1, <1>2, <1>3 DEF OneInv, OwnJob, RefundAmount
<1>5. ASSUME NEW q \in Requests, q # r PROVE OwnMoney(q)'
  BY <1>1, <1>2, <1>5, MoneyKept DEF OneInv, Paying
<1>6. \A c \in Callers : ~Paying(c, r)
  BY <1>3 DEF Paying
<1>7. issued[r].count = 0
  BY <1>1, <1>2, <1>6, NotYetRefunded
<1>8. OwnMoney(r)'
  BY <1>1, <1>2, <1>7 DEF OneInv, OwnMoney
<1> QED
  BY <1>4, <1>5, <1>8

\* Loading a request takes it in hand as it is.
LEMMA LoadKeepsOne ==
  ASSUME OneInv, ReturnsTypeOK, OneAtATime', NEW c \in Callers, NEW r \in Requests,
         NEW kind \in Actions, LoadRequest(c, kind, r),
         crossed \subseteq crossed'
  PROVE  /\ \A b \in Callers : OwnJob(b)'
         /\ \A q \in Requests : OwnMoney(q)'
<1>1. /\ job[c].kind = "none" /\ status[r] # "NONE"
      /\ UNCHANGED <<call, refundId, status, resolvedBy, issued>>
  BY DEF LoadRequest, vars
<1>2. /\ job'[c].kind = kind /\ job'[c].request = r /\ job'[c].seen = status[r]
      /\ job'[c].scoped = (RequestItem[r] \in items)
      /\ \A b \in Callers : b # c => job'[b] = job[b]
  BY DEF LoadRequest, ReturnsTypeOK, JobType
<1>3. kind # "refunding" /\ kind # "none"
  BY DEF Actions
<1>4. RequestItem[r] \in items <=> RequestItem[r] # WholeOrder
  BY RequestsAssumption DEF OneInv
<1>5. OwnJob(c)'
  BY <1>1, <1>2, <1>3, <1>4 DEF OwnJob
<1>6. ASSUME NEW b \in Callers, b # c PROVE OwnJob(b)'
  BY <1>1, <1>2, <1>6 DEF OneInv, OwnJob, RefundAmount
<1>7. ASSUME NEW q \in Requests PROVE OwnMoney(q)'
  BY <1>1, <1>2, MoneyKept DEF OneInv, Paying
<1> QED
  BY <1>5, <1>6, <1>7

\* A save of a status, a skip or a crash lets go of the request.  A save that changes
\* the status finds it neither refunded nor, as nobody else is at work, being refunded.
LEMMA LetGoKeepsOne ==
  ASSUME OneInv, ReturnsTypeOK, NEW c \in Callers, job[c].kind \in Actions,
         crossed \subseteq crossed',
         UNCHANGED <<call, refundId, resolvedBy, issued>>,
         job' = [job EXCEPT ![c] = NoJob],
         \/ UNCHANGED status
         \/ /\ \E new \in Status \ {"REFUNDED"} :
                 status' = [status EXCEPT ![job[c].request] = new]
            /\ job[c].seen # "REFUNDED"
  PROVE  /\ \A b \in Callers : OwnJob(b)'
         /\ \A q \in Requests : OwnMoney(q)'
<1> DEFINE r == job[c].request
<1>1. r \in Requests /\ job[c].kind # "none" /\ job[c].kind # "refunding"
  BY DEF ReturnsTypeOK, JobType, Actions
<1>2. \A b \in Callers : b # c => job[b].kind = "none"
  BY <1>1, OthersIdle DEF OneInv
<1>3. \A b \in Callers : job'[b].kind = "none"
  BY <1>2 DEF ReturnsTypeOK, JobType, NoJob
<1>4. \A b \in Callers : OwnJob(b)'
  BY <1>3 DEF OwnJob, Actions
<1>5. \A b \in Callers, q \in Requests : ~Paying(b, q)
  BY <1>1, <1>2 DEF Paying
<1>6. ASSUME NEW q \in Requests, status'[q] = status[q] PROVE OwnMoney(q)'
  BY <1>5, <1>6, MoneyKept DEF OneInv
<1>7. ASSUME NEW q \in Requests, status'[q] # status[q] PROVE OwnMoney(q)'
  <2>1. q = r /\ status'[r] # "REFUNDED" /\ job[c].seen # "REFUNDED"
    BY <1>1, <1>7 DEF ReturnsTypeOK, JobType
  <2>2. status[r] # "REFUNDED"
    BY <2>1 DEF OneInv, OwnJob
  <2>3. issued[r].count = 0
    BY <1>1, <1>5, <2>2, NotYetRefunded DEF ReturnsTypeOK
  <2> QED
    BY <1>1, <2>1, <2>3 DEF OneInv, OwnMoney
<1> QED
  BY <1>4, <1>6, <1>7

\* refund_order is asked for what the request is worth.
LEMMA StartKeepsOne ==
  ASSUME OneInv, ReturnsTypeOK, NEW c \in Callers, StartRefund(c),
         crossed \subseteq crossed'
  PROVE  /\ \A b \in Callers : OwnJob(b)'
         /\ \A q \in Requests : OwnMoney(q)'
<1> DEFINE r == job[c].request
<1>1. /\ job[c].kind = "refund" /\ job[c].seen = "APPROVED" /\ r \in Requests
      /\ UNCHANGED <<refundId, status, resolvedBy, issued>>
  BY DEF StartRefund, Approved, Seen, BeginRefund, ReturnsTypeOK, JobType, Actions
<1>2. /\ call'[c].pc = "loaded" /\ call'[c].order = RequestOrder[r]
      /\ call'[c].amount = RefundAmount(c) /\ ~call'[c].ok
      /\ \A b \in Callers : b # c => call'[b] = call[b]
  BY DEF StartRefund, BeginRefund, ReturnsTypeOK, TypeOK, CallType, IdleCall
<1>3. /\ job'[c].kind = "refunding" /\ job'[c].request = r /\ job'[c].seen = job[c].seen
      /\ job'[c].scoped = job[c].scoped
      /\ \A b \in Callers : b # c => job'[b] = job[b]
  BY DEF StartRefund, ReturnsTypeOK, JobType, Job
<1>4. RefundAmount(c)' = RefundAmount(c)
  BY <1>3 DEF RefundAmount
<1>5. OwnJob(c)
  BY DEF OneInv
<1>6. OwnJob(c)'
  BY <1>1, <1>2, <1>3, <1>4, <1>5 DEF OwnJob, Actions
<1>7. \A b \in Callers : b # c => job[b].kind = "none"
  BY <1>1, OthersIdle DEF OneInv
<1>8. ASSUME NEW b \in Callers, b # c PROVE OwnJob(b)'
  BY <1>3, <1>7, <1>8 DEF OwnJob, Actions
<1>9. ASSUME NEW q \in Requests PROVE OwnMoney(q)'
  BY <1>1, <1>2, <1>3, MoneyKept DEF OneInv, Paying
<1> QED
  BY <1>6, <1>8, <1>9

\* What a call asks of Stripe, and Stripe grants, is a positive amount.
LEMMA AskedPositive ==
  ASSUME NEW c \in Callers, NEW o \in Orders, call[c] \in Call, call[c].order = o,
         ledger[o].sum \in Nat, Refund(o, Asked(c))
  PROVE  Asked(c) \in Nat \ {0}
<1>1. call[c].amount \in Amount /\ Charge[o] \in Nat
  BY ItemsAssumption DEF Call
<1>2. Asked(c) \in Int /\ 0 < Asked(c)
  BY <1>1 DEF Asked, Remaining, Amount, Refund
<1> QED
  BY <1>2

\* Inside refund_order: Stripe refunds a request once, for what it is worth, and the
\* order carries that refund's id when the call returns.
LEMMA RefundKeepsOne ==
  ASSUME OneInv, ReturnsTypeOK, NEW c \in Callers, RefundForRequest(c), ~AnswerIsLost,
         crossed \subseteq crossed'
  PROVE  /\ \A b \in Callers : OwnJob(b)'
         /\ \A q \in Requests : OwnMoney(q)'
<1>0. PICK r \in Requests : r = job[c].request
  BY DEF RefundForRequest, ReturnsTypeOK, JobType
<1> USE <1>0
<1> DEFINE o == RequestOrder[r]
           n == ledger'[o].sum - ledger[o].sum
<1> USE DEF row, stripe
<1>1. /\ job[c].kind = "refunding" /\ r \in Requests /\ o \in Orders
      /\ UNCHANGED <<status, resolvedBy, job>> /\ RefundStep(c)
  BY RequestsAssumption DEF RefundForRequest, ReturnsTypeOK, JobType
<1>2. /\ status[r] = "APPROVED" /\ call[c].order = o /\ call[c].amount = RefundAmount(c)
      /\ job[c].scoped <=> RequestItem[r] # WholeOrder
      /\ call[c].pc = "refunded" => issued[r].last = call[c].refund
      /\ call[c].ok => call[c].pc = "returned"
  BY <1>1 DEF OneInv, OwnJob
<1>3. /\ call \in [Callers -> Call] /\ call[c] \in Call /\ call[c].ok \in BOOLEAN
      /\ ledger[o].sum \in Nat /\ ledger[o].count \in Nat
      /\ issued \in [Requests -> [count : Nat, sum : Nat, last : Nat]]
      /\ issued[r].count \in Nat /\ issued[r].sum \in Nat
      /\ refundId \in [Orders -> Nat] /\ TypeOK
  BY <1>1 DEF ReturnsTypeOK, TypeOK, CallType, StripeType, RowType, Call
<1>4. /\ call'[c].order = call[c].order
      /\ \A b \in Callers : b # c => call'[b] = call[b]
  BY <1>1, <1>3, RefundStepEffect
<1>5. call'[c].amount = call[c].amount
  BY <1>1, <1>3 DEF RefundStep, CheckRefunded, StripeRefunds, StripeRefuses, AnswerLost,
     RecordRefund, Call
<1>6. \A b \in Callers : b # c => job[b].kind = "none"
  BY <1>1, OthersIdle DEF OneInv
<1>7. ASSUME NEW b \in Callers, b # c PROVE OwnJob(b)'
  BY <1>1, <1>6, <1>7 DEF OwnJob, Actions
<1>8. ASSUME NEW b \in Callers, NEW q \in Requests, Paying(b, q) PROVE b = c /\ q = r
  BY <1>6, <1>8 DEF Paying
<1>9. RefundAmount(c)' = RefundAmount(c)
  BY <1>1 DEF RefundAmount
\* What is left to show: the refund in the call is the last one of the request.
<1>10. ASSUME call'[c].pc = "refunded" => issued'[r].last = call'[c].refund,
              call'[c].ok => call'[c].pc = "returned" /\ issued'[r].last = refundId'[o]
       PROVE  OwnJob(c)'
  BY <1>1, <1>2, <1>4, <1>5, <1>9, <1>10 DEF OwnJob, OneInv
<1>11. ASSUME NEW q \in Requests, q # r PROVE OwnMoney(q)'
  <2>1. issued'[q] = issued[q]
    BY <1>3, <1>11 DEF RefundForRequest
  <2> QED
    BY <1>1, <1>8, <1>11, <2>1, MoneyKept DEF OneInv
<1>12. ledger' = ledger => issued' = issued
  <2> SUFFICES ASSUME ledger' = ledger PROVE issued' = issued
    OBVIOUS
  <2>1. n = 0
    BY <1>3
  <2>2. issued' = [issued EXCEPT ![r] = issued[r]]
    BY <2>1 DEF RefundForRequest
  <2> QED
    BY <1>3, <2>2
<1>13. CASE CheckRefunded(c) \/ StripeRefuses(c)
  <2>1. /\ UNCHANGED <<ledger, refundId>> /\ call[c].pc \in {"loaded", "guarded"}
        /\ call'[c].pc # "refunded" /\ call'[c].ok = call[c].ok
    BY <1>3, <1>13 DEF CheckRefunded, StripeRefuses, Call
  <2>2. issued' = issued /\ ~call[c].ok
    BY <1>2, <1>12, <2>1
  <2>3. OwnJob(c)'
    BY <1>10, <2>1, <2>2
  <2>4. ~Paying(c, r)
    BY <2>1, <2>2 DEF Paying
  <2>5. OwnMoney(r)'
    BY <1>1, <1>8, <2>2, <2>4, MoneyKept DEF OneInv
  <2> QED
    BY <1>7, <1>11, <2>3, <2>5
<1>14. CASE RecordRefund(c)
  <2>1. /\ UNCHANGED ledger /\ call[c].pc = "refunded"
        /\ call'[c].pc = "returned" /\ call'[c].ok
        /\ refundId'[o] = call[c].refund
    BY <1>1, <1>2, <1>3, <1>14 DEF RecordRefund
  <2>2. issued' = issued
    BY <1>12, <2>1
  <2>3. OwnJob(c)'
    BY <1>2, <1>10, <2>1, <2>2
  <2>4. Paying(c, r)'
    BY <1>1, <2>1 DEF Paying
  <2>5. OwnMoney(r)'
    BY <1>1, <1>8, <2>2, <2>4, MoneyKept DEF OneInv
  <2> QED
    BY <1>7, <1>11, <2>3, <2>5
<1>15. CASE AnswerLost(c)
  <2>1. /\ call[c].pc = "guarded" /\ call'[c].pc = "returned"
        /\ Refund(o, Asked(c))
    BY <1>2, <1>3, <1>15 DEF AnswerLost
  <2>2. Asked(c) \in Nat \ {0}
    BY <1>1, <1>2, <1>3, <2>1, AskedPositive
  <2>3. ledger'[o].sum = ledger[o].sum + Asked(c)
    BY <1>1, <1>3, <2>1, <2>2, RefundEffect DEF TypeOK
  <2>4. ledger' # ledger
    <3>1. ledger[o].sum + Asked(c) # ledger[o].sum
      BY <1>3, <2>2
    <3> QED
      BY <2>3, <3>1
  <2> QED
    BY <2>1, <2>4 DEF AnswerIsLost
<1>16. CASE StripeRefunds(c)
  <2>1. /\ call[c].pc = "guarded" /\ call'[c].pc = "refunded" /\ call'[c].ok = call[c].ok
        /\ call'[c].refund = ledger[o].count + 1 /\ Refund(o, Asked(c))
        /\ UNCHANGED refundId
    BY <1>2, <1>3, <1>16 DEF StripeRefunds, Call
  <2>2. Asked(c) \in Nat \ {0}
    BY <1>1, <1>2, <1>3, <2>1, AskedPositive
  <2>3. ledger'[o].sum = ledger[o].sum + Asked(c) /\ ledger'[o].count = ledger[o].count + 1
    BY <1>1, <1>3, <2>1 DEF Refund, TypeOK, StripeType
  <2>4. n = Asked(c) /\ n # 0
    BY <1>3, <2>2, <2>3
  <2>5. ~call[c].ok /\ issued[r].count = 0 /\ issued[r].sum = 0
    <3>1. ~call[c].ok /\ \A b \in Callers : ~Paying(b, r)
      BY <1>2, <1>8, <2>1 DEF Paying
    <3>2. issued[r].count = 0
      BY <1>1, <1>2, <1>3, <3>1, NotYetRefunded
    <3> QED
      BY <1>1, <3>1, <3>2 DEF OneInv, OwnMoney
  <2>6. issued' = [issued EXCEPT ![r] =
          [count |-> issued[r].count + 1, sum |-> issued[r].sum + n, last |-> ledger'[o].count]]
    BY <2>4 DEF RefundForRequest
  <2>7. issued'[r].count = 1 /\ issued'[r].sum = Asked(c) /\ issued'[r].last = ledger'[o].count
    BY <1>1, <1>3, <2>2, <2>4, <2>5, <2>6
  <2>8. OwnJob(c)'
    BY <1>10, <2>1, <2>3, <2>5, <2>7
  <2>9. Paying(c, r)'
    BY <1>1, <2>1 DEF Paying
  <2>10. RequestItem[r] # WholeOrder => Asked(c) <= Cost[RequestItem[r]]
    <3> SUFFICES ASSUME RequestItem[r] # WholeOrder PROVE Asked(c) <= Cost[RequestItem[r]]
      OBVIOUS
    <3>1. call[c].amount = Cost[RequestItem[r]] /\ Cost[RequestItem[r]] \in Nat
      BY <1>1, <1>2, RequestsAssumption, ItemsAssumption DEF RefundAmount
    <3>2. Asked(c) = Cost[RequestItem[r]]
      BY <3>1, RefundsAssumption DEF Asked
    <3> QED
      BY <3>1, <3>2
  <2>11. OwnMoney(r)'
    BY <1>1, <1>2, <2>7, <2>9, <2>10 DEF OwnMoney
  <2> QED
    BY <1>7, <1>11, <2>8, <2>11
<1> QED
  BY <1>1, <1>13, <1>14, <1>15, <1>16 DEF RefundStep

\* Closing a request writes the order's refund id, which is the one of its own refund
\* unless a delivery crossed; a call that reported a failure has made none.
LEMMA CloseKeepsOne ==
  ASSUME OneInv, ReturnsTypeOK, NEW c \in Callers, CloseRequest(c),
         crossed \subseteq crossed'
  PROVE  /\ \A b \in Callers : OwnJob(b)'
         /\ \A q \in Requests : OwnMoney(q)'
<1>0. PICK r \in Requests : r = job[c].request
  BY DEF CloseRequest, ReturnsTypeOK, JobType
<1> USE <1>0
<1>1. /\ job[c].kind = "refunding" /\ r \in Requests /\ call[c].pc = "returned"
      /\ UNCHANGED <<issued, refundId>> /\ job' = [job EXCEPT ![c] = NoJob]
  BY DEF CloseRequest, EndRefund, ReturnsTypeOK, JobType
<1>2. /\ status[r] = "APPROVED"
      /\ call[c].ok /\ r \notin crossed => issued[r].last = refundId[RequestOrder[r]]
  BY <1>1 DEF OneInv, OwnJob
<1>3. \A b \in Callers : b # c => job[b].kind = "none"
  BY <1>1, OthersIdle DEF OneInv
<1>4. \A b \in Callers : job'[b].kind = "none"
  BY <1>1, <1>3 DEF ReturnsTypeOK, JobType, NoJob
<1>5. \A b \in Callers : OwnJob(b)'
  BY <1>4 DEF OwnJob, Actions
<1>6. ASSUME NEW b \in Callers, NEW q \in Requests, Paying(b, q) PROVE b = c /\ q = r /\ call[c].ok
  BY <1>1, <1>3, <1>6 DEF Paying
<1>7. /\ status \in [Requests -> Status] /\ resolvedBy \in [Requests -> Nat]
      /\ \A q \in Requests : issued[q].count \in Nat
  BY DEF ReturnsTypeOK, JobType
<1>8. CASE call[c].ok
  <2>1. /\ status' = [status EXCEPT ![r] = "REFUNDED"]
        /\ resolvedBy' = [resolvedBy EXCEPT ![r] = refundId[RequestOrder[r]]]
    BY <1>8 DEF CloseRequest, Reported
  <2>2. OwnMoney(r)'
    BY <1>1, <1>2, <1>7, <1>8, <2>1 DEF OneInv, OwnMoney
  <2>3. ASSUME NEW q \in Requests, q # r PROVE OwnMoney(q)'
    BY <1>1, <1>6, <1>7, <2>1, <2>3, MoneyKept DEF OneInv
  <2> QED
    BY <1>5, <2>2, <2>3
<1>9. CASE ~call[c].ok
  <2>1. UNCHANGED <<status, resolvedBy>>
    BY <1>9 DEF CloseRequest, Reported
  <2>2. ASSUME NEW q \in Requests PROVE OwnMoney(q)'
    BY <1>1, <1>6, <1>9, <2>1, MoneyKept DEF OneInv
  <2> QED
    BY <1>5, <2>2
<1> QED
  BY <1>8, <1>9

\* A full refund of an order is nobody's request.
LEMMA FullKeepsOne ==
  ASSUME OneInv, ReturnsTypeOK, NEW c \in Callers,
         FullRefundStep(c) \/ \E o \in Orders : IssueFullRefund(c, o),
         crossed \subseteq crossed'
  PROVE  /\ \A b \in Callers : OwnJob(b)'
         /\ \A q \in Requests : OwnMoney(q)'
<1>1. /\ job[c].kind \in {"none", "full"} /\ UNCHANGED <<status, resolvedBy, issued>>
      /\ job'[c].kind \in {"none", "full"}
      /\ \A b \in Callers : b # c => job'[b] = job[b]
  BY DEF FullRefundStep, IssueFullRefund, ReturnsTypeOK, JobType, Job, NoJob
<1>2. \A b \in Callers : b # c => call'[b] = call[b]
  BY RefundStepEffect DEF FullRefundStep, IssueFullRefund, BeginRefund, EndRefund,
     ReturnsTypeOK, TypeOK, CallType
<1>3. ASSUME NEW b \in Callers PROVE OwnJob(b)'
  <2>1. CASE b = c
    BY <1>1, <2>1 DEF OwnJob, Actions
  <2>2. CASE b # c /\ job[c].kind = "full"
    <3>1. job[b].kind = "none"
      BY <2>2, OthersIdle DEF OneInv
    <3> QED
      BY <1>1, <2>2, <3>1 DEF OwnJob, Actions
  <2>3. CASE b # c /\ job[c].kind # "full"
    <3>1. \E o \in Orders : IssueFullRefund(c, o)
      BY <2>3 DEF FullRefundStep
    <3>2. UNCHANGED refundId
      BY <3>1 DEF IssueFullRefund, BeginRefund
    <3>3. OwnJob(b)
      BY DEF OneInv
    <3> QED
      BY <1>1, <1>2, <2>3, <3>2, <3>3 DEF OwnJob, RefundAmount
  <2> QED
    BY <2>1, <2>2, <2>3
<1>4. ASSUME NEW q \in Requests, NEW b \in Callers, Paying(b, q) PROVE Paying(b, q)'
  BY <1>1, <1>2, <1>4 DEF Paying
<1>5. ASSUME NEW q \in Requests PROVE OwnMoney(q)'
  BY <1>1, <1>4, MoneyKept DEF OneInv
<1> QED
  BY <1>3, <1>5

\* Every step of the setting keeps the invariant.
LEMMA OneNext ==
  ASSUME OneInv, ReturnsTypeOK, OneAnalyst \/ UNCHANGED <<allVars, crossed>>
  PROVE  OneInv'
<1>1. items' = items /\ OneAtATime' /\ crossed \subseteq crossed'
  BY DEF OneAnalyst, allVars, vars, requests, OneInv, OneAtATime
<1> DEFINE Kept == /\ \A b \in Callers : OwnJob(b)'
                   /\ \A q \in Requests : OwnMoney(q)'
<1>2. CASE UNCHANGED <<allVars, crossed>>
  <2>1. {r \in Requests : Crossing(r)} = {}
    BY <1>2 DEF Crossing, allVars, vars
  <2>2. Kept
    BY <1>2, <2>1, OutsideKeepsOne DEF allVars, vars
  <2> QED
    BY <1>1, <2>2 DEF OneInv
<1>3. CASE OneAnalyst
  <2>1. ASSUME Environment, UNCHANGED requests PROVE Kept
    BY <1>3, <2>1, EnvironmentKeepsCalls, OutsideKeepsOne DEF OneAnalyst
  <2>2. ASSUME NEW r \in Requests, Submit(r) PROVE Kept
    BY <1>1, <2>2, SubmitKeepsOne
  <2>3. ASSUME NEW c \in Callers, NEW r \in Requests, NEW kind \in Actions,
               LoadRequest(c, kind, r)
        PROVE  Kept
    BY <1>1, <2>3, LoadKeepsOne
  <2>4. ASSUME NEW c \in Callers, Approve(c) \/ Reject(c) \/ MarkCanceled(c) PROVE Kept
    <3>1. /\ job[c].kind \in Actions /\ UNCHANGED <<call, refundId, resolvedBy, issued>>
          /\ job' = [job EXCEPT ![c] = NoJob]
      BY <2>4 DEF Approve, Reject, MarkCanceled, SaveStatus, vars, Actions
    <3>2. \/ UNCHANGED status
          \/ /\ \E new \in Status \ {"REFUNDED"} :
                  status' = [status EXCEPT ![job[c].request] = new]
             /\ job[c].seen # "REFUNDED"
      BY <2>4 DEF Approve, Reject, MarkCanceled, SaveStatus, Seen, Status
    <3> QED
      BY <1>1, <3>1, <3>2, LetGoKeepsOne
  <2>5. ASSUME NEW c \in Callers, SkipRefund(c) \/ CrashJob(c) PROVE Kept
    <3>1. ~CrashCall(c)
      <4>1. crashes' = crashes /\ crashes \in Nat
        BY <1>3, RefundsAssumption DEF OneAnalyst, ReturnsTypeOK, TypeOK
      <4> QED
        BY <4>1 DEF CrashCall
    <3>2. /\ job[c].kind \in Actions /\ UNCHANGED <<call, refundId, status, resolvedBy, issued>>
          /\ job' = [job EXCEPT ![c] = NoJob]
      BY <2>5, <3>1 DEF SkipRefund, CrashJob, vars, Actions
    <3> QED
      BY <1>1, <3>2, LetGoKeepsOne
  <2>6. ASSUME NEW c \in Callers, StartRefund(c) PROVE Kept
    BY <1>1, <2>6, StartKeepsOne
  <2>7. ASSUME NEW c \in Callers, RefundForRequest(c) PROVE Kept
    BY <1>1, <1>3, <2>7, RefundKeepsOne DEF OneAnalyst
  <2>8. ASSUME NEW c \in Callers, CloseRequest(c) PROVE Kept
    BY <1>1, <2>8, CloseKeepsOne
  <2>9. ASSUME NEW c \in Callers, FullRefundStep(c) \/ \E o \in Orders : IssueFullRefund(c, o)
        PROVE  Kept
    BY <1>1, <2>9, FullKeepsOne
  <2> HIDE DEF Kept
  <2>10. Kept
    BY <1>3, <2>1, <2>2, <2>3, <2>4, <2>5, <2>6, <2>7, <2>8, <2>9 DEF OneAnalyst, ReturnsNext
  <2> QED
    BY <1>1, <2>10 DEF OneInv, Kept
<1> QED
  BY <1>2, <1>3

\* The invariant holds throughout the setting.
LEMMA OneInvariant == BackOfficeSpec => [](setting = "one" => ReturnsTypeOK /\ OneInv)
<1>1. BackOfficeInit => OneInv
  BY OneStart DEF BackOfficeInit
<1>2. BackOfficeTypeOK /\ setting = "one" => ReturnsTypeOK
  BY DEF BackOfficeTypeOK
<1>3. /\ BackOfficeTypeOK /\ (setting = "one" => OneInv)
      /\ [BackOfficeNext]_officeVars
      => (setting = "one" => OneInv)'
  BY <1>2, OneNext DEF BackOfficeNext, officeVars
<1> QED
  BY <1>1, <1>2, <1>3, BackOfficeTypeCorrect, PTL DEF BackOfficeSpec

\* One analyst at a time, no fault inside refund_order: no request is refunded twice,
\* whatever charge.refunded deliveries run next to it.
THEOREM OneRefundsOnce == BackOfficeSpec => []OneAnalystRefundsOnce
<1>1. (setting = "one" => ReturnsTypeOK /\ OneInv) => OneAnalystRefundsOnce
  BY DEF OneInv, OwnMoney, OneAnalystRefundsOnce, IssuedAtMostOnce
<1> QED
  BY <1>1, OneInvariant, PTL

\* One analyst at a time and no product deleted: a request for an item takes the item's
\* cost and no more, whatever else of the order is refunded.
THEOREM OneRefundsCost == BackOfficeSpec => []OneAnalystRefundsCost
<1>1. (setting = "one" => ReturnsTypeOK /\ OneInv) => OneAnalystRefundsCost
  <2> SUFFICES ASSUME ReturnsTypeOK, OneInv, NEW r \in Requests, RequestItem[r] # WholeOrder
               PROVE  issued[r].sum <= issued[r].count * Cost[RequestItem[r]]
    BY DEF OneAnalystRefundsCost, ItemRefundsItsCost
  <2>1. /\ issued[r].count = 0 \/ issued[r].count = 1
        /\ issued[r].count = 0 => issued[r].sum = 0
        /\ issued[r].sum <= Cost[RequestItem[r]]
    BY DEF ReturnsTypeOK, OneInv, OwnMoney
  <2>2. Cost[RequestItem[r]] \in Nat /\ issued[r].sum \in Nat
    BY RequestsAssumption, ItemsAssumption DEF ReturnsTypeOK
  <2>3. 0 * Cost[RequestItem[r]] = 0 /\ 1 * Cost[RequestItem[r]] = Cost[RequestItem[r]]
    BY <2>2
  <2> QED
    BY <2>1, <2>2, <2>3
<1> QED
  BY <1>1, OneInvariant, PTL

\* One analyst at a time, deliveries next to it: the refund id on a closed request is
\* its own refund's, unless an event changed the order's id before it was read back.
THEOREM OneOwnRefund == BackOfficeSpec => []OneAnalystOwnRefund
<1>1. (setting = "one" => ReturnsTypeOK /\ OneInv) => OneAnalystOwnRefund
  BY DEF OneInv, OwnMoney, OneAnalystOwnRefund
<1> QED
  BY <1>1, OneInvariant, PTL

\* One analyst at a time: no action moves a request that was refunded or rejected.
THEOREM OneTerminalStays == BackOfficeSpec => OneAnalystTerminalStays
<1>1. ASSUME ReturnsTypeOK, OneInv, OneAnalyst, NEW r \in Requests,
             status[r] \in {"REFUNDED", "REJECTED"}
      PROVE  status'[r] = status[r]
  <2>1. status \in [Requests -> Status]
    BY <1>1 DEF ReturnsTypeOK, JobType
  <2>2. CASE UNCHANGED status
    BY <2>2
  <2>3. ASSUME NEW q \in Requests, Submit(q) PROVE status'[r] = status[r]
    BY <1>1, <2>1, <2>3 DEF Submit
  <2>4. ASSUME NEW c \in Callers, Approve(c) \/ Reject(c) \/ MarkCanceled(c)
        PROVE  status'[r] = status[r]
    <3>1. job[c].request \in Requests /\ job[c].seen = status[job[c].request]
      BY <1>1, <2>4 DEF OneInv, OwnJob, ReturnsTypeOK, JobType, Approve, Reject, MarkCanceled,
         SaveStatus, Actions
    <3>2. CASE job[c].request = r
      BY <1>1, <2>4, <3>1, <3>2 DEF Approve, Reject, MarkCanceled, SaveStatus, Seen
    <3>3. CASE job[c].request # r
      BY <2>1, <2>4, <3>3 DEF Approve, Reject, MarkCanceled, SaveStatus
    <3> QED
      BY <3>2, <3>3
  <2>5. ASSUME NEW c \in Callers, CloseRequest(c) PROVE status'[r] = status[r]
    <3>1. status[job[c].request] = "APPROVED"
      BY <1>1, <2>5 DEF OneInv, OwnJob, CloseRequest
    <3> QED
      BY <1>1, <2>1, <2>5, <3>1 DEF CloseRequest
  <2> QED
    BY <1>1, <2>2, <2>3, <2>4, <2>5
    DEF OneAnalyst, ReturnsNext, requests, LoadRequest, SkipRefund, StartRefund,
        RefundForRequest, IssueFullRefund, FullRefundStep, CrashJob
<1>2. /\ setting = "one" => ReturnsTypeOK /\ OneInv
      /\ [BackOfficeNext]_officeVars
      => [setting = "one" => \A r \in Requests :
            status[r] \in {"REFUNDED", "REJECTED"} => status'[r] = status[r]]_officeVars
  BY <1>1 DEF BackOfficeNext
<1> QED
  BY <1>2, OneInvariant, PTL DEF BackOfficeSpec, OneAnalystTerminalStays
=============================================================================
