--------------------------------- MODULE Tracing ---------------------------------
(***************************************************************************)
(* Request ids and metrics: RequestIDMiddleware binds an id to the context *)
(* of the thread that serves a request, tasks carry it to a Celery process *)
(* (_tracing_call), log lines take whatever id the context holds, and      *)
(* requests and tasks are counted for Prometheus.  Requests are counted in *)
(* the innermost middleware: the layers around it may answer without it,   *)
(* or replace the answer it counted.  Threads and pool processes live on   *)
(* from one job to the next, and so does their context variable.           *)
(***************************************************************************)
EXTENDS Integers, FiniteSets

CONSTANTS
  Threads,       \* web threads
  Pool,          \* Celery worker processes
  Requests,
  Header,        \* what each request's X-Request-Id carries: an id or one of
  Absent, Malformed,
  NoId,          \* nothing bound to the context
  NoJob,
  Metered,       \* requests the HTTP metrics count if they get that far: metrics
                 \* on, a standard method, a path other than /metrics
  TasksMetered,  \* are metrics on in the worker processes?
  MaxKills       \* bound: killed threads and processes

ASSUME TracingAssumption ==
  /\ Threads \cap Pool = {}
  /\ Requests \cap {NoJob, NoId, Absent, Malformed} = {}
  /\ Absent # NoId /\ Malformed # NoId
  /\ \A r \in Requests : Header[r] # NoId
  /\ Metered \subseteq Requests /\ TasksMetered \in BOOLEAN /\ MaxKills \in Nat

VARIABLES
  context,     \* the id bound in each thread or process
  serves,      \* the request a thread serves, or the task (by its request) a process runs
  point,       \* how far that job is; on the way out, the status group it was counted with
  resetToken,  \* the value RequestIDMiddleware will restore in a thread
  tasks,       \* messages in the broker's queue
  begun,       \* requests received
  entered,     \* history: requests that got to the innermost middleware
  dispatched,  \* requests that have dispatched their task
  lines,       \* log lines written, each with its job and the id it shows
  answers,     \* status group and X-Request-Id of the answered requests
  counted,     \* django_http_requests_total, by request and group (one label for each)
  tallied,     \* django_celery_tasks_total, by task and outcome
  outcomes,    \* history: outcomes of the tasks that ran to an end
  kills

tracingVars == <<context, serves, point, resetToken, tasks, begun, entered, dispatched, lines,
                 answers, counted, tallied, outcomes, kills>>

Actors == Threads \cup Pool
Groups == {"2xx", "3xx", "4xx", "5xx"}
Outcomes == {"success", "failure"}

TracingInit ==
  /\ context = [a \in Actors |-> NoId]
  /\ serves = [a \in Actors |-> NoJob]
  /\ point = [a \in Actors |-> "idle"]
  /\ resetToken = [t \in Threads |-> NoId]
  /\ tasks = {} /\ begun = {} /\ entered = {} /\ dispatched = {} /\ lines = {} /\ answers = {}
  /\ counted = [r \in Requests |-> [g \in Groups |-> 0]]
  /\ tallied = [r \in Requests |-> [o \in Outcomes |-> 0]]
  /\ outcomes = {} /\ kills = 0

-----------------------------------------------------------------------------
(* RequestIDMiddleware, the layers inside it and the view *)

\* A well-formed header is taken over, anything else replaced by a fresh uuid,
\* which the request itself stands for.
RequestIdAsGiven(r) == Header[r]   \* mutant: not validated
RequestId(r) == IF Header[r] \in {Absent, Malformed} THEN r ELSE Header[r]

ReceiveRequest(t, r) ==
  /\ point[t] = "idle"
  /\ r \notin begun
  /\ begun' = begun \cup {r}
  /\ serves' = [serves EXCEPT ![t] = r]
  /\ point' = [point EXCEPT ![t] = "outer"]
  /\ resetToken' = [resetToken EXCEPT ![t] = context[t]]
  /\ context' = [context EXCEPT ![t] = RequestId(r)]
  /\ UNCHANGED <<tasks, entered, dispatched, lines, answers, counted, tallied, outcomes,
                 kills>>

\* The layers in between let the request through to PrometheusMetricsMiddleware and the view.
EnterView(t) ==
  /\ point[t] = "outer"
  /\ point' = [point EXCEPT ![t] = "view"]
  /\ entered' = entered \cup {serves[t]}
  /\ UNCHANGED <<context, serves, resetToken, tasks, begun, dispatched, lines, answers,
                 counted, tallied, outcomes, kills>>

\* JSONFormatter shows the id of the context, or no request_id field.
Line(a) == [job |-> serves[a], id |-> context[a]]

WriteLine(a) ==
  /\ point[a] # "idle"
  /\ lines' = lines \cup {Line(a)}
  /\ UNCHANGED <<context, serves, point, resetToken, tasks, begun, entered, dispatched,
                 answers, counted, tallied, outcomes, kills>>

\* order_created.delay(...) or payment_completed.delay(...) with
\* propagate_request_id(): an id is a keyword argument, none is left out.
PropagatedNever(t) == NoId   \* mutant: the id is not forwarded
Propagated(t) == context[t]

Dispatch(t) ==
  /\ point[t] = "view"
  /\ serves[t] \notin dispatched
  /\ dispatched' = dispatched \cup {serves[t]}
  /\ tasks' = tasks \cup {[request |-> serves[t], id |-> Propagated(t)]}
  /\ UNCHANGED <<context, serves, point, resetToken, begun, entered, lines, answers, counted,
                 tallied, outcomes, kills>>

\* The view ends, or raises: Django turns its exception into a 500 inside the
\* middleware.  PrometheusMetricsMiddleware counts it by the group of its status.
CountedTwice(r, g) == counted[r][g] + 2   \* mutant: counted in view and middleware
CountedOnce(r, g) == counted[r][g] + 1

EndView(t, g) ==
  LET r == serves[t] IN
  /\ point[t] = "view"
  /\ counted' = IF r \in Metered
                THEN [counted EXCEPT ![r] = [counted[r] EXCEPT ![g] = CountedOnce(r, g)]]
                ELSE counted
  /\ point' = [point EXCEPT ![t] = g]
  /\ UNCHANGED <<context, serves, resetToken, tasks, begun, entered, dispatched, lines,
                 answers, tallied, outcomes, kills>>

\* The context is restored and the answer gets the request's id.  Django's own line about
\* a 4xx answer comes after that, so it shows no id (it is not among "lines").
Leave(t, g) ==
  /\ answers' = answers \cup {[request |-> serves[t], group |-> g, id |-> RequestId(serves[t])]}
  /\ context' = [context EXCEPT ![t] = resetToken[t]]
  /\ serves' = [serves EXCEPT ![t] = NoJob]
  /\ point' = [point EXCEPT ![t] = "idle"]
  /\ UNCHANGED <<resetToken, tasks, begun, entered, dispatched, lines, counted, tallied,
                 outcomes, kills>>

\* A layer in between answers by itself: a redirect to https, a static file, a host or a
\* user agent that is not allowed.
AnswerEarly(t, g) == point[t] = "outer" /\ Leave(t, g)

\* What those layers make of an answer: APPEND_SLASH turns a 404 into a redirect, a session
\* that is gone meanwhile makes it a 400, and one that cannot be saved a 500.
Final(g) ==
  {h \in Groups : h = g \/ (g = "4xx" /\ h = "3xx") \/ (g # "5xx" /\ h \in {"4xx", "5xx"})}

Answer(t, g) ==
  /\ point[t] \in Groups
  /\ g \in Final(point[t])
  /\ Leave(t, g)

-----------------------------------------------------------------------------
(* _tracing_call *)

\* The message is acknowledged when it is taken; its id, if it has one, replaces
\* whatever an earlier task left in the context.
BindNothing(w, m) == context[w]   \* mutant: the context is not rebound
Bind(w, m) == IF m.id # NoId THEN m.id ELSE context[w]

TakeTask(w, m) ==
  /\ point[w] = "idle"
  /\ tasks' = tasks \ {m}
  /\ serves' = [serves EXCEPT ![w] = m.request]
  /\ point' = [point EXCEPT ![w] = "running"]
  /\ context' = [context EXCEPT ![w] = Bind(w, m)]
  /\ UNCHANGED <<resetToken, begun, entered, dispatched, lines, answers, counted, tallied,
                 outcomes, kills>>

\* The task returns, or raises and is counted before the exception goes on.
EndTask(w, o) ==
  LET r == serves[w] IN
  /\ point[w] = "running"
  /\ tallied' = IF TasksMetered
                THEN [tallied EXCEPT ![r] = [tallied[r] EXCEPT ![o] = @ + 1]]
                ELSE tallied
  /\ outcomes' = outcomes \cup {[request |-> r, outcome |-> o]}
  /\ serves' = [serves EXCEPT ![w] = NoJob]
  /\ point' = [point EXCEPT ![w] = "idle"]
  /\ UNCHANGED <<context, resetToken, tasks, begun, entered, dispatched, lines, answers,
                 counted, kills>>

-----------------------------------------------------------------------------
\* A thread or process is killed; the one that takes its place has nothing bound.  The
\* client may repeat the request, which is another one; a task that was taken is gone.
Kill(a) ==
  /\ point[a] # "idle"
  /\ kills < MaxKills
  /\ kills' = kills + 1
  /\ context' = [context EXCEPT ![a] = NoId]
  /\ serves' = [serves EXCEPT ![a] = NoJob]
  /\ point' = [point EXCEPT ![a] = "idle"]
  /\ UNCHANGED <<resetToken, tasks, begun, entered, dispatched, lines, answers, counted,
                 tallied, outcomes>>

TracingNext ==
  \/ \E t \in Threads :
       \/ \E r \in Requests : ReceiveRequest(t, r)
       \/ EnterView(t) \/ Dispatch(t)
       \/ \E g \in Groups : AnswerEarly(t, g) \/ EndView(t, g) \/ Answer(t, g)
  \/ \E w \in Pool : (\E m \in tasks : TakeTask(w, m)) \/ \E o \in Outcomes : EndTask(w, o)
  \/ \E a \in Actors : WriteLine(a) \/ Kill(a)

TracingSpec == TracingInit /\ [][TracingNext]_tracingVars

-----------------------------------------------------------------------------
(* Properties *)

Ids == Requests \cup {Header[r] : r \in Requests} \cup {NoId}

\* Only ids are bound, queued and written; who works has a job.
TracingTypeOK ==
  /\ \A a \in Actors : context[a] \in Ids /\ (point[a] = "idle") = (serves[a] = NoJob)
  /\ \A t \in Threads : resetToken[t] \in Ids /\ point[t] \in {"idle", "outer", "view"} \cup Groups
  /\ \A w \in Pool : point[w] \in {"idle", "running"}
  /\ \A m \in tasks : m.id \in Ids /\ m.request \in dispatched
  /\ dispatched \subseteq entered /\ entered \subseteq begun /\ begun \subseteq Requests

\* Every line of a request and of the task it dispatched shows the id the client is
\* told, whatever ran in that thread or process before; two requests share an id only
\* when a client has sent it.
LinesTraceBack ==
  \A l \in lines :
    /\ l.id \notin {NoId, Absent, Malformed}
    /\ \A m \in lines :
         m.id = l.id => m.job = l.job \/ \E r \in Requests : Header[r] = l.id
    /\ \A a \in answers : a.request = l.job => a.id = l.id

\* The request is counted once, in that group alone; it is not counted at all.
CountedIn(r, g) == \A h \in Groups : counted[r][h] = IF h = g THEN 1 ELSE 0
NotCounted(r) == \A h \in Groups : counted[r][h] = 0

\* Metrics neither lose nor repeat a job.  A metered request is counted once at most, in one
\* group; not at all when an outer layer answered for the view; and once when it got to the
\* view and was answered, in a group that the layers outside may have turned into the
\* answer's.  (One that is killed on its way out is counted and never answered.)  Each task
\* that ran to an end is counted once, under its outcome, and one that was killed is not.
EachJobCountedOnce ==
  /\ \A r \in Metered :
       /\ NotCounted(r) \/ \E g \in Groups : CountedIn(r, g)
       /\ r \notin entered => NotCounted(r)
       /\ \A a \in answers : a.request = r /\ r \in entered =>
            \E g \in Groups : CountedIn(r, g) /\ a.group \in Final(g)
  /\ TasksMetered =>
       \A r \in Requests, o \in Outcomes :
         tallied[r][o] = Cardinality({e \in outcomes : e.request = r /\ e.outcome = o})
=============================================================================
