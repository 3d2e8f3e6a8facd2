------------------------------ MODULE PlatformProofs ------------------------------
(***************************************************************************)
(* Proofs about what runs below the shop and beside it: ReadReplica, for   *)
(* any processes, replica URLs and environments; Tracing, for any threads, *)
(* worker processes, requests and headers; RateLimit, for any requests,    *)
(* limit and windows; InfiniteScroll, for any page size and number of      *)
(* products; Seed, for any runs, rows, customers and stock; and about      *)
(* these, Checkout and WishList side by side, as in the run of             *)
(* MCStorefront.                                                           *)
(***************************************************************************)
EXTENDS MCStorefront, CheckoutProofs, WishListProofs,
        FiniteSetTheorems, SequenceTheorems, TLAPS

-----------------------------------------------------------------------------
(* ReadReplica *)

\* Django saves an instance where it was loaded, so writes stay on the primary as long as
\* no instance has been loaded from a replica.
HeldFromPrimary ==
  /\ instance \in [Processes -> {NoDb, Default}]
  /\ WritesOnPrimary

\* A read that the router has no choice for is routed to the instance's database, or to
\* default.
LEMMA ReadRouted ==
  ASSUME NEW p, NEW held \in {NoDb, Default}, NEW d \in Routed(DbForRead(p), held)
  PROVE  d = Default
BY DEF Routed, DbForRead, RouterAliases, NoDb, Default

\* A write is routed like that whatever the router knows.
LEMMA WriteRouted ==
  ASSUME NEW p, NEW held \in {NoDb, Default}
  PROVE  Routed(DbForWrite(p), held) \subseteq {Default}
BY DEF Routed, DbForWrite, NoDb, Default

\* Nothing is loaded or written when the processes are not started.
LEMMA HeldInit == ReplicaInit => HeldFromPrimary
BY DEF ReplicaInit, HeldFromPrimary, WritesOnPrimary

\* Every start, load, save, UPDATE and migration keeps HeldFromPrimary.
LEMMA HeldNext == HeldFromPrimary /\ [ReplicaNext]_replicaVars => HeldFromPrimary'
<1> SUFFICES ASSUME HeldFromPrimary, [ReplicaNext]_replicaVars
             PROVE  HeldFromPrimary'
  OBVIOUS
<1> USE DEF HeldFromPrimary, WritesOnPrimary
<1>1. ASSUME NEW p \in Processes, NEW postgres \in BOOLEAN, NEW password \in BOOLEAN,
             NEW urls \in Urls, NEW age \in Ages, Start(p, postgres, password, urls, age)
      PROVE  HeldFromPrimary'
  BY <1>1 DEF Start
<1>2. ASSUME NEW p \in Processes, LoadRow(p)
      PROVE  HeldFromPrimary'
  <2>1. PICK d \in Routed(DbForRead(p), NoDb) : instance' = [instance EXCEPT ![p] = d]
    BY <1>2 DEF LoadRow
  <2>2. d = Default
    BY <2>1, ReadRouted
  <2> QED
    BY <1>2, <2>1, <2>2 DEF LoadRow
<1>3. ASSUME NEW p \in Processes, LoadRelated(p)
      PROVE  HeldFromPrimary'
  <2>1. PICK d \in Routed(DbForRead(p), instance[p]) :
               instance' = [instance EXCEPT ![p] = d]
    BY <1>3 DEF LoadRelated
  <2>2. d = Default
    BY <2>1, ReadRouted
  <2> QED
    BY <1>3, <2>1, <2>2 DEF LoadRelated
<1>4. ASSUME NEW p \in Processes, SaveInstance(p)
      PROVE  HeldFromPrimary'
  <2>1. Routed(DbForWrite(p), instance[p]) \subseteq {Default}
    BY WriteRouted
  <2> QED
    BY <1>4, <2>1 DEF SaveInstance
<1>5. ASSUME NEW p \in Processes, WriteByManager(p)
      PROVE  HeldFromPrimary'
  <2>1. Routed(DbForWrite(p), NoDb) \subseteq {Default}
    BY WriteRouted
  <2> QED
    BY <1>5, <2>1 DEF WriteByManager
<1>6. ASSUME NEW p \in Processes, EndWork(p)
      PROVE  HeldFromPrimary'
  BY <1>6 DEF EndWork
<1>7. ASSUME NEW p \in Processes, NEW d \in DOMAIN databases[p], Migrate(p, d)
      PROVE  HeldFromPrimary'
  BY <1>7 DEF Migrate, AllowMigrate
<1>8. CASE UNCHANGED replicaVars
  BY <1>8 DEF replicaVars
<1> QED
  BY <1>1, <1>2, <1>3, <1>4, <1>5, <1>6, <1>7, <1>8 DEF ReplicaNext, CreateRelated

\* No row is written and no migration runs on a replica, with the router as Django
\* instantiates it: however many replicas are configured, and whatever is saved.
THEOREM PrimaryOnly == ReplicaSpec => []WritesOnPrimary
<1>1. HeldFromPrimary => WritesOnPrimary
  BY DEF HeldFromPrimary
<1> QED
  BY <1>1, HeldInit, HeldNext, PTL DEF ReplicaSpec

\* What ReplicaTypeOK needs besides: a process that has not started holds no instance.
ReplicaTypes ==
  /\ DOMAIN databases = Processes /\ HeldFromPrimary /\ ReplicaTypeOK

\* No process has started.
LEMMA ReplicaTypesBegin == ReplicaInit => ReplicaTypes
BY HeldInit DEF ReplicaInit, ReplicaTypes, ReplicaTypeOK, Started

\* Only a start configures databases, default among them.
LEMMA ReplicaTypesKept == ReplicaTypes /\ [ReplicaNext]_replicaVars => ReplicaTypes'
<1> SUFFICES ASSUME ReplicaTypes, [ReplicaNext]_replicaVars PROVE ReplicaTypes'
  OBVIOUS
<1>1. HeldFromPrimary'
  BY HeldNext DEF ReplicaTypes
<1>2. /\ instance \in [Processes -> {NoDb, Default}]
      /\ instance' \in [Processes -> {NoDb, Default}]
      /\ Default # NoDb /\ DOMAIN databases = Processes
      /\ \A q \in Processes :
           /\ Started(q) => Default \in DOMAIN databases[q]
           /\ instance[q] = Default => Default \in DOMAIN databases[q]
           /\ \A d \in DOMAIN databases[q] : databases[q][d] \in {"none", "off", "on"}
  BY <1>1 DEF ReplicaTypes, ReplicaTypeOK, HeldFromPrimary, Default, NoDb
<1>3. ASSUME NEW p \in Processes, NEW postgres \in BOOLEAN, NEW password \in BOOLEAN,
             NEW urls \in Urls, NEW age \in Ages, Start(p, postgres, password, urls, age)
      PROVE  ReplicaTypes'
  <2> DEFINE new == [d \in {Default} \cup ReplicaAliases(urls) |->
                       IF d = Default /\ ~postgres THEN "none" ELSE PoolingOf(age)]
  <2>1. databases' = [databases EXCEPT ![p] = new] /\ instance' = instance
    BY <1>3 DEF Start
  <2>2. /\ Default \in DOMAIN new
        /\ \A d \in DOMAIN new : new[d] \in {"none", "off", "on"}
    BY DEF PoolingOf
  <2> HIDE DEF new
  <2>3. DOMAIN databases' = Processes /\ databases'[p] = new
    BY <1>2, <2>1
  <2>4. \A q \in Processes : q # p => databases'[q] = databases[q]
    BY <1>2, <2>1
  <2> QED
    BY <1>1, <1>2, <2>1, <2>2, <2>3, <2>4 DEF ReplicaTypes, ReplicaTypeOK, Started
<1>4. ASSUME UNCHANGED databases,
             \A q \in Processes : instance'[q] = Default => Started(q) \/ instance[q] = Default
      PROVE  ReplicaTypes'
  BY <1>1, <1>2, <1>4 DEF ReplicaTypes, ReplicaTypeOK, Started
<1>5. ASSUME NEW p \in Processes, LoadRow(p) \/ LoadRelated(p) \/ EndWork(p)
      PROVE  ReplicaTypes'
  <2>1. /\ UNCHANGED databases
        /\ Started(p) \/ instance[p] = Default
        /\ \A q \in Processes : q # p => instance'[q] = instance[q]
    BY <1>2, <1>5 DEF LoadRow, LoadRelated, EndWork
  <2> QED
    BY <1>4, <2>1
<1>6. ASSUME NEW p \in Processes,
             \/ SaveInstance(p) \/ WriteByManager(p) \/ CreateRelated(p)
             \/ \E d \in DOMAIN databases[p] : Migrate(p, d)
      PROVE  ReplicaTypes'
  BY <1>4, <1>6 DEF SaveInstance, WriteByManager, CreateRelated, Migrate
<1>7. CASE UNCHANGED replicaVars
  BY <1>4, <1>7 DEF replicaVars
<1> QED
  BY <1>3, <1>5, <1>6, <1>7 DEF ReplicaNext

\* A process that has started has a default database, whatever its environment names, and
\* every instance it holds came from a database it has.
THEOREM ReplicaTypeCorrect == ReplicaSpec => []ReplicaTypeOK
<1>1. ReplicaTypes => ReplicaTypeOK
  BY DEF ReplicaTypes
<1> QED
  BY <1>1, ReplicaTypesBegin, ReplicaTypesKept, PTL DEF ReplicaSpec

-----------------------------------------------------------------------------
(* Tracing *)

\* Who works is bound to the id of its request; so is every message in the queue, every
\* line and every answer.  A thread or process that rests may hold any id.
BoundToRequest ==
  /\ context \in [Actors -> Ids] /\ DOMAIN serves = Actors /\ DOMAIN point = Actors
  /\ \A a \in Actors :
       point[a] # "idle" => serves[a] \in Requests /\ context[a] = RequestId(serves[a])
  /\ \A t \in Threads : resetToken[t] \in Ids

LinesCarryIds ==
  /\ \A m \in tasks : m.request \in Requests /\ m.id = RequestId(m.request)
  /\ \A l \in lines : l.job \in Requests /\ l.id = RequestId(l.job)
  /\ \A a \in answers : a.id = RequestId(a.request)

TracedInv == BoundToRequest /\ LinesCarryIds

\* An id is never one of the markers, and tells requests apart that no client named.
LEMMA IdOfRequest ==
  ASSUME NEW r \in Requests
  PROVE  /\ RequestId(r) \in Ids \ {NoId, Absent, Malformed}
         /\ \A s \in Requests :
              RequestId(s) = RequestId(r) =>
                s = r \/ \E q \in Requests : Header[q] = RequestId(r)
BY TracingAssumption DEF RequestId, Ids

\* Nothing is bound, queued or written at the start.
LEMMA TracedInit == TracingInit => TracedInv
BY DEF TracingInit, TracedInv, BoundToRequest, LinesCarryIds, Ids, Actors

\* Every step of a request, of a task and every kill keeps TracedInv.
LEMMA TracedNext == TracedInv /\ [TracingNext]_tracingVars => TracedInv'
<1> SUFFICES ASSUME TracedInv, [TracingNext]_tracingVars
             PROVE  TracedInv'
  OBVIOUS
<1> USE DEF TracedInv, BoundToRequest, LinesCarryIds
<1>0. Threads \subseteq Actors /\ Pool \subseteq Actors
  BY DEF Actors
<1>1. ASSUME NEW t \in Threads, NEW r \in Requests, ReceiveRequest(t, r)
      PROVE  TracedInv'
  BY <1>0, <1>1, IdOfRequest DEF ReceiveRequest
<1>2. ASSUME NEW t \in Threads, EnterView(t) \/ \E g \in Groups : EndView(t, g)
      PROVE  TracedInv'
  <2>1. PICK p : point' = [point EXCEPT ![t] = p]
    BY <1>2 DEF EnterView, EndView
  <2>2. point[t] # "idle" /\ UNCHANGED <<context, serves, resetToken, tasks, lines, answers>>
    BY <1>2 DEF EnterView, EndView
  <2> QED
    BY <1>0, <2>1, <2>2
<1>3. ASSUME NEW t \in Threads, Dispatch(t)
      PROVE  TracedInv'
  BY <1>0, <1>3 DEF Dispatch, Propagated
<1>4. ASSUME NEW t \in Threads, NEW g \in Groups, AnswerEarly(t, g) \/ Answer(t, g)
      PROVE  TracedInv'
  BY <1>0, <1>4 DEF AnswerEarly, Answer, Leave
<1>5. ASSUME NEW w \in Pool, NEW m \in tasks, TakeTask(w, m)
      PROVE  TracedInv'
  <2>1. m.request \in Requests /\ m.id = RequestId(m.request) /\ m.id \in Ids /\ m.id # NoId
    BY IdOfRequest
  <2>2. context' = [context EXCEPT ![w] = m.id]
    BY <1>5, <2>1 DEF TakeTask, Bind
  <2> QED
    BY <1>0, <1>5, <2>1, <2>2 DEF TakeTask
<1>6. ASSUME NEW w \in Pool, NEW o \in Outcomes, EndTask(w, o)
      PROVE  TracedInv'
  BY <1>0, <1>6 DEF EndTask
<1>7. ASSUME NEW a \in Actors, WriteLine(a)
      PROVE  TracedInv'
  BY <1>7 DEF WriteLine, Line
<1>8. ASSUME NEW a \in Actors, Kill(a)
      PROVE  TracedInv'
  <2>1. NoId \in Ids
    BY DEF Ids
  <2> QED
    BY <1>8, <2>1 DEF Kill
<1>9. CASE UNCHANGED tracingVars
  BY <1>9 DEF tracingVars
<1> QED
  BY <1>1, <1>2, <1>3, <1>4, <1>5, <1>6, <1>7, <1>8, <1>9 DEF TracingNext

\* When every line carries the id of its request, every line can be traced back.
LEMMA TracedBack == TracedInv => LinesTraceBack
<1> SUFFICES ASSUME TracedInv, NEW l \in lines
             PROVE  /\ l.id \notin {NoId, Absent, Malformed}
                    /\ \A m \in lines :
                         m.id = l.id => m.job = l.job \/ \E r \in Requests : Header[r] = l.id
                    /\ \A a \in answers : a.request = l.job => a.id = l.id
  BY DEF LinesTraceBack
<1> QED
  BY IdOfRequest DEF TracedInv, LinesCarryIds

\* Every log line of a request and of its task shows the id its client is told, although
\* threads and processes keep their context from one job to the next and may be killed.
THEOREM LinesAreTraced == TracingSpec => []LinesTraceBack
BY TracedInit, TracedNext, TracedBack, PTL DEF TracingSpec

\* The answer of a request with a status of some group; the end of a task.
AnswerOf(r, g) == [request |-> r, group |-> g, id |-> RequestId(r)]
EndOf(r, o) == [request |-> r, outcome |-> o]

\* A thread serves a request from its arrival to its answer.
Serving(t) == point[t] \in {"outer", "view"} \cup Groups

\* A request is received once, so at most one thread serves it, and only after that it
\* has an answer; it dispatches one message, which at most one process takes, and only
\* after that its task has an end.
ServedOnce ==
  /\ \A a \in answers : \E r \in begun, g \in Groups : a = AnswerOf(r, g)
  /\ \A t \in Actors : Serving(t) =>
       serves[t] \in begun /\ \A g \in Groups : AnswerOf(serves[t], g) \notin answers
  /\ \A t, u \in Actors : Serving(t) /\ Serving(u) /\ serves[t] = serves[u] => t = u
  /\ entered \subseteq begun /\ begun \subseteq Requests

TakenOnce ==
  /\ \A e \in outcomes : \E r \in dispatched, o \in Outcomes : e = EndOf(r, o)
  /\ \A m \in tasks : /\ m.request \in dispatched
                      /\ \A o \in Outcomes : EndOf(m.request, o) \notin outcomes
                      /\ \A n \in tasks : n.request = m.request => n = m
                      /\ \A w \in Actors : point[w] = "running" => serves[w] # m.request
  /\ \A w \in Actors : point[w] = "running" =>
       serves[w] \in dispatched /\ \A o \in Outcomes : EndOf(serves[w], o) \notin outcomes
  /\ \A v, w \in Actors :
       point[v] = "running" /\ point[w] = "running" /\ serves[v] = serves[w] => v = w
  /\ dispatched \subseteq Requests

\* A metered request is counted once at most, where it got to the view, and not before.
RequestCounted(r) ==
  /\ NotCounted(r) \/ \E g \in Groups : CountedIn(r, g)
  /\ r \notin entered => NotCounted(r)
  /\ \A g \in Groups : AnswerOf(r, g) \in answers /\ r \in entered =>
       \E h \in Groups : CountedIn(r, h) /\ g \in Final(h)

\* The counters of the request a thread serves say how far it got: nothing while an outer
\* layer or the view has it, its one group afterwards.
CountedSoFar(t) ==
  /\ point[t] = "outer" => serves[t] \notin entered
  /\ point[t] = "view" =>
       serves[t] \in entered /\ (serves[t] \in Metered => NotCounted(serves[t]))
  /\ point[t] \in Groups => (serves[t] \in Metered => CountedIn(serves[t], point[t]))

RequestsCounted ==
  /\ counted \in [Requests -> [Groups -> Nat]]
  /\ \A r \in Metered : RequestCounted(r)
  /\ \A t \in Actors : CountedSoFar(t)

TasksCounted ==
  /\ tallied \in [Requests -> [Outcomes -> Nat]]
  /\ TasksMetered => \A r \in Requests, o \in Outcomes :
       tallied[r][o] = IF EndOf(r, o) \in outcomes THEN 1 ELSE 0

CountInv ==
  /\ DOMAIN point = Actors /\ DOMAIN serves = Actors
  /\ ServedOnce /\ TakenOnce /\ RequestsCounted /\ TasksCounted

\* Nothing is served or counted at the start.
LEMMA CountStart == TracingInit => CountInv
BY TracingAssumption DEF TracingInit, CountInv, ServedOnce, Serving, Groups, TakenOnce,
   RequestsCounted, RequestCounted, CountedSoFar, NotCounted, TasksCounted

\* Answers and ends tell their request.
LEMMA TellApart ==
  /\ \A r, s, g, h : AnswerOf(r, g) = AnswerOf(s, h) => r = s /\ g = h
  /\ \A r, s, o, p : EndOf(r, o) = EndOf(s, p) => r = s /\ o = p
BY DEF AnswerOf, EndOf

\* One more in one of the counters.
LEMMA CountedMore ==
  ASSUME NEW K, NEW f \in [Requests -> [K -> Nat]], NEW r \in Requests, NEW k \in K, NEW g,
         g = [f EXCEPT ![r] = [f[r] EXCEPT ![k] = f[r][k] + 1]]
  PROVE  /\ g \in [Requests -> [K -> Nat]]
         /\ g[r][k] = f[r][k] + 1
         /\ \A s \in Requests, l \in K : s # r \/ l # k => g[s][l] = f[s][l]
OBVIOUS

\* The points of a job are told apart.
LEMMA PointsApart ==
  /\ {"idle", "outer", "view", "running"} \cap Groups = {}
  /\ \A t : Serving(t) => point[t] \notin {"idle", "running"}
BY DEF Groups, Serving

\* A thread that passes on its request, and does nothing else, keeps who serves what.
LEMMA PassedOn ==
  ASSUME CountInv, NEW t \in Threads, NEW p \in {"view"} \cup Groups, Serving(t),
         point' = [point EXCEPT ![t] = p],
         UNCHANGED <<serves, tasks, begun, dispatched, answers, tallied, outcomes>>,
         entered' \subseteq entered \cup {serves[t]}
  PROVE  /\ DOMAIN point' = Actors /\ DOMAIN serves' = Actors /\ point'[t] = p
         /\ \A u \in Actors : u # t => point'[u] = point[u]
         /\ ServedOnce' /\ TakenOnce' /\ TasksCounted'
<1> USE DEF CountInv
<1>1. t \in Actors
  BY DEF Actors
<1>2. point'[t] = p /\ \A u \in Actors : u # t => point'[u] = point[u]
  BY <1>1
<1>3. \A u \in Actors : Serving(u)' <=> Serving(u)
  BY <1>2 DEF Serving
<1>4. \A u \in Actors : point'[u] = "running" <=> point[u] = "running"
  BY <1>2, PointsApart
<1>5. ServedOnce'
  BY <1>1, <1>3 DEF ServedOnce
<1>6. TakenOnce'
  BY <1>4 DEF TakenOnce
<1> QED
  BY <1>2, <1>5, <1>6 DEF TasksCounted

\* A request comes to the innermost middleware uncounted.
LEMMA EntersUncounted ==
  ASSUME CountInv, NEW t \in Threads, EnterView(t)
  PROVE  CountInv'
<1> USE DEF CountInv
<1> DEFINE r == serves[t]
<1>1. /\ point[t] = "outer" /\ t \in Actors /\ Serving(t)
      /\ point' = [point EXCEPT ![t] = "view"] /\ entered' = entered \cup {r}
      /\ UNCHANGED <<serves, tasks, begun, dispatched, answers, counted, tallied, outcomes>>
  BY DEF EnterView, Actors, Serving
<1>2. /\ DOMAIN point' = Actors /\ DOMAIN serves' = Actors /\ point'[t] = "view"
      /\ \A u \in Actors : u # t => point'[u] = point[u]
      /\ ServedOnce' /\ TakenOnce' /\ TasksCounted'
  BY <1>1, PassedOn
<1>3. r \in begun /\ r \notin entered /\ \A g \in Groups : AnswerOf(r, g) \notin answers
  BY <1>1 DEF ServedOnce, RequestsCounted, RequestCounted, CountedSoFar
<1>4. \A u \in Actors : u # t /\ Serving(u) => serves[u] # r
  BY <1>1 DEF ServedOnce
<1>5. r \in Metered => NotCounted(r)
  BY <1>3 DEF RequestsCounted, RequestCounted, CountedSoFar
<1>6. \A q \in Requests : NotCounted(q)' <=> NotCounted(q)
  BY <1>1 DEF NotCounted
<1>7. \A q \in Requests, g \in Groups : CountedIn(q, g)' <=> CountedIn(q, g)
  BY <1>1 DEF CountedIn
<1>8. Metered \subseteq Requests
  BY TracingAssumption
<1>9. ASSUME NEW q \in Metered
      PROVE  RequestCounted(q)'
  BY <1>1, <1>3, <1>6, <1>7, <1>8 DEF RequestsCounted, RequestCounted, CountedSoFar
<1>10. ASSUME NEW u \in Actors
       PROVE  CountedSoFar(u)'
  <2>1. CASE u = t
    BY <1>1, <1>2, <1>5, <1>6, <1>8, <2>1, PointsApart DEF CountedSoFar
  <2>2. CASE u # t
    BY <1>1, <1>2, <1>4, <1>6, <1>7, <1>8, <2>2 DEF RequestsCounted, RequestCounted, CountedSoFar, Serving
  <2> QED
    BY <2>1, <2>2
<1>11. RequestsCounted'
  BY <1>1, <1>9, <1>10 DEF RequestsCounted
<1> QED
  BY <1>2, <1>11

\* The end of the view is counted, in one group.
LEMMA ViewCounts ==
  ASSUME CountInv, NEW t \in Threads, NEW g \in Groups, EndView(t, g)
  PROVE  CountInv'
<1> USE DEF CountInv
<1>1. PICK r \in begun : r = serves[t]
  BY DEF EndView, ServedOnce, Serving, Actors
<1>2. /\ point[t] = "view" /\ t \in Actors /\ r \in Requests /\ Serving(t)
      /\ point' = [point EXCEPT ![t] = g]
      /\ counted' = IF r \in Metered
                    THEN [counted EXCEPT ![r] = [counted[r] EXCEPT ![g] = counted[r][g] + 1]]
                    ELSE counted
      /\ UNCHANGED <<serves, tasks, begun, entered, dispatched, answers, tallied, outcomes>>
  BY <1>1 DEF EndView, CountedOnce, ServedOnce, Serving, Actors
<1>3. /\ DOMAIN point' = Actors /\ DOMAIN serves' = Actors /\ point'[t] = g
      /\ \A u \in Actors : u # t => point'[u] = point[u]
      /\ ServedOnce' /\ TakenOnce' /\ TasksCounted'
  BY <1>2, PassedOn
<1>4. /\ \A h \in Groups : AnswerOf(r, h) \notin answers
      /\ r \in entered
      /\ r \in Metered => NotCounted(r)
      /\ \A u \in Actors : u # t /\ Serving(u) => serves[u] # r
  BY <1>1, <1>2 DEF ServedOnce, RequestsCounted, RequestCounted, CountedSoFar
<1>5. Metered \subseteq Requests
  BY TracingAssumption
<1>6. /\ counted' \in [Requests -> [Groups -> Nat]]
      /\ r \in Metered => \A h \in Groups : counted'[r][h] = IF h = g THEN 1 ELSE 0
      /\ \A q \in Requests \ {r}, h \in Groups : counted'[q][h] = counted[q][h]
  <2>1. counted \in [Requests -> [Groups -> Nat]]
    BY DEF RequestsCounted, RequestCounted, CountedSoFar
  <2>2. CASE r \in Metered
    <3>1. counted' = [counted EXCEPT ![r] = [counted[r] EXCEPT ![g] = counted[r][g] + 1]]
      BY <1>2, <2>2
    <3>2. /\ counted' \in [Requests -> [Groups -> Nat]]
          /\ counted'[r][g] = counted[r][g] + 1
          /\ \A q \in Requests, h \in Groups : q # r \/ h # g => counted'[q][h] = counted[q][h]
      BY <1>2, <2>1, <3>1, CountedMore
    <3> QED
      BY <1>2, <1>4, <2>2, <3>2 DEF NotCounted
  <2>3. CASE r \notin Metered
    BY <1>2, <2>1, <2>3
  <2> QED
    BY <2>2, <2>3
<1>7. r \in Metered => CountedIn(r, g)'
  BY <1>6 DEF CountedIn
<1>8. \A q \in Requests \ {r} :
        /\ NotCounted(q)' <=> NotCounted(q)
        /\ \A h \in Groups : CountedIn(q, h)' <=> CountedIn(q, h)
  BY <1>6 DEF NotCounted, CountedIn
<1>9. ASSUME NEW q \in Metered
      PROVE  RequestCounted(q)'
  BY <1>2, <1>4, <1>5, <1>7, <1>8 DEF RequestsCounted, RequestCounted, CountedSoFar
<1>10. ASSUME NEW u \in Actors
       PROVE  CountedSoFar(u)'
  <2>1. CASE u = t
    BY <1>1, <1>2, <1>3, <1>7, <2>1, PointsApart DEF CountedSoFar
  <2>2. CASE u # t
    BY <1>2, <1>3, <1>4, <1>5, <1>8, <2>2 DEF RequestsCounted, RequestCounted, CountedSoFar, Serving
  <2> QED
    BY <2>1, <2>2
<1>11. RequestsCounted'
  BY <1>6, <1>9, <1>10 DEF RequestsCounted
<1> QED
  BY <1>3, <1>11

\* An answer of an outer layer is none of the view's, and one that comes from the view is
\* what the layers make of the group it was counted in.
LEMMA AnswerCounts ==
  ASSUME CountInv, NEW t \in Threads, NEW g \in Groups, AnswerEarly(t, g) \/ Answer(t, g)
  PROVE  CountInv'
<1> USE DEF CountInv
<1>1. t \in Actors /\ Serving(t)
  BY DEF AnswerEarly, Answer, Serving, Actors
<1>2. PICK r \in begun : r = serves[t]
  BY <1>1 DEF ServedOnce
<1>3. /\ answers' = answers \cup {AnswerOf(r, g)}
      /\ point' = [point EXCEPT ![t] = "idle"] /\ serves' = [serves EXCEPT ![t] = NoJob]
      /\ UNCHANGED <<tasks, begun, entered, dispatched, counted, tallied, outcomes>>
  BY <1>2 DEF AnswerEarly, Answer, Leave, AnswerOf
<1>4. /\ point'[t] = "idle" /\ DOMAIN point' = Actors /\ DOMAIN serves' = Actors
      /\ \A u \in Actors : u # t => point'[u] = point[u] /\ serves'[u] = serves[u]
  BY <1>1, <1>3
<1>5. \A u \in Actors :
        /\ Serving(u)' => u # t /\ Serving(u) /\ serves'[u] = serves[u] /\ serves[u] # r
        /\ point'[u] = "running" => point[u] = "running" /\ serves'[u] = serves[u]
  BY <1>1, <1>2, <1>4, PointsApart DEF Serving, ServedOnce
<1>6. ServedOnce'
  <2>1. \A u \in Actors : Serving(u)' =>
          serves'[u] \in begun /\ \A h \in Groups : AnswerOf(serves'[u], h) \notin answers'
    BY <1>3, <1>5, TellApart DEF ServedOnce
  <2>2. \A a \in answers' : \E q \in begun, h \in Groups : a = AnswerOf(q, h)
    BY <1>2, <1>3 DEF ServedOnce
  <2>3. \A u, v \in Actors : Serving(u)' /\ Serving(v)' /\ serves'[u] = serves'[v] => u = v
    BY <1>5 DEF ServedOnce
  <2> QED
    BY <1>3, <2>1, <2>2, <2>3 DEF ServedOnce
<1>7. TakenOnce'
  BY <1>3, <1>5 DEF TakenOnce
<1>8. /\ \A q \in Requests : NotCounted(q)' <=> NotCounted(q)
      /\ \A q \in Requests, h \in Groups : CountedIn(q, h)' <=> CountedIn(q, h)
  BY <1>3 DEF NotCounted, CountedIn
<1>9. Metered \subseteq Requests
  BY TracingAssumption
<1>10. r \in Metered /\ r \in entered => \E h \in Groups : CountedIn(r, h) /\ g \in Final(h)
  <2>1. CASE AnswerEarly(t, g)
    BY <1>1, <1>2, <2>1 DEF AnswerEarly, RequestsCounted, CountedSoFar
  <2>2. CASE Answer(t, g)
    BY <1>1, <1>2, <2>2 DEF Answer, RequestsCounted, RequestCounted, CountedSoFar
  <2> QED
    BY <2>1, <2>2
<1>11. ASSUME NEW q \in Metered
       PROVE  RequestCounted(q)'
  <2>1. \A k \in Groups : AnswerOf(q, k) \in answers' /\ q \in entered =>
          \E h \in Groups : CountedIn(q, h) /\ k \in Final(h)
    BY <1>3, <1>10, TellApart DEF RequestsCounted, RequestCounted, CountedSoFar
  <2> QED
    BY <1>3, <1>8, <1>9, <2>1 DEF RequestsCounted, RequestCounted, CountedSoFar
<1>12. ASSUME NEW u \in Actors
       PROVE  CountedSoFar(u)'
  <2>1. CASE u = t
    BY <1>4, <2>1, PointsApart DEF CountedSoFar
  <2>2. CASE u # t
    BY <1>3, <1>4, <1>8, <1>9, <2>2 DEF RequestsCounted, RequestCounted, CountedSoFar
  <2> QED
    BY <2>1, <2>2
<1>13. RequestsCounted'
  BY <1>3, <1>11, <1>12 DEF RequestsCounted
<1> QED
  BY <1>3, <1>4, <1>6, <1>7, <1>13 DEF TasksCounted

\* While threads, answers and the counters of requests stay, and no thread serves another
\* request than before, what is counted of requests stays right.
LEMMA RequestsKept ==
  ASSUME RequestsCounted, UNCHANGED <<counted, entered, answers>>,
         \A u \in Actors : Serving(u)' => point'[u] = point[u] /\ serves'[u] = serves[u]
  PROVE  RequestsCounted'
<1>1. \A u \in Actors : point'[u] \in {"outer", "view"} \cup Groups =>
        point'[u] = point[u] /\ serves'[u] = serves[u]
  BY DEF Serving
<1> QED
  BY <1>1 DEF RequestsCounted, RequestCounted, CountedSoFar, NotCounted, CountedIn

\* A task that runs comes to its end, which is counted.
LEMMA EndCounts ==
  ASSUME CountInv, NEW w \in Pool, NEW o \in Outcomes, EndTask(w, o)
  PROVE  CountInv'
<1> USE DEF CountInv
<1>1. PICK r \in dispatched : r = serves[w]
  BY DEF EndTask, TakenOnce, Actors
<1>2. /\ point[w] = "running" /\ w \in Actors /\ r \in Requests
      /\ outcomes' = outcomes \cup {EndOf(r, o)}
      /\ point' = [point EXCEPT ![w] = "idle"] /\ serves' = [serves EXCEPT ![w] = NoJob]
      /\ tallied' = IF TasksMetered
                    THEN [tallied EXCEPT ![r] = [tallied[r] EXCEPT ![o] = tallied[r][o] + 1]]
                    ELSE tallied
      /\ UNCHANGED <<tasks, begun, entered, dispatched, counted, answers>>
  BY <1>1 DEF EndTask, EndOf, TakenOnce, Actors
<1>3. \A v \in Actors : v # w => point'[v] = point[v] /\ serves'[v] = serves[v]
  BY <1>2
<1>4. point'[w] = "idle"
  BY <1>2
<1>5. \A p \in Outcomes : EndOf(r, p) \notin outcomes
  BY <1>1, <1>2 DEF TakenOnce
<1>6. ServedOnce' /\ RequestsCounted'
  <2>1. \A u \in Actors : Serving(u)' =>
          Serving(u) /\ point'[u] = point[u] /\ serves'[u] = serves[u]
    BY <1>3, <1>4, PointsApart DEF Serving
  <2> QED
    BY <1>2, <2>1, RequestsKept DEF ServedOnce
<1>7. TakenOnce'
  <2>1. \A v \in Actors : point'[v] = "running" =>
          point[v] = "running" /\ serves'[v] = serves[v] /\ serves[v] # r
    BY <1>1, <1>2, <1>3, <1>4 DEF TakenOnce
  <2>2. \A v \in Actors : point'[v] = "running" =>
          serves'[v] \in dispatched /\ \A p \in Outcomes : EndOf(serves'[v], p) \notin outcomes'
    BY <1>2, <2>1, TellApart DEF TakenOnce
  <2>3. \A e \in outcomes' : \E s \in dispatched, p \in Outcomes : e = EndOf(s, p)
    BY <1>2 DEF TakenOnce
  <2>4. \A m \in tasks : /\ m.request # r
                         /\ \A p \in Outcomes : EndOf(m.request, p) \notin outcomes'
                         /\ \A v \in Actors : point'[v] = "running" => serves'[v] # m.request
    BY <1>1, <1>2, <2>1, TellApart DEF TakenOnce
  <2>5. \A u, v \in Actors :
          point'[u] = "running" /\ point'[v] = "running" /\ serves'[u] = serves'[v] => u = v
    BY <2>1 DEF TakenOnce
  <2> QED
    BY <1>2, <2>2, <2>3, <2>4, <2>5 DEF TakenOnce
<1>8. TasksCounted'
  <2>1. tallied' \in [Requests -> [Outcomes -> Nat]]
    BY <1>2, CountedMore DEF TasksCounted
  <2>2. ASSUME TasksMetered, NEW s \in Requests, NEW p \in Outcomes
        PROVE  tallied'[s][p] = IF EndOf(s, p) \in outcomes' THEN 1 ELSE 0
    <3>0. tallied[s][p] = IF EndOf(s, p) \in outcomes THEN 1 ELSE 0
      BY <2>2 DEF TasksCounted
    <3>1. CASE s = r /\ p = o
      <4>1. tallied'[r][o] = tallied[r][o] + 1 /\ tallied[r][o] = 0
        BY <1>2, <1>5, <2>2, <3>0, <3>1, CountedMore DEF TasksCounted
      <4> QED
        BY <1>2, <3>1, <4>1
    <3>2. CASE s # r \/ p # o
      <4>1. tallied'[s][p] = tallied[s][p]
        BY <1>2, <2>2, <3>2, CountedMore DEF TasksCounted
      <4>2. EndOf(s, p) \in outcomes' <=> EndOf(s, p) \in outcomes
        BY <1>2, <3>2, TellApart
      <4> QED
        BY <3>0, <4>1, <4>2
    <3> QED
      BY <3>1, <3>2
  <2> QED
    BY <1>2, <2>1, <2>2 DEF TasksCounted
<1> QED
  BY <1>2, <1>6, <1>7, <1>8

\* Every step keeps CountInv.
LEMMA CountStep == CountInv /\ [TracingNext]_tracingVars => CountInv'
<1> SUFFICES ASSUME CountInv, [TracingNext]_tracingVars
             PROVE  CountInv'
  OBVIOUS
<1> USE DEF CountInv
<1>0. Threads \subseteq Actors /\ Pool \subseteq Actors
  BY DEF Actors
<1>1. ASSUME NEW t \in Threads, NEW r \in Requests, ReceiveRequest(t, r)
      PROVE  CountInv'
  <2>1. /\ \A a \in answers : a \in answers' /\ \A g \in Groups : a # AnswerOf(r, g)
        /\ begun' = begun \cup {r} /\ r \notin begun /\ r \notin entered /\ t \in Actors
        /\ point'[t] = "outer" /\ serves'[t] = r /\ point[t] = "idle"
        /\ \A u \in Actors : u # t => point'[u] = point[u] /\ serves'[u] = serves[u]
        /\ DOMAIN point' = Actors /\ DOMAIN serves' = Actors
        /\ UNCHANGED <<tasks, entered, dispatched, counted, tallied, outcomes, answers>>
    BY <1>0, <1>1, TellApart DEF ReceiveRequest, ServedOnce
  <2>2. \A u \in Actors :
          /\ Serving(u)' =>
               u = t \/ (Serving(u) /\ point'[u] = point[u] /\ serves'[u] = serves[u])
          /\ point'[u] = "running" => point[u] = "running" /\ serves'[u] = serves[u]
    <3> TAKE u \in Actors
    <3>1. CASE u = t
      BY <2>1, <3>1 DEF Serving
    <3>2. CASE u # t
      BY <2>1, <3>2 DEF Serving
    <3> QED
      BY <3>1, <3>2
  <2>3. ServedOnce'
    BY <2>1, <2>2 DEF ServedOnce
  <2>4. TakenOnce'
    BY <2>1, <2>2 DEF TakenOnce
  <2>5. ASSUME NEW u \in Actors
        PROVE  CountedSoFar(u)'
    <3>1. CASE u = t
      BY <2>1, <3>1, PointsApart DEF CountedSoFar
    <3>2. CASE u # t
      BY <2>1, <3>2 DEF RequestsCounted, RequestCounted, CountedSoFar, NotCounted, CountedIn
    <3> QED
      BY <3>1, <3>2
  <2>6. RequestsCounted'
    BY <2>1, <2>5 DEF RequestsCounted, RequestCounted, CountedSoFar, NotCounted, CountedIn
  <2> QED
    BY <2>1, <2>3, <2>4, <2>6 DEF TasksCounted
<1>2. ASSUME NEW t \in Threads, Dispatch(t)
      PROVE  CountInv'
  <2>1. PICK r \in begun : r = serves[t]
    BY <1>0, <1>2 DEF Dispatch, ServedOnce, Serving
  <2>2. /\ r \notin dispatched /\ dispatched' = dispatched \cup {r} /\ r \in Requests
        /\ UNCHANGED <<point, serves, begun, entered, answers, counted, tallied, outcomes>>
    BY <1>2, <2>1 DEF Dispatch, ServedOnce
  <2>3. PICK m : m.request = r /\ tasks' = tasks \cup {m}
    BY <1>2, <2>1 DEF Dispatch
  <2>4. TakenOnce'
    BY <2>2, <2>3, TellApart DEF TakenOnce
  <2>5. ServedOnce' /\ RequestsCounted'
    BY <2>2, RequestsKept DEF ServedOnce, Serving
  <2> QED
    BY <2>2, <2>4, <2>5 DEF TasksCounted
<1>3. ASSUME NEW w \in Pool, NEW m \in tasks, TakeTask(w, m)
      PROVE  CountInv'
  <2>1. /\ point[w] = "idle" /\ point'[w] = "running" /\ serves'[w] = m.request
        /\ \A v \in Actors : v # w => point'[v] = point[v] /\ serves'[v] = serves[v]
        /\ DOMAIN point' = Actors /\ DOMAIN serves' = Actors
        /\ tasks' = tasks \ {m}
        /\ UNCHANGED <<begun, entered, dispatched, answers, counted, tallied, outcomes>>
    BY <1>0, <1>3 DEF TakeTask
  <2>2. TakenOnce'
    BY <2>1 DEF TakenOnce
  <2>3. \A u \in Actors : Serving(u)' =>
          Serving(u) /\ point'[u] = point[u] /\ serves'[u] = serves[u]
    BY <2>1, PointsApart DEF Serving
  <2>4. ServedOnce' /\ RequestsCounted'
    BY <2>1, <2>3, RequestsKept DEF ServedOnce
  <2> QED
    BY <2>1, <2>2, <2>4 DEF TasksCounted
<1>4. ASSUME NEW a \in Actors, Kill(a)
      PROVE  CountInv'
  <2>1. /\ point'[a] = "idle"
        /\ \A v \in Actors : v # a => point'[v] = point[v] /\ serves'[v] = serves[v]
        /\ DOMAIN point' = Actors /\ DOMAIN serves' = Actors
        /\ UNCHANGED <<tasks, begun, entered, dispatched, answers, counted, tallied, outcomes>>
    BY <1>4 DEF Kill
  <2>2. \A u \in Actors : Serving(u)' =>
          Serving(u) /\ point'[u] = point[u] /\ serves'[u] = serves[u]
    BY <2>1, PointsApart DEF Serving
  <2>3. ServedOnce' /\ RequestsCounted'
    BY <2>1, <2>2, RequestsKept DEF ServedOnce
  <2>4. TakenOnce'
    BY <2>1 DEF TakenOnce
  <2> QED
    BY <2>1, <2>3, <2>4 DEF TasksCounted
<1>5. CASE UNCHANGED <<point, serves, tasks, begun, entered, dispatched, answers, counted,
                       tallied, outcomes>>
  <2>1. ServedOnce' /\ RequestsCounted'
    BY <1>5, RequestsKept DEF ServedOnce, Serving
  <2> QED
    BY <1>5, <2>1 DEF TakenOnce, TasksCounted
<1>6. ASSUME NEW a \in Actors, WriteLine(a)
      PROVE  CountInv'
  BY <1>5, <1>6 DEF WriteLine
<1>7. CASE UNCHANGED tracingVars
  BY <1>5, <1>7 DEF tracingVars
<1> QED
  BY <1>0, <1>1, <1>2, <1>3, <1>4, <1>6, <1>7, EntersUncounted, ViewCounts, AnswerCounts, EndCounts
  DEF TracingNext

\* For any threads, processes, requests and kills: a metered request is counted once, in
\* one group, if it gets to the view and is answered, and an answer of an outer layer is
\* not counted; what the answer says is the counted group or what the outer layers make of
\* it.  A task that ran to its end is counted once, one that was killed never.
THEOREM CountedJobs == TracingSpec => []EachJobCountedOnce
<1>1. CountInv => EachJobCountedOnce
  <2> SUFFICES ASSUME CountInv PROVE EachJobCountedOnce
    OBVIOUS
  <2>1. ASSUME NEW r \in Metered
        PROVE  /\ NotCounted(r) \/ \E g \in Groups : CountedIn(r, g)
               /\ r \notin entered => NotCounted(r)
               /\ \A a \in answers : a.request = r /\ r \in entered =>
                    \E g \in Groups : CountedIn(r, g) /\ a.group \in Final(g)
    <3>1. \A a \in answers : a.request = r =>
            a.group \in Groups /\ a = AnswerOf(r, a.group)
      BY DEF CountInv, ServedOnce, AnswerOf
    <3> QED
      BY <3>1 DEF CountInv, RequestsCounted, RequestCounted
  <2>2. ASSUME TasksMetered, NEW r \in Requests, NEW o \in Outcomes
        PROVE  tallied[r][o] = Cardinality({e \in outcomes : e.request = r /\ e.outcome = o})
    <3>1. {e \in outcomes : e.request = r /\ e.outcome = o} =
            IF EndOf(r, o) \in outcomes THEN {EndOf(r, o)} ELSE {}
      BY DEF CountInv, TakenOnce, EndOf
    <3> QED
      BY <2>2, <3>1, FS_Singleton, FS_EmptySet DEF CountInv, TasksCounted
  <2> QED
    BY <2>1, <2>2 DEF EachJobCountedOnce
<1> QED
  BY <1>1, CountStart, CountStep, PTL DEF TracingSpec

\* Who rests has no job; threads serve requests, processes run tasks; only a request that
\* got to the view dispatches a task.
Resting ==
  /\ \A a \in Actors : point[a] = "idle" => serves[a] = NoJob
  /\ \A t \in Threads : point[t] = "idle" \/ Serving(t)
  /\ \A w \in Pool : point[w] \in {"idle", "running"}
  /\ dispatched \subseteq entered

TracingTypes == TracedInv /\ CountInv /\ Resting

\* Nobody works at the start.
LEMMA TracingTypesBegin == TracingInit => TracingTypes
BY TracedInit, CountStart DEF TracingInit, TracingTypes, Resting, Actors

\* Every step of a thread, of a process and every kill keeps Resting.
LEMMA TracingTypesKept == TracingTypes /\ [TracingNext]_tracingVars => TracingTypes'
<1> SUFFICES ASSUME TracingTypes, [TracingNext]_tracingVars PROVE TracingTypes'
  OBVIOUS
<1>1. TracedInv' /\ CountInv'
  BY TracedNext, CountStep DEF TracingTypes
<1> SUFFICES Resting'
  BY <1>1 DEF TracingTypes
<1>2. /\ DOMAIN point = Actors /\ DOMAIN serves = Actors
      /\ Threads \subseteq Actors /\ Pool \subseteq Actors /\ Threads \cap Pool = {}
      /\ Resting /\ \A a \in Actors : point[a] = "view" => serves[a] \in entered
      /\ \A a \in Actors : point[a] # "idle" => serves[a] \in Requests
  BY TracingAssumption
  DEF TracingTypes, TracedInv, BoundToRequest, CountInv, RequestsCounted, CountedSoFar, Actors
<1> USE DEF Resting, Serving
<1>3. ASSUME NEW t \in Threads, NEW r \in Requests, ReceiveRequest(t, r) PROVE Resting'
  BY <1>2, <1>3 DEF ReceiveRequest
<1>4. ASSUME NEW t \in Threads, NEW g \in Groups, EndView(t, g) PROVE Resting'
  <2>1. point[t] # "idle" /\ point' = [point EXCEPT ![t] = g] /\ g # "idle"
        /\ UNCHANGED <<serves, entered, dispatched>>
    BY <1>4, PointsApart DEF EndView
  <2> QED
    BY <1>2, <2>1
<1>5. ASSUME NEW t \in Threads, Dispatch(t) PROVE Resting'
  BY <1>2, <1>5 DEF Dispatch
<1>6. ASSUME NEW t \in Threads, NEW g \in Groups, Leave(t, g) PROVE Resting'
  BY <1>2, <1>6 DEF Leave
<1>7. ASSUME NEW w \in Pool, NEW m \in tasks, TakeTask(w, m) PROVE Resting'
  BY <1>2, <1>7 DEF TakeTask
<1>8. ASSUME NEW w \in Pool, NEW o \in Outcomes, EndTask(w, o) PROVE Resting'
  BY <1>2, <1>8 DEF EndTask
<1>9. ASSUME NEW a \in Actors, WriteLine(a) PROVE Resting'
  BY <1>2, <1>9 DEF WriteLine
<1>10. ASSUME NEW a \in Actors, Kill(a) PROVE Resting'
  BY <1>2, <1>10 DEF Kill
<1>11. CASE UNCHANGED tracingVars
  BY <1>2, <1>11 DEF tracingVars
<1>12. ASSUME NEW t \in Threads, EnterView(t) PROVE Resting'
  BY <1>2, <1>12 DEF EnterView
<1> QED
  BY <1>3, <1>4, <1>5, <1>6, <1>7, <1>8, <1>9, <1>10, <1>11, <1>12
  DEF TracingNext, AnswerEarly, Answer

\* Only ids are bound, queued and written, also after a kill, and a thread or process has
\* a job exactly while it works.
THEOREM TracingTypeCorrect == TracingSpec => []TracingTypeOK
<1>1. TracingTypes => TracingTypeOK
  <2> SUFFICES ASSUME TracingTypes PROVE TracingTypeOK
    OBVIOUS
  <2>1. \A a \in Actors : context[a] \in Ids /\ (point[a] = "idle") = (serves[a] = NoJob)
    BY TracingAssumption DEF TracingTypes, TracedInv, BoundToRequest, Resting
  <2>2. \A m \in tasks : m.id \in Ids /\ m.request \in dispatched
    BY IdOfRequest DEF TracingTypes, TracedInv, LinesCarryIds, CountInv, TakenOnce
  <2>3. \A t \in Threads : resetToken[t] \in Ids
    BY DEF TracingTypes, TracedInv, BoundToRequest
  <2>4. begun \subseteq Requests /\ entered \subseteq begun
    BY DEF TracingTypes, CountInv, ServedOnce
  <2> QED
    BY <2>1, <2>2, <2>3, <2>4 DEF TracingTypes, Resting, Serving, TracingTypeOK
<1> QED
  BY <1>1, TracingTypesBegin, TracingTypesKept, PTL DEF TracingSpec

-----------------------------------------------------------------------------
(* RateLimit *)

\* Requests counted in a window that will be let through.
Entitled(w) ==
  {a \in Attempts : attempt[a].step = "counted" /\ attempt[a].window = w
                    /\ attempt[a].count <= Limit}

\* What a window has let through and is about to let through.
Through(w) == passed[w] + Cardinality(Entitled(w))

\* That is within the limit, and within the counter while the window lasts; windows to
\* come have nothing yet.
LimitInv ==
  /\ LimitTypeOK
  /\ \A a \in Attempts : attempt[a].window <= windows
  /\ \A w \in 0..MaxWindows : Through(w) <= Limit /\ (w > windows => passed[w] = 0)
  /\ counter # NoCount => Through(windows) <= counter

\* Only finitely many requests are about to be let through.
LEMMA EntitledFinite ==
  ASSUME NEW w
  PROVE  IsFiniteSet(Entitled(w)) /\ Cardinality(Entitled(w)) \in Nat
<1>1. Entitled(w) \subseteq Attempts
  BY DEF Entitled
<1> QED
  BY <1>1, LimitAssumption, FS_Subset, FS_CardinalityType

\* What a window lets through is a number, no smaller than what it has let through.
LEMMA ThroughType ==
  ASSUME LimitTypeOK, NEW w \in 0..MaxWindows
  PROVE  Through(w) \in Nat /\ passed[w] \in Nat /\ passed[w] <= Through(w)
<1>1. Cardinality(Entitled(w)) \in Nat
  BY EntitledFinite
<1>2. passed[w] \in Nat
  BY DEF LimitTypeOK
<1> QED
  BY <1>1, <1>2 DEF Through

\* No request is counted at the start.
LEMMA LimitStart == LimitInit => LimitInv
<1> SUFFICES ASSUME LimitInit PROVE LimitInv
  OBVIOUS
<1> USE LimitAssumption DEF LimitInit
<1>1. LimitTypeOK
  BY DEF LimitTypeOK, Idle, Attempt
<1>2. \A w \in 0..MaxWindows : Through(w) = 0 /\ passed[w] = 0
  <2> TAKE w \in 0..MaxWindows
  <2>1. Entitled(w) = {}
    BY DEF Entitled, Idle
  <2>2. Cardinality(Entitled(w)) = 0
    BY <2>1, FS_EmptySet
  <2> QED
    BY <2>2 DEF Through
<1> QED
  BY <1>1, <1>2 DEF LimitInv, Idle

\* A request moves on, as a record of the right shape.
LEMMA AttemptMoves ==
  ASSUME LimitTypeOK, NEW a \in Attempts, NEW k \in Attempt,
         attempt' = [attempt EXCEPT ![a] = k]
  PROVE  /\ attempt' \in [Attempts -> Attempt]
         /\ attempt'[a] = k /\ \A b \in Attempts \ {a} : attempt'[b] = attempt[b]
BY DEF LimitTypeOK

\* Goto only changes the step.
LEMMA GotoStep ==
  ASSUME LimitTypeOK, NEW a \in Attempts,
         NEW step \in {"add", "incr", "addAgain", "incrAgain"}, Goto(a, step)
  PROVE  /\ attempt' \in [Attempts -> Attempt]
         /\ attempt'[a].step = step /\ attempt'[a].window = attempt[a].window
         /\ \A b \in Attempts \ {a} : attempt'[b] = attempt[b]
<1> DEFINE k == [attempt[a] EXCEPT !.step = step]
<1>1. attempt[a] \in Attempt
  BY DEF LimitTypeOK
<1>2. k \in Attempt /\ k.step = step /\ k.window = attempt[a].window
  BY <1>1 DEF Attempt
<1>3. attempt' = [attempt EXCEPT ![a] = k]
  BY DEF Goto
<1> HIDE DEF k
<1> QED
  BY <1>2, <1>3, AttemptMoves

\* A request that is not counted, before or after, is none of the entitled.
LEMMA NotEntitled ==
  ASSUME NEW a \in Attempts, attempt[a].step # "counted", attempt'[a].step # "counted",
         \A b \in Attempts \ {a} : attempt'[b] = attempt[b], UNCHANGED passed, NEW w
  PROVE  Through(w)' = Through(w)
<1>1. Entitled(w)' = Entitled(w)
  BY DEF Entitled
<1> QED
  BY <1>1 DEF Through

\* Every step of a request and the end of a window keep LimitInv.
LEMMA LimitNextInv == LimitInv /\ [LimitNext]_limitVars => LimitInv'
<1> SUFFICES ASSUME LimitInv, [LimitNext]_limitVars
             PROVE  LimitInv'
  OBVIOUS
<1>0. LimitTypeOK
  BY DEF LimitInv
<1>1. ASSUME NEW a \in Attempts, Post(a) PROVE LimitInv'
  <2>1. Goto(a, "add") /\ attempt[a].step # "counted"
    BY <1>1 DEF Post
  <2>2. /\ attempt' \in [Attempts -> Attempt]
        /\ attempt'[a].step = "add" /\ attempt'[a].window = attempt[a].window
        /\ \A b \in Attempts \ {a} : attempt'[b] = attempt[b]
    BY <1>0, <2>1, GotoStep
  <2>3. UNCHANGED <<counter, windows, passed>> /\ posts' \in 0..MaxPosts
    BY <1>0, <1>1, LimitAssumption DEF Post, LimitTypeOK
  <2>4. \A w \in 0..MaxWindows : Through(w)' = Through(w)
    BY <2>1, <2>2, <2>3, NotEntitled
  <2>5. LimitTypeOK'
    BY <1>0, <2>2, <2>3 DEF LimitTypeOK
  <2> QED
    BY <1>0, <2>2, <2>3, <2>4, <2>5 DEF LimitInv, LimitTypeOK
<1>2. ASSUME NEW a \in Attempts, AddKey(a) PROVE LimitInv'
  <2>1. PICK to \in {"incr", "incrAgain"} : Goto(a, to)
    BY <1>2 DEF AddKey
  <2>2. /\ attempt' \in [Attempts -> Attempt]
        /\ attempt'[a].step = to /\ attempt'[a].window = attempt[a].window
        /\ \A b \in Attempts \ {a} : attempt'[b] = attempt[b]
    BY <1>0, <2>1, GotoStep
  <2>3. UNCHANGED <<posts, passed>> /\ attempt[a].step # "counted"
    BY <1>2 DEF AddKey
  <2>4. \A w \in 0..MaxWindows : Through(w)' = Through(w)
    BY <2>2, <2>3, NotEntitled
  <2>5. CASE counter = NoCount
    <3>1. windows \in Nat /\ MaxWindows \in Nat
      BY <1>0, LimitAssumption DEF LimitTypeOK
    <3>2. PICK w \in 0..MaxWindows : w = windows + 1 /\ counter' = 0 /\ windows' = w
      <4>1. counter' = 0 /\ windows < MaxWindows /\ windows' = windows + 1
        BY <1>2, <2>5 DEF AddKey
      <4> QED
        BY <3>1, <4>1
    <3>3. w \in Nat /\ w > windows
      BY <3>1, <3>2
    <3>4. LimitTypeOK'
      BY <1>0, <2>2, <2>3, <3>2 DEF LimitTypeOK
    <3>5. \A b \in Attempts : attempt[b].window <= windows /\ attempt[b].window \in Nat
      <4>1. \A b \in Attempts : attempt[b] \in Attempt
        BY <1>0 DEF LimitTypeOK
      <4>2. \A b \in Attempts : attempt[b].window \in 0..MaxWindows
        BY <4>1 DEF Attempt
      <4> QED
        BY <4>2, LimitAssumption DEF LimitInv
    <3>6. Entitled(w) = {}
      <4>1. \A b \in Attempts : attempt[b].window # w
        BY <3>1, <3>3, <3>5
      <4> QED
        BY <4>1 DEF Entitled
    <3>7. passed[w] = 0 /\ \A x \in 0..MaxWindows : x > w => passed'[x] = 0
      BY <2>3, <3>1, <3>3 DEF LimitInv
    <3>8. Through(windows)' = 0
      <4>1. Cardinality(Entitled(w)) = 0
        BY <3>6, FS_EmptySet
      <4>2. Through(w) = 0
        BY <3>7, <4>1 DEF Through
      <4>3. Through(w)' = 0
        BY <2>4, <4>2
      <4> QED
        BY <3>2, <4>3 DEF Through, Entitled
    <3>9. \A b \in Attempts : attempt'[b].window <= w
      BY <2>2, <3>1, <3>3, <3>5
    <3>10. \A x \in 0..MaxWindows : Through(x)' <= Limit
      BY <2>4 DEF LimitInv
    <3> QED
      BY <3>2, <3>4, <3>7, <3>8, <3>9, <3>10 DEF LimitInv
  <2>6. CASE counter # NoCount
    <3>1. UNCHANGED <<counter, windows>>
      BY <1>2, <2>6 DEF AddKey
    <3>2. LimitTypeOK'
      BY <1>0, <2>2, <2>3, <3>1 DEF LimitTypeOK
    <3> QED
      BY <1>0, <2>2, <2>3, <2>4, <3>1, <3>2 DEF LimitInv, LimitTypeOK
  <2> QED
    BY <2>5, <2>6
<1>3. ASSUME NEW a \in Attempts, Count(a) PROVE LimitInv'
  <2> DEFINE k == [step |-> "counted", count |-> counter', window |-> windows]
  <2>1. /\ counter # NoCount /\ counter \in Nat /\ counter' = counter + 1
        /\ attempt' = [attempt EXCEPT ![a] = k]
        /\ UNCHANGED <<windows, posts, passed>> /\ windows \in 0..MaxWindows
        /\ attempt[a].step # "counted"
    BY <1>0, <1>3 DEF Count, LimitTypeOK
  <2>2. k \in Attempt
    BY <2>1 DEF Attempt
  <2>3. k.step = "counted" /\ k.window = windows /\ k.count = counter + 1
    BY <2>1
  <2> HIDE DEF k
  <2>4. /\ attempt' \in [Attempts -> Attempt] /\ attempt'[a] = k
        /\ \A b \in Attempts \ {a} : attempt'[b] = attempt[b]
    BY <1>0, <2>1, <2>2, AttemptMoves
  <2>5. LimitTypeOK'
    BY <1>0, <2>1, <2>4 DEF LimitTypeOK
  <2>6. ASSUME NEW w \in 0..MaxWindows, w # windows
        PROVE  Through(w)' = Through(w)
    <3>1. Entitled(w)' = Entitled(w)
      BY <2>1, <2>3, <2>4, <2>6 DEF Entitled
    <3> QED
      BY <2>1, <3>1 DEF Through
  <2>7. Through(windows) \in Nat /\ Through(windows) <= Limit /\ Through(windows) <= counter
    BY <1>0, <2>1, ThroughType DEF LimitInv
  <2>8. Through(windows)' <= Limit /\ Through(windows)' <= counter'
    <3>1. CASE counter + 1 > Limit
      <4>1. Entitled(windows)' = Entitled(windows)
        BY <2>1, <2>3, <2>4, <3>1, LimitAssumption DEF Entitled
      <4>2. Through(windows)' = Through(windows)
        BY <2>1, <4>1 DEF Through
      <4> QED
        BY <2>1, <2>7, <4>2
    <3>2. CASE counter + 1 <= Limit
      <4>1. Entitled(windows)' = Entitled(windows) \cup {a}
        BY <2>1, <2>3, <2>4, <3>2, LimitAssumption DEF Entitled
      <4>2. a \notin Entitled(windows)
        BY <2>1 DEF Entitled
      <4>3. Cardinality(Entitled(windows) \cup {a}) = Cardinality(Entitled(windows)) + 1
        BY <4>2, EntitledFinite, FS_AddElement
      <4>4. Cardinality(Entitled(windows)) \in Nat /\ passed[windows] \in Nat
        BY <1>0, <2>1, EntitledFinite, ThroughType
      <4>5. Through(windows)' = Through(windows) + 1
        BY <2>1, <4>1, <4>3, <4>4 DEF Through
      <4> QED
        BY <2>1, <2>7, <3>2, <4>5, LimitAssumption
    <3> QED
      BY <2>1, <3>1, <3>2, LimitAssumption
  <2>9. \A b \in Attempts : attempt'[b].window <= windows'
    BY <2>1, <2>3, <2>4 DEF LimitInv
  <2>10. \A w \in 0..MaxWindows : Through(w)' <= Limit /\ (w > windows' => passed'[w] = 0)
    BY <2>1, <2>6, <2>8 DEF LimitInv
  <2> QED
    BY <2>1, <2>5, <2>8, <2>9, <2>10 DEF LimitInv
<1>4. ASSUME NEW a \in Attempts, WindowGone(a) PROVE LimitInv'
  <2>1. UNCHANGED <<counter, windows, posts, passed>> /\ attempt[a].step # "counted"
    BY <1>4 DEF WindowGone
  <2>2. /\ attempt' \in [Attempts -> Attempt] /\ attempt'[a].step # "counted"
        /\ attempt'[a].window \in {0, attempt[a].window}
        /\ \A b \in Attempts \ {a} : attempt'[b] = attempt[b]
    <3>1. CASE Goto(a, "addAgain")
      BY <1>0, <3>1, GotoStep
    <3>2. CASE attempt' = [attempt EXCEPT ![a] = Idle]
      <4>1. Idle \in Attempt /\ Idle.step # "counted" /\ Idle.window = 0
        BY LimitAssumption DEF Idle, Attempt
      <4> QED
        BY <1>0, <3>2, <4>1, AttemptMoves
    <3> QED
      BY <1>4, <3>1, <3>2 DEF WindowGone
  <2>3. \A w \in 0..MaxWindows : Through(w)' = Through(w)
    BY <2>1, <2>2, NotEntitled
  <2>4. LimitTypeOK'
    BY <1>0, <2>1, <2>2 DEF LimitTypeOK
  <2>5. \A b \in Attempts : attempt'[b].window <= windows'
    BY <1>0, <2>1, <2>2 DEF LimitInv, LimitTypeOK
  <2> QED
    BY <1>0, <2>1, <2>3, <2>4, <2>5 DEF LimitInv, LimitTypeOK
<1>5. ASSUME NEW a \in Attempts, Decide(a) PROVE LimitInv'
  <2> DEFINE here == attempt[a].window
  <2>1. /\ attempt[a].step = "counted" /\ attempt' = [attempt EXCEPT ![a] = Idle]
        /\ UNCHANGED <<counter, windows, posts>>
    BY <1>5 DEF Decide
  <2>2. attempt[a] \in Attempt /\ here \in 0..MaxWindows /\ attempt[a].count \in Nat
    BY <1>0 DEF LimitTypeOK, Attempt
  <2>3. Idle \in Attempt /\ Idle.step = "idle" /\ Idle.window = 0
    BY LimitAssumption DEF Idle, Attempt
  <2>4. /\ attempt' \in [Attempts -> Attempt] /\ attempt'[a] = Idle
        /\ \A b \in Attempts \ {a} : attempt'[b] = attempt[b]
    BY <1>0, <2>1, <2>3, AttemptMoves
  <2>5. ASSUME NEW w \in 0..MaxWindows
        PROVE  /\ passed'[w] \in Nat /\ Through(w)' = Through(w)
               /\ w > windows => passed'[w] = 0
    <3>0. passed[w] \in Nat /\ (w > windows => passed[w] = 0)
      BY <1>0 DEF LimitInv, LimitTypeOK
    <3>1. CASE w = here /\ attempt[a].count <= Limit
      <4>1. a \in Entitled(w) /\ Entitled(w)' = Entitled(w) \ {a}
        BY <2>1, <2>3, <2>4, <3>1 DEF Entitled
      <4>2. Cardinality(Entitled(w) \ {a}) = Cardinality(Entitled(w)) - 1
        BY <4>1, EntitledFinite, FS_RemoveElement
      <4>3. passed'[w] = passed[w] + 1
        BY <1>0, <1>5, <2>2, <3>1, LimitAssumption DEF Decide, LimitTypeOK
      <4>4. w <= windows
        BY <3>1 DEF LimitInv
      <4>5. Cardinality(Entitled(w)) \in Nat
        BY EntitledFinite
      <4>6. Through(w)' = Through(w)
        BY <3>0, <4>1, <4>2, <4>3, <4>5 DEF Through
      <4> QED
        BY <1>0, <3>0, <4>3, <4>4, <4>6 DEF LimitTypeOK
    <3>2. CASE ~(w = here /\ attempt[a].count <= Limit)
      <4>1. Entitled(w)' = Entitled(w)
        BY <2>1, <2>3, <2>4, <3>2 DEF Entitled
      <4>2. passed'[w] = passed[w]
        BY <1>0, <1>5, <2>2, <3>2, LimitAssumption DEF Decide, LimitTypeOK
      <4> QED
        BY <3>0, <4>1, <4>2 DEF Through
    <3> QED
      BY <3>1, <3>2
  <2>6. passed' \in [0..MaxWindows -> Nat]
    <3>1. \/ passed' = passed
          \/ passed' = [passed EXCEPT ![here] = passed[here] + 1]
      BY <1>5 DEF Decide
    <3> QED
      BY <1>0, <2>2, <3>1 DEF LimitTypeOK
  <2>7. LimitTypeOK'
    BY <1>0, <2>1, <2>4, <2>6 DEF LimitTypeOK
  <2>8. \A b \in Attempts : attempt'[b].window <= windows'
    <3>1. 0 <= windows
      BY <1>0 DEF LimitTypeOK
    <3> QED
      BY <2>1, <2>3, <2>4, <3>1 DEF LimitInv
  <2>9. Through(windows)' = Through(windows)
    BY <1>0, <2>1, <2>5 DEF LimitTypeOK, Through, Entitled
  <2> QED
    BY <2>1, <2>5, <2>7, <2>8, <2>9 DEF LimitInv
<1>6. CASE EndWindow
  <2>1. counter' = NoCount /\ UNCHANGED <<windows, attempt, posts, passed>>
    BY <1>6 DEF EndWindow
  <2>2. LimitTypeOK'
    BY <1>0, <2>1 DEF LimitTypeOK
  <2>3. \A w \in 0..MaxWindows : Through(w)' = Through(w)
    BY <2>1 DEF Through, Entitled
  <2> QED
    BY <2>1, <2>2, <2>3 DEF LimitInv
<1>7. CASE UNCHANGED limitVars
  <2>1. UNCHANGED <<counter, windows, attempt, posts, passed>>
    BY <1>7 DEF limitVars
  <2> QED
    BY <2>1 DEF LimitInv, LimitTypeOK, Through, Entitled
<1> QED
  BY <1>1, <1>2, <1>3, <1>4, <1>5, <1>6, <1>7 DEF LimitNext

\* Whatever is through is within the limit and the counter, so what has passed is.
LEMMA LimitHeld == LimitInv => WindowHoldsLimit
<1> SUFFICES ASSUME LimitInv PROVE WindowHoldsLimit
  OBVIOUS
<1>1. \A w \in 0..MaxWindows :
        passed[w] \in Nat /\ Through(w) \in Nat /\ passed[w] <= Through(w) /\ Through(w) <= Limit
  BY ThroughType DEF LimitInv
<1>2. counter # NoCount =>
        windows \in 0..MaxWindows /\ counter \in Nat /\ Through(windows) <= counter
  BY DEF LimitInv, LimitTypeOK
<1> QED
  BY <1>1, <1>2, LimitAssumption DEF WindowHoldsLimit

\* However many POSTs race each other and the ends of however many windows, no window
\* lets more of them through than the limit.
THEOREM LimitHolds == LimitSpec => []WindowHoldsLimit
BY LimitStart, LimitNextInv, LimitHeld, PTL DEF LimitSpec

\* The counter, the windows and every request at its step keep their types, however
\* windows end.
THEOREM LimitTypeCorrect == LimitSpec => []LimitTypeOK
<1>1. LimitInv => LimitTypeOK
  BY DEF LimitInv
<1> QED
  BY <1>1, LimitStart, LimitNextInv, PTL DEF LimitSpec

-----------------------------------------------------------------------------
(* InfiniteScroll *)

\* The cards on the page follow each other.
InOrder == grid = [i \in 1..Len(grid) |-> top + i - 1]

\* While there is a next page the grid ends where that page begins; without one it ends
\* with the last product, and nothing can load any more.  A request is under way only
\* while loading, and asks for that page.
GridReaches ==
  /\ next \in Nat /\ next <= Pages
  /\ next # 0 => 2 <= next /\ top + Len(grid) - 1 = (next - 1) * PageSize
  /\ next = 0 => top + Len(grid) - 1 = results /\ ~watching /\ button = "hidden" /\ ~loading
  /\ finished => next = 0
  /\ fetches = IF loading THEN <<next>> ELSE << >>

ScrollInv ==
  /\ changes \in Nat
  /\ changes = 0 =>
       /\ results \in Nat \ {0} /\ top \in Nat \ {0} /\ loading \in BOOLEAN
       /\ grid \in Seq(Nat) /\ InOrder /\ GridReaches

\* A page of a listing starts behind the pages before it, and the last page alone ends
\* with the listing.
LEMMA PageBounds ==
  ASSUME results \in Nat \ {0}, NEW page \in Nat, 1 <= page, page <= Pages
  PROVE  /\ Pages \in Nat /\ PageSize \in Nat \ {0}
         /\ (page - 1) * PageSize \in Nat /\ page * PageSize \in Nat
         /\ (page - 1) * PageSize < results /\ (page - 1) * PageSize < page * PageSize
         /\ page < Pages => page * PageSize < results
         /\ page = Pages => results <= page * PageSize
<1>1. PageSize \in Nat \ {0}
  BY ScrollAssumption
<1> DEFINE a == results + PageSize - 1
           q == a \div PageSize
<1>2. a \in Nat
  BY <1>1
<1>3. q \in Nat /\ q * PageSize <= a /\ a < (q + 1) * PageSize
  <2> HIDE DEF a
  <2> QED
    BY <1>1, <1>2, Z3
<1>4. Pages = q
  BY DEF Pages
<1> HIDE DEF q
<1>5. (q + 1) * PageSize = q * PageSize + PageSize /\ q * PageSize \in Nat
  BY <1>1, <1>3
<1>6. results <= q * PageSize /\ q * PageSize <= results + PageSize - 1
  BY <1>1, <1>3, <1>5
<1>7. /\ (page - 1) * PageSize = page * PageSize - PageSize
      /\ (page - 1) * PageSize \in Nat /\ page * PageSize \in Nat
  BY <1>1
<1>8. page * PageSize <= q * PageSize
  BY <1>1, <1>3, <1>4
<1>9. page < q => page * PageSize + PageSize <= q * PageSize
  <2> SUFFICES ASSUME page < q PROVE page * PageSize + PageSize <= q * PageSize
    OBVIOUS
  <2>1. (page + 1) * PageSize <= q * PageSize
    BY <1>1, <1>3
  <2>2. (page + 1) * PageSize = page * PageSize + PageSize
    BY <1>1
  <2> QED
    BY <2>1, <2>2
<1> QED
  BY <1>1, <1>3, <1>4, <1>5, <1>6, <1>7, <1>8, <1>9

\* The cards of a page are the products from its first to its last one.
LEMMA CardsOfPage ==
  ASSUME results \in Nat \ {0}, NEW page \in Nat, 1 <= page, page <= Pages
  PROVE  \E n \in Nat \ {0} :
           /\ Cards(page) = [i \in 1..n |-> (page - 1) * PageSize + i]
           /\ (page - 1) * PageSize + n = IF page < Pages THEN page * PageSize ELSE results
<1> DEFINE first == (page - 1) * PageSize + 1
           last == Min2(page * PageSize, results)
           n == last - first + 1
<1>1. /\ (page - 1) * PageSize \in Nat /\ page * PageSize \in Nat
      /\ (page - 1) * PageSize < results /\ (page - 1) * PageSize < page * PageSize
      /\ page < Pages => page * PageSize < results
      /\ page = Pages => results <= page * PageSize
      /\ Pages \in Nat
  BY PageBounds
<1>2. last = IF page < Pages THEN page * PageSize ELSE results
  BY <1>1 DEF Min2
<1>3. n \in Nat \ {0} /\ (page - 1) * PageSize + n = last
  BY <1>1, <1>2
<1>4. Cards(page) = [i \in 1..n |-> first + i - 1]
  BY DEF Cards
<1>5. \A i \in 1..n : first + i - 1 = (page - 1) * PageSize + i
  BY <1>1, <1>3
<1> HIDE DEF n, first, last
<1>6. Cards(page) = [i \in 1..n |-> (page - 1) * PageSize + i]
  BY <1>4, <1>5
<1> QED
  BY <1>2, <1>3, <1>6

\* Cards that go on where the grid ends keep it in order.
LEMMA GridGrows ==
  ASSUME grid \in Seq(Nat), top \in Nat \ {0}, InOrder, NEW f \in Nat, NEW n \in Nat \ {0},
         top + Len(grid) - 1 = f, NEW s, s = [i \in 1..n |-> f + i],
         grid' = grid \o s, top' = top
  PROVE  /\ grid' \in Seq(Nat) /\ InOrder'
         /\ Len(grid') = Len(grid) + n
<1>1. s \in Seq(Nat) /\ Len(s) = n
  OBVIOUS
<1>2. grid' \in Seq(Nat) /\ Len(grid') = Len(grid) + n /\ Len(grid) \in Nat
  BY <1>1
<1>3. grid' = [i \in 1..Len(grid') |-> grid'[i]]
  <2>1. PICK g \in Seq(Nat) : g = grid'
    BY <1>2
  <2>2. g = [i \in 1..Len(g) |-> g[i]]
    BY LenProperties
  <2> QED
    BY <2>1, <2>2
<1>4. ASSUME NEW i \in 1..Len(grid') PROVE grid'[i] = top + i - 1
  <2>1. CASE i <= Len(grid)
    <3>1. grid'[i] = grid[i]
      BY <1>1, <1>2, <2>1
    <3>2. grid[i] = top + i - 1
      BY <1>2, <2>1 DEF InOrder
    <3> QED
      BY <3>1, <3>2
  <2>2. CASE i > Len(grid)
    <3>1. grid'[i] = s[i - Len(grid)] /\ i - Len(grid) \in 1..n
      BY <1>1, <1>2, <2>2
    <3>2. s[i - Len(grid)] = f + (i - Len(grid))
      BY <3>1
    <3>3. f + (i - Len(grid)) = top + i - 1
      <4>1. PICK m \in Nat : m = Len(grid)
        BY <1>2
      <4>2. i \in Nat /\ top \in Nat /\ top + m - 1 = f
        BY <1>2, <4>1
      <4>3. f + (i - m) = top + i - 1
        BY <4>2
      <4> QED
        BY <4>1, <4>3
    <3> QED
      BY <3>1, <3>2, <3>3
  <2> QED
    BY <1>2, <2>1, <2>2
<1>5. InOrder'
  BY <1>3, <1>4 DEF InOrder
<1> QED
  BY <1>2, <1>5

\* The page is opened with the cards of one page.
LEMMA ScrollStart == ScrollInit => ScrollInv
<1> SUFFICES ASSUME ScrollInit PROVE ScrollInv
  OBVIOUS
<1>1. results \in Nat \ {0} /\ PageSize \in Nat \ {0}
  BY ScrollAssumption DEF ScrollInit
<1>2. PICK page \in 1..Pages :
        /\ grid = Cards(page)
        /\ next = NextOf(page)
        /\ top = (page - 1) * PageSize + 1
  BY DEF ScrollInit
<1>3. Pages \in Nat
  <2>1. results + PageSize - 1 \in Nat
    BY <1>1
  <2> DEFINE a == results + PageSize - 1
  <2>2. a \div PageSize \in Nat
    <3> HIDE DEF a
    <3> QED
      BY <1>1, <2>1, Z3 DEF a
  <2> QED
    BY <2>2 DEF Pages
<1>4. page \in Nat /\ 1 <= page /\ page <= Pages
  BY <1>2, <1>3
<1>5. (page - 1) * PageSize \in Nat /\ page * PageSize \in Nat
  BY <1>1, <1>4, PageBounds
<1>6. PICK n \in Nat \ {0} :
        /\ Cards(page) = [i \in 1..n |-> (page - 1) * PageSize + i]
        /\ (page - 1) * PageSize + n = IF page < Pages THEN page * PageSize ELSE results
  BY <1>1, <1>4, CardsOfPage
<1>7. grid \in Seq(Nat) /\ Len(grid) = n /\ top \in Nat \ {0}
  BY <1>2, <1>5, <1>6
<1>8. InOrder
  <2>1. \A i \in 1..n : (page - 1) * PageSize + i = top + i - 1
    BY <1>2, <1>5
  <2> QED
    BY <1>2, <1>6, <1>7, <2>1 DEF InOrder
<1>9. top + Len(grid) - 1 = IF page < Pages THEN page * PageSize ELSE results
  BY <1>2, <1>5, <1>6, <1>7
<1>10. GridReaches
  <2>1. CASE page < Pages
    <3>1. next = page + 1 /\ (next - 1) * PageSize = page * PageSize
      BY <1>2, <1>4, <2>1 DEF NextOf
    <3> QED
      BY <1>3, <1>4, <1>9, <2>1, <3>1 DEF GridReaches, ScrollInit
  <2>2. CASE ~(page < Pages)
    <3>1. next = 0
      BY <1>2, <2>2 DEF NextOf
    <3>2. ~watching /\ button = "hidden" /\ ~loading /\ fetches = << >> /\ ~finished
      BY <3>1 DEF ScrollInit
    <3>3. top + Len(grid) - 1 = results
      BY <1>9, <2>2
    <3> QED
      BY <1>3, <3>1, <3>2, <3>3 DEF GridReaches
  <2> QED
    BY <2>1, <2>2
<1> QED
  BY <1>1, <1>7, <1>8, <1>10 DEF ScrollInv, ScrollInit

\* Nothing is left of a single request once it is answered.
LEMMA OnlyFetch ==
  ASSUME NEW x
  PROVE  /\ DOMAIN <<x>> = {1} /\ <<x>>[1] = x
         /\ RemoveAt(<<x>>, 1) = << >>
BY DEF RemoveAt

\* A request is sent for the next page, once; its answer appends exactly that page.
LEMMA ScrollStep == ScrollInv /\ [ScrollNext]_scrollVars => ScrollInv'
<1> SUFFICES ASSUME ScrollInv, [ScrollNext]_scrollVars PROVE ScrollInv'
  OBVIOUS
<1>1. ASSUME NEW n \in 0..MaxResults, ChangeCatalog(n) PROVE ScrollInv'
  <2>1. changes' \in Nat /\ changes' # 0
    BY <1>1 DEF ChangeCatalog, ScrollInv
  <2> QED
    BY <2>1 DEF ScrollInv
<1>2. CASE UNCHANGED scrollVars
  BY <1>2 DEF scrollVars, ScrollInv, InOrder, GridReaches, Pages
<1>3. ASSUME LoadNextPage, watching \/ button = "ready" PROVE ScrollInv'
  <2> SUFFICES ASSUME changes = 0 PROVE ScrollInv'
    BY <1>3 DEF LoadNextPage, ScrollInv
  <2>1. /\ results \in Nat \ {0} /\ top \in Nat \ {0}
        /\ grid \in Seq(Nat) /\ InOrder /\ GridReaches
    BY DEF ScrollInv
  <2>2. /\ next # 0 /\ fetches = << >> /\ loading' = TRUE /\ ~finished
        /\ fetches' = Append(fetches, next)
        /\ UNCHANGED <<results, grid, next, finished, top, changes>>
    BY <1>3, <2>1 DEF LoadNextPage, GridReaches
  <2>3. fetches' = <<next>>
    BY <2>2
  <2>4. InOrder'
    BY <2>1, <2>2 DEF InOrder
  <2>5. GridReaches'
    BY <2>1, <2>2, <2>3 DEF GridReaches, Pages
  <2> QED
    BY <2>1, <2>2, <2>4, <2>5 DEF ScrollInv
<1>4. ASSUME NEW i \in DOMAIN fetches, Receive(i) PROVE ScrollInv'
  <2> SUFFICES ASSUME changes = 0 PROVE ScrollInv'
    BY <1>4 DEF Receive, ScrollInv
  <2>1. /\ results \in Nat \ {0} /\ top \in Nat \ {0} /\ loading \in BOOLEAN
        /\ grid \in Seq(Nat) /\ InOrder /\ GridReaches
    BY DEF ScrollInv
  <2>2. loading /\ fetches = <<next>>
    <3>1. fetches # << >>
      OBVIOUS
    <3> QED
      BY <2>1, <3>1 DEF GridReaches
  <2>3. i = 1 /\ fetches[i] = next /\ fetches' = << >>
    BY <1>4, <2>2, OnlyFetch DEF Receive
  <2>4. /\ next # 0 /\ next \in Nat /\ 2 <= next /\ next <= Pages
        /\ top + Len(grid) - 1 = (next - 1) * PageSize
        /\ ~finished
    BY <2>1, <2>2 DEF GridReaches
  <2>5. /\ Pages \in Nat /\ PageSize \in Nat \ {0} /\ (next - 1) * PageSize \in Nat
    BY <2>1, <2>4, PageBounds
  <2>6. Clamp(next) = next
    BY <2>4, <2>5 DEF Clamp
  <2>7. PICK n \in Nat \ {0} :
          /\ Cards(next) = [j \in 1..n |-> (next - 1) * PageSize + j]
          /\ (next - 1) * PageSize + n = IF next < Pages THEN next * PageSize ELSE results
    BY <2>1, <2>4, CardsOfPage
  <2>8. Cards(next) # << >>
    BY <2>7
  <2>9. loading' = FALSE /\ UNCHANGED <<results, top, changes>>
    BY <1>4 DEF Receive
  <2>10. AppendCards(next) \/ Fail
    BY <1>4, <2>3, <2>6, <2>8 DEF Receive, NoCards
  <2>11. CASE Fail
    <3>1. InOrder' /\ grid' \in Seq(Nat)
      BY <2>1, <2>9, <2>11 DEF Fail, InOrder
    <3>2. GridReaches'
      BY <2>3, <2>4, <2>9, <2>11 DEF Fail, GridReaches, Pages
    <3> QED
      BY <2>1, <2>9, <3>1, <3>2 DEF ScrollInv
  <2>12. CASE AppendCards(next)
    <3>1. /\ grid' = grid \o Cards(next) /\ next' = NextOf(next)
          /\ IF next' = 0 THEN Stop
             ELSE button' = "ready" /\ UNCHANGED <<finished, watching>>
      BY <2>12 DEF AppendCards
    <3> DEFINE f == (next - 1) * PageSize
    <3>2. f \in Nat /\ top + Len(grid) - 1 = f /\ Cards(next) = [j \in 1..n |-> f + j]
      BY <2>4, <2>5, <2>7
    <3>3. f + n = IF next < Pages THEN next * PageSize ELSE results
      BY <2>7
    <3> HIDE DEF f
    <3>4. /\ grid' \in Seq(Nat) /\ InOrder'
          /\ Len(grid') = Len(grid) + n
      BY <2>1, <2>9, <3>1, <3>2, GridGrows
    <3>5. top' + Len(grid') - 1 = f + n
      <4>1. PICK m \in Nat : m = Len(grid)
        BY <2>1
      <4>2. top + (m + n) - 1 = f + n
        BY <2>1, <3>2, <4>1
      <4> QED
        BY <2>9, <3>4, <4>1, <4>2
    <3>6. CASE next < Pages
      <4>1. next' = next + 1 /\ next' - 1 = next
        BY <2>4, <3>1, <3>6 DEF NextOf
      <4>2. next' \in Nat /\ next' <= Pages /\ 2 <= next' /\ next' # 0
        BY <2>4, <2>5, <3>6, <4>1
      <4>3. ~finished'
        BY <2>4, <3>1, <4>2
      <4>4. GridReaches'
        BY <2>3, <2>9, <3>3, <3>5, <3>6, <4>1, <4>2, <4>3 DEF GridReaches, Pages
      <4> QED
        BY <2>1, <2>9, <3>4, <4>4 DEF ScrollInv
    <3>7. CASE ~(next < Pages)
      <4>1. next' = 0 /\ Stop
        BY <3>1, <3>7 DEF NextOf
      <4>2. GridReaches'
        BY <2>3, <2>5, <2>9, <3>3, <3>5, <3>7, <4>1 DEF GridReaches, Stop, Pages
      <4> QED
        BY <2>1, <2>9, <3>4, <4>2 DEF ScrollInv
    <3> QED
      BY <3>6, <3>7
  <2> QED
    BY <2>10, <2>11, <2>12
<1> QED
  BY <1>1, <1>2, <1>3, <1>4 DEF ScrollNext, ScrollIntoView, ClickLoadMore

\* While the catalog stays, the grid shows each product once and in order, from the page
\* that was opened to the last one, however often loading is asked for or fails.
THEOREM GridWhole == ScrollSpec => []GridIsWhole
<1>1. ScrollInv => GridIsWhole
  BY DEF ScrollInv, GridIsWhole, InOrder, GridReaches
<1> QED
  BY <1>1, ScrollStart, ScrollStep, PTL DEF ScrollSpec

\* The pages of a listing are no more than those of a longer one, nor than its products.
LEMMA PagesWithin ==
  ASSUME NEW n \in Nat, results \in 0..n
  PROVE  /\ Pages \in Nat /\ (n + PageSize - 1) \div PageSize \in Nat
         /\ Pages <= (n + PageSize - 1) \div PageSize
         /\ (n + PageSize - 1) \div PageSize <= n
         /\ results # 0 => Pages # 0
<1>1. PageSize \in Nat \ {0} /\ results \in Nat /\ results <= n
  BY ScrollAssumption
<1> DEFINE a == results + PageSize - 1
           b == n + PageSize - 1
           q == a \div PageSize
           r == b \div PageSize
<1>2. a \in Nat /\ b \in Nat /\ a <= b
  BY <1>1
<1>3. /\ q \in Nat /\ q * PageSize <= a /\ a < (q + 1) * PageSize
      /\ r \in Nat /\ r * PageSize <= b /\ b < (r + 1) * PageSize
  <2> HIDE DEF a, b
  <2> QED
    BY <1>1, <1>2, Z3
<1>4. Pages = q
  BY DEF Pages
<1> HIDE DEF q, r
<1>5. q <= r
  <2> SUFFICES ASSUME r + 1 <= q PROVE FALSE
    BY <1>3
  <2>1. (r + 1) * PageSize <= q * PageSize
    BY <1>1, <1>3
  <2>2. PICK c \in Int, d \in Int : c = q * PageSize /\ d = (r + 1) * PageSize
    BY <1>1, <1>3
  <2>3. c <= a /\ a <= b /\ b < d /\ d <= c /\ a \in Nat /\ b \in Nat
    BY <1>2, <1>3, <2>1, <2>2
  <2> HIDE DEF a, b
  <2> QED
    BY <2>3
<1>6. r <= n
  <2> SUFFICES ASSUME n + 1 <= r PROVE FALSE
    BY <1>3
  <2>1. (n + 1) * PageSize <= r * PageSize
    BY <1>1, <1>3
  <2>2. (n + 1) * PageSize = n * PageSize + PageSize /\ n <= n * PageSize
    BY <1>1
  <2> QED
    BY <1>1, <1>3, <2>1, <2>2
<1>7. results # 0 => q # 0
  BY <1>1, <1>3
<1> QED
  BY <1>3, <1>4, <1>5, <1>6, <1>7 DEF r

\* What ScrollTypeOK needs besides: without a next page nothing loads any more, and one
\* request at most is under way.
ScrollTypes ==
  /\ ScrollTypeOK
  /\ next = 0 => ~watching /\ button = "hidden" /\ ~loading
  /\ IF loading THEN \E page \in 1..MaxResults : fetches = <<page>> ELSE fetches = << >>

\* The cards of a page are products of the listing, and so is the page after it.
LEMMA CardsType ==
  ASSUME results \in 1..MaxResults, NEW page \in 1..Pages
  PROVE  /\ Cards(page) \in Seq(1..MaxResults)
         /\ NextOf(page) \in 0..((MaxResults + PageSize - 1) \div PageSize)
<1>1. MaxResults \in Nat /\ results \in Nat \ {0} /\ results \in 0..MaxResults
  BY ScrollAssumption
<1>2. /\ Pages \in Nat /\ (MaxResults + PageSize - 1) \div PageSize \in Nat
      /\ Pages <= (MaxResults + PageSize - 1) \div PageSize
  BY <1>1, PagesWithin
<1>3. page \in Nat /\ 1 <= page /\ page <= Pages
  BY <1>2
<1>4. PICK n \in Nat \ {0} :
        /\ Cards(page) = [i \in 1..n |-> (page - 1) * PageSize + i]
        /\ (page - 1) * PageSize + n = IF page < Pages THEN page * PageSize ELSE results
  BY <1>1, <1>3, CardsOfPage
<1>5. /\ (page - 1) * PageSize \in Nat /\ page * PageSize \in Nat
      /\ page < Pages => page * PageSize < results
  BY <1>1, <1>3, PageBounds
<1> DEFINE f == (page - 1) * PageSize
<1>6. f \in Nat /\ f + n <= MaxResults
  BY <1>1, <1>3, <1>4, <1>5
<1>7. Cards(page) = [i \in 1..n |-> f + i]
  BY <1>4
<1> HIDE DEF f
<1>8. \A i \in 1..n : f + i \in 1..MaxResults
  BY <1>1, <1>6
<1>9. Cards(page) \in Seq(1..MaxResults)
  BY <1>7, <1>8
<1>10. NextOf(page) \in 0..((MaxResults + PageSize - 1) \div PageSize)
  <2> DEFINE m == (MaxResults + PageSize - 1) \div PageSize
  <2> HIDE DEF m
  <2>1. m \in Nat /\ Pages <= m
    BY <1>2 DEF m
  <2>2. NextOf(page) \in 0..m
    BY <1>2, <1>3, <2>1 DEF NextOf
  <2> QED
    BY <2>2 DEF m
<1> QED
  BY <1>9, <1>10

\* A page is opened with its cards and nothing under way.
LEMMA ScrollTypesBegin == ScrollInit => ScrollTypes
<1> SUFFICES ASSUME ScrollInit PROVE ScrollTypes
  OBVIOUS
<1>1. results \in 1..MaxResults /\ results \in 0..MaxResults
  BY ScrollAssumption DEF ScrollInit
<1>2. PICK page \in 1..Pages : grid = Cards(page) /\ next = NextOf(page)
  BY DEF ScrollInit
<1>3. /\ grid \in Seq(1..MaxResults)
      /\ next \in 0..((MaxResults + PageSize - 1) \div PageSize)
  BY <1>1, <1>2, CardsType
<1>4. fetches = << >> /\ fetches \in Seq(1..MaxResults)
  BY DEF ScrollInit
<1>5. sent \in 0..MaxFetches /\ changes \in 0..MaxChanges
  BY ScrollAssumption DEF ScrollInit
<1>6. /\ loading = FALSE /\ finished = FALSE /\ watching = (next # 0)
      /\ button = IF next = 0 THEN "hidden" ELSE "ready"
  BY DEF ScrollInit
<1> QED
  BY <1>1, <1>3, <1>4, <1>5, <1>6 DEF ScrollTypes, ScrollTypeOK

\* Requests, answers, failures and changes of the catalog keep the types.
LEMMA ScrollTypesKept == ScrollTypes /\ [ScrollNext]_scrollVars => ScrollTypes'
<1> SUFFICES ASSUME ScrollTypes, [ScrollNext]_scrollVars PROVE ScrollTypes'
  OBVIOUS
<1> DEFINE most == (MaxResults + PageSize - 1) \div PageSize
<1>1. /\ results \in 0..MaxResults /\ grid \in Seq(1..MaxResults) /\ next \in 0..most
      /\ loading \in BOOLEAN /\ finished \in BOOLEAN /\ watching \in BOOLEAN
      /\ button \in {"ready", "busy", "hidden"} /\ fetches \in Seq(1..MaxResults)
      /\ sent \in 0..MaxFetches /\ changes \in 0..MaxChanges
      /\ MaxResults \in Nat /\ MaxFetches \in Nat /\ MaxChanges \in Nat
  BY ScrollAssumption DEF ScrollTypes, ScrollTypeOK
<1>2. most \in Nat /\ most <= MaxResults /\ Pages \in Nat /\ (results # 0 => Pages # 0)
  BY <1>1, PagesWithin
<1>3. ASSUME results' \in 0..MaxResults, grid' \in Seq(1..MaxResults), next' \in 0..most,
             loading' \in BOOLEAN, finished' \in BOOLEAN, watching' \in BOOLEAN,
             button' \in {"ready", "busy", "hidden"},
             sent' \in 0..MaxFetches, changes' \in 0..MaxChanges,
             next' = 0 => ~watching' /\ button' = "hidden" /\ ~loading',
             IF loading' THEN \E page \in 1..MaxResults : fetches' = <<page>>
             ELSE fetches' = << >>
      PROVE  ScrollTypes'
  <2>1. ASSUME NEW page \in 1..MaxResults PROVE <<page>> \in Seq(1..MaxResults)
    OBVIOUS
  <2>2. << >> \in Seq(1..MaxResults)
    OBVIOUS
  <2>3. (\E page \in 1..MaxResults : fetches' = <<page>>) \/ fetches' = << >>
    BY <1>3, Zenon
  <2>4. fetches' \in Seq(1..MaxResults)
    BY <2>1, <2>2, <2>3, Zenon
  <2> QED
    BY <1>3, <2>4 DEF ScrollTypes, ScrollTypeOK
<1> HIDE DEF most
<1>4. ASSUME NEW n \in 0..MaxResults, ChangeCatalog(n) PROVE ScrollTypes'
  <2>1. changes' \in 0..MaxChanges
    BY <1>1, <1>4 DEF ChangeCatalog
  <2>2. IF loading THEN \E page \in 1..MaxResults : fetches = <<page>> ELSE fetches = << >>
    BY DEF ScrollTypes
  <2>3. next = 0 => ~watching /\ button = "hidden" /\ ~loading
    BY DEF ScrollTypes
  <2> QED
    BY <1>1, <1>3, <1>4, <2>1, <2>2, <2>3 DEF ChangeCatalog
<1>5. ASSUME LoadNextPage, watching \/ button = "ready" PROVE ScrollTypes'
  <2>1. next # 0 /\ fetches = << >>
    BY <1>5 DEF ScrollTypes, LoadNextPage
  <2>2. next \in 1..MaxResults
    BY <1>1, <1>2, <2>1
  <2>3. fetches' = <<next>>
    BY <1>5, <2>1 DEF LoadNextPage
  <2>4. sent' \in 0..MaxFetches
    BY <1>1, <1>5 DEF LoadNextPage
  <2> QED
    BY <1>1, <1>3, <1>5, <2>1, <2>2, <2>3, <2>4 DEF LoadNextPage
<1>6. ASSUME NEW i \in DOMAIN fetches, Receive(i) PROVE ScrollTypes'
  <2>1. fetches # << >>
    OBVIOUS
  <2>2. PICK page \in 1..MaxResults : loading /\ fetches = <<page>>
    BY <2>1 DEF ScrollTypes
  <2>3. i = 1 /\ fetches[i] = page /\ fetches' = << >>
    BY <1>6, <2>2, OnlyFetch DEF Receive
  <2>4. next # 0 /\ next \in 0..most
    BY <1>1, <2>2 DEF ScrollTypes
  <2>5. loading' = FALSE /\ UNCHANGED <<results, sent, top, changes>>
    BY <1>6 DEF Receive
  <2>6. NoCards(Clamp(page)) \/ AppendCards(Clamp(page)) \/ Fail
    BY <1>6, <2>3 DEF Receive
  <2>7. CASE NoCards(Clamp(page))
    BY <1>1, <1>3, <2>3, <2>4, <2>5, <2>7 DEF NoCards, Stop
  <2>8. CASE Fail
    BY <1>1, <1>3, <2>3, <2>4, <2>5, <2>8 DEF Fail
  <2>9. CASE AppendCards(Clamp(page))
    <3>1. PICK at : at = Clamp(page)
      OBVIOUS
    <3>2. /\ Cards(at) # << >> /\ grid' = grid \o Cards(at) /\ next' = NextOf(at)
          /\ IF next' = 0 THEN Stop
             ELSE button' = "ready" /\ UNCHANGED <<finished, watching>>
      BY <2>9, <3>1 DEF AppendCards
    <3>3. results \in 1..MaxResults
      <4>1. results # 0
        BY <3>2 DEF Cards
      <4> QED
        BY <1>1, <4>1
    <3>4. at \in 1..Pages
      BY <1>2, <3>1, <3>3 DEF Clamp
    <3>5. Cards(at) \in Seq(1..MaxResults) /\ NextOf(at) \in 0..most
      BY <3>3, <3>4, CardsType DEF most
    <3>6. grid' \in Seq(1..MaxResults) /\ next' \in 0..most
      BY <1>1, <3>2, <3>5
    <3> QED
      BY <1>1, <1>3, <2>3, <2>5, <3>2, <3>6 DEF Stop
  <2> QED
    BY <2>6, <2>7, <2>8, <2>9
<1>7. CASE UNCHANGED scrollVars
  BY <1>7 DEF scrollVars, ScrollTypes, ScrollTypeOK
<1> QED
  BY <1>4, <1>5, <1>6, <1>7 DEF ScrollNext, ScrollIntoView, ClickLoadMore

\* The grid shows products only, the sentinel names a page there could be, and one request
\* at most is under way, whatever fails and however the catalog changes.
THEOREM ScrollTypeCorrect == ScrollSpec => []ScrollTypeOK
<1>1. ScrollTypes => ScrollTypeOK
  BY DEF ScrollTypes
<1> QED
  BY <1>1, ScrollTypesBegin, ScrollTypesKept, PTL DEF ScrollSpec

-----------------------------------------------------------------------------
(* Seed: what the operators of a run do *)

\* Laying a new table over an old one keeps the rows of both, the new ones first.
LEMMA OverValue ==
  ASSUME NEW f, NEW g
  PROVE  /\ DOMAIN Over(f, g) = DOMAIN f \cup DOMAIN g
         /\ \A i \in DOMAIN f : Over(f, g)[i] = f[i]
         /\ \A i \in DOMAIN g : i \notin DOMAIN f => Over(f, g)[i] = g[i]
BY DEF Over

\* A table over a table is a table.
LEMMA OverType ==
  ASSUME NEW f, NEW g, f \in [DOMAIN f -> Good], g \in [DOMAIN g -> Good]
  PROVE  Over(f, g) \in [DOMAIN Over(f, g) -> Good]
BY DEF Over

Index == 0..NumRows \cup 0..NumCustomers

\* Advancing a run changes where it is and nothing it holds.
LEMMA AdvanceValue ==
  ASSUME run \in [Runs -> RunState], NEW s \in Runs, NEW p \in Points, NEW i \in Index,
         run' = Advance(s, p, i)
  PROVE  /\ run' \in [Runs -> RunState]
         /\ run'[s].point = p /\ run'[s].index = i
         /\ run'[s].images = run[s].images
         /\ run'[s].held = run[s].held /\ run'[s].read = run[s].read
         /\ \A t \in Runs : t # s => run'[t] = run[t]
BY DEF Advance, RunState, Index

\* Holding a product takes the run to its update.
LEMMA HoldValue ==
  ASSUME run \in [Runs -> RunState], NEW s \in Runs, NEW i \in 0..MaxProducts,
         NEW good \in Good, run' = Hold(s, i, good)
  PROVE  /\ run' \in [Runs -> RunState]
         /\ run'[s].point = "update" /\ run'[s].index = run[s].index
         /\ run'[s].images = run[s].images
         /\ run'[s].held = i /\ run'[s].read = good
         /\ \A t \in Runs : t # s => run'[t] = run[t]
BY ZenonT(60) DEF Hold, RunState, Points

\* The transactions are those of the runs, as records.
WroteShape ==
  /\ wrote = [s \in Runs |-> wrote[s]]
  /\ \A s \in Runs : wrote[s] \in Writes(DOMAIN wrote[s].goods)

\* Writing a row touches that row of one transaction.
LEMMA WriteValue ==
  ASSUME WroteShape, NEW s \in Runs, NEW i, NEW good \in Good, wrote' = Write(s, i, good)
  PROVE  /\ WroteShape'
         /\ DOMAIN wrote'[s].goods = DOMAIN wrote[s].goods \cup {i}
         /\ wrote'[s].goods[i] = good
         /\ \A j \in DOMAIN wrote[s].goods : j # i => wrote'[s].goods[j] = wrote[s].goods[j]
         /\ wrote'[s].rooms = wrote[s].rooms /\ wrote'[s].people = wrote[s].people
         /\ wrote'[s].samples = wrote[s].samples
         /\ \A t \in Runs : t # s => wrote'[t] = wrote[t]
<1> DEFINE one == [j \in {i} |-> good]
           all == Over(one, wrote[s].goods)
<1>1. wrote[s] \in Writes(DOMAIN wrote[s].goods)
  BY DEF WroteShape
<1>2. wrote' = [wrote EXCEPT ![s].goods = all]
  BY DEF Write
<1>3. /\ DOMAIN one = {i} /\ one[i] = good /\ one \in [DOMAIN one -> Good]
      /\ wrote[s].goods \in [DOMAIN wrote[s].goods -> Good]
  BY <1>1 DEF Writes
<1> HIDE DEF one
<1>4. /\ DOMAIN all = DOMAIN wrote[s].goods \cup {i}
      /\ all[i] = good
      /\ \A j \in DOMAIN wrote[s].goods : j # i => all[j] = wrote[s].goods[j]
  <2>1. DOMAIN all = DOMAIN one \cup DOMAIN wrote[s].goods
    BY OverValue
  <2>2. \A j \in DOMAIN one : all[j] = one[j]
    BY OverValue
  <2>3. \A j \in DOMAIN wrote[s].goods : j \notin DOMAIN one => all[j] = wrote[s].goods[j]
    BY OverValue
  <2> HIDE DEF all
  <2> QED
    BY <1>3, <2>1, <2>2, <2>3
<1>5. all \in [DOMAIN all -> Good]
  BY <1>3, OverType
<1> HIDE DEF all
<1>6. /\ wrote'[s].goods = all
      /\ wrote'[s].rooms = wrote[s].rooms /\ wrote'[s].people = wrote[s].people
      /\ wrote'[s].samples = wrote[s].samples
      /\ \A t \in Runs : t # s => wrote'[t] = wrote[t]
      /\ wrote' = [t \in Runs |-> wrote'[t]]
  BY <1>1, <1>2 DEF WroteShape, Writes
<1>7. wrote'[s] \in Writes(DOMAIN wrote'[s].goods)
  BY <1>1, <1>2, <1>4, <1>5, <1>6 DEF WroteShape, Writes
<1>8. WroteShape'
  BY <1>6, <1>7 DEF WroteShape
<1> QED
  BY <1>4, <1>6, <1>8

-----------------------------------------------------------------------------
(* Seed: types *)

SeedTypes == SeedTypeOK /\ WroteShape

\* A row with its text rewritten, delisted, moved or sold is a row; so is a new one.
LEMMA GoodRows ==
  /\ \A r \in 1..NumRows : SeedRow(r) \in Good
  /\ Off \in RunState
BY SeedAssumption DEF SeedRow, Good, Rooms, Off, RunState, Points

\* What a run sees is a table of products it may hold.
LEMMA SeenType ==
  ASSUME SeedTypes, NEW s \in Runs
  PROVE  /\ DOMAIN Seen(s) = DOMAIN wrote[s].goods \cup DOMAIN goods
         /\ DOMAIN Seen(s) \subseteq 1..ids /\ ids \in 0..MaxProducts
         /\ \A i \in DOMAIN Seen(s) : Seen(s)[i] \in Good
<1>1. /\ wrote[s].goods \in [DOMAIN wrote[s].goods -> Good]
      /\ goods \in [DOMAIN goods -> Good]
      /\ DOMAIN wrote[s].goods \subseteq 1..ids /\ DOMAIN goods \subseteq 1..ids
      /\ ids \in 0..MaxProducts
  BY DEF SeedTypes, SeedTypeOK, Writes
<1>2. Seen(s) \in [DOMAIN Seen(s) -> Good]
  BY <1>1, OverType DEF Seen
<1>3. DOMAIN Seen(s) = DOMAIN wrote[s].goods \cup DOMAIN goods
  BY OverValue DEF Seen
<1> QED
  BY <1>1, <1>2, <1>3

\* Where a run may be, with the table it sees.
PlacedAt(k, placed) ==
  /\ k.point \in {"category", "product", "update", "image"} => k.index \in 1..NumRows
  /\ k.point = "user" => k.index \in 0..NumCustomers
  /\ k.point = "orders" => k.index \in 1..NumCustomers
  /\ k.point \in {"update", "image"} => k.held \in placed

\* What a step of one run that commits nothing leaves alone.
RunMoves(s) ==
  /\ run' \in [Runs -> RunState] /\ WroteShape'
  /\ \A t \in Runs : t # s => run'[t] = run[t] /\ wrote'[t] = wrote[t]
  /\ UNCHANGED <<rooms, goods, people, samples, sold, mishaps>>
  /\ run[s].point # "off" /\ run'[s].point # "off" /\ run'[s].images = run[s].images
  /\ PlacedAt(run'[s], DOMAIN wrote'[s].goods \cup DOMAIN goods)

\* Tables, transactions and runs that have their types, with every run at one of its
\* places, have the types of the module.
LEMMA TypesAfter ==
  ASSUME rooms' \subseteq Rooms, people' \subseteq 0..NumCustomers,
         goods' \in [DOMAIN goods' -> Good], DOMAIN goods' \subseteq 1..ids',
         samples' \in [1..NumCustomers -> Nat], sold' \in [1..MaxProducts -> Nat],
         ids' \in 0..MaxProducts, run' \in [Runs -> RunState], WroteShape',
         \A t \in Runs :
           /\ DOMAIN wrote'[t].goods \subseteq 1..ids'
           /\ PlacedAt(run'[t], DOMAIN wrote'[t].goods \cup DOMAIN goods')
  PROVE  SeedTypes'
<1>1. \A t \in Runs : DOMAIN Seen(t)' = DOMAIN wrote'[t].goods \cup DOMAIN goods'
  BY OverValue DEF Seen
<1>2. DOMAIN wrote' = Runs /\ \A t \in Runs : wrote'[t] \in Writes(DOMAIN wrote'[t].goods)
  BY DEF WroteShape
<1>3. ASSUME NEW t \in Runs
      PROVE  /\ run'[t].point \in {"category", "product", "update", "image"} =>
                  run'[t].index \in 1..NumRows
             /\ run'[t].point = "user" => run'[t].index \in 0..NumCustomers
             /\ run'[t].point = "orders" => run'[t].index \in 1..NumCustomers
             /\ run'[t].point \in {"update", "image"} => run'[t].held \in DOMAIN Seen(t)'
  BY <1>1 DEF PlacedAt
<1>4. SeedTypeOK'
  BY <1>2, <1>3 DEF SeedTypeOK
<1> QED
  BY <1>4 DEF SeedTypes

\* Every run is at one of its places.
LEMMA Placed ==
  ASSUME SeedTypes, NEW t \in Runs
  PROVE  /\ PlacedAt(run[t], DOMAIN wrote[t].goods \cup DOMAIN goods)
         /\ DOMAIN wrote[t].goods \subseteq 1..ids
BY SeenType DEF SeedTypes, SeedTypeOK, PlacedAt

\* A step of one run, which commits nothing, keeps the types if it leaves the run at one
\* of its places.
LEMMA RunTypes ==
  ASSUME SeedTypes, NEW s \in Runs, RunMoves(s),
         ids' \in ids..MaxProducts, DOMAIN wrote'[s].goods \subseteq 1..ids'
  PROVE  SeedTypes'
<1>1. ids \in 0..MaxProducts /\ ids' \in 0..MaxProducts /\ 1..ids \subseteq 1..ids'
  BY SeedAssumption DEF SeedTypes, SeedTypeOK
<1>2. \A t \in Runs :
        /\ DOMAIN wrote'[t].goods \subseteq 1..ids'
        /\ PlacedAt(run'[t], DOMAIN wrote'[t].goods \cup DOMAIN goods)
  BY <1>1, Placed DEF RunMoves
<1>3. /\ rooms' \subseteq Rooms /\ people' \subseteq 0..NumCustomers
      /\ goods' \in [DOMAIN goods' -> Good] /\ DOMAIN goods' \subseteq 1..ids'
      /\ samples' \in [1..NumCustomers -> Nat] /\ sold' \in [1..MaxProducts -> Nat]
      /\ run' \in [Runs -> RunState] /\ WroteShape' /\ DOMAIN goods' = DOMAIN goods
  BY <1>1 DEF SeedTypes, SeedTypeOK, RunMoves
<1> QED
  BY <1>1, <1>2, <1>3, TypesAfter

-----------------------------------------------------------------------------
(* Seed: what each step of a run does *)

\* Rooms, people and samples are added to a transaction without touching its products.
LEMMA WroteGrows ==
  ASSUME WroteShape, NEW s \in Runs,
         \/ wrote' = wrote
         \/ \E c \in Rooms : wrote' = [wrote EXCEPT ![s].rooms = @ \cup {c}]
         \/ \E c \in 0..NumCustomers : wrote' = [wrote EXCEPT ![s].people = @ \cup {c}]
         \/ \E c \in 1..NumCustomers : wrote' = [wrote EXCEPT ![s].samples = @ \cup {c}]
  PROVE  /\ WroteShape' /\ wrote'[s].goods = wrote[s].goods
         /\ \A t \in Runs : t # s => wrote'[t] = wrote[t]
<1>1. wrote[s] \in Writes(DOMAIN wrote[s].goods)
  BY DEF WroteShape
<1>2. /\ wrote'[s].goods = wrote[s].goods
      /\ \A t \in Runs : t # s => wrote'[t] = wrote[t]
      /\ wrote' = [t \in Runs |-> wrote'[t]]
  BY <1>1 DEF WroteShape, Writes
<1>3. wrote'[s] \in Writes(DOMAIN wrote[s].goods)
  BY <1>1 DEF WroteShape, Writes
<1> QED
  BY <1>2, <1>3 DEF WroteShape

\* A category is got or created; the products come next.
LEMMA CategoryStep ==
  ASSUME SeedTypes, NEW s \in Runs, SeedCategory(s)
  PROVE  /\ RunMoves(s) /\ ids' = ids
         /\ wrote'[s].goods = wrote[s].goods /\ wrote'[s].people = wrote[s].people
         /\ wrote'[s].samples = wrote[s].samples
         /\ run'[s].point \in {"category", "product"}
<1> DEFINE c == Home[run[s].index]
<1>1. /\ run \in [Runs -> RunState] /\ run[s].index \in 1..NumRows /\ c \in Rooms
      /\ run[s].index \in Index
      /\ WroteShape /\ wrote[s] \in Writes(DOMAIN wrote[s].goods)
  BY DEF SeedTypes, SeedTypeOK, SeedCategory, Rooms, Index
<1>2. wrote' = wrote \/ wrote' = [wrote EXCEPT ![s].rooms = @ \cup {c}]
  BY DEF SeedCategory
<1>3. /\ WroteShape' /\ wrote'[s].goods = wrote[s].goods
      /\ \A t \in Runs : t # s => wrote'[t] = wrote[t]
  BY <1>1, <1>2, WroteGrows
<1>4. wrote'[s].people = wrote[s].people /\ wrote'[s].samples = wrote[s].samples
  BY <1>1, <1>2 DEF WroteShape, Writes
<1>5. \E q \in {"category", "product"}, i \in 1..NumRows : run' = Advance(s, q, i)
  <2>1. CASE run[s].index < NumRows
    BY <1>1, <2>1, SeedAssumption DEF SeedCategory
  <2>2. CASE ~(run[s].index < NumRows)
    BY <2>2, SeedAssumption DEF SeedCategory
  <2> QED
    BY <2>1, <2>2
<1>6. PICK q \in {"category", "product"}, i \in 1..NumRows : run' = Advance(s, q, i)
  BY <1>5
<1>7. q \in Points /\ i \in Index
  BY SeedAssumption DEF Points, Index
<1>8. /\ run' \in [Runs -> RunState]
      /\ run'[s].point = q /\ run'[s].index = i /\ run'[s].images = run[s].images
      /\ \A t \in Runs : t # s => run'[t] = run[t]
  BY <1>1, <1>6, <1>7, AdvanceValue
<1> QED
  BY <1>3, <1>4, <1>8 DEF RunMoves, PlacedAt, SeedCategory

\* A product is found, or created under a new number; either way the run holds it.
LEMMA GetStep ==
  ASSUME SeedTypes, NEW s \in Runs, GetProduct(s)
  PROVE  /\ RunMoves(s) /\ run'[s].point = "update"
         /\ run'[s].index = run[s].index /\ run[s].index \in 1..NumRows
         /\ wrote'[s].people = wrote[s].people /\ wrote'[s].samples = wrote[s].samples
         /\ \/ /\ Found(s, run[s].index) = {run'[s].held} /\ ids' = ids
               /\ run'[s].read = Seen(s)[run'[s].held] /\ wrote' = wrote
            \/ /\ Found(s, run[s].index) = {} /\ ids' = ids + 1 /\ ids' <= MaxProducts
               /\ run'[s].held = ids' /\ run'[s].read = SeedRow(run[s].index)
               /\ wrote' = Write(s, ids', SeedRow(run[s].index))
<1> DEFINE r == run[s].index
<1>1. /\ run \in [Runs -> RunState] /\ r \in 1..NumRows /\ WroteShape
      /\ ids \in 0..MaxProducts /\ run[s].point = "product"
      /\ UNCHANGED <<rooms, goods, people, samples, sold, mishaps>>
  BY DEF SeedTypes, SeedTypeOK, GetProduct
<1>2. CASE \E i \in Found(s, r) :
             /\ Found(s, r) = {i}
             /\ run' = Hold(s, i, Seen(s)[i]) /\ UNCHANGED <<wrote, ids>>
  <2>1. PICK i \in Found(s, r) :
             /\ Found(s, r) = {i}
             /\ run' = Hold(s, i, Seen(s)[i]) /\ UNCHANGED <<wrote, ids>>
    BY <1>2
  <2>2. /\ i \in DOMAIN Seen(s) /\ Seen(s)[i] \in Good /\ i \in 0..MaxProducts
        /\ i \in DOMAIN wrote[s].goods \cup DOMAIN goods
    <3>1. i \in DOMAIN Seen(s)
      BY DEF Found
    <3>2. /\ DOMAIN Seen(s) = DOMAIN wrote[s].goods \cup DOMAIN goods
          /\ DOMAIN Seen(s) \subseteq 1..ids
          /\ Seen(s)[i] \in Good
      BY <3>1, SeenType
    <3>3. MaxProducts \in Nat
      BY SeedAssumption
    <3> QED
      BY <1>1, <3>1, <3>2, <3>3
  <2>3. /\ run' \in [Runs -> RunState]
        /\ run'[s].point = "update" /\ run'[s].index = run[s].index
        /\ run'[s].images = run[s].images
        /\ run'[s].held = i /\ run'[s].read = Seen(s)[i]
        /\ \A t \in Runs : t # s => run'[t] = run[t]
    BY <1>1, <2>1, <2>2, HoldValue
  <2>4. WroteShape'
    BY <1>1, <2>1 DEF WroteShape
  <2>5. RunMoves(s)
    BY <1>1, <2>1, <2>2, <2>3, <2>4 DEF RunMoves, PlacedAt
  <2> QED
    BY <1>1, <2>1, <2>3, <2>5
<1>3. CASE /\ Found(s, r) = {} /\ ids < MaxProducts /\ ids' = ids + 1
           /\ wrote' = Write(s, ids', SeedRow(r))
           /\ run' = Hold(s, ids', SeedRow(r))
  <2>1. ids' \in 0..MaxProducts /\ ids' <= MaxProducts /\ SeedRow(r) \in Good
    BY <1>1, <1>3, GoodRows, SeedAssumption
  <2>2. /\ run' \in [Runs -> RunState]
        /\ run'[s].point = "update" /\ run'[s].index = run[s].index
        /\ run'[s].images = run[s].images
        /\ run'[s].held = ids' /\ run'[s].read = SeedRow(r)
        /\ \A t \in Runs : t # s => run'[t] = run[t]
    BY <1>1, <1>3, <2>1, HoldValue
  <2>3. /\ WroteShape' /\ DOMAIN wrote'[s].goods = DOMAIN wrote[s].goods \cup {ids'}
        /\ wrote'[s].people = wrote[s].people /\ wrote'[s].samples = wrote[s].samples
        /\ \A t \in Runs : t # s => wrote'[t] = wrote[t]
    BY <1>1, <1>3, <2>1, WriteValue
  <2>4. RunMoves(s)
    BY <1>1, <2>2, <2>3 DEF RunMoves, PlacedAt
  <2> QED
    BY <1>1, <1>3, <2>1, <2>2, <2>3, <2>4
<1> QED
  BY <1>2, <1>3 DEF GetProduct

\* The columns that differ are written over what the run sees, under a lock; row and
\* category stay.
LEMMA UpdateStep ==
  ASSUME SeedTypes, NEW s \in Runs, UpdateProduct(s)
  PROVE  /\ RunMoves(s) /\ run[s].point = "update" /\ run'[s].point = "image"
         /\ run'[s].index = run[s].index /\ run'[s].held = run[s].held
         /\ run'[s].read.row = run[s].read.row /\ run'[s].read.room = run[s].read.room
         /\ run[s].held \in DOMAIN Seen(s) /\ ids' = ids
         /\ wrote'[s].people = wrote[s].people /\ wrote'[s].samples = wrote[s].samples
         /\ \/ wrote' = wrote
            \/ /\ Unlocked(s, run[s].held) /\ wrote' = Write(s, run[s].held, Updated(s))
               /\ Updated(s) \in Good
               /\ Updated(s).row = Seen(s)[run[s].held].row
               /\ Updated(s).room = Seen(s)[run[s].held].room
               /\ Updated(s).stock = Seen(s)[run[s].held].stock
<1> DEFINE i == run[s].held
<1>1. /\ run \in [Runs -> RunState] /\ WroteShape /\ run[s].point = "update"
      /\ run[s].read \in Good /\ i \in DOMAIN Seen(s) /\ run[s].index \in 1..NumRows
      /\ UNCHANGED <<rooms, goods, people, samples, sold, mishaps, ids>>
  BY DEF SeedTypes, SeedTypeOK, UpdateProduct, RunState
<1> DEFINE now == [run[s].read EXCEPT !.asSeeded = TRUE, !.available = TRUE]
<1>2. now \in Good /\ now.row = run[s].read.row /\ now.room = run[s].read.room
  BY <1>1 DEF Good
<1>3. run' = [run EXCEPT ![s].point = "image", ![s].read = now]
  BY <1>1 DEF UpdateProduct, RunState
<1> HIDE DEF now
<1>4. /\ run' \in [Runs -> RunState]
      /\ run'[s].point = "image" /\ run'[s].index = run[s].index
      /\ run'[s].images = run[s].images /\ run'[s].held = i /\ run'[s].read = now
      /\ \A t \in Runs : t # s => run'[t] = run[t]
  BY <1>1, <1>2, <1>3, ZenonT(60) DEF RunState, Points
<1>5. run'[s].read.row = run[s].read.row /\ run'[s].read.room = run[s].read.room
  BY <1>4, <1>2
<1>6. Seen(s)[i] \in Good /\ DOMAIN Seen(s) = DOMAIN wrote[s].goods \cup DOMAIN goods
  BY <1>1, SeenType
<1>7. /\ Updated(s) \in Good
      /\ Updated(s).row = Seen(s)[i].row /\ Updated(s).room = Seen(s)[i].room
      /\ Updated(s).stock = Seen(s)[i].stock
  BY <1>1, <1>6 DEF Updated, Good
<1>8. CASE wrote' = wrote
  <2>1. WroteShape'
    BY <1>1, <1>8 DEF WroteShape
  <2>2. RunMoves(s)
    BY <1>1, <1>4, <1>6, <1>8, <2>1 DEF RunMoves, PlacedAt
  <2> QED
    BY <1>1, <1>4, <1>5, <1>8, <2>2
<1>9. CASE Unlocked(s, i) /\ wrote' = Write(s, i, Updated(s))
  <2>1. /\ WroteShape' /\ DOMAIN wrote'[s].goods = DOMAIN wrote[s].goods \cup {i}
        /\ wrote'[s].people = wrote[s].people /\ wrote'[s].samples = wrote[s].samples
        /\ \A t \in Runs : t # s => wrote'[t] = wrote[t]
    BY <1>1, <1>7, <1>9, WriteValue
  <2>2. RunMoves(s)
    BY <1>1, <1>4, <1>6, <2>1 DEF RunMoves, PlacedAt
  <2> QED
    BY <1>1, <1>4, <1>5, <1>7, <1>9, <2>1, <2>2
<1> QED
  BY <1>8, <1>9 DEF UpdateProduct

\* Saving an image writes the product as it was read, under a lock; then comes the next
\* row, or the users.
LEMMA ImageStep ==
  ASSUME SeedTypes, NEW s \in Runs, SaveImage(s)
  PROVE  /\ RunMoves(s) /\ run[s].point = "image" /\ run'[s].point \in {"product", "user"}
         /\ run[s].held \in DOMAIN Seen(s) /\ ids' = ids
         /\ wrote'[s].people = wrote[s].people /\ wrote'[s].samples = wrote[s].samples
         /\ \/ wrote' = wrote
            \/ /\ run[s].images /\ Unlocked(s, run[s].held) /\ run[s].read \in Good
               /\ wrote' = Write(s, run[s].held, run[s].read)
<1> DEFINE i == run[s].held
<1>1. /\ run \in [Runs -> RunState] /\ WroteShape /\ run[s].point = "image"
      /\ run[s].read \in Good /\ i \in DOMAIN Seen(s) /\ run[s].index \in 1..NumRows
      /\ UNCHANGED <<rooms, goods, people, samples, sold, mishaps, ids>>
  BY DEF SeedTypes, SeedTypeOK, SaveImage, RunState
<1>2. PICK q \in {"product", "user"}, j \in Index :
             /\ run' = Advance(s, q, j)
             /\ q = "product" => j \in 1..NumRows
             /\ q = "user" => j = 0
  <2>1. CASE run[s].index < NumRows
    BY <1>1, <2>1, SeedAssumption DEF SaveImage, Index
  <2>2. CASE ~(run[s].index < NumRows)
    BY <2>2, SeedAssumption DEF SaveImage, Index
  <2> QED
    BY <2>1, <2>2
<1>3. q \in Points /\ 0 \in 0..NumCustomers
  BY SeedAssumption DEF Points
<1>4. /\ run' \in [Runs -> RunState]
      /\ run'[s].point = q /\ run'[s].index = j /\ run'[s].images = run[s].images
      /\ \A t \in Runs : t # s => run'[t] = run[t]
  BY <1>1, <1>2, <1>3, AdvanceValue
<1>5. CASE wrote' = wrote
  <2>1. WroteShape'
    BY <1>1, <1>5 DEF WroteShape
  <2>2. RunMoves(s)
    BY <1>1, <1>2, <1>3, <1>4, <1>5, <2>1 DEF RunMoves, PlacedAt
  <2> QED
    BY <1>1, <1>4, <1>5, <2>2
<1>6. CASE run[s].images /\ Unlocked(s, i) /\ wrote' = Write(s, i, run[s].read)
  <2>1. /\ WroteShape'
        /\ wrote'[s].people = wrote[s].people /\ wrote'[s].samples = wrote[s].samples
        /\ \A t \in Runs : t # s => wrote'[t] = wrote[t]
    BY <1>1, <1>6, WriteValue
  <2>2. RunMoves(s)
    BY <1>1, <1>2, <1>3, <1>4, <2>1 DEF RunMoves, PlacedAt
  <2> QED
    BY <1>1, <1>4, <1>6, <2>1, <2>2
<1> QED
  BY <1>5, <1>6 DEF SaveImage

\* After a user comes the next one, or the end.
LEMMA NextUserStep ==
  ASSUME SeedTypes, NEW s \in Runs, run[s].index \in 0..NumCustomers, run' = NextUser(s)
  PROVE  /\ run' \in [Runs -> RunState] /\ run'[s].images = run[s].images
         /\ run'[s].point \in {"user", "commit"}
         /\ run'[s].point = "user" => run'[s].index \in 0..NumCustomers
         /\ \A t \in Runs : t # s => run'[t] = run[t]
<1>1. PICK q \in {"user", "commit"}, j \in 0..NumCustomers : run' = Advance(s, q, j)
  BY SeedAssumption DEF NextUser
<1>2. q \in Points /\ j \in Index /\ run \in [Runs -> RunState]
  BY DEF Points, Index, SeedTypes, SeedTypeOK
<1> QED
  BY <1>1, <1>2, AdvanceValue

\* Saving a user takes its row to the end of the run; a customer's orders come next.
LEMMA UserStep ==
  ASSUME SeedTypes, NEW s \in Runs, SeedUser(s)
  PROVE  /\ RunMoves(s) /\ ids' = ids /\ run'[s].point \in {"user", "orders", "commit"}
         /\ run'[s].point = "orders" => run'[s].index = run[s].index
         /\ wrote'[s].people = wrote[s].people \cup {run[s].index}
         /\ \A t \in Runs : t # s => run[s].index \notin wrote[t].people
         /\ wrote'[s].samples = wrote[s].samples /\ wrote'[s].goods = wrote[s].goods
<1> DEFINE c == run[s].index
<1>1. /\ run \in [Runs -> RunState] /\ WroteShape /\ run[s].point = "user"
      /\ c \in 0..NumCustomers /\ wrote[s] \in Writes(DOMAIN wrote[s].goods)
      /\ UNCHANGED <<rooms, goods, people, samples, sold, mishaps, ids>>
      /\ wrote' = [wrote EXCEPT ![s].people = @ \cup {c}]
      /\ \A t \in Runs : t # s => c \notin wrote[t].people
  BY DEF SeedTypes, SeedTypeOK, SeedUser, SavedUser
<1>2. /\ WroteShape' /\ wrote'[s].goods = wrote[s].goods
      /\ \A t \in Runs : t # s => wrote'[t] = wrote[t]
  BY <1>1, WroteGrows
<1>3. /\ wrote'[s].people = wrote[s].people \cup {c}
      /\ wrote'[s].samples = wrote[s].samples
  BY <1>1 DEF WroteShape, Writes
<1>4. CASE c = 0
  <2>1. run' = NextUser(s)
    BY <1>4 DEF SeedUser
  <2>2. /\ run' \in [Runs -> RunState] /\ run'[s].images = run[s].images
        /\ run'[s].point \in {"user", "commit"}
        /\ run'[s].point = "user" => run'[s].index \in 0..NumCustomers
        /\ \A t \in Runs : t # s => run'[t] = run[t]
    BY <1>1, <2>1, NextUserStep
  <2>3. RunMoves(s)
    BY <1>1, <1>2, <2>2 DEF RunMoves, PlacedAt
  <2> QED
    BY <1>1, <1>2, <1>3, <2>2, <2>3
<1>5. CASE c # 0
  <2>1. run' = Advance(s, "orders", c) /\ "orders" \in Points /\ c \in Index /\ c \in 1..NumCustomers
    BY <1>1, <1>5, SeedAssumption DEF SeedUser, Points, Index
  <2>2. /\ run' \in [Runs -> RunState] /\ run'[s].images = run[s].images
        /\ run'[s].point = "orders" /\ run'[s].index = c
        /\ \A t \in Runs : t # s => run'[t] = run[t]
    BY <1>1, <2>1, AdvanceValue
  <2>3. RunMoves(s)
    BY <1>1, <1>2, <2>1, <2>2 DEF RunMoves, PlacedAt
  <2> QED
    BY <1>1, <1>2, <1>3, <2>2, <2>3
<1> QED
  BY <1>4, <1>5

\* A user nobody asked for is passed over, and so are all customers of an empty shop.
LEMMA SkipStep ==
  ASSUME SeedTypes, NEW s \in Runs, SkipUser(s)
  PROVE  /\ RunMoves(s) /\ run'[s].point \in {"user", "commit"}
         /\ wrote' = wrote /\ ids' = ids
<1>1. /\ run \in [Runs -> RunState] /\ WroteShape /\ WroteShape'
      /\ run[s].point = "user" /\ run[s].index \in 0..NumCustomers
      /\ UNCHANGED <<rooms, goods, people, samples, sold, mishaps, ids, wrote>>
  BY DEF SeedTypes, SeedTypeOK, SkipUser, WroteShape
<1>2. /\ run' \in [Runs -> RunState] /\ run'[s].images = run[s].images
      /\ run'[s].point \in {"user", "commit"}
      /\ run'[s].point = "user" => run'[s].index \in 0..NumCustomers
      /\ \A t \in Runs : t # s => run'[t] = run[t]
  <2>1. CASE run' = NextUser(s)
    BY <1>1, <2>1, NextUserStep
  <2>2. CASE run' = Advance(s, "commit", 0)
    <3>1. "commit" \in Points /\ 0 \in Index
      BY SeedAssumption DEF Points, Index
    <3> QED
      BY <1>1, <2>2, <3>1, AdvanceValue
  <2> QED
    BY <2>1, <2>2 DEF SkipUser
<1> QED
  BY <1>1, <1>2 DEF RunMoves, PlacedAt

\* Sample orders are written for a customer who has none, whose row the run holds.
LEMMA SamplesStep ==
  ASSUME SeedTypes, NEW s \in Runs, SampleOrders(s)
  PROVE  /\ RunMoves(s) /\ run'[s].point \in {"user", "commit"} /\ ids' = ids
         /\ run[s].point = "orders" /\ run[s].index \in 1..NumCustomers
         /\ wrote'[s].people = wrote[s].people /\ wrote'[s].goods = wrote[s].goods
         /\ \/ wrote'[s].samples = wrote[s].samples
            \/ /\ ~(samples[run[s].index] > 0)
               /\ wrote'[s].samples = wrote[s].samples \cup {run[s].index}
<1> DEFINE c == run[s].index
<1>1. /\ run \in [Runs -> RunState] /\ WroteShape /\ run[s].point = "orders"
      /\ c \in 1..NumCustomers /\ c \in 0..NumCustomers
      /\ wrote[s] \in Writes(DOMAIN wrote[s].goods)
      /\ UNCHANGED <<rooms, goods, people, samples, sold, mishaps, ids>>
  BY SeedAssumption DEF SeedTypes, SeedTypeOK, SampleOrders
<1>2. /\ run' \in [Runs -> RunState] /\ run'[s].images = run[s].images
      /\ run'[s].point \in {"user", "commit"}
      /\ run'[s].point = "user" => run'[s].index \in 0..NumCustomers
      /\ \A t \in Runs : t # s => run'[t] = run[t]
  BY <1>1, NextUserStep DEF SampleOrders
<1>3. \/ wrote' = wrote
      \/ ~(samples[c] > 0) /\ wrote' = [wrote EXCEPT ![s].samples = @ \cup {c}]
  BY DEF SampleOrders
<1>4. /\ WroteShape' /\ wrote'[s].goods = wrote[s].goods
      /\ \A t \in Runs : t # s => wrote'[t] = wrote[t]
  BY <1>1, <1>3, WroteGrows
<1>5. /\ wrote'[s].people = wrote[s].people
      /\ \/ wrote'[s].samples = wrote[s].samples
         \/ ~(samples[c] > 0) /\ wrote'[s].samples = wrote[s].samples \cup {c}
  BY <1>1, <1>3 DEF WroteShape, Writes
<1>6. RunMoves(s)
  BY <1>1, <1>2, <1>4 DEF RunMoves, PlacedAt
<1> QED
  BY <1>1, <1>2, <1>4, <1>5, <1>6


-----------------------------------------------------------------------------
(* Seed: type correctness *)

\* What a step of a run that commits nothing does to its transaction: it takes rows that
\* no other run has, writes the stock it sees unless it saves images, and notes sample
\* orders of the customer it is at, whose row it has, if that one has none.
RunGrows(s) ==
  /\ RunMoves(s) /\ ids' \in ids..MaxProducts /\ DOMAIN wrote'[s].goods \subseteq 1..ids'
  /\ \A t \in Runs : t # s =>
       /\ DOMAIN wrote'[s].goods \cap DOMAIN wrote[t].goods \subseteq DOMAIN wrote[s].goods
       /\ wrote'[s].people \cap wrote[t].people \subseteq wrote[s].people
  /\ ~run[s].images => \A i \in DOMAIN wrote'[s].goods :
       wrote'[s].goods[i].stock = IF i \in DOMAIN Seen(s) THEN Seen(s)[i].stock ELSE NoStock
  /\ wrote[s].people \subseteq wrote'[s].people
  /\ run'[s].point = "orders" => run'[s].index \in wrote'[s].people
  /\ \A c \in wrote'[s].samples :
       \/ c \in wrote[s].samples
       \/ run[s].point = "orders" /\ c = run[s].index /\ ~(samples[c] > 0)

\* What a run sees of a row is what it wrote of it, or what is committed.
LEMMA SeenValue ==
  ASSUME NEW s \in Runs
  PROVE  /\ DOMAIN Seen(s) = DOMAIN wrote[s].goods \cup DOMAIN goods
         /\ \A i \in DOMAIN wrote[s].goods : Seen(s)[i] = wrote[s].goods[i]
         /\ \A i \in DOMAIN goods : i \notin DOMAIN wrote[s].goods => Seen(s)[i] = goods[i]
         /\ DOMAIN Seen(s)' = DOMAIN wrote'[s].goods \cup DOMAIN goods'
         /\ \A i \in DOMAIN wrote'[s].goods : Seen(s)'[i] = wrote'[s].goods[i]
         /\ \A i \in DOMAIN goods' :
              i \notin DOMAIN wrote'[s].goods => Seen(s)'[i] = goods'[i]
BY OverValue, ZenonT(60) DEF Seen

\* Every step of a run between its start and its end.
LEMMA RunStep ==
  ASSUME SeedTypes, NEW s \in Runs,
         \/ SeedCategory(s) \/ GetProduct(s) \/ UpdateProduct(s) \/ SaveImage(s)
         \/ SeedUser(s) \/ SkipUser(s) \/ SampleOrders(s)
  PROVE  RunGrows(s)
<1>1. /\ ids \in 0..MaxProducts /\ MaxProducts \in Nat /\ WroteShape
      /\ DOMAIN wrote[s].goods \subseteq 1..ids
      /\ \A t \in Runs : DOMAIN wrote[t].goods \subseteq 1..ids
  BY SeedAssumption DEF SeedTypes, SeedTypeOK
<1>2. /\ DOMAIN wrote[s].goods \subseteq DOMAIN Seen(s)
      /\ \A i \in DOMAIN wrote[s].goods : Seen(s)[i] = wrote[s].goods[i]
      /\ DOMAIN Seen(s) \subseteq 1..ids
  BY SeenValue, SeenType
<1> DEFINE People == wrote'[s].people = wrote[s].people
           Samples == wrote'[s].samples = wrote[s].samples
<1>3. ASSUME RunMoves(s), ids' = ids, wrote'[s].goods = wrote[s].goods,
             \A t \in Runs : t # s => wrote'[s].people \cap wrote[t].people \subseteq wrote[s].people,
             wrote[s].people \subseteq wrote'[s].people,
             run'[s].point = "orders" => run'[s].index \in wrote'[s].people,
             \A c \in wrote'[s].samples :
               \/ c \in wrote[s].samples
               \/ run[s].point = "orders" /\ c = run[s].index /\ ~(samples[c] > 0)
      PROVE  RunGrows(s)
  BY <1>1, <1>2, <1>3 DEF RunGrows
<1>4. ASSUME RunMoves(s), ids' \in ids..MaxProducts, run'[s].point # "orders", People, Samples,
             NEW i \in 1..ids', Unlocked(s, i), NEW good \in Good, wrote' = Write(s, i, good),
             ~run[s].images =>
               good.stock = IF i \in DOMAIN Seen(s) THEN Seen(s)[i].stock ELSE NoStock
      PROVE  RunGrows(s)
  <2>1. /\ DOMAIN wrote'[s].goods = DOMAIN wrote[s].goods \cup {i}
        /\ wrote'[s].goods[i] = good
        /\ \A j \in DOMAIN wrote[s].goods : j # i => wrote'[s].goods[j] = wrote[s].goods[j]
    BY <1>1, <1>4, WriteValue
  <2>2. DOMAIN wrote'[s].goods \subseteq 1..ids'
    BY <1>1, <1>4, <2>1
  <2>3. \A t \in Runs : t # s =>
          DOMAIN wrote'[s].goods \cap DOMAIN wrote[t].goods \subseteq DOMAIN wrote[s].goods
    BY <1>4, <2>1 DEF Unlocked
  <2>4. ~run[s].images => \A j \in DOMAIN wrote'[s].goods :
          wrote'[s].goods[j].stock = IF j \in DOMAIN Seen(s) THEN Seen(s)[j].stock ELSE NoStock
    BY <1>2, <1>4, <2>1
  <2> QED
    BY <1>4, <2>2, <2>3, <2>4 DEF RunGrows
<1>5. CASE SeedCategory(s)
  <2>1. /\ RunMoves(s) /\ ids' = ids /\ wrote'[s].goods = wrote[s].goods /\ People /\ Samples
        /\ run'[s].point # "orders"
    BY <1>5, CategoryStep
  <2> QED
    BY <1>3, <2>1
<1>6. CASE GetProduct(s)
  <2>1. /\ RunMoves(s) /\ People /\ Samples /\ run'[s].point # "orders"
        /\ run[s].index \in 1..NumRows
        /\ \/ ids' = ids /\ wrote' = wrote
           \/ /\ ids' = ids + 1 /\ ids' <= MaxProducts
              /\ wrote' = Write(s, ids', SeedRow(run[s].index))
    BY <1>6, GetStep
  <2>2. CASE ids' = ids /\ wrote' = wrote
    BY <1>3, <2>1, <2>2
  <2>3. CASE /\ ids' = ids + 1 /\ ids' <= MaxProducts
             /\ wrote' = Write(s, ids', SeedRow(run[s].index))
    <3>1. ids' \in ids..MaxProducts /\ ids' \in 1..ids' /\ ids' \notin 1..ids
      BY <1>1, <2>3
    <3>2. Unlocked(s, ids') /\ ids' \notin DOMAIN Seen(s)
      BY <1>1, <1>2, <3>1 DEF Unlocked
    <3>3. SeedRow(run[s].index) \in Good /\ SeedRow(run[s].index).stock = NoStock
      BY <2>1, GoodRows DEF SeedRow
    <3> QED
      BY <1>4, <2>1, <2>3, <3>1, <3>2, <3>3
  <2> QED
    BY <2>1, <2>2, <2>3
<1>7. CASE UpdateProduct(s)
  <2>1. /\ RunMoves(s) /\ People /\ Samples /\ run'[s].point # "orders" /\ ids' = ids
        /\ run[s].held \in DOMAIN Seen(s)
        /\ \/ wrote' = wrote
           \/ /\ Unlocked(s, run[s].held) /\ wrote' = Write(s, run[s].held, Updated(s))
              /\ Updated(s) \in Good
              /\ Updated(s).stock = Seen(s)[run[s].held].stock
    BY <1>7, UpdateStep
  <2>2. ids' \in ids..MaxProducts /\ run[s].held \in 1..ids'
    BY <1>1, <1>2, <2>1
  <2> QED
    BY <1>3, <1>4, <2>1, <2>2
<1>8. CASE SaveImage(s)
  <2>1. /\ RunMoves(s) /\ People /\ Samples /\ run'[s].point # "orders" /\ ids' = ids
        /\ run[s].held \in DOMAIN Seen(s)
        /\ \/ wrote' = wrote
           \/ /\ run[s].images /\ Unlocked(s, run[s].held) /\ run[s].read \in Good
              /\ wrote' = Write(s, run[s].held, run[s].read)
    BY <1>8, ImageStep
  <2>2. ids' \in ids..MaxProducts /\ run[s].held \in 1..ids'
    BY <1>1, <1>2, <2>1
  <2> QED
    BY <1>3, <1>4, <2>1, <2>2
<1>9. CASE SeedUser(s)
  <2>1. /\ RunMoves(s) /\ ids' = ids /\ wrote'[s].goods = wrote[s].goods /\ Samples
        /\ run'[s].point = "orders" => run'[s].index = run[s].index
        /\ wrote'[s].people = wrote[s].people \cup {run[s].index}
        /\ \A t \in Runs : t # s => run[s].index \notin wrote[t].people
    BY <1>9, UserStep
  <2> QED
    BY <1>3, <2>1
<1>10. CASE SkipUser(s)
  <2>1. RunMoves(s) /\ ids' = ids /\ wrote' = wrote /\ run'[s].point # "orders"
    BY <1>10, SkipStep
  <2> QED
    BY <1>3, <2>1
<1>11. CASE SampleOrders(s)
  <2>1. /\ RunMoves(s) /\ ids' = ids /\ wrote'[s].goods = wrote[s].goods /\ People
        /\ run'[s].point # "orders" /\ run[s].point = "orders"
        /\ \/ Samples
           \/ /\ ~(samples[run[s].index] > 0)
              /\ wrote'[s].samples = wrote[s].samples \cup {run[s].index}
    BY <1>11, SamplesStep
  <2> QED
    BY <1>3, <2>1
<1> QED
  BY <1>5, <1>6, <1>7, <1>8, <1>9, <1>10, <1>11


\* A run starts with nothing written, at the first category.
LEMMA StartStep ==
  ASSUME SeedTypes, NEW s \in Runs, NEW images \in BOOLEAN, NEW superuser \in BOOLEAN,
         NEW demo \in BOOLEAN, StartSeed(s, images, superuser, demo)
  PROVE  /\ SeedTypes' /\ UNCHANGED <<rooms, goods, people, samples, wrote, sold, ids>>
         /\ run[s] = Off /\ run'[s].point = "category" /\ run'[s].images = images
         /\ \A t \in Runs : t # s => run'[t] = run[t]
         /\ mishaps \subseteq mishaps'
         /\ images => "images" \in mishaps'
         /\ (\E t \in Runs : run[t] # Off) => "overlap" \in mishaps'
<1> DEFINE new == [Off EXCEPT !.point = "category", !.index = 1, !.images = images,
                              !.superuser = superuser, !.demo = demo]
<1>1. /\ new \in RunState /\ new.point = "category" /\ new.index = 1 /\ new.images = images
      /\ 1 \in 1..NumRows
  <2>1. 1 \in 1..NumRows /\ 0 \in 0..MaxProducts
    BY SeedAssumption
  <2>2. SeedRow(1) \in Good
    BY <2>1, GoodRows
  <2>3. Off \in RunState
    BY GoodRows
  <2>4. /\ new = [k \in DOMAIN Off |-> new[k]] /\ new.point = "category" /\ new.index = 1
        /\ new.images = images /\ new.superuser = superuser /\ new.demo = demo
        /\ new.held = Off.held /\ new.read = Off.read
    BY <2>3 DEF RunState
  <2> HIDE DEF new
  <2>5. DOMAIN Off = {"point", "index", "images", "superuser", "demo", "held", "read"}
    BY DEF Off
  <2> QED
    BY <2>1, <2>3, <2>4, <2>5 DEF RunState, Points
<1>2. /\ run' = [run EXCEPT ![s] = new] /\ run[s] = Off
      /\ UNCHANGED <<rooms, goods, people, samples, wrote, sold, ids>>
  BY DEF StartSeed
<1>3. /\ mishaps \subseteq mishaps'
      /\ images => "images" \in mishaps'
      /\ (\E t \in Runs : run[t] # Off) => "overlap" \in mishaps'
  BY DEF StartSeed
<1> HIDE DEF new
<1>4. run \in [Runs -> RunState] /\ WroteShape
  BY DEF SeedTypes, SeedTypeOK
<1>5. /\ run' \in [Runs -> RunState] /\ run'[s] = new
      /\ \A t \in Runs : t # s => run'[t] = run[t]
  BY <1>1, <1>2, <1>4
<1>6. \A t \in Runs :
        /\ DOMAIN wrote'[t].goods \subseteq 1..ids'
        /\ PlacedAt(run'[t], DOMAIN wrote'[t].goods \cup DOMAIN goods')
  BY <1>1, <1>2, <1>5, Placed DEF PlacedAt
<1>7. /\ rooms' \subseteq Rooms /\ people' \subseteq 0..NumCustomers
      /\ goods' \in [DOMAIN goods' -> Good] /\ DOMAIN goods' \subseteq 1..ids'
      /\ samples' \in [1..NumCustomers -> Nat] /\ sold' \in [1..MaxProducts -> Nat]
      /\ ids' \in 0..MaxProducts /\ WroteShape'
  BY <1>2 DEF SeedTypes, SeedTypeOK, WroteShape
<1>8. SeedTypes'
  BY <1>5, <1>6, <1>7, TypesAfter
<1> QED
  BY <1>1, <1>2, <1>3, <1>5, <1>8

\* A transaction that has written nothing is one.
LEMMA NothingWritten ==
  /\ Nothing \in Writes(DOMAIN Nothing.goods) /\ DOMAIN Nothing.goods = {}
  /\ Nothing.people = {} /\ Nothing.samples = {} /\ Off.point = "off"
  /\ DOMAIN <<>> = {} /\ <<>> \in [DOMAIN <<>> -> Good]
BY DEF Nothing, Writes, Off

\* When a run ends it is off and its transaction is empty.
EndsRun(s) ==
  /\ run' = [run EXCEPT ![s] = Off] /\ wrote' = [wrote EXCEPT ![s] = Nothing]
  /\ UNCHANGED <<sold, mishaps, ids>>

\* The other runs and transactions stay.
LEMMA EndStep ==
  ASSUME SeedTypes, NEW s \in Runs, EndsRun(s), DOMAIN goods \subseteq DOMAIN goods'
  PROVE  /\ run' \in [Runs -> RunState] /\ WroteShape'
         /\ run'[s] = Off /\ wrote'[s] = Nothing
         /\ \A t \in Runs : t # s => run'[t] = run[t] /\ wrote'[t] = wrote[t]
         /\ \A t \in Runs :
              /\ DOMAIN wrote'[t].goods \subseteq 1..ids'
              /\ PlacedAt(run'[t], DOMAIN wrote'[t].goods \cup DOMAIN goods')
<1>1. run \in [Runs -> RunState] /\ WroteShape
  BY DEF SeedTypes, SeedTypeOK
<1>2. /\ run' \in [Runs -> RunState] /\ run'[s] = Off /\ wrote'[s] = Nothing
      /\ \A t \in Runs : t # s => run'[t] = run[t] /\ wrote'[t] = wrote[t]
  BY <1>1, GoodRows DEF EndsRun, WroteShape
<1>3. WroteShape'
  <2>1. wrote' = [t \in Runs |-> wrote'[t]]
    BY <1>1 DEF EndsRun, WroteShape
  <2>2. \A t \in Runs : wrote'[t] \in Writes(DOMAIN wrote'[t].goods)
    BY <1>1, <1>2, NothingWritten DEF WroteShape
  <2> QED
    BY <2>1, <2>2 DEF WroteShape
<1>4. ASSUME NEW t \in Runs
      PROVE  /\ DOMAIN wrote'[t].goods \subseteq 1..ids'
             /\ PlacedAt(run'[t], DOMAIN wrote'[t].goods \cup DOMAIN goods')
  <2>1. CASE t = s
    BY <1>2, <2>1, NothingWritten DEF PlacedAt, Off
  <2>2. CASE t # s
    <3>1. /\ PlacedAt(run[t], DOMAIN wrote[t].goods \cup DOMAIN goods)
          /\ DOMAIN wrote[t].goods \subseteq 1..ids
      BY Placed
    <3>2. run'[t] = run[t] /\ wrote'[t] = wrote[t] /\ ids' = ids
      BY <1>2, <2>2 DEF EndsRun
    <3> QED
      BY <3>1, <3>2 DEF PlacedAt
  <2> QED
    BY <2>1, <2>2
<1> QED
  BY <1>2, <1>3, <1>4

\* Committing makes what the run saw what everyone sees.
LEMMA CommitStep ==
  ASSUME SeedTypes, NEW s \in Runs, CommitSeed(s)
  PROVE  /\ SeedTypes' /\ EndsRun(s) /\ goods' = Seen(s) /\ run[s].point = "commit"
         /\ DOMAIN goods \subseteq DOMAIN goods'
         /\ \A c \in 1..NumCustomers :
              samples'[c] = samples[c] + (IF c \in wrote[s].samples THEN 1 ELSE 0)
<1>1. /\ EndsRun(s) /\ goods' = Seen(s) /\ run[s].point = "commit"
      /\ rooms' = rooms \cup wrote[s].rooms /\ people' = people \cup wrote[s].people
      /\ samples' =
           [c \in DOMAIN samples |-> samples[c] + (IF c \in wrote[s].samples THEN 1 ELSE 0)]
  BY DEF CommitSeed, EndsRun, Seen
<1>2. /\ DOMAIN goods \subseteq DOMAIN goods' /\ DOMAIN goods' \subseteq 1..ids
      /\ \A i \in DOMAIN goods' : goods'[i] \in Good
      /\ goods' = [i \in DOMAIN goods' |-> goods'[i]]
  BY <1>1, SeenType DEF Seen, Over
<1>3. /\ wrote[s] \in Writes(DOMAIN wrote[s].goods)
      /\ samples \in [1..NumCustomers -> Nat] /\ sold \in [1..MaxProducts -> Nat]
      /\ rooms \subseteq Rooms /\ people \subseteq 0..NumCustomers /\ ids \in 0..MaxProducts
  BY DEF SeedTypes, SeedTypeOK
<1>4. /\ run' \in [Runs -> RunState] /\ WroteShape'
      /\ \A t \in Runs :
           /\ DOMAIN wrote'[t].goods \subseteq 1..ids'
           /\ PlacedAt(run'[t], DOMAIN wrote'[t].goods \cup DOMAIN goods')
  BY <1>1, <1>2, EndStep
<1>5. /\ samples' \in [1..NumCustomers -> Nat]
      /\ \A c \in 1..NumCustomers :
           samples'[c] = samples[c] + (IF c \in wrote[s].samples THEN 1 ELSE 0)
  BY <1>1, <1>3
<1>6. /\ rooms' \subseteq Rooms /\ people' \subseteq 0..NumCustomers
      /\ ids' \in 0..MaxProducts /\ sold' \in [1..MaxProducts -> Nat] /\ ids' = ids
  BY <1>1, <1>3 DEF EndsRun, Writes
<1>7. goods' \in [DOMAIN goods' -> Good]
  BY <1>2
<1>8. SeedTypes'
  BY <1>2, <1>4, <1>5, <1>6, <1>7, TypesAfter
<1> QED
  BY <1>1, <1>2, <1>5, <1>8

\* Aborting leaves what is committed.
LEMMA AbortStep ==
  ASSUME SeedTypes, NEW s \in Runs, AbortSeed(s)
  PROVE  /\ SeedTypes' /\ EndsRun(s) /\ UNCHANGED <<rooms, goods, people, samples>>
<1>1. EndsRun(s) /\ UNCHANGED <<rooms, goods, people, samples>>
  BY DEF AbortSeed, EndsRun
<1>2. /\ run' \in [Runs -> RunState] /\ WroteShape'
      /\ \A t \in Runs :
           /\ DOMAIN wrote'[t].goods \subseteq 1..ids'
           /\ PlacedAt(run'[t], DOMAIN wrote'[t].goods \cup DOMAIN goods')
  BY <1>1, EndStep
<1>3. /\ rooms' \subseteq Rooms /\ people' \subseteq 0..NumCustomers
      /\ goods' \in [DOMAIN goods' -> Good] /\ DOMAIN goods' \subseteq 1..ids'
      /\ samples' \in [1..NumCustomers -> Nat] /\ sold' \in [1..MaxProducts -> Nat]
      /\ ids' \in 0..MaxProducts
  BY <1>1 DEF SeedTypes, SeedTypeOK, EndsRun
<1> QED
  BY <1>1, <1>2, <1>3, TypesAfter

\* A step of the shop changes one committed product that no run has written.
ShopEdits(i) ==
  /\ goods' \in [DOMAIN goods -> Good] /\ i \in DOMAIN goods
  /\ \A j \in DOMAIN goods : j # i => goods'[j] = goods[j]
  /\ goods'[i].row = goods[i].row
  /\ \A s \in Runs : i \notin DOMAIN wrote[s].goods
  /\ sold' \in [1..MaxProducts -> Nat] /\ mishaps \subseteq mishaps'
  /\ UNCHANGED <<rooms, people, samples, run, wrote, ids>>

\* It keeps the types.
LEMMA EditTypes ==
  ASSUME SeedTypes, NEW i, ShopEdits(i)
  PROVE  SeedTypes'
<1>1. /\ rooms' \subseteq Rooms /\ people' \subseteq 0..NumCustomers
      /\ goods' \in [DOMAIN goods' -> Good] /\ DOMAIN goods' \subseteq 1..ids'
      /\ samples' \in [1..NumCustomers -> Nat] /\ sold' \in [1..MaxProducts -> Nat]
      /\ ids' \in 0..MaxProducts /\ run' \in [Runs -> RunState] /\ WroteShape'
      /\ DOMAIN goods' = DOMAIN goods
  BY DEF SeedTypes, SeedTypeOK, ShopEdits, WroteShape
<1>2. \A t \in Runs :
        /\ DOMAIN wrote'[t].goods \subseteq 1..ids'
        /\ PlacedAt(run'[t], DOMAIN wrote'[t].goods \cup DOMAIN goods')
  BY <1>1, Placed DEF ShopEdits
<1> QED
  BY <1>1, <1>2, TypesAfter

\* Rewording, delisting and moving leave the stock and what was sold of it.
LEMMA EditStep ==
  ASSUME SeedTypes, NEW i \in DOMAIN goods,
         \/ Reword(i) \/ Delist(i)
         \/ \E c \in {Home[goods[i].row], Elsewhere} : Move(i, c)
  PROVE  /\ ShopEdits(i) /\ goods'[i].stock = goods[i].stock /\ sold' = sold
         /\ \/ goods'[i].room = goods[i].room
            \/ goods'[i].room # Home[goods[i].row]
            \/ "moved in" \in mishaps'
<1>1. /\ goods \in [DOMAIN goods -> Good] /\ goods[i] \in Good
      /\ sold \in [1..MaxProducts -> Nat]
  BY DEF SeedTypes, SeedTypeOK
<1>2. ASSUME NEW new \in Good, EditShop(i, new), new.row = goods[i].row,
             sold' = sold, mishaps \subseteq mishaps'
      PROVE  ShopEdits(i) /\ goods'[i] = new
  <2>1. goods' = [goods EXCEPT ![i] = new]
    BY <1>2 DEF EditShop
  <2>2. /\ goods' \in [DOMAIN goods -> Good] /\ goods'[i] = new
        /\ \A j \in DOMAIN goods : j # i => goods'[j] = goods[j]
    BY <1>1, <2>1
  <2>3. /\ \A s \in Runs : i \notin DOMAIN wrote[s].goods
        /\ UNCHANGED <<rooms, people, samples, run, wrote, ids>>
    BY <1>2 DEF EditShop
  <2> QED
    BY <1>1, <1>2, <2>2, <2>3 DEF ShopEdits
<1>3. CASE Reword(i)
  <2> DEFINE new == [goods[i] EXCEPT !.asSeeded = FALSE]
  <2>1. /\ new \in Good /\ new.row = goods[i].row /\ new.stock = goods[i].stock
        /\ new.room = goods[i].room
    BY <1>1 DEF Good
  <2>2. EditShop(i, new) /\ sold' = sold /\ mishaps \subseteq mishaps'
    BY <1>3 DEF Reword
  <2> HIDE DEF new
  <2> QED
    BY <1>2, <2>1, <2>2
<1>4. CASE Delist(i)
  <2> DEFINE new == [goods[i] EXCEPT !.available = FALSE]
  <2>1. /\ new \in Good /\ new.row = goods[i].row /\ new.stock = goods[i].stock
        /\ new.room = goods[i].room
    BY <1>1 DEF Good
  <2>2. EditShop(i, new) /\ sold' = sold /\ mishaps \subseteq mishaps'
    BY <1>4 DEF Delist
  <2> HIDE DEF new
  <2> QED
    BY <1>2, <2>1, <2>2
<1>5. ASSUME NEW c \in {Home[goods[i].row], Elsewhere}, Move(i, c)
      PROVE  /\ ShopEdits(i) /\ goods'[i].stock = goods[i].stock /\ sold' = sold
             /\ \/ goods'[i].room # Home[goods[i].row]
                \/ "moved in" \in mishaps'
  <2> DEFINE new == [goods[i] EXCEPT !.room = c]
  <2>1. c \in Rooms \cup {Elsewhere}
    BY <1>1 DEF Good, Rooms
  <2>2. /\ new \in Good /\ new.row = goods[i].row /\ new.stock = goods[i].stock
        /\ new.room = c
    BY <1>1, <2>1 DEF Good
  <2>3. /\ EditShop(i, new) /\ sold' = sold /\ mishaps \subseteq mishaps'
        /\ c = Home[goods[i].row] => "moved in" \in mishaps'
    BY <1>5 DEF Move
  <2> HIDE DEF new
  <2> QED
    BY <1>2, <2>2, <2>3
<1> QED
  BY <1>3, <1>4, <1>5

\* Selling moves one unit from the stock to what was sold.
LEMMA SellStep ==
  ASSUME SeedTypes, NEW i \in DOMAIN goods, Sell(i)
  PROVE  /\ ShopEdits(i) /\ goods'[i].room = goods[i].room
         /\ goods[i].stock \in Nat /\ goods'[i].stock = goods[i].stock - 1
         /\ goods'[i].stock \in Nat
         /\ sold[i] \in Nat /\ sold'[i] = sold[i] + 1
         /\ \A j \in DOMAIN goods : j # i => sold'[j] = sold[j]
<1>1. /\ goods \in [DOMAIN goods -> Good] /\ goods[i] \in Good
      /\ sold \in [1..MaxProducts -> Nat] /\ DOMAIN goods \subseteq 1..MaxProducts
  BY SeedAssumption DEF SeedTypes, SeedTypeOK
<1> DEFINE new == [goods[i] EXCEPT !.stock = goods[i].stock - 1]
<1>2. /\ goods' = [goods EXCEPT ![i] = new] /\ sold' = [sold EXCEPT ![i] = @ + 1]
      /\ goods[i].stock # NoStock /\ goods[i].stock # 0
      /\ \A s \in Runs : i \notin DOMAIN wrote[s].goods
      /\ UNCHANGED <<rooms, people, samples, run, wrote, ids, mishaps>>
  BY <1>1 DEF Sell, EditShop, Good
<1>3. goods[i].stock \in 0..Stocked /\ goods[i].stock - 1 \in 0..Stocked
  BY <1>1, <1>2, SeedAssumption DEF Good
<1>4. /\ new \in Good /\ new.row = goods[i].row /\ new.room = goods[i].room
      /\ new.stock = goods[i].stock - 1
  BY <1>1, <1>3 DEF Good
<1> HIDE DEF new
<1>5. /\ goods' \in [DOMAIN goods -> Good] /\ goods'[i] = new
      /\ \A j \in DOMAIN goods : j # i => goods'[j] = goods[j]
  BY <1>1, <1>2, <1>4
<1>6. /\ sold' \in [1..MaxProducts -> Nat] /\ sold[i] \in Nat /\ sold'[i] = sold[i] + 1
      /\ \A j \in DOMAIN goods : j # i => sold'[j] = sold[j]
  BY <1>1, <1>2
<1> QED
  BY <1>2, <1>3, <1>4, <1>5, <1>6 DEF ShopEdits

\* The shop, and the runs, begin with their types.
LEMMA SeedTypesBegin == SeedInit => SeedTypes
<1> SUFFICES ASSUME SeedInit PROVE SeedTypes
  OBVIOUS
<1>1. /\ SeedRow(1) \in Good /\ [SeedRow(1) EXCEPT !.stock = Stocked] \in Good
      /\ 1 \in 1..MaxProducts /\ 0 \in 0..MaxProducts
  <2>1. /\ 1 \in 1..NumRows /\ Stocked \in 0..Stocked
        /\ 1 \in 1..MaxProducts /\ 0 \in 0..MaxProducts
    BY SeedAssumption
  <2>2. SeedRow(1) \in Good
    BY <2>1, GoodRows
  <2>3. [SeedRow(1) EXCEPT !.stock = Stocked] \in Good
    BY <2>1, <2>2 DEF Good
  <2> QED
    BY <2>1, <2>2, <2>3
<1>2. /\ rooms \subseteq Rooms /\ people \subseteq 0..NumCustomers
      /\ goods \in [DOMAIN goods -> Good] /\ DOMAIN goods \in {{}, {1}}
  BY <1>1, NothingWritten DEF SeedInit, Rooms
<1>3. ids \in 0..MaxProducts /\ DOMAIN goods \subseteq 1..ids
  <2>1. CASE DOMAIN goods = {}
    BY <1>1, <2>1, FS_EmptySet DEF SeedInit
  <2>2. CASE DOMAIN goods = {1}
    <3>1. ids = 1
      BY <2>2, FS_Singleton DEF SeedInit
    <3> QED
      BY <1>1, <2>2, <3>1
  <2> QED
    BY <1>2, <2>1, <2>2
<1>4. samples \in [1..NumCustomers -> Nat] /\ sold \in [1..MaxProducts -> Nat]
  BY DEF SeedInit
<1>5. /\ run \in [Runs -> RunState] /\ \A s \in Runs : run[s] = Off
      /\ \A s \in Runs : wrote[s] = Nothing
      /\ WroteShape /\ DOMAIN wrote = Runs
  BY GoodRows, NothingWritten DEF SeedInit, WroteShape
<1>6. ASSUME NEW s \in Runs
      PROVE  /\ wrote[s] \in Writes(DOMAIN wrote[s].goods)
             /\ DOMAIN wrote[s].goods \subseteq 1..ids
             /\ run[s].point = "off"
  BY <1>5, NothingWritten
<1> QED
  BY <1>2, <1>3, <1>4, <1>5, <1>6 DEF SeedTypes, SeedTypeOK

\* Every step keeps them.
LEMMA SeedTypesKept == SeedTypes /\ [SeedNext]_seedVars => SeedTypes'
<1> SUFFICES ASSUME SeedTypes, [SeedNext]_seedVars PROVE SeedTypes'
  OBVIOUS
<1>1. ASSUME NEW s \in Runs, NEW images \in BOOLEAN, NEW superuser \in BOOLEAN,
             NEW demo \in BOOLEAN, StartSeed(s, images, superuser, demo)
      PROVE  SeedTypes'
  BY <1>1, StartStep
<1>2. ASSUME NEW s \in Runs,
             \/ SeedCategory(s) \/ GetProduct(s) \/ UpdateProduct(s) \/ SaveImage(s)
             \/ SeedUser(s) \/ SkipUser(s) \/ SampleOrders(s)
      PROVE  SeedTypes'
  BY <1>2, RunStep, RunTypes DEF RunGrows
<1>3. ASSUME NEW s \in Runs, CommitSeed(s) \/ AbortSeed(s)
      PROVE  SeedTypes'
  BY <1>3, CommitStep, AbortStep
<1>4. ASSUME NEW i \in DOMAIN goods,
             \/ Reword(i) \/ Delist(i) \/ Sell(i)
             \/ \E c \in {Home[goods[i].row], Elsewhere} : Move(i, c)
      PROVE  SeedTypes'
  BY <1>4, EditStep, SellStep, EditTypes
<1>5. CASE UNCHANGED seedVars
  BY <1>5 DEF seedVars, SeedTypes, SeedTypeOK, WroteShape, Seen
<1> QED
  BY <1>1, <1>2, <1>3, <1>4, <1>5 DEF SeedNext

\* Every product a run or the shop has, committed or not, is a product, and every run is
\* at one of its points, at a row or a customer that there is, holding a product it sees.
THEOREM SeedTypeCorrect == SeedSpec => []SeedTypeOK
<1>1. SeedTypes => SeedTypeOK
  BY DEF SeedTypes
<1> QED
  BY <1>1, SeedTypesBegin, SeedTypesKept, PTL DEF SeedSpec


-----------------------------------------------------------------------------
(* Seed: rows are locked, and a customer's sample orders are written once *)

\* No two runs have written the same row, and a run that is off has written nothing.
Locked ==
  /\ \A s, t \in Runs : s # t =>
       /\ DOMAIN wrote[s].goods \cap DOMAIN wrote[t].goods = {}
       /\ wrote[s].people \cap wrote[t].people = {}
  /\ \A s \in Runs : run[s].point = "off" => run[s] = Off /\ wrote[s] = Nothing

\* A step that leaves every transaction as it was or empties it keeps the locks.
LEMMA LockedEnds ==
  ASSUME Locked, \A t \in Runs : wrote'[t] \in {wrote[t], Nothing},
         \A t \in Runs : run'[t].point = "off" => run'[t] = Off /\ wrote'[t] = Nothing
  PROVE  Locked'
<1>1. \A t \in Runs :
        /\ DOMAIN wrote'[t].goods \subseteq DOMAIN wrote[t].goods
        /\ wrote'[t].people \subseteq wrote[t].people
  BY NothingWritten
<1> QED
  BY <1>1 DEF Locked

\* The locks are kept.
LEMMA LockedKept ==
  ASSUME SeedTypes, Locked, [SeedNext]_seedVars
  PROVE  Locked'
<1>1. ASSUME NEW s \in Runs, NEW images \in BOOLEAN, NEW superuser \in BOOLEAN,
             NEW demo \in BOOLEAN, StartSeed(s, images, superuser, demo)
      PROVE  Locked'
  <2>1. /\ wrote' = wrote /\ run'[s].point = "category"
        /\ \A t \in Runs : t # s => run'[t] = run[t]
    BY <1>1, StartStep
  <2> QED
    BY <2>1, LockedEnds DEF Locked
<1>2. ASSUME NEW s \in Runs,
             \/ SeedCategory(s) \/ GetProduct(s) \/ UpdateProduct(s) \/ SaveImage(s)
             \/ SeedUser(s) \/ SkipUser(s) \/ SampleOrders(s)
      PROVE  Locked'
  <2>1. RunGrows(s)
    BY <1>2, RunStep
  <2>2. \A t \in Runs : t # s =>
          /\ wrote'[t] = wrote[t] /\ run'[t] = run[t]
          /\ DOMAIN wrote'[s].goods \cap DOMAIN wrote'[t].goods = {}
          /\ wrote'[s].people \cap wrote'[t].people = {}
    BY <2>1 DEF RunGrows, RunMoves, Locked
  <2>3. run'[s].point # "off"
    BY <2>1 DEF RunGrows, RunMoves
  <2> QED
    BY <2>2, <2>3 DEF Locked
<1>3. ASSUME NEW s \in Runs, CommitSeed(s) \/ AbortSeed(s)
      PROVE  Locked'
  <2>1. /\ run'[s] = Off /\ wrote'[s] = Nothing
        /\ \A t \in Runs : t # s => run'[t] = run[t] /\ wrote'[t] = wrote[t]
    BY <1>3, CommitStep, AbortStep, EndStep
  <2> QED
    BY <2>1, LockedEnds DEF Locked
<1>4. ASSUME NEW i \in DOMAIN goods,
             \/ Reword(i) \/ Delist(i) \/ Sell(i)
             \/ \E c \in {Home[goods[i].row], Elsewhere} : Move(i, c)
      PROVE  Locked'
  <2>1. UNCHANGED <<run, wrote>>
    BY <1>4, EditStep, SellStep DEF ShopEdits
  <2> QED
    BY <2>1 DEF Locked
<1>5. CASE UNCHANGED seedVars
  BY <1>5 DEF seedVars, Locked
<1> QED
  BY <1>1, <1>2, <1>3, <1>4, <1>5 DEF SeedNext

\* A run that has written a customer's sample orders holds the customer's row and saw none.
SampledOnce ==
  /\ \A c \in 1..NumCustomers : samples[c] <= 1
  /\ \A s \in Runs :
       /\ run[s].point = "orders" => run[s].index \in wrote[s].people
       /\ wrote[s].samples \subseteq wrote[s].people
       /\ \A c \in wrote[s].samples : samples[c] = 0

\* Sample orders are committed once.
LEMMA SampledKept ==
  ASSUME SeedTypes, Locked, SampledOnce, [SeedNext]_seedVars
  PROVE  SampledOnce'
<1>1. /\ samples \in [1..NumCustomers -> Nat]
      /\ \A s \in Runs : wrote[s].samples \subseteq 1..NumCustomers
  BY DEF SeedTypes, SeedTypeOK, Writes
<1>2. ASSUME NEW s \in Runs, NEW images \in BOOLEAN, NEW superuser \in BOOLEAN,
             NEW demo \in BOOLEAN, StartSeed(s, images, superuser, demo)
      PROVE  SampledOnce'
  <2>1. /\ UNCHANGED <<wrote, samples>> /\ run'[s].point = "category"
        /\ \A t \in Runs : t # s => run'[t] = run[t]
    BY <1>2, StartStep
  <2> QED
    BY <2>1 DEF SampledOnce
<1>3. ASSUME NEW s \in Runs,
             \/ SeedCategory(s) \/ GetProduct(s) \/ UpdateProduct(s) \/ SaveImage(s)
             \/ SeedUser(s) \/ SkipUser(s) \/ SampleOrders(s)
      PROVE  SampledOnce'
  <2>1. RunGrows(s) /\ samples' = samples
    BY <1>3, RunStep DEF RunGrows, RunMoves
  <2>2. \A t \in Runs : t # s => wrote'[t] = wrote[t] /\ run'[t] = run[t]
    BY <2>1 DEF RunGrows, RunMoves
  <2>3. /\ run'[s].point = "orders" => run'[s].index \in wrote'[s].people
        /\ wrote[s].people \subseteq wrote'[s].people
    BY <2>1 DEF RunGrows
  <2>4. ASSUME NEW c \in wrote'[s].samples
        PROVE  c \in wrote'[s].people /\ samples'[c] = 0
    <3>1. CASE c \in wrote[s].samples
      BY <2>1, <2>3, <3>1 DEF SampledOnce
    <3>2. CASE run[s].point = "orders" /\ c = run[s].index /\ ~(samples[c] > 0)
      <4>1. c \in wrote[s].people
        BY <3>2 DEF SampledOnce
      <4>2. c \in 1..NumCustomers
        BY <3>2 DEF SeedTypes, SeedTypeOK
      <4>3. samples[c] \in Nat /\ ~(samples[c] > 0)
        BY <1>1, <3>2, <4>2
      <4>4. samples[c] = 0
        BY <4>3
      <4> QED
        BY <2>1, <2>3, <4>1, <4>4
    <3> QED
      BY <2>1, <3>1, <3>2 DEF RunGrows
  <2> QED
    BY <2>1, <2>2, <2>3, <2>4 DEF SampledOnce
<1>4. ASSUME NEW s \in Runs, CommitSeed(s)
      PROVE  SampledOnce'
  <2>1. /\ run'[s] = Off /\ wrote'[s] = Nothing
        /\ \A t \in Runs : t # s => run'[t] = run[t] /\ wrote'[t] = wrote[t]
    BY <1>4, CommitStep, EndStep
  <2>2. \A c \in 1..NumCustomers :
          samples'[c] = samples[c] + (IF c \in wrote[s].samples THEN 1 ELSE 0)
    BY <1>4, CommitStep
  <2>3. \A c \in 1..NumCustomers : samples'[c] <= 1
    <3>1. ASSUME NEW c \in 1..NumCustomers PROVE samples'[c] <= 1
      <4>1. samples[c] \in Nat /\ samples[c] <= 1
        BY <1>1 DEF SampledOnce
      <4>2. c \in wrote[s].samples => samples[c] = 0
        BY DEF SampledOnce
      <4> QED
        BY <2>2, <4>1, <4>2
    <3> QED
      BY <3>1
  <2>4. ASSUME NEW t \in Runs, t # s
        PROVE  \A c \in wrote[t].samples : samples'[c] = 0
    <3>1. ASSUME NEW c \in wrote[t].samples PROVE samples'[c] = 0
      <4>1. c \in 1..NumCustomers /\ c \in wrote[t].people /\ samples[c] = 0
        BY <1>1 DEF SampledOnce
      <4>2. c \notin wrote[s].samples
        BY <2>4, <4>1 DEF SampledOnce, Locked
      <4> QED
        BY <2>2, <4>1, <4>2
    <3> QED
      BY <3>1
  <2>5. run'[s].point # "orders" /\ wrote'[s].samples = {}
    BY <2>1, NothingWritten
  <2> QED
    BY <2>1, <2>3, <2>4, <2>5 DEF SampledOnce
<1>5. ASSUME NEW s \in Runs, AbortSeed(s)
      PROVE  SampledOnce'
  <2>1. /\ run'[s] = Off /\ wrote'[s] = Nothing /\ samples' = samples
        /\ \A t \in Runs : t # s => run'[t] = run[t] /\ wrote'[t] = wrote[t]
    BY <1>5, AbortStep, EndStep
  <2> QED
    BY <2>1, NothingWritten DEF SampledOnce
<1>6. ASSUME NEW i \in DOMAIN goods,
             \/ Reword(i) \/ Delist(i) \/ Sell(i)
             \/ \E c \in {Home[goods[i].row], Elsewhere} : Move(i, c)
      PROVE  SampledOnce'
  <2>1. UNCHANGED <<run, wrote, samples>>
    BY <1>6, EditStep, SellStep DEF ShopEdits
  <2> QED
    BY <2>1 DEF SampledOnce
<1>7. CASE UNCHANGED seedVars
  BY <1>7 DEF seedVars, SampledOnce
<1> QED
  BY <1>2, <1>3, <1>4, <1>5, <1>6, <1>7 DEF SeedNext

-----------------------------------------------------------------------------
(* Seed: stock *)

\* Without images, what a run has written of a row has the stock that is committed.
StockSeen ==
  "images" \notin mishaps =>
    /\ SeedKeepsStock
    /\ \A s \in Runs :
         /\ ~run[s].images
         /\ \A i \in DOMAIN wrote[s].goods :
              wrote[s].goods[i].stock = IF i \in DOMAIN goods THEN goods[i].stock ELSE NoStock

\* What was sold stays sold.
LEMMA StockKept ==
  ASSUME SeedTypes, Locked, StockSeen, [SeedNext]_seedVars
  PROVE  StockSeen'
<1> SUFFICES ASSUME "images" \notin mishaps'
             PROVE  /\ SeedKeepsStock'
                    /\ \A t \in Runs :
                         /\ ~run'[t].images
                         /\ \A i \in DOMAIN wrote'[t].goods :
                              wrote'[t].goods[i].stock =
                                IF i \in DOMAIN goods' THEN goods'[i].stock ELSE NoStock
  BY DEF StockSeen
<1> DEFINE Seen1(t) ==
             /\ ~run'[t].images
             /\ \A i \in DOMAIN wrote'[t].goods :
                  wrote'[t].goods[i].stock =
                    IF i \in DOMAIN goods' THEN goods'[i].stock ELSE NoStock
<1>1. CASE "images" \in mishaps
  <2>1. mishaps \subseteq mishaps'
    <3>1. ASSUME NEW s \in Runs, NEW images \in BOOLEAN, NEW superuser \in BOOLEAN,
                 NEW demo \in BOOLEAN, StartSeed(s, images, superuser, demo)
          PROVE  mishaps \subseteq mishaps'
      BY <3>1, StartStep
    <3>2. ASSUME NEW s \in Runs,
                 \/ SeedCategory(s) \/ GetProduct(s) \/ UpdateProduct(s) \/ SaveImage(s)
                 \/ SeedUser(s) \/ SkipUser(s) \/ SampleOrders(s)
          PROVE  mishaps \subseteq mishaps'
      BY <3>2, RunStep DEF RunGrows, RunMoves
    <3>3. ASSUME NEW s \in Runs, CommitSeed(s) \/ AbortSeed(s)
          PROVE  mishaps \subseteq mishaps'
      BY <3>3, CommitStep, AbortStep DEF EndsRun
    <3>4. ASSUME NEW i \in DOMAIN goods,
                 \/ Reword(i) \/ Delist(i) \/ Sell(i)
                 \/ \E c \in {Home[goods[i].row], Elsewhere} : Move(i, c)
          PROVE  mishaps \subseteq mishaps'
      BY <3>4, EditStep, SellStep DEF ShopEdits
    <3>5. CASE UNCHANGED seedVars
      BY <3>5 DEF seedVars
    <3> QED
      BY <3>1, <3>2, <3>3, <3>4, <3>5 DEF SeedNext
  <2> QED
    BY <1>1, <2>1
<1>2. CASE "images" \notin mishaps
  <2>1. /\ \A i \in DOMAIN goods :
             goods[i].stock # NoStock => goods[i].stock + sold[i] = Stocked
        /\ \A t \in Runs :
             /\ ~run[t].images
             /\ \A i \in DOMAIN wrote[t].goods :
                  wrote[t].goods[i].stock =
                    IF i \in DOMAIN goods THEN goods[i].stock ELSE NoStock
    BY <1>2 DEF StockSeen, SeedKeepsStock
  <2>2. ASSUME NEW s \in Runs, NEW images \in BOOLEAN, NEW superuser \in BOOLEAN,
               NEW demo \in BOOLEAN, StartSeed(s, images, superuser, demo)
        PROVE  SeedKeepsStock' /\ \A t \in Runs : Seen1(t)
    <3>1. /\ UNCHANGED <<wrote, goods, sold>> /\ run'[s].images = images
          /\ images => "images" \in mishaps'
          /\ \A t \in Runs : t # s => run'[t] = run[t]
      BY <2>2, StartStep
    <3> QED
      BY <2>1, <3>1 DEF SeedKeepsStock
  <2>3. ASSUME NEW s \in Runs,
               \/ SeedCategory(s) \/ GetProduct(s) \/ UpdateProduct(s) \/ SaveImage(s)
               \/ SeedUser(s) \/ SkipUser(s) \/ SampleOrders(s)
        PROVE  SeedKeepsStock' /\ \A t \in Runs : Seen1(t)
    <3>1. RunGrows(s)
      BY <2>3, RunStep
    <3>2. /\ UNCHANGED <<goods, sold, mishaps>> /\ run'[s].images = run[s].images
          /\ \A t \in Runs : t # s => wrote'[t] = wrote[t] /\ run'[t] = run[t]
      BY <3>1 DEF RunGrows, RunMoves
    <3>3. \A i \in DOMAIN wrote'[s].goods :
            wrote'[s].goods[i].stock = IF i \in DOMAIN Seen(s) THEN Seen(s)[i].stock ELSE NoStock
      BY <2>1, <3>1 DEF RunGrows
    <3>4. \A i \in DOMAIN wrote'[s].goods :
            wrote'[s].goods[i].stock = IF i \in DOMAIN goods THEN goods[i].stock ELSE NoStock
      <4>1. /\ DOMAIN Seen(s) = DOMAIN wrote[s].goods \cup DOMAIN goods
            /\ \A i \in DOMAIN wrote[s].goods : Seen(s)[i] = wrote[s].goods[i]
            /\ \A i \in DOMAIN goods : i \notin DOMAIN wrote[s].goods => Seen(s)[i] = goods[i]
        BY SeenValue
      <4> QED
        BY <2>1, <3>3, <4>1
    <3> QED
      BY <2>1, <3>2, <3>4 DEF SeedKeepsStock
  <2>4. ASSUME NEW s \in Runs, CommitSeed(s)
        PROVE  SeedKeepsStock' /\ \A t \in Runs : Seen1(t)
    <3>1. /\ EndsRun(s) /\ DOMAIN goods \subseteq DOMAIN goods'
          /\ DOMAIN goods' = DOMAIN wrote[s].goods \cup DOMAIN goods
          /\ \A i \in DOMAIN wrote[s].goods : goods'[i] = wrote[s].goods[i]
          /\ \A i \in DOMAIN goods : i \notin DOMAIN wrote[s].goods => goods'[i] = goods[i]
      <4>1. EndsRun(s) /\ goods' = Seen(s) /\ DOMAIN goods \subseteq DOMAIN goods'
        BY <2>4, CommitStep
      <4>2. /\ DOMAIN Seen(s) = DOMAIN wrote[s].goods \cup DOMAIN goods
            /\ \A i \in DOMAIN wrote[s].goods : Seen(s)[i] = wrote[s].goods[i]
            /\ \A i \in DOMAIN goods : i \notin DOMAIN wrote[s].goods => Seen(s)[i] = goods[i]
        BY SeenValue
      <4> QED
        BY <4>1, <4>2
    <3>2. /\ run'[s] = Off /\ wrote'[s] = Nothing
          /\ \A t \in Runs : t # s => run'[t] = run[t] /\ wrote'[t] = wrote[t]
      BY <3>1, EndStep
    <3>3. \A i \in DOMAIN goods' :
            goods'[i].stock = IF i \in DOMAIN goods THEN goods[i].stock ELSE NoStock
      BY <2>1, <3>1
    <3>4. SeedKeepsStock'
      BY <2>1, <3>1, <3>3 DEF SeedKeepsStock, EndsRun
    <3>5. Seen1(s)
      BY <3>2, NothingWritten DEF Off
    <3>6. ASSUME NEW t \in Runs, t # s PROVE Seen1(t)
      <4>1. \A i \in DOMAIN wrote[t].goods : i \in DOMAIN goods' <=> i \in DOMAIN goods
        BY <3>1, <3>6 DEF Locked
      <4> QED
        BY <2>1, <3>2, <3>3, <3>6, <4>1
    <3> QED
      BY <3>4, <3>5, <3>6
  <2>5. ASSUME NEW s \in Runs, AbortSeed(s)
        PROVE  SeedKeepsStock' /\ \A t \in Runs : Seen1(t)
    <3>1. EndsRun(s) /\ goods' = goods
      BY <2>5, AbortStep
    <3>2. /\ run'[s] = Off /\ wrote'[s] = Nothing
          /\ \A t \in Runs : t # s => run'[t] = run[t] /\ wrote'[t] = wrote[t]
      BY <3>1, EndStep
    <3>3. SeedKeepsStock'
      BY <2>1, <3>1 DEF SeedKeepsStock, EndsRun
    <3>4. Seen1(s)
      BY <3>2, NothingWritten DEF Off
    <3>5. ASSUME NEW t \in Runs, t # s PROVE Seen1(t)
      BY <2>1, <3>1, <3>2, <3>5
    <3> QED
      BY <3>3, <3>4, <3>5
  <2>6. ASSUME NEW i \in DOMAIN goods, ShopEdits(i),
               goods'[i].stock # NoStock => goods'[i].stock + sold'[i] = Stocked,
               \A j \in DOMAIN goods : j # i => sold'[j] = sold[j]
        PROVE  SeedKeepsStock' /\ \A t \in Runs : Seen1(t)
    <3>1. /\ DOMAIN goods' = DOMAIN goods /\ UNCHANGED <<run, wrote>>
          /\ \A j \in DOMAIN goods : j # i => goods'[j] = goods[j]
          /\ \A t \in Runs : i \notin DOMAIN wrote[t].goods
      BY <2>6 DEF ShopEdits
    <3>2. SeedKeepsStock'
      BY <2>1, <2>6, <3>1 DEF SeedKeepsStock
    <3> QED
      BY <2>1, <3>1, <3>2
  <2>7. ASSUME NEW i \in DOMAIN goods,
               \/ Reword(i) \/ Delist(i)
               \/ \E c \in {Home[goods[i].row], Elsewhere} : Move(i, c)
        PROVE  SeedKeepsStock' /\ \A t \in Runs : Seen1(t)
    <3>1. ShopEdits(i) /\ goods'[i].stock = goods[i].stock /\ sold' = sold
      BY <2>7, EditStep
    <3> QED
      BY <2>1, <2>6, <3>1
  <2>8. ASSUME NEW i \in DOMAIN goods, Sell(i)
        PROVE  SeedKeepsStock' /\ \A t \in Runs : Seen1(t)
    <3>1. /\ ShopEdits(i) /\ goods[i].stock \in Nat /\ goods'[i].stock = goods[i].stock - 1
          /\ sold[i] \in Nat /\ sold'[i] = sold[i] + 1
          /\ \A j \in DOMAIN goods : j # i => sold'[j] = sold[j]
      BY <2>8, SellStep
    <3>2. goods[i].stock # NoStock
      BY <3>1, SeedAssumption
    <3>3. goods[i].stock + sold[i] = Stocked
      BY <2>1, <3>2
    <3>4. goods'[i].stock + sold'[i] = Stocked
      BY <3>1, <3>3
    <3> QED
      BY <2>6, <3>1, <3>4
  <2>9. CASE UNCHANGED seedVars
    BY <2>1, <2>9 DEF seedVars, SeedKeepsStock
  <2> QED
    BY <2>2, <2>3, <2>4, <2>5, <2>7, <2>8, <2>9 DEF SeedNext
<1> QED
  BY <1>1, <1>2


-----------------------------------------------------------------------------
(* Seed: one product for each row *)

\* A product in the category its row is seeded in.
AtHome(g, i) == g[i].room = Home[g[i].row]
\* No two of those have one row.
Unique(g) ==
  \A i, j \in DOMAIN g : g[i].row = g[j].row /\ AtHome(g, i) /\ AtHome(g, j) => i = j

Calm == mishaps \cap {"overlap", "moved in"} = {}

\* A run that holds a product holds the only one of its row, as it read it.
HoldsOwn(s) ==
  run[s].point \in {"update", "image"} =>
    /\ run[s].read.row = run[s].index /\ run[s].read.room = Home[run[s].index]
    /\ Seen(s)[run[s].held].row = run[s].index
    /\ \A i \in DOMAIN Seen(s) :
         Seen(s)[i].row = run[s].index /\ AtHome(Seen(s), i) => i = run[s].held

\* With one run at a time, what is committed and what the run sees are alone.
OneEach ==
  Calm =>
    /\ Unique(goods)
    /\ \A s, t \in Runs : run[s].point # "off" /\ run[t].point # "off" => s = t
    /\ \A s \in Runs : Unique(Seen(s)) /\ HoldsOwn(s)

\* A table whose products keep their rows, and come home in no new place, stays alone.
LEMMA AloneStays ==
  ASSUME NEW f, NEW g, Unique(g), DOMAIN f \subseteq DOMAIN g,
         \A i \in DOMAIN f : f[i].row = g[i].row /\ (AtHome(f, i) => AtHome(g, i))
  PROVE  Unique(f)
BY DEF Unique

\* A step that keeps a run's place and what it sees keeps what it holds.
LEMMA HoldsStays ==
  ASSUME NEW s \in Runs, HoldsOwn(s), run'[s] = run[s],
         DOMAIN Seen(s)' = DOMAIN Seen(s),
         \A i \in DOMAIN Seen(s) :
           /\ Seen(s)'[i].row = Seen(s)[i].row
           /\ Seen(s)'[i].room = Home[Seen(s)'[i].row] => AtHome(Seen(s), i),
         run[s].point \in {"update", "image"} => run[s].held \in DOMAIN Seen(s)
  PROVE  HoldsOwn(s)'
BY DEF HoldsOwn, AtHome

\* An empty transaction shows what is committed.
LEMMA SeenNothing ==
  ASSUME SeedTypes, SeedTypes', NEW s \in Runs
  PROVE  /\ wrote[s].goods = <<>> => DOMAIN Seen(s) = DOMAIN goods
         /\ wrote[s].goods = <<>> => \A i \in DOMAIN goods : Seen(s)[i] = goods[i]
         /\ wrote'[s].goods = <<>> => DOMAIN Seen(s)' = DOMAIN goods'
         /\ wrote'[s].goods = <<>> => \A i \in DOMAIN goods' : Seen(s)'[i] = goods'[i]
<1>1. DOMAIN <<>> = {}
  BY NothingWritten
<1> QED
  BY <1>1, SeenValue

\* Writing a row over what a run sees changes that row of it.
LEMMA SeenWrite ==
  ASSUME SeedTypes, NEW s \in Runs, NEW i, NEW good \in Good,
         wrote' = Write(s, i, good), goods' = goods
  PROVE  /\ DOMAIN Seen(s)' = DOMAIN Seen(s) \cup {i}
         /\ Seen(s)'[i] = good
         /\ \A j \in DOMAIN Seen(s) : j # i => Seen(s)'[j] = Seen(s)[j]
<1>1. /\ DOMAIN wrote'[s].goods = DOMAIN wrote[s].goods \cup {i}
      /\ wrote'[s].goods[i] = good
      /\ \A j \in DOMAIN wrote[s].goods : j # i => wrote'[s].goods[j] = wrote[s].goods[j]
  BY WriteValue DEF SeedTypes
<1>2. /\ DOMAIN Seen(s) = DOMAIN wrote[s].goods \cup DOMAIN goods
      /\ \A j \in DOMAIN wrote[s].goods : Seen(s)[j] = wrote[s].goods[j]
      /\ \A j \in DOMAIN goods : j \notin DOMAIN wrote[s].goods => Seen(s)[j] = goods[j]
      /\ DOMAIN Seen(s)' = DOMAIN wrote'[s].goods \cup DOMAIN goods
      /\ \A j \in DOMAIN wrote'[s].goods : Seen(s)'[j] = wrote'[s].goods[j]
      /\ \A j \in DOMAIN goods : j \notin DOMAIN wrote'[s].goods => Seen(s)'[j] = goods[j]
  BY SeenValue
<1> QED
  BY <1>1, <1>2

\* What the runs other than one see does not change when that one moves.
LEMMA SeenOthers ==
  ASSUME NEW t \in Runs, wrote'[t] = wrote[t], goods' = goods
  PROVE  Seen(t)' = Seen(t)
BY DEF Seen

\* A step of the run leaves one product for each row, if it leaves the run so.
LEMMA OneEachRun ==
  ASSUME OneEach, NEW s \in Runs, RunMoves(s), Calm => Unique(Seen(s)') /\ HoldsOwn(s)'
  PROVE  OneEach'
<1> SUFFICES ASSUME Calm' PROVE OneEach'
  BY DEF OneEach
<1>1. /\ Calm /\ goods' = goods /\ run[s].point # "off"
      /\ \A t \in Runs : t # s => run'[t] = run[t] /\ wrote'[t] = wrote[t]
  BY DEF RunMoves, Calm
<1>2. Unique(goods') /\ \A t \in Runs : Unique(Seen(t)) /\ HoldsOwn(t)
  BY <1>1 DEF OneEach
<1>3. \A u, t \in Runs : run'[u].point # "off" /\ run'[t].point # "off" => u = t
  BY <1>1 DEF OneEach
<1>4. ASSUME NEW t \in Runs, t # s PROVE Unique(Seen(t)') /\ HoldsOwn(t)'
  <2>1. Seen(t)' = Seen(t) /\ run'[t] = run[t]
    BY <1>1, <1>4, SeenOthers
  <2> QED
    BY <1>2, <2>1 DEF HoldsOwn, AtHome
<1> QED
  BY <1>1, <1>2, <1>3, <1>4 DEF OneEach

\* A step that writes no row leaves alone what the run sees.
LEMMA OneEachQuiet ==
  ASSUME OneEach, NEW s \in Runs, RunMoves(s), wrote'[s].goods = wrote[s].goods,
         run'[s].point \notin {"update", "image"}
  PROVE  OneEach'
<1>1. Seen(s)' = Seen(s)
  BY DEF Seen, RunMoves
<1>2. Calm => Unique(Seen(s)') /\ HoldsOwn(s)'
  BY <1>1 DEF OneEach, HoldsOwn
<1> QED
  BY <1>2, OneEachRun

\* A product is created only when none is seen, and held as it is.
LEMMA OneEachGet ==
  ASSUME SeedTypes, OneEach, NEW s \in Runs, GetProduct(s)
  PROVE  OneEach'
<1> DEFINE r == run[s].index
           i == run'[s].held
<1>1. /\ RunMoves(s) /\ run'[s].point = "update" /\ run'[s].index = r /\ r \in 1..NumRows
      /\ \/ Found(s, r) = {i} /\ run'[s].read = Seen(s)[i] /\ wrote' = wrote
         \/ /\ Found(s, r) = {} /\ ids' = ids + 1 /\ i = ids'
            /\ run'[s].read = SeedRow(r) /\ wrote' = Write(s, i, SeedRow(r))
  BY GetStep
<1>2. goods' = goods /\ (Calm => Unique(Seen(s)))
  BY <1>1 DEF RunMoves, OneEach
<1>3. CASE Found(s, r) = {i} /\ run'[s].read = Seen(s)[i] /\ wrote' = wrote
  <2>1. Seen(s)' = Seen(s)
    BY <1>2, <1>3, SeenOthers
  <2>2. /\ i \in DOMAIN Seen(s) /\ Seen(s)[i].row = r /\ Seen(s)[i].room = Home[r]
        /\ \A j \in DOMAIN Seen(s) : Seen(s)[j].row = r /\ AtHome(Seen(s), j) => j = i
    BY <1>3 DEF Found, AtHome
  <2>3. HoldsOwn(s)'
    BY <1>1, <1>3, <2>1, <2>2 DEF HoldsOwn, AtHome
  <2> QED
    BY <1>1, <1>2, <2>1, <2>3, OneEachRun
<1>4. CASE /\ Found(s, r) = {} /\ ids' = ids + 1 /\ i = ids'
           /\ run'[s].read = SeedRow(r) /\ wrote' = Write(s, i, SeedRow(r))
  <2>1. SeedRow(r) \in Good /\ SeedRow(r).row = r /\ SeedRow(r).room = Home[r]
    BY <1>1, GoodRows DEF SeedRow
  <2>2. /\ DOMAIN Seen(s)' = DOMAIN Seen(s) \cup {i} /\ Seen(s)'[i] = SeedRow(r)
        /\ \A j \in DOMAIN Seen(s) : j # i => Seen(s)'[j] = Seen(s)[j]
    <3>1. PICK good \in Good : good = SeedRow(r)
      BY <2>1
    <3>2. wrote' = Write(s, i, good) /\ goods' = goods
      BY <1>2, <1>4, <3>1
    <3> HIDE DEF i
    <3> QED
      BY <3>1, <3>2, SeenWrite, Zenon
  <2>3. \A j \in DOMAIN Seen(s) : ~(Seen(s)[j].row = r /\ AtHome(Seen(s), j))
    BY <1>4 DEF Found, AtHome
  <2>4. \A j \in DOMAIN Seen(s)' :
          Seen(s)'[j].row = r /\ Seen(s)'[j].room = Home[Seen(s)'[j].row] => j = i
    BY <2>2, <2>3 DEF AtHome
  <2>5. HoldsOwn(s)'
    BY <1>1, <1>4, <2>1, <2>2, <2>4 DEF HoldsOwn, AtHome
  <2>6. Unique(Seen(s)) => Unique(Seen(s)')
    BY <2>1, <2>2, <2>4 DEF Unique, AtHome
  <2> QED
    BY <1>1, <1>2, <2>5, <2>6, OneEachRun
<1> QED
  BY <1>1, <1>3, <1>4

\* An update keeps the row and the category of the product it is of.
LEMMA OneEachUpdate ==
  ASSUME SeedTypes, OneEach, NEW s \in Runs, UpdateProduct(s)
  PROVE  OneEach'
<1> DEFINE i == run[s].held
<1>1. /\ RunMoves(s) /\ run[s].point = "update" /\ run'[s].point = "image"
      /\ run'[s].index = run[s].index /\ run'[s].held = i
      /\ run'[s].read.row = run[s].read.row /\ run'[s].read.room = run[s].read.room
      /\ i \in DOMAIN Seen(s) /\ goods' = goods
      /\ \/ wrote' = wrote
         \/ /\ wrote' = Write(s, i, Updated(s)) /\ Updated(s) \in Good
            /\ Updated(s).row = Seen(s)[i].row /\ Updated(s).room = Seen(s)[i].room
  BY UpdateStep DEF RunMoves
<1>2. /\ DOMAIN Seen(s)' = DOMAIN Seen(s)
      /\ \A j \in DOMAIN Seen(s) :
           Seen(s)'[j].row = Seen(s)[j].row /\ Seen(s)'[j].room = Seen(s)[j].room
  <2>1. CASE wrote' = wrote
    BY <1>1, <2>1, SeenOthers
  <2>2. CASE /\ wrote' = Write(s, i, Updated(s)) /\ Updated(s) \in Good
             /\ Updated(s).row = Seen(s)[i].row /\ Updated(s).room = Seen(s)[i].room
    <3>1. /\ DOMAIN Seen(s)' = DOMAIN Seen(s) \cup {i} /\ Seen(s)'[i] = Updated(s)
          /\ \A j \in DOMAIN Seen(s) : j # i => Seen(s)'[j] = Seen(s)[j]
      <4>1. PICK good \in Good : good = Updated(s)
        BY <2>2
      <4>2. wrote' = Write(s, i, good) /\ goods' = goods
        BY <1>1, <2>2, <4>1
      <4>3. /\ DOMAIN Seen(s)' = DOMAIN Seen(s) \cup {i} /\ Seen(s)'[i] = good
            /\ \A j \in DOMAIN Seen(s) : j # i => Seen(s)'[j] = Seen(s)[j]
        BY <4>2, SeenWrite, ZenonT(60)
      <4> QED
        BY <4>1, <4>3
    <3> QED
      BY <1>1, <2>2, <3>1
  <2> QED
    BY <1>1, <2>1, <2>2
<1>3. ASSUME Unique(Seen(s)), HoldsOwn(s)
      PROVE  Unique(Seen(s)') /\ HoldsOwn(s)'
  <2>1. Unique(Seen(s)')
    BY <1>2, <1>3 DEF Unique, AtHome
  <2>2. HoldsOwn(s)'
    BY <1>1, <1>2, <1>3 DEF HoldsOwn, AtHome
  <2> QED
    BY <2>1, <2>2
<1> QED
  BY <1>1, <1>3, OneEachRun DEF OneEach

\* An image saves the product as it was read, which is the only one of its row.
LEMMA OneEachImage ==
  ASSUME SeedTypes, OneEach, NEW s \in Runs, SaveImage(s)
  PROVE  OneEach'
<1> DEFINE i == run[s].held
<1>1. /\ RunMoves(s) /\ run[s].point = "image" /\ run'[s].point \in {"product", "user"}
      /\ i \in DOMAIN Seen(s) /\ goods' = goods
      /\ \/ wrote' = wrote
         \/ run[s].read \in Good /\ wrote' = Write(s, i, run[s].read)
  BY ImageStep DEF RunMoves
<1>2. HoldsOwn(s)'
  BY <1>1 DEF HoldsOwn
<1>3. CASE wrote' = wrote
  BY <1>1, <1>3, OneEachQuiet
<1>4. CASE run[s].read \in Good /\ wrote' = Write(s, i, run[s].read)
  <2>1. /\ DOMAIN Seen(s)' = DOMAIN Seen(s) \cup {i} /\ Seen(s)'[i] = run[s].read
        /\ \A j \in DOMAIN Seen(s) : j # i => Seen(s)'[j] = Seen(s)[j]
    <3>1. PICK good \in Good : good = run[s].read
      BY <1>4
    <3>2. wrote' = Write(s, i, good) /\ goods' = goods
      BY <1>1, <1>4, <3>1
    <3> HIDE DEF i
    <3> QED
      BY <3>1, <3>2, SeenWrite, SMTT(30)
  <2>2. ASSUME Unique(Seen(s)), HoldsOwn(s) PROVE Unique(Seen(s)')
    <3>1. /\ run[s].read.row = run[s].index
          /\ \A j \in DOMAIN Seen(s) :
               Seen(s)[j].row = run[s].index /\ AtHome(Seen(s), j) => j = i
      BY <1>1, <2>2 DEF HoldsOwn
    <3> QED
      BY <1>1, <2>1, <2>2, <3>1 DEF Unique, AtHome
  <2> QED
    BY <1>1, <1>2, <2>2, OneEachRun DEF OneEach
<1> QED
  BY <1>1, <1>3, <1>4


\* One product for each row is kept.
LEMMA OneEachKept ==
  ASSUME SeedTypes, SeedTypes', Locked, Locked', OneEach, [SeedNext]_seedVars
  PROVE  OneEach'
<1>1. ASSUME NEW s \in Runs, NEW images \in BOOLEAN, NEW superuser \in BOOLEAN,
             NEW demo \in BOOLEAN, StartSeed(s, images, superuser, demo), Calm'
      PROVE  OneEach'
  <2>1. /\ UNCHANGED <<wrote, goods>> /\ run[s] = Off /\ run'[s].point = "category"
        /\ \A t \in Runs : t # s => run'[t] = run[t]
    BY <1>1, StartStep
  <2>2. Calm /\ \A t \in Runs : run[t] = Off
    BY <1>1, StartStep DEF Calm
  <2>3. Unique(goods') /\ \A t \in Runs : Unique(Seen(t)) /\ Seen(t)' = Seen(t)
    BY <2>1, <2>2, SeenOthers DEF OneEach
  <2>4. ASSUME NEW t \in Runs
        PROVE  run'[t].point \in {"off", "category"} /\ (run'[t].point # "off" => t = s)
    BY <2>1, <2>2, NothingWritten
  <2>5. \A t \in Runs : HoldsOwn(t)'
    BY <2>4 DEF HoldsOwn
  <2> QED
    BY <2>3, <2>4, <2>5 DEF OneEach
<1>2. ASSUME NEW s \in Runs, SeedCategory(s) PROVE OneEach'
  BY <1>2, CategoryStep, OneEachQuiet
<1>3. ASSUME NEW s \in Runs, SeedUser(s) PROVE OneEach'
  <2>1. /\ RunMoves(s) /\ wrote'[s].goods = wrote[s].goods
        /\ run'[s].point \in {"user", "orders", "commit"}
    BY <1>3, UserStep
  <2> QED
    BY <2>1, OneEachQuiet
<1>4. ASSUME NEW s \in Runs, SkipUser(s) PROVE OneEach'
  BY <1>4, SkipStep, OneEachQuiet
<1>5. ASSUME NEW s \in Runs, SampleOrders(s) PROVE OneEach'
  BY <1>5, SamplesStep, OneEachQuiet
<1>6. ASSUME NEW s \in Runs, CommitSeed(s) \/ AbortSeed(s), Calm' PROVE OneEach'
  <2>1. /\ EndsRun(s) /\ goods' \in {goods, Seen(s)} /\ DOMAIN goods \subseteq DOMAIN goods'
        /\ run[s] # Off
    BY <1>6, CommitStep, AbortStep, NothingWritten DEF AbortSeed
  <2>2. /\ run'[s] = Off /\ wrote'[s] = Nothing
        /\ \A t \in Runs : t # s => run'[t] = run[t] /\ wrote'[t] = wrote[t]
    BY <2>1, EndStep
  <2>3. Calm /\ run[s].point # "off"
    BY <1>6, <2>1 DEF EndsRun, Calm, Locked
  <2>4. \A t \in Runs : run'[t].point = "off"
    BY <2>2, <2>3, NothingWritten DEF OneEach
  <2>5. \A t \in Runs : wrote'[t].goods = <<>>
    BY <2>4 DEF Locked, Nothing
  <2>6. Unique(goods')
    BY <2>1, <2>3 DEF OneEach
  <2>7. ASSUME NEW t \in Runs PROVE Unique(Seen(t)') /\ HoldsOwn(t)'
    <3>1. DOMAIN Seen(t)' = DOMAIN goods' /\ \A i \in DOMAIN goods' : Seen(t)'[i] = goods'[i]
      BY <2>5, SeenNothing
    <3>2. Unique(Seen(t)')
      BY <2>6, <3>1 DEF Unique, AtHome
    <3> QED
      BY <2>4, <3>2 DEF HoldsOwn
  <2> QED
    BY <2>4, <2>6, <2>7 DEF OneEach
<1>7. ASSUME NEW i \in DOMAIN goods, ShopEdits(i), Calm',
             goods'[i].room = goods[i].room \/ goods'[i].room # Home[goods[i].row]
      PROVE  OneEach'
  <2>1. /\ UNCHANGED <<run, wrote>> /\ Calm /\ DOMAIN goods' = DOMAIN goods
        /\ \A j \in DOMAIN goods : j # i => goods'[j] = goods[j]
        /\ goods'[i].row = goods[i].row
        /\ \A t \in Runs : i \notin DOMAIN wrote[t].goods
    BY <1>7 DEF ShopEdits, Calm
  <2>2. \A j \in DOMAIN goods :
          goods'[j].row = goods[j].row /\ (AtHome(goods', j) => AtHome(goods, j))
    BY <1>7, <2>1 DEF AtHome
  <2>3. Unique(goods')
    BY <2>1, <2>2, AloneStays DEF OneEach
  <2>4. ASSUME NEW t \in Runs PROVE Unique(Seen(t)') /\ HoldsOwn(t)'
    <3>1. /\ DOMAIN Seen(t) = DOMAIN wrote[t].goods \cup DOMAIN goods
          /\ \A j \in DOMAIN wrote[t].goods : Seen(t)[j] = wrote[t].goods[j]
          /\ \A j \in DOMAIN goods : j \notin DOMAIN wrote[t].goods => Seen(t)[j] = goods[j]
          /\ DOMAIN Seen(t)' = DOMAIN wrote[t].goods \cup DOMAIN goods
          /\ \A j \in DOMAIN wrote[t].goods : Seen(t)'[j] = wrote[t].goods[j]
          /\ \A j \in DOMAIN goods : j \notin DOMAIN wrote[t].goods => Seen(t)'[j] = goods'[j]
      BY <2>1, SeenValue
    <3>2. /\ DOMAIN Seen(t)' = DOMAIN Seen(t)
          /\ \A j \in DOMAIN Seen(t) :
               /\ Seen(t)'[j].row = Seen(t)[j].row
               /\ Seen(t)'[j].room = Home[Seen(t)'[j].row] => AtHome(Seen(t), j)
      BY <2>2, <3>1 DEF AtHome
    <3>3. Unique(Seen(t)) /\ HoldsOwn(t)
      BY <2>1 DEF OneEach
    <3>4. Unique(Seen(t)')
      BY <3>2, <3>3 DEF Unique, AtHome
    <3>5. HoldsOwn(t)'
      <4>1. run[t].point \in {"update", "image"} => run[t].held \in DOMAIN Seen(t)
        BY DEF SeedTypes, SeedTypeOK
      <4> QED
        BY <2>1, <3>2, <3>3, <4>1, HoldsStays
    <3> QED
      BY <3>4, <3>5
  <2> QED
    BY <2>1, <2>3, <2>4 DEF OneEach
<1>8. ASSUME NEW i \in DOMAIN goods,
             \/ Reword(i) \/ Delist(i) \/ Sell(i)
             \/ \E c \in {Home[goods[i].row], Elsewhere} : Move(i, c),
             Calm'
      PROVE  OneEach'
  BY <1>7, <1>8, EditStep, SellStep DEF Calm
<1>9. CASE UNCHANGED seedVars
  <2>1. UNCHANGED <<mishaps, goods, run, wrote>>
    BY <1>9 DEF seedVars
  <2>2. Calm' = Calm /\ Unique(goods') = Unique(goods)
    BY <2>1 DEF Calm, Unique, AtHome
  <2>3. ASSUME NEW t \in Runs
        PROVE  Unique(Seen(t)') = Unique(Seen(t)) /\ HoldsOwn(t)' = HoldsOwn(t)
    <3>1. Seen(t)' = Seen(t) /\ run' = run
      BY <2>1, SeenOthers
    <3> QED
      BY <3>1 DEF Unique, AtHome, HoldsOwn
  <2> QED
    BY <2>1, <2>2, <2>3 DEF OneEach
<1>10. ~Calm' => OneEach'
  BY DEF OneEach
<1>11. ASSUME NEW s \in Runs, GetProduct(s) \/ UpdateProduct(s) \/ SaveImage(s)
       PROVE  OneEach'
  BY <1>11, OneEachGet, OneEachUpdate, OneEachImage
<1> QED
  BY <1>1, <1>2, <1>3, <1>4, <1>5, <1>6, <1>8, <1>9, <1>10, <1>11 DEF SeedNext

-----------------------------------------------------------------------------
(* Seed: the theorems *)

\* The inductive invariant: types, locks, sample orders, stock and one product a row.
SeedInv == SeedTypes /\ Locked /\ SampledOnce /\ StockSeen /\ OneEach

\* It holds at the start.
LEMMA SeedInvBegins == SeedInit => SeedInv
<1> SUFFICES ASSUME SeedInit PROVE SeedInv
  OBVIOUS
<1>1. SeedTypes
  BY SeedTypesBegin
<1>2. \A s \in Runs : run[s] = Off /\ wrote[s] = Nothing /\ wrote[s].goods = <<>>
  BY DEF SeedInit, Nothing
<1>3. Locked
  BY <1>2, NothingWritten DEF Locked
<1>4. SampledOnce
  BY <1>2, NothingWritten DEF SampledOnce, SeedInit
<1>5. goods = <<>> \/ goods = [i \in {1} |-> [SeedRow(1) EXCEPT !.stock = Stocked]]
  BY DEF SeedInit
<1>6. DOMAIN goods \subseteq {1}
  BY <1>5, NothingWritten
<1>7. StockSeen
  <2>1. ASSUME NEW i \in DOMAIN goods PROVE goods[i].stock + sold[i] = Stocked
    <3>1. i = 1 /\ goods[i].stock = Stocked /\ 1 \in 1..MaxProducts
      BY <1>5, <1>6, SeedAssumption, NothingWritten DEF SeedRow
    <3>2. sold[i] = 0 /\ Stocked \in Nat
      BY <3>1, SeedAssumption DEF SeedInit
    <3> QED
      BY <3>1, <3>2
  <2>2. \A s \in Runs : ~run[s].images /\ DOMAIN wrote[s].goods = {}
    BY <1>2, NothingWritten DEF Off
  <2> QED
    BY <2>1, <2>2 DEF StockSeen, SeedKeepsStock
<1>8. OneEach
  <2>1. Unique(goods)
    BY <1>6 DEF Unique
  <2>2. ASSUME NEW s \in Runs PROVE Unique(Seen(s)) /\ HoldsOwn(s)
    <3>1. DOMAIN Seen(s) \subseteq {1}
      BY <1>2, <1>6, SeenValue, NothingWritten
    <3> QED
      BY <1>2, <3>1, NothingWritten DEF Unique, HoldsOwn
  <2> QED
    BY <1>2, <2>1, <2>2, NothingWritten DEF OneEach
<1> QED
  BY <1>1, <1>3, <1>4, <1>7, <1>8 DEF SeedInv

\* Every step keeps it.
LEMMA SeedInvKept == SeedInv /\ [SeedNext]_seedVars => SeedInv'
BY SeedTypesKept, LockedKept, SampledKept, StockKept, OneEachKept DEF SeedInv

\* Stock is nothing the command seeds: what is sold while it runs stays sold, as long as
\* no run saves an image.
THEOREM SeedStockKept == SeedSpec => []SeedKeepsStock
<1>1. SeedInv => ("images" \notin mishaps => SeedKeepsStock)
  BY DEF SeedInv, StockSeen
<1>2. SeedInv => SeedKeepsStock
  BY <1>1 DEF SeedKeepsStock
<1> QED
  BY <1>2, SeedInvBegins, SeedInvKept, PTL DEF SeedSpec

\* "Safe to run multiple times": one product for each row unless two runs overlap or
\* staff move a second one in, and a customer's sample orders once, whatever overlaps.
THEOREM SeedOnce == SeedSpec => []SeededOnce
<1>1. SeedInv => SeededOnce
  <2> SUFFICES ASSUME SeedInv PROVE SeededOnce
    OBVIOUS
  <2>1. ASSUME mishaps \cap {"overlap", "moved in"} = {}, NEW r \in 1..NumRows
        PROVE  Cardinality({i \in DOMAIN goods :
                              goods[i].row = r /\ goods[i].room = Home[r]}) <= 1
    <3> DEFINE same == {i \in DOMAIN goods : goods[i].row = r /\ goods[i].room = Home[r]}
    <3>1. \A i, j \in same : i = j
      BY <2>1 DEF SeedInv, OneEach, Calm, Unique, AtHome
    <3>2. same = {} \/ \E i : same = {i}
      BY <3>1
    <3> HIDE DEF same
    <3>3. Cardinality(same) <= 1
      <4>1. CASE same = {}
        BY <4>1, FS_EmptySet
      <4>2. ASSUME NEW i, same = {i} PROVE Cardinality(same) <= 1
        <5>1. Cardinality({i}) = 1
          BY FS_Singleton
        <5> QED
          BY <4>2, <5>1
      <4> QED
        BY <3>2, <4>1, <4>2
    <3> QED
      BY <3>3 DEF same
  <2>2. \A c \in DOMAIN samples : samples[c] <= 1
    BY DEF SeedInv, SampledOnce, SeedTypes, SeedTypeOK
  <2> QED
    BY <2>1, <2>2 DEF SeededOnce
<1> QED
  BY <1>1, SeedInvBegins, SeedInvKept, PTL DEF SeedSpec
-----------------------------------------------------------------------------
(* Side by side *)

\* None of the seven disturbs another: what is shown of each alone holds of the storefront.
THEOREM ShopIsItsParts ==
  ShopSpec => /\ Spec /\ WishSpec /\ LimitSpec /\ ScrollSpec
              /\ ReplicaSpec /\ TracingSpec /\ SeedSpec
<1>1. ShopInit =>
        /\ Init /\ WishInit /\ LimitInit /\ ScrollInit /\ ReplicaInit /\ TracingInit /\ SeedInit
  BY DEF ShopInit
<1>2. [ShopNext]_shopVars =>
        /\ [Next]_vars /\ [WishNext]_wishVars /\ [LimitNext]_limitVars
        /\ [ScrollNext]_scrollVars /\ [ReplicaNext]_replicaVars
        /\ [TracingNext]_tracingVars /\ [SeedNext]_seedVars
  BY DEF ShopNext, shopVars, pageVars, siteVars
<1> QED
  BY <1>1, <1>2, PTL
  DEF ShopSpec, Spec, WishSpec, LimitSpec, ScrollSpec, ReplicaSpec, TracingSpec, SeedSpec

\* Whichever part moves, its variables keep their types.
THEOREM ShopTypeCorrect == ShopSpec => []ShopTypeOK
<1>1. ShopInit => part \in Parts
  BY DEF ShopInit
<1>2. part \in Parts /\ [ShopNext]_shopVars => (part \in Parts)'
  BY DEF ShopNext, shopVars, Parts
<1>3. /\ part \in Parts
      /\ TypeOK /\ WishTypeOK /\ LimitTypeOK /\ ScrollTypeOK
      /\ ReplicaTypeOK /\ TracingTypeOK /\ SeedTypeOK
      => ShopTypeOK
  BY DEF Parts, ShopTypeOK
<1> QED
  BY <1>1, <1>2, <1>3, ShopIsItsParts, TypeCorrect, WishTypeCorrect, LimitTypeCorrect,
     ScrollTypeCorrect, ReplicaTypeCorrect, TracingTypeCorrect, SeedTypeCorrect, PTL
  DEF ShopSpec
=============================================================================
