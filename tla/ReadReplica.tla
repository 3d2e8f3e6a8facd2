------------------------------- MODULE ReadReplica -------------------------------
(***************************************************************************)
(* Which database serves what: settings.py builds DATABASES from the       *)
(* environment when a process starts (ecommerce/db_config.py) and, when    *)
(* replicas are configured, installs PrimaryReplicaRouter by its dotted    *)
(* name.  Requests then load rows, follow relations, save instances and    *)
(* run UPDATEs; Django asks the router each time and falls back on the     *)
(* database of the instance at hand, else on default.                      *)
(***************************************************************************)
EXTENDS Integers, SequencesExt

CONSTANTS
  Processes,     \* web and worker processes, each with its own settings
  Urls,          \* sequences of segments DB_REPLICA_URLS may hold
  Ages,          \* values DB_CONN_MAX_AGE may hold
  Unset, NotANumber

Segment == {"blank", "scheme", "nohost", "badport", "good"}

ASSUME ReplicaAssumption ==
  /\ Urls \subseteq Seq(Segment)
  /\ Ages \subseteq Int \cup {Unset, NotANumber}

VARIABLES
  databases,   \* settings.DATABASES: alias -> pooling keys; {} before the start
  instance,    \* the database of the instance a process holds, or NoDb
  served,      \* databases plain reads went to
  written      \* databases an INSERT, UPDATE or migration went to

replicaVars == <<databases, instance, served, written>>

\* Aliases: 0 is default, i + 1 is replica_<i>.
NoDb == -1
Default == 0
Replica(i) == i + 1

ReplicaInit ==
  /\ databases = [p \in Processes |-> [d \in {} |-> "none"]]
  /\ instance = [p \in Processes |-> NoDb]
  /\ served = {} /\ written = {}

Started(p) == DOMAIN databases[p] # {}
Replicas(p) == DOMAIN databases[p] \ {Default}

-----------------------------------------------------------------------------
(* Settings *)

\* _apply_conn_max_age: no key, CONN_MAX_AGE=0, or an age with health checks.
GoodAge(age) == age # NotANumber /\ (IF age = Unset THEN TRUE ELSE age >= 0)
PoolingOf(age) == IF age = Unset THEN "none" ELSE IF age = 0 THEN "off" ELSE "on"

\* parse_replica_urls: blank segments are skipped, the others numbered from 0; one
\* that is no postgres URL, has no host or an impossible port stops the process.
Given(urls) == SelectSeq(urls, LAMBDA s : s # "blank")
GoodUrls(urls) == \A i \in 1..Len(urls) : urls[i] \in {"blank", "good"}
ReplicaAliases(urls) == {Replica(i - 1) : i \in 1..Len(Given(urls))}

\* The age is only looked at for Postgres, the default database or a replica.
Start(p, postgres, password, urls, age) ==
  LET uses == postgres \/ Given(urls) # <<>>
      aliases == ReplicaAliases(urls)
  IN
  /\ ~Started(p)
  /\ postgres => password
  /\ GoodUrls(urls)
  /\ uses => GoodAge(age)
  /\ databases' = [databases EXCEPT ![p] =
       [d \in {Default} \cup aliases |->
          IF d = Default /\ ~postgres THEN "none" ELSE PoolingOf(age)]]
  /\ UNCHANGED <<instance, served, written>>

-----------------------------------------------------------------------------
(* PrimaryReplicaRouter, as Django instantiates it: the class named in         *)
(* DATABASE_ROUTERS is called without arguments, so it knows no alias.         *)

RouterOfReplicas(p) == Replicas(p)   \* mutant: the router is given the aliases
RouterAliases(p) == {}

DbForRead(p) == IF RouterAliases(p) = {} THEN {NoDb} ELSE RouterAliases(p)
DbForWrite(p) == {NoDb}

\* Django: the router's choice, else the database of the instance, else default.
Routed(choice, held) ==
  {IF d # NoDb THEN d ELSE IF held # NoDb THEN held ELSE Default : d \in choice}

\* allow_relation: both objects on a database the router knows; without an opinion
\* Django wants them on the same one.
AllowRelation(p, d, e) ==
  {d, e} \subseteq {Default} \cup RouterAliases(p) \/ d = e

AllowMigrate(d) == d = Default

-----------------------------------------------------------------------------
(* What requests and tasks do *)

\* Model.objects.get or filter.
LoadRow(p) ==
  /\ Started(p)
  /\ \E d \in Routed(DbForRead(p), NoDb) :
       instance' = [instance EXCEPT ![p] = d] /\ served' = served \cup {d}
  /\ UNCHANGED <<databases, written>>

\* order.items.all(): Django hands the router the instance.
LoadRelated(p) ==
  /\ instance[p] # NoDb
  /\ \E d \in Routed(DbForRead(p), instance[p]) : instance' = [instance EXCEPT ![p] = d]
  /\ UNCHANGED <<databases, served, written>>

\* instance.save(), also with update_fields.
SaveInstance(p) ==
  /\ instance[p] # NoDb
  /\ written' = written \cup Routed(DbForWrite(p), instance[p])
  /\ UNCHANGED <<databases, instance, served>>

\* Model.objects.create, and filter(...).update(...), which have no instance; a new
\* row that names a loaded one asks allow_relation first.
WriteByManager(p) ==
  /\ Started(p)
  /\ written' = written \cup Routed(DbForWrite(p), NoDb)
  /\ UNCHANGED <<databases, instance, served>>

CreateRelated(p) ==
  /\ instance[p] # NoDb
  /\ AllowRelation(p, instance[p], Default)
  /\ WriteByManager(p)

\* manage.py migrate --database d.
Migrate(p, d) ==
  /\ d \in DOMAIN databases[p]
  /\ AllowMigrate(d)
  /\ written' = written \cup {d}
  /\ UNCHANGED <<databases, instance, served>>

\* A request or the process ends.
EndWork(p) ==
  /\ instance[p] # NoDb
  /\ instance' = [instance EXCEPT ![p] = NoDb]
  /\ UNCHANGED <<databases, served, written>>

ReplicaNext ==
  \E p \in Processes :
    \/ \E postgres, password \in BOOLEAN, urls \in Urls, age \in Ages :
         Start(p, postgres, password, urls, age)
    \/ LoadRow(p) \/ LoadRelated(p) \/ SaveInstance(p) \/ WriteByManager(p)
    \/ CreateRelated(p) \/ EndWork(p)
    \/ \E d \in DOMAIN databases[p] : Migrate(p, d)

ReplicaSpec == ReplicaInit /\ [][ReplicaNext]_replicaVars

-----------------------------------------------------------------------------
(* Properties *)

\* Every database in use is configured, default always is one of them.
ReplicaTypeOK ==
  \A p \in Processes :
    /\ Started(p) => Default \in DOMAIN databases[p]
    /\ instance[p] \in {NoDb} \cup DOMAIN databases[p]
    /\ \A d \in DOMAIN databases[p] : databases[p][d] \in {"none", "off", "on"}

\* Replicas are read-only: no row is written and no migration runs on one, also when
\* an instance is saved that a read has loaded (Django saves it where it came from).
WritesOnPrimary == written \subseteq {Default}

\* The routing table: once replicas are configured, reads go to one of them.
ReadsReachReplicas ==
  (\A p \in Processes : Started(p) => Replicas(p) # {}) => Default \notin served
=============================================================================
