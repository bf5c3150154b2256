------------------------------- MODULE Reports ------------------------------
(* The reporting providers behind the assistant's tools: schema discovery in
   pages, guarded queries through a semaphore for each source, the catalog of
   PostgreSQL views with its cache, and the cached company readiness answer.

   Relations are numbers in the order of their names.  A caller runs one
   operation at a time: a discovery session (one tool call for each page), a
   query, or a readiness request.  Views and sources break and recover, and
   grants are given and taken, between any two steps.

   Bounds: MaxOps operations, MaxSessions discoveries and MaxProbes readiness
   requests of them at one time, MaxChanges changes of the environment and
   MaxTime ticks; CatalogTtl (60 s), ReadyTtl (30 s), Capacity (2) and MaxQueued
   (128) are the code's constants in scale.                                   *)
EXTENDS QueryRules, SequencesExt

CONSTANTS Callers, NoCaller,
          PgRels, MongoRels,     \* relations of the manifest, by source
          Stated,                \* whose policy states the types of its columns
          Size, Budget,          \* bytes of a relation's entry, and its estimate
          PageBytes, MaxPages,   \* MAX_SCHEMA_RESULT_BYTES and discovery calls
          Policies, Queries,     \* relation |-> policy; records relation, query
          Capacity, MaxQueued, CatalogTtl, ReadyTtl,
          Granted,               \* bound: what the callers may read to begin with
          MaxTime, MaxOps, MaxSessions, MaxProbes, MaxChanges

Rels == PgRels \cup MongoRels
Sources == {"pg", "mongo"}
Source(r) == IF r \in PgRels THEN "pg" ELSE "mongo"
None == 0

(* The bytes of some relations' entries, each its own.                        *)
Bytes(rels, size) == UNION {{r} \X (1..size[r]) : r \in rels}

(* The longest prefix, in the order of the names, that fits a page.           *)
Prefix(rels, size) ==
  {r \in rels : Cardinality(Bytes({q \in rels : q <= r}, size)) <= PageBytes}

(* What the estimate leaves of a manifest after each of MaxPages pages.       *)
Estimate(left) ==
  /\ left[0] = Rels /\ left[MaxPages] = {}
  /\ \A n \in 1..MaxPages : left[n] = left[n - 1] \ Prefix(left[n - 1], Budget)

(* A manifest is refused at start unless its estimate is discovered in MaxPages.
   The estimate prices a column's type at its longest name, or at what the policy
   states; PostgreSQL's catalog prints its own name of the type, which may be
   longer than the one stated.                                                *)
ASSUME Manifest ==
  /\ PgRels \cap MongoRels = {} /\ Rels \subseteq Nat \ {None}
  /\ \E n \in Rels \cup {None} : \A r \in Rels : r <= n
  /\ Stated \subseteq PgRels
  /\ \A r \in Rels : /\ Size[r] \in Nat /\ Budget[r] \in Nat /\ Budget[r] <= PageBytes
                     /\ r \notin Stated => Size[r] <= Budget[r]
  /\ PageBytes \in Nat /\ MaxPages \in Nat \ {0}
  /\ \E left \in [0..MaxPages -> SUBSET Rels] : Estimate(left)

ASSUME Scaled ==
  /\ IsFiniteSet(Callers) /\ NoCaller \notin Callers
  /\ Capacity \in Nat \ {0} /\ ReadyTtl \in Nat \ {0}
  /\ Granted \subseteq SUBSET Rels
  /\ {MaxQueued, CatalogTtl, MaxTime, MaxOps, MaxChanges} \subseteq Nat

VARIABLES
  now, ops, changes,
  views,      \* approved views that are complete in PostgreSQL
  up,         \* source |-> whether it answers (MongoDB: with its collections)
  wholeAt, brokenAt,  \* source |-> when it last was complete, or was not
  grants,     \* relations the callers may read
  catalog,    \* cachedCatalog: value, expires
  call,       \* caller |-> what it is doing
  active, queue,      \* source |-> slots taken; callers waiting for one
  entry,      \* companyReadinessCache: by, expires, value
  heard       \* readiness answers given by the last step: value, asked

vars == <<now, ops, changes, views, up, wholeAt, brokenAt, grants, catalog,
          call, active, queue, entry, heard>>
world == <<views, up, wholeAt, brokenAt, grants, changes>>

Idle == [op |-> "none", st |-> "idle", allowed |-> {}, query |-> None,
         found |-> {}, at |-> None, cursor |-> None, seen |-> {}, twice |-> FALSE,
         lists |-> <<>>, calls |-> 0, invalid |-> FALSE,
         asked |-> 0, owner |-> NoCaller, tables |-> FALSE,
         pg |-> "asked", mongo |-> "asked"]

Init ==
  /\ now = 0 /\ ops = 0 /\ changes = 0
  /\ views = PgRels /\ up = [s \in Sources |-> TRUE]
  /\ wholeAt = [s \in Sources |-> 0] /\ brokenAt = [s \in Sources |-> -(ReadyTtl + CatalogTtl)]
  /\ grants \in Granted
  /\ catalog = [value |-> {}, expires |-> 0]
  /\ call = [c \in Callers |-> Idle]
  /\ active = [s \in Sources |-> 0] /\ queue = [s \in Sources |-> <<>>]
  /\ entry = [by |-> NoCaller, expires |-> 0, value |-> "none"]
  /\ heard = {}

MayStart(c) == call[c].op = "none" /\ ops < MaxOps

Start(c, t) ==
  /\ MayStart(c)
  /\ ops' = ops + 1
  /\ call' = [call EXCEPT ![c] = t]

(***************************************************************************)
(* Discovery: the federated provider walks the PostgreSQL pages, one       *)
(* catalog for each, then the MongoDB pages, merges and pages again        *)
(***************************************************************************)
Busy(op) == Cardinality({c \in Callers : call[c].op = op})

Discover(c) ==
  /\ Busy("discover") < MaxSessions
  /\ Start(c, [Idle EXCEPT !.op = "discover", !.st = "catalog",
                           !.allowed = grants, !.calls = 1])
  /\ heard' = {} /\ UNCHANGED <<now, world, catalog, active, queue, entry>>

NextPage(c) ==
  /\ call[c].op = "discover" /\ call[c].st = "paused" /\ call[c].cursor # None
  /\ call' = [call EXCEPT ![c] = [@ EXCEPT !.st = "catalog", !.allowed = grants, !.calls = call[c].calls + 1,
                                           !.found = {}, !.at = None]]
  /\ heard' = {} /\ UNCHANGED <<now, ops, world, catalog, active, queue, entry>>

(* A session ends with its last page, or when the model stops asking.         *)
EndDiscovery(c) ==
  /\ call[c].op = "discover" /\ call[c].st = "paused"
  /\ call' = [call EXCEPT ![c] = Idle]
  /\ heard' = {} /\ UNCHANGED <<now, ops, world, catalog, active, queue, entry>>

AfterOrAt(rels, cursor) == {r \in rels : r >= cursor}
After(rels, cursor) == {r \in rels : r > cursor}
More(rels) == rels # Prefix(rels, Size)
TooLarge(rels) == rels # {} /\ Prefix(rels, Size) = {}    \* schema_page_too_large

Invalid(t) == [t EXCEPT !.st = "paused", !.cursor = None, !.invalid = TRUE]

(* MongoDB's pages, read without a wait, and the page of the merged list.     *)
Merged(t) ==
  LET list == t.found \cup (MongoRels \cap t.allowed)
      rest == After(list, t.cursor)
      page == Prefix(rest, Size)
      u == [t EXCEPT !.found = {}, !.at = None, !.allowed = {}]
  IN  IF (t.cursor # None /\ t.cursor \notin list) \/ TooLarge(rest) THEN Invalid(u)
      ELSE [u EXCEPT !.st = "paused", !.seen = @ \cup page,
                     !.twice = @ \/ page \cap t.seen # {},
                     !.cursor = IF More(rest) THEN Max(page) ELSE None]

(* One page of the PostgreSQL provider, from a catalog just returned.  A
   provider that repeats a cursor is not walked for ever.                     *)
Walked(t, value) ==
  LET list == value \cap t.allowed
      rest == After(list, t.at)
      u == [t EXCEPT !.lists = Append(@, list \cup (MongoRels \cap t.allowed)),
                     !.found = @ \cup Prefix(rest, Size)]
  IN  IF (t.at # None /\ t.at \notin list) \/ TooLarge(rest) THEN Invalid(u)
      ELSE IF ~More(rest) THEN Merged(u)
      ELSE LET next == Max(Prefix(rest, Size)) IN
           IF next = t.at THEN Invalid(u) ELSE [u EXCEPT !.st = "catalog", !.at = next]

(***************************************************************************)
(* A query: refused, or through the semaphore of its relation's source     *)
(***************************************************************************)
Enter(t) == [t EXCEPT !.st = IF Source(Queries[t.query].relation) = "pg"
                             THEN "catalog" ELSE "exec"]

(* What each provider checks before it asks for a slot.                       *)
Admits(n) ==
  LET r == Queries[n].relation
      q == Queries[n].query
  IN  /\ r \in grants
      /\ IF r \in PgRels THEN Bounded(q, Policies[r]) ELSE MongoAccepts(q, Policies[r])

Refuse(c, n) ==
  /\ MayStart(c) /\ ~Admits(n)
  /\ Start(c, Idle)
  /\ heard' = {} /\ UNCHANGED <<now, world, catalog, active, queue, entry>>

Query(c, n) ==
  LET s == Source(Queries[n].relation)
      t == [Idle EXCEPT !.op = "query", !.query = n]
  IN  /\ MayStart(c) /\ Admits(n)
      /\ \/ /\ active[s] < Capacity
            /\ Start(c, Enter(t))
            /\ active' = [active EXCEPT ![s] = @ + 1] /\ queue' = queue
         \/ /\ active[s] >= Capacity /\ Len(queue[s]) < MaxQueued
            /\ Start(c, [t EXCEPT !.st = "queued"])
            /\ queue' = [queue EXCEPT ![s] = Append(@, c)] /\ active' = active
         \/ /\ active[s] >= Capacity /\ Len(queue[s]) >= MaxQueued  \* query_overloaded
            /\ Start(c, Idle)
            /\ UNCHANGED <<active, queue>>
      /\ heard' = {}
      /\ UNCHANGED <<now, world, catalog, entry>>

(* query_queue_timeout: the timer takes the waiter out of the queue.          *)
QueueTimeout(c) ==
  LET s == Source(Queries[call[c].query].relation) IN
  /\ call[c].st = "queued"
  /\ \E i \in DOMAIN queue[s] :
       queue[s][i] = c /\ queue' = [queue EXCEPT ![s] = RemoveAt(@, i)]
  /\ call' = [call EXCEPT ![c] = Idle]
  /\ heard' = {} /\ UNCHANGED <<now, ops, world, catalog, active, entry>>

(* The SQL provider validates inside its slot, against the catalog.           *)
Validated(t, value) ==
  LET n == Queries[t.query] IN
  [t EXCEPT !.st = IF n.relation \in value /\ SqlAccepts(n.query, Policies[n.relation].types)
                   THEN "exec" ELSE "leave"]

(* The query has run, or was refused in its slot.  finally: the slot goes to
   the first waiter, or is given back.                                        *)
HandsOverNever(s) == FALSE
HandsOver(s) == queue[s] # <<>>

Leave(c) ==
  LET s == Source(Queries[call[c].query].relation)
      d == Head(queue[s])
  IN  /\ call[c].st \in {"exec", "leave"}
      /\ IF HandsOver(s)
         THEN /\ queue' = [queue EXCEPT ![s] = Tail(@)] /\ active' = active
              /\ call' = [call EXCEPT ![c] = Idle, ![d] = Enter(@)]
         ELSE /\ active' = [active EXCEPT ![s] = @ - 1] /\ queue' = queue
              /\ call' = [call EXCEPT ![c] = Idle]
      /\ heard' = {} /\ UNCHANGED <<now, ops, world, catalog, entry>>

(***************************************************************************)
(* Readiness: one probe for everyone who asks while its answer is fresh    *)
(***************************************************************************)
FreshForever == entry.value # "none"
Fresh == entry.value # "none" /\ entry.expires > now

AskReady(c) ==
  LET t == [Idle EXCEPT !.op = "ready", !.asked = now] IN
  /\ Busy("ready") < MaxProbes
  /\ Start(c, IF ~Fresh THEN [t EXCEPT !.st = "tables"]
              ELSE IF entry.value = "pending" THEN [t EXCEPT !.st = "join", !.owner = entry.by]
              ELSE Idle)
  /\ heard' = IF Fresh /\ entry.value # "pending" THEN {<<entry.value, now>>} ELSE {}
  /\ entry' = IF Fresh THEN entry
              ELSE [by |-> c, expires |-> now + ReadyTtl, value |-> "pending"]
  /\ UNCHANGED <<now, world, catalog, active, queue>>

Whole(s) == up[s] /\ (s = "pg" => views = PgRels)

(* The promise of c settles: everyone waiting on it hears the same.           *)
Settle(c, v, e) ==
  LET told == {d \in Callers : d = c \/ (call[d].st = "join" /\ call[d].owner = c)} IN
  /\ call' = [d \in Callers |-> IF d \in told THEN Idle ELSE call[d]]
  /\ heard' = {<<v, call[d].asked>> : d \in told}
  /\ entry' = IF entry.by = c THEN e ELSE entry

(* to_regclass finds a view by its name, complete or not; when the pool
   throws, the entry is dropped unless a later probe has replaced it.         *)
CheckTables(c) ==
  /\ call[c].st = "tables"
  /\ IF up["pg"]
     THEN \E ok \in BOOLEAN :
            /\ Whole("pg") => ok
            /\ call' = [call EXCEPT ![c] = [@ EXCEPT !.st = "catalog", !.tables = ok]]
            /\ entry' = entry /\ heard' = {}
     ELSE Settle(c, "error", [by |-> NoCaller, expires |-> 0, value |-> "none"])
  /\ UNCHANGED <<now, ops, world, catalog, active, queue>>

(* Both providers answer at the same time, in either order.                   *)
PingMongo(c) ==
  /\ call[c].op = "ready" /\ call[c].st \in {"catalog", "load", "select", "pg"}
  /\ call[c].mongo = "asked"
  /\ call' = [call EXCEPT ![c] = [@ EXCEPT !.mongo = IF Whole("mongo") THEN "ok" ELSE "bad"]]
  /\ heard' = {} /\ UNCHANGED <<now, ops, world, catalog, active, queue, entry>>

SelectNothing(c) ==
  /\ call[c].st = "select"
  /\ call' = [call EXCEPT ![c] = [@ EXCEPT !.st = "pg", !.pg = IF Whole("pg") THEN "ok" ELSE "bad"]]
  /\ heard' = {} /\ UNCHANGED <<now, ops, world, catalog, active, queue, entry>>

AnswerReady(c) ==
  LET t == call[c]
      v == IF t.tables /\ t.pg = "ok" /\ t.mongo = "ok" THEN "ready" ELSE "unready"
  IN  /\ t.st = "pg" /\ t.mongo # "asked"
      /\ Settle(c, v, [entry EXCEPT !.by = NoCaller, !.value = v])
      /\ UNCHANGED <<now, ops, world, catalog, active, queue>>

Judged(t, value) ==
  IF value = PgRels THEN [t EXCEPT !.st = "select"] ELSE [t EXCEPT !.st = "pg", !.pg = "bad"]

(***************************************************************************)
(* The catalog: cached for CatalogTtl, one load for everyone who asks      *)
(***************************************************************************)
Proceed(t, value) ==
  CASE t.op = "discover" -> Walked(t, value)
    [] t.op = "query" -> Validated(t, value)
    [] t.op = "ready" -> Judged(t, value)

Threw(t) ==
  CASE t.op = "discover" -> Idle
    [] t.op = "query" -> [t EXCEPT !.st = "leave"]
    [] t.op = "ready" -> [t EXCEPT !.st = "pg", !.pg = "bad"]

AskCatalog(c) ==
  /\ call[c].st = "catalog"
  /\ call' = [call EXCEPT ![c] = IF catalog.expires > now THEN Proceed(@, catalog.value)
                                 ELSE [@ EXCEPT !.st = "load"]]
  /\ heard' = {} /\ UNCHANGED <<now, ops, world, catalog, active, queue, entry>>

(* The load answers every waiter; a failed one leaves the cache as it was.    *)
LoadCatalog ==
  /\ \E c \in Callers : call[c].st = "load"
  /\ call' = [c \in Callers |->
                IF call[c].st # "load" THEN call[c]
                ELSE IF up["pg"] THEN Proceed(call[c], views) ELSE Threw(call[c])]
  /\ catalog' = IF up["pg"] THEN [value |-> views, expires |-> now + CatalogTtl] ELSE catalog
  /\ heard' = {} /\ UNCHANGED <<now, ops, world, active, queue, entry>>

(***************************************************************************)
(* The environment                                                         *)
(***************************************************************************)
Watch ==
  /\ wholeAt' = [s \in Sources |-> IF Whole(s) THEN now ELSE wholeAt[s]]
  /\ brokenAt' = [s \in Sources |-> IF Whole(s) THEN brokenAt[s] ELSE now]

Change ==
  /\ changes < MaxChanges /\ changes' = changes + 1
  /\ \/ /\ \E r \in PgRels :
             views' = IF r \in views THEN views \ {r} ELSE views \cup {r}
        /\ UNCHANGED <<up, grants>>
     \/ /\ \E s \in Sources : up' = [up EXCEPT ![s] = ~@]
        /\ UNCHANGED <<views, grants>>
     \/ /\ \E r \in Rels :
             grants' = IF r \in grants THEN grants \ {r} ELSE grants \cup {r}
        /\ UNCHANGED <<views, up>>
  /\ Watch
  /\ heard' = {} /\ UNCHANGED <<now, ops, catalog, call, active, queue, entry>>

Tick ==
  /\ now < MaxTime /\ now' = now + 1
  /\ Watch
  /\ heard' = {} /\ UNCHANGED <<ops, changes, views, up, grants, catalog, call, active, queue, entry>>

Next ==
  \/ \E c \in Callers :
       \/ Discover(c) \/ NextPage(c) \/ EndDiscovery(c)
       \/ \E n \in DOMAIN Queries : Refuse(c, n) \/ Query(c, n)
       \/ QueueTimeout(c) \/ Leave(c)
       \/ AskReady(c) \/ CheckTables(c) \/ PingMongo(c) \/ SelectNothing(c) \/ AnswerReady(c)
       \/ AskCatalog(c)
  \/ LoadCatalog \/ Change \/ Tick

Spec == Init /\ [][Next]_vars

(***************************************************************************)
(* Properties                                                              *)
(***************************************************************************)
TypeOK ==
  /\ now \in 0..MaxTime /\ ops \in 0..MaxOps /\ changes \in 0..MaxChanges
  /\ views \subseteq PgRels /\ grants \subseteq Rels /\ catalog.value \subseteq PgRels
  /\ up \in [Sources -> BOOLEAN] /\ active \in [Sources -> 0..Capacity]
  /\ \A s \in Sources : Len(queue[s]) <= MaxQueued
  /\ entry.value \in {"none", "pending", "ready", "unready"}
  /\ entry.value = "pending" => entry.by \in Callers /\ call[entry.by].op = "ready"

(* What a discovery saw at each page: always the same, or ever less.          *)
Unchanged(lists) == \A i, j \in DOMAIN lists : lists[i] = lists[j]
Shrinking(lists) == \A i, j \in DOMAIN lists : i <= j => lists[j] \subseteq lists[i]

(* The estimate covers the entries of what a discovery saw; each fits a page.  *)
Priced(lists) == \A r \in UNION Range(lists) : Size[r] <= Budget[r]
Fits(lists) == \A r \in UNION Range(lists) : Size[r] <= PageBytes

(* A discovery session lists no relation twice, and each page that leaves a
   cursor lists something: whatever changes between its pages it has no more
   calls than relations.  It ends within the calls the manifest was admitted
   for, whatever is revoked or breaks on the way, unless something is granted
   or repaired, or it meets a relation that takes more than its estimate.  And
   when all its pages saw the same relations, each of which fits a page, it
   lists exactly those and is never refused (discoverSchema,
   assertReportingManifestDiscoveryBudget).                                   *)
DiscoveryBounded ==
  \A c \in Callers :
    LET t == call[c] IN
    t.op = "discover" =>
      /\ ~t.twice
      /\ t.st = "paused" /\ t.cursor # None => t.calls <= Cardinality(t.seen)
      /\ Shrinking(t.lists) /\ Priced(t.lists) =>
           t.calls <= MaxPages /\ (t.st = "paused" /\ t.calls = MaxPages => t.cursor = None)
      /\ Unchanged(t.lists) /\ Fits(t.lists) /\ t.st = "paused" /\ t.cursor = None =>
           ~t.invalid /\ Range(t.lists) = {t.seen}

HoldsSlot(c, s) ==
  /\ call[c].op = "query" /\ Source(Queries[call[c].query].relation) = s
  /\ call[c].st \in {"catalog", "load", "exec", "leave"}

(* The columns a query reads in the database.                                 *)
Reads(q) ==
  Named(q) \cup {f.column : f \in q.filters}
  \cup ({q.aggregates[i].column : i \in DOMAIN q.aggregates} \ {"none"})

(* Each slot of a source belongs to one running query, none is lost when a
   waiter times out or a query fails, nobody waits while a slot is free, and
   what runs reads approved columns only, bounded by an approved filter where
   the policy asks for one (QuerySemaphore, query).                           *)
SlotsExact ==
  /\ \A s \in Sources :
       /\ active[s] = Cardinality({c \in Callers : HoldsSlot(c, s)})
       /\ active[s] <= Capacity
       /\ queue[s] # <<>> => active[s] = Capacity
       /\ {queue[s][i] : i \in DOMAIN queue[s]} =
            {c \in Callers : call[c].st = "queued"
                             /\ Source(Queries[call[c].query].relation) = s}
  /\ \A c \in Callers : call[c].st = "exec" =>
       LET n == Queries[call[c].query]
           p == Policies[n.relation]
       IN  /\ Reads(n.query) \subseteq DOMAIN p.types
           /\ p.allowUnfiltered \/ \E f \in n.query.filters :
                f.column \in p.filterColumns /\ f.operator \notin NullTests \cup {"ne", "contains"}

(* The types, and the two semaphores.                                         *)
SlotsInv == TypeOK /\ SlotsExact

LastWhole(s) == IF Whole(s) THEN now ELSE wholeAt[s]
LastBroken(s) == IF Whole(s) THEN brokenAt[s] ELSE now

(* Whoever hears that the company data is ready asked less than ReadyTtl after
   a moment each source was complete; whoever hears that it is not, less than
   ReadyTtl and CatalogTtl after one was not (cachedCompanyDataReady over the
   cached catalog).                                                           *)
HealthFresh ==
  \A h \in heard :
    /\ h[1] = "ready" => \A s \in Sources : LastWhole(s) > h[2] - ReadyTtl
    /\ h[1] = "unready" => \E s \in Sources : LastBroken(s) > h[2] - ReadyTtl - CatalogTtl
=============================================================================
