------------------------------ MODULE Maintenance ------------------------------
(***************************************************************************)
(* The life of the keys: the upgrade of a database that still holds        *)
(* plaintext (src/db/migrate.ts, scripts/encrypt-existing-data.ts,         *)
(* migrations 005 and 006), the start of the processes that use it         *)
(* (assertRuntimeReady, ensureSecurityCanary) and the rotation of the      *)
(* active key, one run of the backfill after the other, while replicas and *)
(* the whitelist panel write and retention erases.                         *)
(*                                                                         *)
(* A key ring is the configuration of one process, read when it starts.    *)
(* The three rings (envelopes, identifiers, audit) rotate the same way and *)
(* are one here.  A step is a statement, or a transaction whose other      *)
(* statements touch rows it has locked.                                    *)
(***************************************************************************)
EXTENDS Integers, FiniteSets, FiniteSetsExt

CONSTANTS
  Replicas,    \* replicas of the service
  Panels,      \* replicas of the whitelist panel
  Migrators,   \* operators that run db:migrate
  Users,       \* rows of users
  Messages,    \* rows of messages
  NumKeys,     \* keys 1..NumKeys, in the order they are made
  BatchSize,   \* rows in a transaction of the backfill
  MaxWrites,   \* bound: writes of replicas and panels
  MaxCrashes,  \* bound: processes killed
  MaxEdits     \* bound: migration files edited after they were applied

Processes == Replicas \cup Panels
Keys == 1..NumKeys

ASSUME RowAssumption == Users \cap Messages = {} /\ Replicas \cap Panels = {}
ASSUME SizeAssumption ==
  /\ NumKeys \in Nat \ {0}
  /\ BatchSize \in Nat \ {0}
  /\ MaxWrites \in Nat
  /\ MaxCrashes \in Nat
  /\ MaxEdits \in Nat

VARIABLES
  applied,   \* schema_migrations: the files applied
  edited,    \* applied files whose checksum is no longer the recorded one
  lock,      \* who holds the migrations' advisory lock
  migrator,  \* migrator[m]: the run of operator m
  stored,    \* stored[r]: how row r holds its personal data
  lookup,    \* lookup[u]: the key of user u's phone_lookup_hash, Plain if none
  unsigned,  \* are there audit events without event_hash?
  anchor,    \* the key of the newest retention anchor, None if there is none
  canary,    \* the key of encryption_canaries, None if there is no row
  ring,      \* the secret manager's revision
  proc,      \* proc[p]: a process of the service or of the panel
  backfill,  \* the run of encrypt-existing-data
  moved,     \* has a backfill that no writer with another key disturbed ended?
  writes, crashes, edits

schema == <<applied, edited, lock, migrator, edits>>
data == <<stored, lookup, unsigned, anchor, canary>>
vars == <<schema, data, ring, proc, backfill, moved, writes, crashes>>

\* A row's personal data is plaintext (or a v1 envelope), under the key of a v2
\* envelope, not there yet, or erased.
Plain == 0
None == -1
Erased == -2

\* Migrations 001..004 are behind; 005 adds the canaries, the audit columns and
\* the key ids; 006 finalizes; 007 adds the locale.
Prepare == 5
Finalize == 6
Files == 5..7

Ring == [active : Keys, keys : SUBSET Keys]
NobodyRuns == "nobody"
NoRing == [active |-> 1, keys |-> {1}]
Off == [pc |-> "off", ring |-> NoRing]
Stop == [pc |-> "off", ring |-> NoRing, batch |-> <<>>, calm |-> FALSE]
Idle == [pc |-> "off", next |-> Prepare, through |-> Prepare]

Running == {p \in Processes : proc[p].pc # "off"}
Rings == {ring} \cup {proc[p].ring : p \in Running}
           \cup (IF backfill.pc = "off" THEN {} ELSE {backfill.ring})

-----------------------------------------------------------------------------
(* src/db/migrate.ts                                                       *)

\* MIGRATION_THROUGH: the security-prepare script stops after 005.
StartMigrate(m, through) ==
  /\ migrator[m].pc = "off"
  /\ migrator' = [migrator EXCEPT ![m] = [pc |-> "lock", next |-> Prepare, through |-> through]]
  /\ UNCHANGED <<applied, edited, lock, edits, data, ring, proc, backfill, moved, writes, crashes>>

TakeLock(m) ==
  /\ migrator[m].pc = "lock" /\ lock = NobodyRuns
  /\ lock' = m
  /\ migrator' = [migrator EXCEPT ![m].pc = "look"]
  /\ UNCHANGED <<applied, edited, edits, data, ring, proc, backfill, moved, writes, crashes>>

\* The end of a run, however it ends, gives the lock back.
EndMigrate(m) ==
  /\ migrator' = [migrator EXCEPT ![m] = Idle]
  /\ lock' = IF lock = m THEN NobodyRuns ELSE lock

Look(m) ==
  LET f == migrator[m].next IN
  /\ migrator[m].pc = "look"
  /\ \/ f > migrator[m].through /\ EndMigrate(m)
     \/ f <= migrator[m].through /\ f \in edited /\ EndMigrate(m)
     \/ /\ f <= migrator[m].through /\ f \in applied \ edited
        /\ migrator' = [migrator EXCEPT ![m].next = f + 1]
        /\ UNCHANGED lock
     \/ /\ f <= migrator[m].through /\ f \notin applied
        /\ migrator' = [migrator EXCEPT ![m].pc = "apply"]
        /\ UNCHANGED lock
  /\ UNCHANGED <<applied, edited, edits, data, ring, proc, backfill, moved, writes, crashes>>

\* The checks of 006 before it drops the plaintext columns.
Protected ==
  /\ \A r \in Users \cup Messages : stored[r] # Plain
  /\ \A u \in Users : lookup[u] # Plain
  /\ ~unsigned

MayUnchecked(f) == TRUE   \* mutant: 006 without its checks
May(f) == f = Finalize => Protected

Apply(m) ==
  LET f == migrator[m].next IN
  /\ migrator[m].pc = "apply"
  /\ \/ /\ May(f)
        /\ applied' = applied \cup {f}
        /\ migrator' = [migrator EXCEPT ![m].pc = "look", ![m].next = f + 1]
        /\ UNCHANGED lock
     \/ ~May(f) /\ EndMigrate(m) /\ UNCHANGED applied
  /\ UNCHANGED <<edited, edits, data, ring, proc, backfill, moved, writes, crashes>>

\* A release changes the text of a migration that was applied.
Edit(f) ==
  /\ edits < MaxEdits /\ f \in applied \ edited
  /\ edited' = edited \cup {f}
  /\ edits' = edits + 1
  /\ UNCHANGED <<applied, lock, migrator, data, ring, proc, backfill, moved, writes, crashes>>

-----------------------------------------------------------------------------
(* ensureSecurityCanary: two statements, so what is written may no longer  *)
(* be what was read.                                                       *)

Reads(k, keys) == k \in keys \cup {None}

\* What follows the canary's SELECT: a throw, the upsert, or nothing to do.
AfterCanary(r, then) ==
  IF ~Reads(canary, r.keys) THEN "off" ELSE IF canary = r.active THEN then ELSE "canary"

\* assertRuntimeReady: 006 must be there.  The panel asks for the canary only;
\* the operator starts it when the upgrade is over (README.md:165).
Start(p) ==
  /\ proc[p].pc = "off" /\ Finalize \in applied
  /\ AfterCanary(ring, "up") # "off"
  /\ proc' = [proc EXCEPT ![p] = [pc |-> AfterCanary(ring, "up"), ring |-> ring]]
  /\ UNCHANGED <<schema, data, ring, backfill, moved, writes, crashes>>

WriteCanary(p) ==
  /\ proc[p].pc = "canary"
  /\ canary' = proc[p].ring.active
  /\ proc' = [proc EXCEPT ![p].pc = "up"]
  /\ UNCHANGED <<schema, stored, lookup, unsigned, anchor, ring, backfill, moved, writes, crashes>>

\* Every transaction of the panel asks for the canary again before it begins.
CheckCanary(p) ==
  /\ p \in Panels /\ proc[p].pc = "up" /\ canary # proc[p].ring.active
  /\ Reads(canary, proc[p].ring.keys)
  /\ proc' = [proc EXCEPT ![p].pc = "canary"]
  /\ UNCHANGED <<schema, data, ring, backfill, moved, writes, crashes>>

LockedNever(r) == FALSE   \* mutant: SELECT without FOR UPDATE
Locked(r) == r \in DOMAIN backfill.batch

Write ==
  /\ writes < MaxWrites
  /\ writes' = writes + 1
  /\ UNCHANGED <<schema, unsigned, ring, proc, backfill, moved, crashes>>

\* upsertWhitelistedUser: the three envelopes and the lookup under the active key.
UpsertUser(p, u) ==
  /\ p \in Panels /\ proc[p].pc = "up" /\ ~Locked(u)
  /\ Reads(canary, proc[p].ring.keys)
  /\ stored' = [stored EXCEPT ![u] = proc[p].ring.active]
  /\ lookup' = [lookup EXCEPT ![u] = proc[p].ring.active]
  /\ Write /\ UNCHANGED <<anchor, canary>>

\* A message the service stores.
SaveMessage(p, r) ==
  /\ p \in Replicas /\ proc[p].pc = "up" /\ stored[r] = None
  /\ stored' = [stored EXCEPT ![r] = proc[p].ring.active]
  /\ Write /\ UNCHANGED <<lookup, anchor, canary>>

\* Content retention, in the lifecycle job's transaction; it waits for a row the
\* backfill has locked.
EraseContent(r) ==
  /\ stored[r] \notin {None, Erased} /\ ~Locked(r)
  /\ stored' = [stored EXCEPT ![r] = Erased]
  /\ UNCHANGED <<schema, lookup, unsigned, anchor, canary, ring, proc, backfill, moved, writes,
                 crashes>>

\* Audit retention moves the anchor to an event of its boundary, signed with a
\* key some process has had active.
PurgeAudit(k) ==
  /\ ~unsigned /\ k \in ring.keys /\ k <= ring.active
  /\ anchor' = k
  /\ Write /\ UNCHANGED <<stored, lookup, canary>>

-----------------------------------------------------------------------------
(* scripts/encrypt-existing-data.ts                                        *)

Everyone(k) == \A p \in Running : proc[p].ring.active = k

\* calm: no process that writes has another key active.
BeginBackfill ==
  /\ backfill.pc = "off" /\ Prepare \in applied
  /\ AfterCanary(ring, "users") # "off"
  /\ backfill' = [pc |-> AfterCanary(ring, "users"), ring |-> ring, batch |-> <<>>,
                  calm |-> Everyone(ring.active)]
  /\ UNCHANGED <<schema, data, ring, proc, moved, writes, crashes>>

BackfillCanary ==
  /\ backfill.pc = "canary"
  /\ canary' = backfill.ring.active
  /\ backfill' = [backfill EXCEPT !.pc = "users"]
  /\ UNCHANGED <<schema, stored, lookup, unsigned, anchor, ring, proc, moved, writes, crashes>>

StalePlain == {u \in Users : stored[u] = Plain}   \* mutant: the rows 006 complains of
StaleUsers == {u \in Users : stored[u] # backfill.ring.active \/ lookup[u] # backfill.ring.active}
StaleMessages == {r \in Messages : stored[r] \notin {None, Erased, backfill.ring.active}}

\* SELECT ... FOR UPDATE LIMIT: a batch, or the next table when none is left.
Select(from, stale, update, after) ==
  /\ backfill.pc = from
  /\ \/ /\ stale # {}
        /\ \E b \in SUBSET stale :
             /\ Cardinality(b) = Min({BatchSize, Cardinality(stale)})
             /\ backfill' = [backfill EXCEPT !.pc = update, !.batch = [r \in b |-> stored[r]]]
     \/ stale = {} /\ backfill' = [backfill EXCEPT !.pc = after]
  /\ UNCHANGED <<schema, data, ring, proc, moved, writes, crashes>>

SelectUsers == Select("users", StaleUsers, "update users", "messages")
SelectMessages == Select("messages", StaleMessages, "update messages", "audit")

\* One envelope that cannot be read rolls the whole batch back and ends the run.
Decrypts(b) == \A r \in DOMAIN b : b[r] \in backfill.ring.keys \cup {Plain}

Reencrypt(from, to) ==
  /\ backfill.pc = from
  /\ \/ /\ Decrypts(backfill.batch)
        /\ stored' = [r \in DOMAIN stored |->
                        IF r \in DOMAIN backfill.batch THEN backfill.ring.active ELSE stored[r]]
        /\ lookup' = [u \in Users |->
                        IF u \in DOMAIN backfill.batch THEN backfill.ring.active ELSE lookup[u]]
        /\ backfill' = [backfill EXCEPT !.pc = to, !.batch = <<>>]
     \/ ~Decrypts(backfill.batch) /\ backfill' = Stop /\ UNCHANGED <<stored, lookup>>
  /\ UNCHANGED <<schema, unsigned, anchor, canary, ring, proc, moved, writes, crashes>>

UpdateUsers == Reencrypt("update users", "users")
UpdateMessages == Reencrypt("update messages", "messages")

\* protectAuditChain: a chain that retention has shortened is not rebuilt.
SignAudit ==
  /\ backfill.pc = "audit"
  /\ IF unsigned /\ anchor # None
       THEN backfill' = Stop /\ UNCHANGED unsigned
       ELSE backfill' = [backfill EXCEPT !.pc = "anchor"] /\ unsigned' = FALSE
  /\ UNCHANGED <<schema, stored, lookup, anchor, canary, ring, proc, moved, writes, crashes>>

\* rotateAuditAnchor, and the end of the run.
RotateAnchor ==
  /\ backfill.pc = "anchor"
  /\ backfill' = Stop
  /\ \/ anchor = None /\ moved' = (moved \/ backfill.calm) /\ UNCHANGED anchor
     \/ /\ anchor \in backfill.ring.keys
        /\ anchor' = backfill.ring.active
        /\ moved' = (moved \/ backfill.calm)
     \/ anchor \notin backfill.ring.keys \cup {None} /\ UNCHANGED <<anchor, moved>>
  /\ UNCHANGED <<schema, stored, lookup, unsigned, canary, ring, proc, writes, crashes>>

-----------------------------------------------------------------------------
(* README.md "Key rotasyonu": what the operator does.                      *)

AddKey(k) ==
  /\ k = Max(ring.keys) + 1
  /\ ring' = [ring EXCEPT !.keys = @ \cup {k}]
  /\ UNCHANGED <<schema, data, proc, backfill, moved, writes, crashes>>

\* Steps 1 and 2.  Assumed: every process that runs has been given the key
\* before one writes with it.
Activate(k) ==
  /\ k \in ring.keys /\ k > ring.active
  /\ \A r \in Rings : k \in r.keys
  /\ ring' = [ring EXCEPT !.active = k]
  /\ moved' = FALSE
  /\ backfill' = [backfill EXCEPT !.calm = FALSE]
  /\ UNCHANGED <<schema, data, proc, writes, crashes>>

\* Steps 5 and 6: an old key goes after a backfill (step 3), and when no message
\* id and no audit record is kept under it.
Retire(k) ==
  /\ k \in ring.keys /\ k # ring.active
  /\ moved /\ anchor # k
  /\ ring' = [ring EXCEPT !.keys = @ \ {k}]
  /\ UNCHANGED <<schema, data, proc, backfill, moved, writes, crashes>>

\* Replicas are replaced one by one; a process may be killed between two of its
\* statements, and its transaction and its session's locks go with it.
Shut(p) ==
  /\ proc[p].pc # "off"
  /\ proc' = [proc EXCEPT ![p] = Off]
  /\ UNCHANGED <<schema, data, ring, backfill, moved, writes, crashes>>

Crash ==
  /\ crashes < MaxCrashes
  /\ crashes' = crashes + 1
  /\ UNCHANGED <<applied, edited, edits, data, ring, proc, moved, writes>>

KillBackfill == backfill.pc # "off" /\ backfill' = Stop /\ Crash /\ UNCHANGED <<lock, migrator>>
KillMigrate(m) == migrator[m].pc # "off" /\ EndMigrate(m) /\ Crash /\ UNCHANGED backfill

-----------------------------------------------------------------------------
Init ==
  /\ applied = {} /\ edited = {} /\ edits = 0
  /\ lock = NobodyRuns
  /\ migrator = [m \in Migrators |-> Idle]
  /\ stored \in [Users \cup Messages -> {Plain, None}] /\ \A u \in Users : stored[u] = Plain
  /\ lookup = [u \in Users |-> Plain]
  /\ unsigned \in BOOLEAN
  /\ anchor = None /\ canary = None
  /\ ring = NoRing
  /\ proc = [p \in Processes |-> Off]
  /\ backfill = Stop
  /\ moved = FALSE
  /\ writes = 0 /\ crashes = 0

Migrate ==
  \/ \E m \in Migrators :
       \/ \E through \in {Prepare, Max(Files)} : StartMigrate(m, through)
       \/ TakeLock(m) \/ Look(m) \/ Apply(m) \/ KillMigrate(m)
  \/ \E f \in Files : Edit(f)

Use ==
  \/ \E p \in Processes :
       \/ Start(p) \/ WriteCanary(p) \/ CheckCanary(p) \/ Shut(p)
       \/ \E u \in Users : UpsertUser(p, u)
       \/ \E r \in Messages : SaveMessage(p, r)
  \/ \E r \in Messages : EraseContent(r)
  \/ \E k \in Keys : PurgeAudit(k)

Protect ==
  \/ BeginBackfill \/ BackfillCanary
  \/ SelectUsers \/ UpdateUsers \/ SelectMessages \/ UpdateMessages
  \/ SignAudit \/ RotateAnchor \/ KillBackfill

Rotate == \E k \in Keys : AddKey(k) \/ Activate(k) \/ Retire(k)

Next == Migrate \/ Use \/ Protect \/ Rotate
Spec == Init /\ [][Next]_vars

-----------------------------------------------------------------------------
TypeOK ==
  /\ applied \subseteq Files /\ edited \subseteq applied
  /\ lock \in Migrators \cup {NobodyRuns}
  /\ stored \in [Users \cup Messages -> Keys \cup {Plain, None, Erased}]
  /\ lookup \in [Users -> Keys \cup {Plain}]
  /\ unsigned \in BOOLEAN /\ moved \in BOOLEAN
  /\ anchor \in Keys \cup {None} /\ canary \in Keys \cup {None}
  /\ ring \in Ring /\ ring.active \in ring.keys
  /\ proc \in [Processes -> [pc : {"off", "canary", "up"}, ring : Ring]]
  /\ DOMAIN backfill.batch \subseteq Users \cup Messages

InUse == {k \in Keys : \/ \E r \in DOMAIN stored : stored[r] = k
                       \/ \E u \in Users : lookup[u] = k
                       \/ canary = k}

\* No rotation, in whatever order the backfill, its crashes, the writers and the
\* operator's steps come, leaves a row, a phone lookup or the canary under a key
\* that a running process, or the next one to start, does not have
\* (encrypt-existing-data.ts:54-226, readiness.ts:115-191).
NothingLost == \A r \in Rings : InUse \subseteq r.keys

\* The types, and what every process relies on.
KeysInv == TypeOK /\ NothingLost

\* Once 006 is recorded no personal data is plaintext and no audit event is
\* unsigned, and the service runs on such a database only
\* (006_finalize_security_controls.sql:1-46, migrate.ts:59-88, readiness.ts:201).
Finalized ==
  /\ Finalize \in applied => Protected /\ Prepare \in applied
  /\ Running # {} => Finalize \in applied

\* Content that retention has erased is not brought back by the backfill, which
\* read it before (encrypt-existing-data.ts:159-218).
ErasedForGood == [][\A r \in Messages : stored[r] = Erased => stored'[r] = Erased]_vars
=============================================================================
