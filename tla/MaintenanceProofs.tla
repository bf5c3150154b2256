-------------------------- MODULE MaintenanceProofs --------------------------
(***************************************************************************)
(* No rotation loses a row, no upgrade leaves plaintext behind and no       *)
(* backfill brings erased content back, for every number of replicas,       *)
(* panels, migrators, rows, keys, writes and kills.                         *)
(***************************************************************************)
EXTENDS Maintenance, TLAPS

Values == Keys \cup {Plain, None, Erased}
Rows == Users \cup Messages

BackfillPlace == {"off", "canary", "users", "update users", "messages", "update messages",
                  "audit", "anchor"}
Batches == {<<>>} \cup UNION {[b -> Values] : b \in SUBSET Rows}

Types ==
  /\ TypeOK
  /\ migrator \in [Migrators -> [pc : {"off", "lock", "look", "apply"},
                                 next : Prepare..8, through : Files]]
  /\ backfill \in [pc : BackfillPlace, ring : Ring, batch : Batches, calm : BOOLEAN]

\* A migrator past 005 has seen it applied.
Reached == \A m \in Migrators : migrator[m].next > Prepare => Prepare \in applied

\* The batch has rows of the table it was selected from, none of them erased.
BatchSound ==
  /\ backfill.pc = "update users" => DOMAIN backfill.batch \subseteq Users
  /\ backfill.pc = "update messages" =>
       \A r \in DOMAIN backfill.batch : r \in Messages /\ stored[r] \notin {None, Erased}

\* Whatever key somebody writes with, everybody has.
Shared == \A r, s \in Rings : r.active \in s.keys

UsersUnder(k) == \A u \in Users : stored[u] = k /\ lookup[u] = k
MessagesUnder(k) == \A r \in Messages : stored[r] \in {None, Erased, k}

\* While no writer has another key, a table the backfill is past stays done.
Progress ==
  backfill.calm =>
    /\ backfill.pc # "off" /\ backfill.ring.active = ring.active /\ Everyone(ring.active)
    /\ backfill.pc # "canary" => canary = ring.active
    /\ backfill.pc \in {"messages", "update messages", "audit", "anchor"} =>
         UsersUnder(ring.active)
    /\ backfill.pc \in {"audit", "anchor"} => MessagesUnder(ring.active)

\* And after one such run nothing but the anchor is left under an older key.
Moved ==
  moved =>
    /\ Everyone(ring.active) /\ canary = ring.active
    /\ UsersUnder(ring.active) /\ MessagesUnder(ring.active)
    /\ backfill.pc # "off" => backfill.ring.active = ring.active

IInv == Types /\ NothingLost /\ Finalized /\ Reached /\ BatchSound /\ Shared /\ Progress /\ Moved

-----------------------------------------------------------------------------
\* Lemmas about one state.

LEMMA Kinds ==
  /\ Plain \notin Keys /\ None \notin Keys /\ Erased \notin Keys
  /\ Plain # None /\ Plain # Erased /\ None # Erased
  BY SizeAssumption DEF Keys, Plain, None, Erased

LEMMA RingsAre ==
  \A r : r \in Rings <=>
    \/ r = ring
    \/ \E p \in Processes : proc[p].pc # "off" /\ r = proc[p].ring
    \/ backfill.pc # "off" /\ r = backfill.ring
  BY DEF Rings, Running

LEMMA RingsNext ==
  \A r : r \in Rings' <=>
    \/ r = ring'
    \/ \E p \in Processes : proc'[p].pc # "off" /\ r = proc'[p].ring
    \/ backfill'.pc # "off" /\ r = backfill'.ring
  BY DEF Rings, Running

\* A canary's reader has its key, and what follows is one of three places.
LEMMA CanaryRead ==
  ASSUME NEW r, NEW then, AfterCanary(r, then) # "off"
  PROVE  /\ Reads(canary, r.keys)
         /\ AfterCanary(r, then) = IF canary = r.active THEN then ELSE "canary"
  BY DEF AfterCanary

\* Keys come into use by being written with, and rings go: nothing is lost.
LEMMA Written ==
  ASSUME Shared, NothingLost, Rings' \subseteq Rings,
         \A k \in InUse' : k \in InUse \/ \E r \in Rings : k = r.active
  PROVE  Shared' /\ NothingLost'
  BY DEF Shared, NothingLost

LEMMA InUseAre ==
  \A k : k \in InUse <=> /\ k \in Keys
                         /\ \/ \E r \in DOMAIN stored : stored[r] = k
                            \/ \E u \in Users : lookup[u] = k
                            \/ canary = k
  BY DEF InUse

LEMMA InUseNext ==
  \A k : k \in InUse' <=> /\ k \in Keys
                          /\ \/ \E r \in DOMAIN stored' : stored'[r] = k
                             \/ \E u \in Users : lookup'[u] = k
                             \/ canary' = k
  BY DEF InUse

-----------------------------------------------------------------------------
\* What the steps of a group may change.

LEMMA MigrateLeaves ==
  ASSUME Migrate
  PROVE  UNCHANGED <<data, ring, proc, backfill, moved>>
  BY DEF Migrate, StartMigrate, TakeLock, Look, Apply, KillMigrate, Edit, EndMigrate, Crash

LEMMA OthersLeave ==
  ASSUME Use \/ Protect \/ Rotate
  PROVE  applied' = applied /\ edited' = edited
<1>1. CASE Use
  BY <1>1 DEF Use, Start, WriteCanary, CheckCanary, Shut, UpsertUser, SaveMessage, EraseContent,
              PurgeAudit, Write, schema
<1>2. CASE Protect
  BY <1>2 DEF Protect, BeginBackfill, BackfillCanary, SelectUsers, UpdateUsers, SelectMessages,
              UpdateMessages, Select, Reencrypt, SignAudit, RotateAnchor, KillBackfill, Crash, schema
<1>3. CASE Rotate
  BY <1>3 DEF Rotate, AddKey, Activate, Retire, schema
<1> QED BY <1>1, <1>2, <1>3

LEMMA OthersMigrate ==
  ASSUME Use \/ Protect \/ Rotate
  PROVE  lock' = lock /\ migrator' = migrator
<1>1. CASE Use
  BY <1>1 DEF Use, Start, WriteCanary, CheckCanary, Shut, UpsertUser, SaveMessage, EraseContent,
              PurgeAudit, Write, schema
<1>2. CASE Protect
  BY <1>2 DEF Protect, BeginBackfill, BackfillCanary, SelectUsers, UpdateUsers, SelectMessages,
              UpdateMessages, Select, Reencrypt, SignAudit, RotateAnchor, KillBackfill, Crash, schema
<1>3. CASE Rotate
  BY <1>3 DEF Rotate, AddKey, Activate, Retire, schema
<1> QED BY <1>1, <1>2, <1>3

-----------------------------------------------------------------------------
\* The types.

RowTypes ==
  /\ stored \in [Rows -> Values] /\ lookup \in [Users -> Keys \cup {Plain}]
  /\ unsigned \in BOOLEAN /\ moved \in BOOLEAN
  /\ anchor \in Keys \cup {None} /\ canary \in Keys \cup {None}

SchemaTypes ==
  /\ applied \subseteq Files /\ edited \subseteq applied
  /\ lock \in Migrators \cup {NobodyRuns}
  /\ migrator \in [Migrators -> [pc : {"off", "lock", "look", "apply"},
                                 next : Prepare..8, through : Files]]

RingTypes ==
  /\ ring \in Ring /\ ring.active \in ring.keys
  /\ proc \in [Processes -> [pc : {"off", "canary", "up"}, ring : Ring]]

BackfillTypes == backfill \in [pc : BackfillPlace, ring : Ring, batch : Batches, calm : BOOLEAN]

LEMMA TypesAre == Types <=>
  /\ RowTypes /\ SchemaTypes /\ RingTypes /\ BackfillTypes
  /\ DOMAIN backfill.batch \subseteq Rows
  BY DEF Types, TypeOK, RowTypes, SchemaTypes, RingTypes, BackfillTypes, Rows, Values

LEMMA BatchDomain == ASSUME BackfillTypes PROVE DOMAIN backfill.batch \subseteq Rows
  BY DEF BackfillTypes, Batches

LEMMA SchemaTyped ==
  ASSUME SchemaTypes, Migrate
  PROVE  SchemaTypes'
<1> USE DEF SchemaTypes, Files, Prepare
<1>1. ASSUME NEW m \in Migrators, NEW through \in {Prepare, Max(Files)}, Max(Files) = 7,
             StartMigrate(m, through)
      PROVE  SchemaTypes'
  BY <1>1 DEF StartMigrate
<1>2. ASSUME NEW m \in Migrators, TakeLock(m) PROVE SchemaTypes'
  BY <1>2 DEF TakeLock
<1>3. ASSUME NEW m \in Migrators, EndMigrate(m), UNCHANGED <<applied, edited>> PROVE SchemaTypes'
  BY <1>3 DEF EndMigrate, Idle
<1>4. ASSUME NEW m \in Migrators, Look(m) PROVE SchemaTypes'
  BY <1>3, <1>4 DEF Look
<1>5. ASSUME NEW m \in Migrators, Apply(m) PROVE SchemaTypes'
  BY <1>3, <1>5 DEF Apply
<1>6. ASSUME NEW m \in Migrators, KillMigrate(m) PROVE SchemaTypes'
  BY <1>3, <1>6 DEF KillMigrate, Crash
<1>7. ASSUME NEW f \in Files, Edit(f) PROVE SchemaTypes'
  BY <1>7 DEF Edit
<1>8. Max(Files) = 7
  BY DEF Max
<1> QED BY <1>1, <1>2, <1>4, <1>5, <1>6, <1>7, <1>8 DEF Migrate

LEMMA RowsTyped ==
  ASSUME RowTypes, RingTypes, BackfillTypes, Use \/ Protect \/ Rotate
  PROVE  RowTypes'
<1>0. /\ \A p \in Processes : proc[p] \in [pc : {"off", "canary", "up"}, ring : Ring]
      /\ \A p \in Processes : proc[p].ring.active \in Keys
      /\ backfill.ring.active \in Keys
  BY DEF RingTypes, BackfillTypes, Ring
<1>1. ASSUME NEW p \in Processes, Start(p) \/ CheckCanary(p) \/ Shut(p) PROVE RowTypes'
  BY <1>1 DEF Start, CheckCanary, Shut, RowTypes, data
<1>2. ASSUME NEW p \in Processes, WriteCanary(p) PROVE RowTypes'
  BY <1>0, <1>2 DEF WriteCanary, RowTypes
<1>3. ASSUME NEW p \in Processes, NEW u \in Users, UpsertUser(p, u) PROVE RowTypes'
  BY <1>0, <1>3 DEF UpsertUser, Write, RowTypes, Rows, Values
<1>4. ASSUME NEW p \in Processes, NEW r \in Messages, SaveMessage(p, r) PROVE RowTypes'
  BY <1>0, <1>4 DEF SaveMessage, Write, RowTypes, Rows, Values
<1>5. ASSUME NEW r \in Messages, EraseContent(r) PROVE RowTypes'
  BY <1>5 DEF EraseContent, RowTypes, Rows, Values
<1>6. ASSUME NEW k \in Keys, PurgeAudit(k) PROVE RowTypes'
  BY <1>6 DEF PurgeAudit, Write, RowTypes
<1>7. CASE BackfillCanary
  BY <1>0, <1>7 DEF BackfillCanary, RowTypes
<1>8. ASSUME NEW from, NEW to, Reencrypt(from, to) PROVE RowTypes'
  BY <1>0, <1>8 DEF Reencrypt, RowTypes, Values
<1>9. CASE SignAudit
  BY <1>9 DEF SignAudit, RowTypes
<1>10. CASE RotateAnchor
  <2>1. moved' \in BOOLEAN
    BY <1>10 DEF RotateAnchor, RowTypes, BackfillTypes
  <2>2. anchor' \in Keys \cup {None}
    BY <1>0, <1>10 DEF RotateAnchor, RowTypes
  <2> QED BY <1>10, <2>1, <2>2 DEF RotateAnchor, RowTypes
<1>11. ASSUME NEW k \in Keys, Activate(k) PROVE RowTypes'
  BY <1>11 DEF Activate, RowTypes, data
<1>12. CASE BeginBackfill \/ SelectUsers \/ SelectMessages \/ KillBackfill
            \/ \E k \in Keys : AddKey(k) \/ Retire(k)
  BY <1>12 DEF BeginBackfill, SelectUsers, SelectMessages, Select,
               KillBackfill, Crash, AddKey, Retire, RowTypes, data
<1> QED
  BY <1>1, <1>2, <1>3, <1>4, <1>5, <1>6, <1>7, <1>8, <1>9, <1>10, <1>11, <1>12
  DEF Use, Protect, Rotate, UpdateUsers, UpdateMessages

LEMMA AfterCanaryIs ==
  ASSUME NEW r, NEW then, AfterCanary(r, then) # "off"
  PROVE  AfterCanary(r, then) \in {then, "canary"}
  BY CanaryRead

LEMMA RingsTyped ==
  ASSUME RingTypes, Use \/ Protect \/ Rotate
  PROVE  RingTypes'
<1> USE DEF RingTypes
<1>1. ASSUME NEW p \in Processes, Start(p) PROVE RingTypes'
  BY <1>1, AfterCanaryIs DEF Start
<1>2. ASSUME NEW p \in Processes, WriteCanary(p) \/ CheckCanary(p) PROVE RingTypes'
  BY <1>2 DEF WriteCanary, CheckCanary
<1>3. ASSUME NEW p \in Processes, Shut(p) PROVE RingTypes'
  <2>1. Off \in [pc : {"off", "canary", "up"}, ring : Ring]
    BY SizeAssumption DEF Off, NoRing, Ring, Keys
  <2> QED BY <1>3, <2>1 DEF Shut
<1>4. CASE \/ \E p \in Processes : \/ \E u \in Users : UpsertUser(p, u)
                                   \/ \E r \in Messages : SaveMessage(p, r)
           \/ \E r \in Messages : EraseContent(r)
           \/ \E k \in Keys : PurgeAudit(k)
  BY <1>4 DEF UpsertUser, SaveMessage, EraseContent, PurgeAudit, Write
<1>5. CASE Protect
  BY <1>5 DEF Protect, BeginBackfill, BackfillCanary, SelectUsers, UpdateUsers, SelectMessages,
              UpdateMessages, Select, Reencrypt, SignAudit, RotateAnchor, KillBackfill, Crash
<1>6. ASSUME NEW k \in Keys, AddKey(k) \/ Activate(k) \/ Retire(k) PROVE RingTypes'
  BY <1>6 DEF AddKey, Activate, Retire, Ring
<1> QED BY <1>1, <1>2, <1>3, <1>4, <1>5, <1>6 DEF Use, Rotate

LEMMA BackfillTyped ==
  ASSUME RowTypes, RingTypes, BackfillTypes, Use \/ Protect \/ Rotate
  PROVE  BackfillTypes'
<1> USE DEF BackfillTypes
<1>1. CASE Use
  BY <1>1 DEF Use, Start, WriteCanary, CheckCanary, Shut, UpsertUser, SaveMessage, EraseContent,
              PurgeAudit, Write
<1>2. <<>> \in Batches
  BY DEF Batches
<1>3. Stop \in [pc : BackfillPlace, ring : Ring, batch : Batches, calm : BOOLEAN]
  <2>1. NoRing \in Ring
    BY SizeAssumption DEF NoRing, Ring, Keys
  <2> QED BY <1>2, <2>1 DEF Stop, BackfillPlace
<1>4. CASE BeginBackfill
  <2>1. AfterCanary(ring, "users") \in BackfillPlace
    BY <1>4, AfterCanaryIs DEF BeginBackfill, BackfillPlace
  <2>2. Everyone(ring.active) \in BOOLEAN
    BY DEF Everyone
  <2> QED BY <1>2, <1>4, <2>1, <2>2 DEF BeginBackfill, RingTypes
<1>5. ASSUME NEW from, NEW stale, NEW update \in BackfillPlace, NEW after \in BackfillPlace,
             stale \subseteq Rows, Select(from, stale, update, after)
      PROVE  BackfillTypes'
  <2>1. \A b \in SUBSET stale : [r \in b |-> stored[r]] \in Batches
    <3> SUFFICES ASSUME NEW b \in SUBSET stale PROVE [r \in b |-> stored[r]] \in [b -> Values]
      BY <1>5 DEF Batches
    <3> QED BY <1>5 DEF RowTypes
  <2> QED BY <1>5, <2>1 DEF Select
<1>6. StaleUsers \subseteq Rows /\ StaleMessages \subseteq Rows
  BY DEF StaleUsers, StaleMessages, Rows
<1>7. CASE SelectUsers \/ SelectMessages
  BY <1>5, <1>6, <1>7 DEF SelectUsers, SelectMessages, BackfillPlace
<1>8. CASE BackfillCanary
  BY <1>8 DEF BackfillCanary, BackfillPlace
<1>9. CASE UpdateUsers \/ UpdateMessages
  BY <1>3, <1>2, <1>9 DEF UpdateUsers, UpdateMessages, Reencrypt, BackfillPlace
<1>10. CASE SignAudit \/ RotateAnchor \/ KillBackfill
  BY <1>3, <1>10 DEF SignAudit, RotateAnchor, KillBackfill, BackfillPlace
<1>11. ASSUME NEW k \in Keys, AddKey(k) \/ Activate(k) \/ Retire(k) PROVE BackfillTypes'
  BY <1>11 DEF AddKey, Activate, Retire
<1> QED BY <1>1, <1>4, <1>7, <1>8, <1>9, <1>10, <1>11 DEF Protect, Rotate

LEMMA TypesKept ==
  ASSUME Types, Next
  PROVE  Types'
<1>1. RowTypes /\ SchemaTypes /\ RingTypes /\ BackfillTypes
  BY TypesAre
<1>2. CASE Migrate
  <2>1. RowTypes' /\ RingTypes' /\ BackfillTypes'
    BY <1>1, <1>2, MigrateLeaves DEF RowTypes, RingTypes, BackfillTypes, data
  <2>2. DOMAIN backfill'.batch \subseteq Rows
    BY <1>1, <1>2, MigrateLeaves, BatchDomain
  <2> QED BY <1>1, <1>2, <2>1, <2>2, SchemaTyped DEF Types, TypeOK, RowTypes, SchemaTypes,
             RingTypes, BackfillTypes, Rows, Values
<1>3. CASE Use \/ Protect \/ Rotate
  <2>1. RowTypes' /\ RingTypes' /\ BackfillTypes'
    BY <1>1, <1>3, RowsTyped, RingsTyped, BackfillTyped
  <2>2. SchemaTypes'
    BY <1>1, <1>3, OthersLeave, OthersMigrate DEF SchemaTypes
  <2>3. DOMAIN backfill'.batch \subseteq Rows
    BY <2>1 DEF BackfillTypes, Batches
  <2> QED BY <2>1, <2>2, <2>3 DEF Types, TypeOK, RowTypes, SchemaTypes, RingTypes, BackfillTypes,
             Rows, Values
<1> QED BY <1>2, <1>3 DEF Next

-----------------------------------------------------------------------------
\* Rings and keys in use, step by step.

LEMMA SameInUse == ASSUME UNCHANGED <<stored, lookup, canary>> PROVE InUse' = InUse
  BY DEF InUse

\* Steps that write with some ring's active key, and hand out no new ring.
LEMMA WritesKept ==
  ASSUME Types, Shared, NothingLost, Use \/ Protect
  PROVE  Shared' /\ NothingLost'
<1> USE RingsAre, RingsNext, InUseAre, InUseNext
<1>0. RingTypes
  BY TypesAre
<1>1. ASSUME NEW p \in Processes, Start(p) PROVE Shared' /\ NothingLost'
  <2>1. \A q \in Processes : proc'[q].pc # "off" => proc'[q].ring \in {ring, proc[q].ring}
                                                 /\ (q # p => proc'[q] = proc[q])
    BY <1>0, <1>1 DEF Start, RingTypes
  <2>2. proc'[p].ring = ring
    BY <1>0, <1>1 DEF Start, RingTypes
  <2>3. Rings' \subseteq Rings
    BY <1>1, <2>1, <2>2 DEF Start
  <2>4. InUse' = InUse
    BY <1>1, SameInUse DEF Start, data
  <2> QED BY <2>3, <2>4, Written
<1>2. ASSUME NEW p \in Processes, WriteCanary(p) \/ CheckCanary(p) PROVE Shared' /\ NothingLost'
  <2>1. /\ proc[p].pc # "off"
        /\ \A q \in Processes : /\ proc'[q].ring = proc[q].ring
                                /\ proc'[q].pc # "off" => proc[q].pc # "off"
    BY <1>0, <1>2 DEF WriteCanary, CheckCanary, RingTypes
  <2>2. Rings' \subseteq Rings
    BY <1>2, <2>1 DEF WriteCanary, CheckCanary
  <2>3. \A k \in InUse' : k \in InUse \/ k = proc[p].ring.active
    BY <1>2 DEF WriteCanary, CheckCanary, data
  <2> QED BY <2>1, <2>2, <2>3, Written
<1>3. ASSUME NEW p \in Processes, Shut(p) PROVE Shared' /\ NothingLost'
  <2>1. proc'[p].pc = "off" /\ \A q \in Processes : q # p => proc'[q] = proc[q]
    BY <1>0, <1>3 DEF Shut, Off, RingTypes
  <2>2. Rings' \subseteq Rings
    BY <1>3, <2>1 DEF Shut
  <2>3. InUse' = InUse
    BY <1>3, SameInUse DEF Shut, data
  <2> QED BY <2>2, <2>3, Written
<1>4. ASSUME NEW p \in Processes, NEW r \in Rows, proc[p].pc # "off", DOMAIN stored' = Rows,
             stored'[r] = proc[p].ring.active, \A s \in Rows : s # r => stored'[s] = stored[s],
             \A u \in Users : lookup'[u] \in {lookup[u], proc[p].ring.active},
             UNCHANGED <<canary, ring, proc, backfill>>
      PROVE  Shared' /\ NothingLost'
  <2>1. Rings' \subseteq Rings
    BY <1>4
  <2>2. \A k \in InUse' : k \in InUse \/ k = proc[p].ring.active
    BY <1>0, <1>4, TypesAre DEF RowTypes
  <2> QED BY <1>4, <2>1, <2>2, Written
<1>5. ASSUME NEW p \in Processes, NEW u \in Users, UpsertUser(p, u) PROVE Shared' /\ NothingLost'
  <2>1. /\ DOMAIN stored' = Rows /\ stored'[u] = proc[p].ring.active
        /\ \A s \in Rows : s # u => stored'[s] = stored[s]
        /\ \A v \in Users : lookup'[v] \in {lookup[v], proc[p].ring.active}
    BY <1>5, TypesAre DEF UpsertUser, RowTypes, Rows
  <2> QED BY <1>4, <1>5, <2>1 DEF UpsertUser, Write, Rows
<1>6. ASSUME NEW p \in Processes, NEW r \in Messages, SaveMessage(p, r) PROVE Shared' /\ NothingLost'
  <2>1. /\ DOMAIN stored' = Rows /\ stored'[r] = proc[p].ring.active
        /\ \A s \in Rows : s # r => stored'[s] = stored[s]
    BY <1>6, TypesAre DEF SaveMessage, RowTypes, Rows
  <2> QED BY <1>4, <1>6, <2>1 DEF SaveMessage, Write, Rows
<1>7. ASSUME NEW r \in Messages, EraseContent(r) PROVE Shared' /\ NothingLost'
  <2>1. /\ DOMAIN stored' = Rows /\ stored'[r] \notin Keys
        /\ \A s \in Rows : s # r => stored'[s] = stored[s]
    BY <1>7, Kinds, TypesAre DEF EraseContent, RowTypes, Rows
  <2>2. InUse' \subseteq InUse
    BY <1>7, <2>1, TypesAre DEF EraseContent, RowTypes
  <2> QED BY <1>7, <2>2, Written DEF EraseContent
<1>8. ASSUME NEW k \in Keys, PurgeAudit(k) PROVE Shared' /\ NothingLost'
  BY <1>8, Written DEF PurgeAudit, Write, InUse
<1>9. CASE BeginBackfill
  <2>1. backfill'.ring = ring
    BY <1>9 DEF BeginBackfill
  <2>2. Rings' \subseteq Rings
    BY <1>9, <2>1 DEF BeginBackfill
  <2>3. InUse' = InUse
    BY <1>9, SameInUse DEF BeginBackfill, data
  <2> QED BY <2>2, <2>3, Written
<1>10. ASSUME backfill.pc # "off", backfill' = Stop \/ backfill'.ring = backfill.ring,
              UNCHANGED <<ring, proc>>
       PROVE  Rings' \subseteq Rings
  BY <1>10 DEF Stop
<1>11. CASE BackfillCanary
  <2>1. backfill.pc # "off" /\ backfill'.ring = backfill.ring
    BY <1>11, TypesAre DEF BackfillCanary, BackfillTypes
  <2>2. Rings' \subseteq Rings
    BY <1>10, <1>11, <2>1 DEF BackfillCanary
  <2>3. \A k \in InUse' : k \in InUse \/ k = backfill.ring.active
    BY <1>11 DEF BackfillCanary
  <2> QED BY <2>1, <2>2, <2>3, Written
<1>12. CASE SelectUsers \/ SelectMessages
  <2>1. backfill.pc # "off" /\ backfill'.ring = backfill.ring
    BY <1>12, TypesAre DEF SelectUsers, SelectMessages, Select, BackfillTypes
  <2>2. Rings' \subseteq Rings
    BY <1>10, <1>12, <2>1 DEF SelectUsers, SelectMessages, Select
  <2>3. InUse' = InUse
    BY <1>12, SameInUse DEF SelectUsers, SelectMessages, Select, data
  <2> QED BY <2>2, <2>3, Written
<1>13. ASSUME NEW from, NEW to, from # "off", Reencrypt(from, to) PROVE Shared' /\ NothingLost'
  <2>1. backfill.pc # "off" /\ (backfill' = Stop \/ backfill'.ring = backfill.ring)
    BY <1>13, TypesAre DEF Reencrypt, BackfillTypes
  <2>2. Rings' \subseteq Rings
    BY <1>10, <1>13, <2>1 DEF Reencrypt
  <2>3. \A k \in InUse' : k \in InUse \/ k = backfill.ring.active
    BY <1>13 DEF Reencrypt
  <2> QED BY <2>1, <2>2, <2>3, Written
<1>14. CASE UpdateUsers \/ UpdateMessages
  BY <1>13, <1>14 DEF UpdateUsers, UpdateMessages
<1>15. CASE SignAudit \/ RotateAnchor \/ KillBackfill
  <2>1. backfill.pc # "off" /\ (backfill' = Stop \/ backfill'.ring = backfill.ring)
    BY <1>15, TypesAre DEF SignAudit, RotateAnchor, KillBackfill, BackfillTypes
  <2>2. Rings' \subseteq Rings
    BY <1>10, <1>15, <2>1 DEF SignAudit, RotateAnchor, KillBackfill, Crash
  <2>3. InUse' = InUse
    BY <1>15, SameInUse DEF SignAudit, RotateAnchor, KillBackfill, Crash, data
  <2> QED BY <2>2, <2>3, Written
<1> QED
  BY <1>1, <1>2, <1>3, <1>5, <1>6, <1>7, <1>8, <1>9, <1>11, <1>12, <1>14, <1>15
  DEF Use, Protect

LEMMA RotateKept ==
  ASSUME Types, Shared, NothingLost, Moved, Rotate
  PROVE  Shared' /\ NothingLost'
<1> USE RingsAre, RingsNext, InUseAre
<1>0. ring \in Ring
  BY TypesAre DEF RingTypes
<1>1. ASSUME NEW k \in Keys, AddKey(k) PROVE Shared' /\ NothingLost'
  <2>1. ring'.active = ring.active /\ ring.keys \subseteq ring'.keys
    BY <1>0, <1>1 DEF AddKey, Ring
  <2>2. \A r : r \in Rings' => r = ring' \/ r \in Rings
    BY <1>1 DEF AddKey
  <2>3. ring \in Rings
    OBVIOUS
  <2>4. InUse' = InUse
    BY <1>1, SameInUse DEF AddKey, data
  <2> QED BY <2>1, <2>2, <2>3, <2>4 DEF Shared, NothingLost
<1>2. ASSUME NEW k \in Keys, Activate(k) PROVE Shared' /\ NothingLost'
  <2>1. ring'.active = k /\ ring'.keys = ring.keys
    BY <1>0, <1>2 DEF Activate, Ring
  <2>2. backfill'.ring = backfill.ring /\ backfill'.pc = backfill.pc
    BY <1>2, TypesAre DEF Activate, BackfillTypes
  <2>3. \A r : r \in Rings' => r = ring' \/ r \in Rings
    BY <1>2, <2>2 DEF Activate
  <2>4. ring \in Rings /\ \A r \in Rings : k \in r.keys
    BY <1>2 DEF Activate
  <2>5. InUse' = InUse
    BY <1>2, SameInUse DEF Activate, data
  <2> QED BY <2>1, <2>3, <2>4, <2>5 DEF Shared, NothingLost
<1>3. ASSUME NEW k \in Keys, Retire(k) PROVE Shared' /\ NothingLost'
  <2>1. ring'.active = ring.active /\ ring'.keys = ring.keys \ {k} /\ k # ring.active
    BY <1>0, <1>3 DEF Retire, Ring
  <2>2. \A r : r \in Rings' => r = ring' \/ r \in Rings
    BY <1>3 DEF Retire
  <2>3. InUse' = InUse
    BY <1>3, SameInUse DEF Retire, data
  <2>4. /\ Everyone(ring.active) /\ canary = ring.active
        /\ UsersUnder(ring.active) /\ MessagesUnder(ring.active)
        /\ backfill.pc # "off" => backfill.ring.active = ring.active
    BY <1>3 DEF Retire, Moved
  <2>5. InUse \subseteq {ring.active}
    BY <2>4, Kinds, TypesAre DEF RowTypes, Rows, UsersUnder, MessagesUnder
  <2>6. \A r \in Rings : r.active = ring.active
    BY <2>4 DEF Everyone, Running
  <2>7. ring \in Rings
    OBVIOUS
  <2> QED BY <2>1, <2>2, <2>3, <2>5, <2>6, <2>7 DEF Shared, NothingLost
<1> QED BY <1>1, <1>2, <1>3 DEF Rotate

-----------------------------------------------------------------------------
\* 006 and what it found.

\* Nothing that is protected becomes plaintext again.
LEMMA NeverPlain ==
  ASSUME Types, Protected, Use \/ Protect \/ Rotate
  PROVE  Protected'
<1> USE Kinds DEF Protected
<1>0. /\ \A p \in Processes : proc[p].ring.active \in Keys
      /\ backfill.ring.active \in Keys
      /\ DOMAIN stored = Rows /\ stored \in [Rows -> Values] /\ lookup \in [Users -> Keys \cup {Plain}]
  BY TypesAre DEF RingTypes, BackfillTypes, Ring, RowTypes
<1>1. CASE UNCHANGED <<stored, lookup, unsigned>>
  BY <1>1
<1>2. ASSUME NEW p \in Processes, NEW u \in Users, UpsertUser(p, u) PROVE Protected'
  BY <1>0, <1>2 DEF UpsertUser, Write, Rows
<1>3. ASSUME NEW p \in Processes, NEW r \in Messages, SaveMessage(p, r) PROVE Protected'
  BY <1>0, <1>3 DEF SaveMessage, Write, Rows
<1>4. ASSUME NEW r \in Messages, EraseContent(r) PROVE Protected'
  BY <1>0, <1>4 DEF EraseContent, Rows
<1>5. ASSUME NEW from, NEW to, Reencrypt(from, to) PROVE Protected'
  BY <1>0, <1>5 DEF Reencrypt, Rows
<1>6. CASE SignAudit
  BY <1>6 DEF SignAudit
<1>7. CASE Use
  BY <1>1, <1>2, <1>3, <1>4, <1>7 DEF Use, Start, WriteCanary, CheckCanary, Shut, PurgeAudit, Write,
    data
<1>8. CASE Protect
  <2>1. CASE BeginBackfill \/ BackfillCanary \/ SelectUsers \/ SelectMessages \/ RotateAnchor
             \/ KillBackfill
    BY <1>1, <2>1 DEF BeginBackfill, BackfillCanary, SelectUsers, SelectMessages, Select,
      RotateAnchor, KillBackfill, Crash, data
  <2> QED BY <1>5, <1>6, <1>8, <2>1 DEF Protect, UpdateUsers, UpdateMessages
<1>9. CASE Rotate
  BY <1>1, <1>9 DEF Rotate, AddKey, Activate, Retire, data
<1> QED BY <1>7, <1>8, <1>9

LEMMA RunningStarts ==
  ASSUME Types, Use \/ Protect \/ Rotate, Running' # {}, Running = {}
  PROVE  Finalize \in applied
<1>1. ASSUME NEW p \in Processes, Start(p) PROVE Finalize \in applied
  BY <1>1 DEF Start
<1>2. ASSUME NEW p \in Processes, WriteCanary(p) \/ CheckCanary(p) PROVE FALSE
  BY <1>2 DEF WriteCanary, CheckCanary, Running
<1>3. ASSUME NEW p \in Processes, Shut(p) PROVE FALSE
  BY <1>3 DEF Shut, Running
<1>4. CASE proc' = proc
  BY <1>4 DEF Running
<1>5. CASE \/ \E p \in Processes : \/ \E u \in Users : UpsertUser(p, u)
                                   \/ \E r \in Messages : SaveMessage(p, r)
           \/ \E r \in Messages : EraseContent(r)
           \/ \E k \in Keys : PurgeAudit(k)
  BY <1>4, <1>5 DEF UpsertUser, SaveMessage, EraseContent, PurgeAudit, Write
<1>6. CASE Protect
  BY <1>4, <1>6 DEF Protect, BeginBackfill, BackfillCanary, SelectUsers, UpdateUsers,
    SelectMessages, UpdateMessages, Select, Reencrypt, SignAudit, RotateAnchor, KillBackfill, Crash
<1>7. CASE Rotate
  BY <1>4, <1>7 DEF Rotate, AddKey, Activate, Retire
<1> QED BY <1>1, <1>2, <1>3, <1>5, <1>6, <1>7 DEF Use

LEMMA FinalizedKept ==
  ASSUME Types, Finalized, Reached, Next
  PROVE  Finalized' /\ Reached'
<1> USE DEF Finalize, Prepare
<1>1. CASE Use \/ Protect \/ Rotate
  BY <1>1, OthersLeave, OthersMigrate, NeverPlain, RunningStarts DEF Finalized, Reached
<1>2. CASE Migrate
  <2>0. migrator \in [Migrators -> [pc : {"off", "lock", "look", "apply"},
                                    next : Prepare..8, through : Files]]
    BY DEF Types
  <2>1. Protected' = Protected /\ Running' = Running
    BY <1>2, MigrateLeaves DEF Protected, Running, data
  <2>2. ASSUME NEW m \in Migrators, EndMigrate(m), applied' = applied
        PROVE  Finalized' /\ Reached'
    BY <2>0, <2>1, <2>2 DEF EndMigrate, Idle, Finalized, Reached
  <2>3. ASSUME NEW m \in Migrators, NEW through, StartMigrate(m, through)
        PROVE  Finalized' /\ Reached'
    BY <2>0, <2>1, <2>3 DEF StartMigrate, Finalized, Reached
  <2>4. ASSUME NEW m \in Migrators, TakeLock(m) PROVE Finalized' /\ Reached'
    BY <2>0, <2>1, <2>4 DEF TakeLock, Finalized, Reached
  <2>5. ASSUME NEW m \in Migrators, Look(m) PROVE Finalized' /\ Reached'
    BY <2>0, <2>1, <2>2, <2>5 DEF Look, Finalized, Reached
  <2>6. ASSUME NEW m \in Migrators, Apply(m) PROVE Finalized' /\ Reached'
    BY <2>0, <2>1, <2>2, <2>6 DEF Apply, May, Finalized, Reached
  <2>7. ASSUME NEW m \in Migrators, KillMigrate(m) PROVE Finalized' /\ Reached'
    BY <2>2, <2>7 DEF KillMigrate, Crash
  <2>8. ASSUME NEW f \in Files, Edit(f) PROVE Finalized' /\ Reached'
    BY <2>1, <2>8 DEF Edit, Finalized, Reached
  <2> QED BY <1>2, <2>3, <2>4, <2>5, <2>6, <2>7, <2>8 DEF Migrate
<1> QED BY <1>1, <1>2 DEF Next

-----------------------------------------------------------------------------
\* The batch, and what the backfill has done.

LEMMA BatchKept ==
  ASSUME Types, BatchSound, Next
  PROVE  BatchSound'
<1> USE Kinds
<1>0. /\ \A p \in Processes : proc[p].ring.active \in Keys
      /\ stored \in [Rows -> Values] /\ DOMAIN stored = Rows
      /\ backfill \in [pc : BackfillPlace, ring : Ring, batch : Batches, calm : BOOLEAN]
  BY TypesAre DEF RingTypes, BackfillTypes, Ring, RowTypes
<1>1. CASE stored' = stored /\ backfill' = backfill
  BY <1>1 DEF BatchSound
<1>2. ASSUME NEW p \in Processes, NEW u \in Users, UpsertUser(p, u) PROVE BatchSound'
  BY <1>0, <1>2, RowAssumption DEF UpsertUser, Write, Rows, BatchSound
<1>3. ASSUME NEW p \in Processes, NEW r \in Messages, SaveMessage(p, r) PROVE BatchSound'
  BY <1>0, <1>3 DEF SaveMessage, Write, Rows, BatchSound
<1>4. ASSUME NEW r \in Messages, EraseContent(r) PROVE BatchSound'
  BY <1>0, <1>4 DEF EraseContent, Locked, Rows, BatchSound
<1>5. CASE Use
  BY <1>1, <1>2, <1>3, <1>4, <1>5 DEF Use, Start, WriteCanary, CheckCanary, Shut, PurgeAudit, Write,
    data
<1>6. CASE backfill'.pc \notin {"update users", "update messages"}
  BY <1>6 DEF BatchSound
<1>7. CASE BeginBackfill
  BY <1>6, <1>7, AfterCanaryIs DEF BeginBackfill
<1>8. CASE SelectUsers
  <2>1. CASE backfill'.pc = "messages"
    BY <1>6, <2>1
  <2>2. ASSUME NEW b \in SUBSET StaleUsers,
               backfill' = [backfill EXCEPT !.pc = "update users", !.batch = [r \in b |-> stored[r]]]
        PROVE  BatchSound'
    BY <1>0, <2>2 DEF BatchSound, StaleUsers
  <2> QED BY <1>0, <1>8, <2>1, <2>2 DEF SelectUsers, Select
<1>9. CASE SelectMessages
  <2>1. CASE backfill'.pc = "audit"
    BY <1>6, <2>1
  <2>2. ASSUME NEW b \in SUBSET StaleMessages, stored' = stored,
               backfill' = [backfill EXCEPT !.pc = "update messages",
                                            !.batch = [r \in b |-> stored[r]]]
        PROVE  BatchSound'
    <3>1. backfill'.pc = "update messages" /\ DOMAIN backfill'.batch = b
      BY <1>0, <2>2
    <3> QED BY <2>2, <3>1 DEF BatchSound, StaleMessages
  <2> QED BY <1>0, <1>9, <2>1, <2>2 DEF SelectMessages, Select, data
<1>10. CASE BackfillCanary \/ UpdateUsers \/ UpdateMessages \/ SignAudit \/ RotateAnchor
            \/ KillBackfill
  <2>1. Stop.pc = "off"
    BY DEF Stop
  <2>2. backfill'.pc \in {"users", "messages", "anchor", "off"}
    BY <1>0, <1>10, <2>1 DEF BackfillCanary, UpdateUsers, UpdateMessages, Reencrypt, SignAudit,
      RotateAnchor, KillBackfill
  <2> QED BY <1>6, <2>2
<1>11. ASSUME NEW k \in Keys, AddKey(k) \/ Retire(k) PROVE BatchSound'
  BY <1>1, <1>11 DEF AddKey, Retire, data
<1>12. ASSUME NEW k \in Keys, Activate(k) PROVE BatchSound'
  BY <1>0, <1>12 DEF Activate, data, BatchSound
<1>13. CASE Migrate
  BY <1>1, <1>13, MigrateLeaves DEF data
<1> QED BY <1>5, <1>7, <1>8, <1>9, <1>10, <1>11, <1>12, <1>13 DEF Next, Protect, Rotate

LEMMA ErasureKept ==
  ASSUME Types, BatchSound, Next, NEW r \in Messages, stored[r] = Erased
  PROVE  stored'[r] = Erased
<1>0. stored \in [Rows -> Values] /\ DOMAIN stored = Rows
  BY TypesAre DEF RowTypes
<1>1. CASE UNCHANGED stored
  BY <1>1
<1>2. CASE Use
  BY <1>0, <1>1, <1>2, RowAssumption, Kinds DEF Use, Start, WriteCanary, CheckCanary, Shut,
    PurgeAudit, UpsertUser, SaveMessage, EraseContent, Write, data, Rows
<1>3. CASE UpdateUsers
  BY <1>0, <1>3, RowAssumption DEF UpdateUsers, Reencrypt, BatchSound, Rows
<1>4. CASE UpdateMessages
  BY <1>0, <1>4 DEF UpdateMessages, Reencrypt, BatchSound, Rows
<1>5. CASE Protect
  BY <1>3, <1>4, <1>5 DEF Protect, BeginBackfill, BackfillCanary, SelectUsers, SelectMessages,
    Select, SignAudit, RotateAnchor, KillBackfill, Crash, data
<1>6. CASE Rotate
  BY <1>6 DEF Rotate, AddKey, Activate, Retire, data
<1>7. CASE Migrate
  BY <1>7, MigrateLeaves DEF data
<1> QED BY <1>2, <1>5, <1>6, <1>7 DEF Next

\* While everybody who writes has the same key, what is under it stays under it.
LEMMA CalmKept ==
  ASSUME Types, BatchSound, Use \/ Protect, Everyone(ring.active),
         backfill.pc # "off" => backfill.ring.active = ring.active
  PROVE  /\ ring' = ring
         /\ Everyone(ring.active)'
         /\ canary = ring.active => canary' = ring.active
         /\ UsersUnder(ring.active) => UsersUnder(ring.active)'
         /\ MessagesUnder(ring.active) => MessagesUnder(ring.active)'
<1> USE Kinds, RowAssumption DEF Everyone, Running, UsersUnder, MessagesUnder
<1>0. /\ stored \in [Rows -> Values] /\ DOMAIN stored = Rows
      /\ proc \in [Processes -> [pc : {"off", "canary", "up"}, ring : Ring]]
      /\ lookup \in [Users -> Keys \cup {Plain}]
  BY TypesAre DEF RingTypes, RowTypes
<1>1. ring' = ring
  BY DEF Use, Protect, Start, WriteCanary, CheckCanary, Shut, UpsertUser, SaveMessage, EraseContent,
    PurgeAudit, Write, BeginBackfill, BackfillCanary, SelectUsers, UpdateUsers, SelectMessages,
    UpdateMessages, Select, Reencrypt, SignAudit, RotateAnchor, KillBackfill, Crash
<1>2. CASE Use
  <2>1. ASSUME NEW p \in Processes, Start(p) \/ WriteCanary(p) \/ CheckCanary(p) \/ Shut(p)
        PROVE  /\ Everyone(ring.active)'
               /\ canary = ring.active => canary' = ring.active
               /\ UNCHANGED <<stored, lookup>>
    BY <1>0, <1>1, <2>1 DEF Start, WriteCanary, CheckCanary, Shut, Off, data
  <2>2. ASSUME NEW p \in Processes, NEW u \in Users, UpsertUser(p, u)
        PROVE  /\ UNCHANGED <<proc, canary>>
               /\ UsersUnder(ring.active) => UsersUnder(ring.active)'
               /\ MessagesUnder(ring.active) => MessagesUnder(ring.active)'
    BY <1>0, <1>1, <2>2 DEF UpsertUser, Write, Rows
  <2>3. ASSUME NEW p \in Processes, NEW r \in Messages, SaveMessage(p, r)
        PROVE  /\ UNCHANGED <<proc, canary>>
               /\ UsersUnder(ring.active) => UsersUnder(ring.active)'
               /\ MessagesUnder(ring.active) => MessagesUnder(ring.active)'
    BY <1>0, <1>1, <2>3 DEF SaveMessage, Write, Rows
  <2>4. ASSUME NEW r \in Messages, EraseContent(r)
        PROVE  /\ UNCHANGED <<proc, canary>>
               /\ UsersUnder(ring.active) => UsersUnder(ring.active)'
               /\ MessagesUnder(ring.active) => MessagesUnder(ring.active)'
    BY <1>0, <1>1, <2>4 DEF EraseContent, Rows
  <2>5. ASSUME NEW k \in Keys, PurgeAudit(k) PROVE UNCHANGED <<proc, stored, lookup, canary>>
    BY <2>5 DEF PurgeAudit, Write
  <2> QED BY <1>1, <1>2, <2>1, <2>2, <2>3, <2>4, <2>5 DEF Use
<1>3. CASE Protect
  <2>1. UNCHANGED proc /\ (canary = ring.active => canary' = ring.active)
    BY <1>3 DEF Protect, BeginBackfill, BackfillCanary, SelectUsers, UpdateUsers, SelectMessages,
      UpdateMessages, Select, Reencrypt, SignAudit, RotateAnchor, KillBackfill, Crash, data
  <2>2. CASE UpdateUsers \/ UpdateMessages
    <3>1. backfill.ring.active = ring.active
      BY <2>2 DEF UpdateUsers, UpdateMessages, Reencrypt
    <3>2. /\ UsersUnder(ring.active) => UsersUnder(ring.active)'
          /\ MessagesUnder(ring.active) => MessagesUnder(ring.active)'
      BY <1>0, <1>1, <2>2, <3>1 DEF UpdateUsers, UpdateMessages, Reencrypt, Rows
    <3> QED BY <1>1, <2>1, <3>2
  <2>3. CASE UNCHANGED <<stored, lookup>>
    BY <1>1, <2>1, <2>3
  <2> QED BY <1>3, <2>2, <2>3 DEF Protect, BeginBackfill, BackfillCanary, SelectUsers,
      SelectMessages, Select, SignAudit, RotateAnchor, KillBackfill, Crash, data
<1> QED BY <1>2, <1>3

\* Where a step takes the backfill: what it says of its ring, and of what is done.
LEMMA BackfillGoes ==
  ASSUME Types, Protect, backfill'.pc # "off"
  PROVE  \/ /\ backfill.pc = "off" /\ backfill'.ring = ring
            /\ backfill'.calm => Everyone(ring.active)
            /\ backfill'.pc = "canary" \/ (backfill'.pc = "users" /\ canary = ring.active)
         \/ /\ backfill.pc # "off"
            /\ backfill'.ring = backfill.ring /\ backfill'.calm = backfill.calm
            /\ \/ backfill'.pc = backfill.pc
               \/ /\ backfill.pc = "canary" /\ backfill'.pc = "users"
                  /\ canary' = backfill.ring.active
               \/ backfill.pc \in {"users", "update users"} /\ backfill'.pc \in {"users", "update users"}
               \/ /\ backfill.pc = "users" /\ backfill'.pc = "messages"
                  /\ UsersUnder(backfill.ring.active)
               \/ /\ backfill.pc \in {"messages", "update messages"}
                  /\ backfill'.pc \in {"messages", "update messages"}
               \/ /\ backfill.pc = "messages" /\ backfill'.pc = "audit"
                  /\ MessagesUnder(backfill.ring.active)
               \/ backfill.pc = "audit" /\ backfill'.pc = "anchor"
<1>0. /\ backfill \in [pc : BackfillPlace, ring : Ring, batch : Batches, calm : BOOLEAN]
      /\ Stop.pc = "off"
  BY DEF Types, Stop
<1>1. CASE BeginBackfill
  BY <1>1, CanaryRead DEF BeginBackfill
<1>2. CASE BackfillCanary
  BY <1>0, <1>2 DEF BackfillCanary
<1>3. CASE SelectUsers
  BY <1>0, <1>3 DEF SelectUsers, Select, StaleUsers, UsersUnder
<1>4. CASE SelectMessages
  BY <1>0, <1>4 DEF SelectMessages, Select, StaleMessages, MessagesUnder
<1>5. CASE UpdateUsers
  BY <1>0, <1>5 DEF UpdateUsers, Reencrypt
<1>6. CASE UpdateMessages
  BY <1>0, <1>6 DEF UpdateMessages, Reencrypt
<1>7. CASE SignAudit
  BY <1>0, <1>7 DEF SignAudit
<1>8. CASE RotateAnchor \/ KillBackfill
  BY <1>0, <1>8 DEF RotateAnchor, KillBackfill
<1> QED BY <1>1, <1>2, <1>3, <1>4, <1>5, <1>6, <1>7, <1>8 DEF Protect

\* The end of a run is calm, or says nothing new.
LEMMA BackfillEnds ==
  ASSUME Types, Protect, moved'
  PROVE  moved \/ (backfill.calm /\ backfill.pc = "anchor" /\ backfill'.pc = "off")
<1>1. CASE RotateAnchor
  BY <1>1 DEF RotateAnchor, Stop
<1>2. CASE UNCHANGED moved
  BY <1>2
<1> QED BY <1>1, <1>2 DEF Protect, BeginBackfill, BackfillCanary, SelectUsers, UpdateUsers,
      SelectMessages, UpdateMessages, Select, Reencrypt, SignAudit, KillBackfill, Crash

LEMMA CalmIsOn ==
  ASSUME Types, Progress, Next, backfill'.pc = "off"
  PROVE  ~backfill'.calm
<1>1. CASE backfill' = backfill
  BY <1>1 DEF Progress
<1>2. CASE backfill' = Stop
  BY <1>2 DEF Stop
<1>3. CASE Use
  BY <1>1, <1>3 DEF Use, Start, WriteCanary, CheckCanary, Shut, UpsertUser, SaveMessage, EraseContent,
    PurgeAudit, Write
<1>4. CASE Migrate
  BY <1>1, <1>4, MigrateLeaves
<1>5. CASE Rotate
  BY <1>1, <1>5, TypesAre DEF Rotate, AddKey, Activate, Retire, BackfillTypes
<1>6. CASE Protect
  <2>1. backfill \in [pc : BackfillPlace, ring : Ring, batch : Batches, calm : BOOLEAN]
    BY DEF Types
  <2>2. ~BeginBackfill
    BY DEF BeginBackfill
  <2>3. ~BackfillCanary /\ ~SelectUsers /\ ~SelectMessages
    BY <2>1 DEF BackfillCanary, SelectUsers, SelectMessages, Select
  <2>4. UpdateUsers \/ UpdateMessages => backfill' = Stop
    BY <2>1 DEF UpdateUsers, UpdateMessages, Reencrypt
  <2>5. SignAudit => backfill' = Stop
    BY <2>1 DEF SignAudit
  <2> QED BY <1>2, <1>6, <2>2, <2>3, <2>4, <2>5 DEF Protect, RotateAnchor, KillBackfill
<1> QED BY <1>3, <1>4, <1>5, <1>6 DEF Next

LEMMA ProgressKept ==
  ASSUME Types, BatchSound, Progress, Next
  PROVE  Progress'
<1> SUFFICES ASSUME backfill'.calm PROVE Progress'
  BY DEF Progress
<1>0. backfill'.pc # "off"
  BY CalmIsOn
<1>1. CASE Use
  <2>1. backfill' = backfill
    BY <1>1 DEF Use, Start, WriteCanary, CheckCanary, Shut, UpsertUser, SaveMessage, EraseContent,
      PurgeAudit, Write
  <2> QED BY <1>1, <2>1, CalmKept DEF Progress
<1>2. CASE Protect
  <2>1. ring' = ring /\ (Everyone(ring.active) => Everyone(ring.active)')
    BY <1>2 DEF Protect, BeginBackfill, BackfillCanary, SelectUsers, UpdateUsers, SelectMessages,
      UpdateMessages, Select, Reencrypt, SignAudit, RotateAnchor, KillBackfill, Crash, Everyone, Running
  <2>2. CASE /\ backfill.pc = "off" /\ backfill'.ring = ring
             /\ Everyone(ring.active)
             /\ backfill'.pc = "canary" \/ (backfill'.pc = "users" /\ canary = ring.active)
    BY <1>2, <2>1, <2>2, CalmKept DEF Progress
  <2>3. CASE /\ backfill.pc # "off"
             /\ backfill'.ring = backfill.ring /\ backfill'.calm = backfill.calm
    <3>1. /\ backfill.ring.active = ring.active /\ Everyone(ring.active)
          /\ backfill.pc # "canary" => canary = ring.active
          /\ backfill.pc \in {"messages", "update messages", "audit", "anchor"} =>
               UsersUnder(ring.active)
          /\ backfill.pc \in {"audit", "anchor"} => MessagesUnder(ring.active)
      BY <2>3 DEF Progress
    <3>2. /\ canary = ring.active => canary' = ring.active
          /\ UsersUnder(ring.active) => UsersUnder(ring.active)'
          /\ MessagesUnder(ring.active) => MessagesUnder(ring.active)'
      BY <1>2, <3>1, CalmKept
    <3>3. backfill'.pc # "canary" => canary' = ring'.active
      BY <1>0, <1>2, <2>1, <2>3, <3>1, <3>2, BackfillGoes
    <3>4. backfill'.pc \in {"messages", "update messages", "audit", "anchor"} =>
            UsersUnder(ring.active)
      BY <1>0, <1>2, <2>3, <3>1, BackfillGoes
    <3>5. backfill'.pc \in {"audit", "anchor"} => MessagesUnder(ring.active)
      BY <1>0, <1>2, <2>3, <3>1, BackfillGoes
    <3> QED BY <1>0, <2>1, <2>3, <3>1, <3>2, <3>3, <3>4, <3>5 DEF Progress
  <2> QED BY <1>0, <1>2, <2>2, <2>3, BackfillGoes
<1>3. CASE Rotate
  <2>1. ring'.active = ring.active /\ UNCHANGED <<data, proc, backfill>>
    <3>1. ring \in Ring /\ backfill \in [pc : BackfillPlace, ring : Ring, batch : Batches, calm : BOOLEAN]
      BY TypesAre DEF RingTypes, BackfillTypes
    <3>2. \A k \in Keys : ~Activate(k)
      BY <3>1 DEF Activate
    <3> QED BY <1>3, <3>1, <3>2 DEF Rotate, AddKey, Retire, Ring
  <2> QED BY <2>1 DEF Progress, Everyone, Running, UsersUnder, MessagesUnder, data
<1>4. CASE Migrate
  BY <1>4, MigrateLeaves DEF Progress, Everyone, Running, UsersUnder, MessagesUnder, data
<1> QED BY <1>1, <1>2, <1>3, <1>4 DEF Next

LEMMA MovedKept ==
  ASSUME Types, BatchSound, Progress, Moved, Next
  PROVE  Moved'
<1> SUFFICES ASSUME moved' PROVE Moved'
  BY DEF Moved
<1>1. CASE Use
  <2>1. backfill' = backfill /\ moved' = moved
    BY <1>1 DEF Use, Start, WriteCanary, CheckCanary, Shut, UpsertUser, SaveMessage, EraseContent,
      PurgeAudit, Write
  <2> QED BY <1>1, <2>1, CalmKept DEF Moved
<1>2. CASE Protect
  <2>1. /\ Everyone(ring.active) /\ canary = ring.active
        /\ UsersUnder(ring.active) /\ MessagesUnder(ring.active)
        /\ backfill.pc # "off" => backfill.ring.active = ring.active
    BY <1>2, BackfillEnds DEF Moved, Progress
  <2>2. backfill'.pc # "off" => backfill'.ring.active = ring.active
    BY <1>2, <2>1, BackfillGoes
  <2> QED BY <1>2, <2>1, <2>2, CalmKept DEF Moved
<1>3. CASE Rotate
  <2>1. moved /\ ring'.active = ring.active /\ UNCHANGED <<data, proc, backfill>>
    <3>1. ring \in Ring
      BY TypesAre DEF RingTypes
    <3> QED BY <1>3, <3>1 DEF Rotate, AddKey, Activate, Retire, Ring
  <2> QED BY <2>1 DEF Moved, Everyone, Running, UsersUnder, MessagesUnder, data
<1>4. CASE Migrate
  BY <1>4, MigrateLeaves DEF Moved, Everyone, Running, UsersUnder, MessagesUnder, data
<1> QED BY <1>1, <1>2, <1>3, <1>4 DEF Next

-----------------------------------------------------------------------------
LEMMA InitInv == Init => IInv
<1> SUFFICES ASSUME Init PROVE IInv
  OBVIOUS
<1> USE Kinds DEF Init
<1>1. RowTypes
  BY DEF RowTypes, Rows, Values
<1>2. SchemaTypes
  BY DEF SchemaTypes, Idle, Files, Prepare
<1>3. /\ NoRing \in Ring /\ NoRing.active \in NoRing.keys
      /\ Off = [pc |-> "off", ring |-> NoRing]
      /\ Stop = [pc |-> "off", ring |-> NoRing, batch |-> <<>>, calm |-> FALSE]
  BY SizeAssumption DEF NoRing, Ring, Keys, Off, Stop
<1>4. RingTypes
  BY <1>3 DEF RingTypes
<1>5. <<>> \in Batches
  BY DEF Batches
<1>6. BackfillTypes
  BY <1>3, <1>5 DEF BackfillTypes, BackfillPlace
<1>7. Types
  BY <1>1, <1>2, <1>4, <1>6, BatchDomain, TypesAre
<1>8. Running = {} /\ Rings = {NoRing}
  BY <1>3 DEF Running, Rings
<1>9. InUse = {}
  BY <1>1 DEF InUse, RowTypes
<1>10. NothingLost /\ Shared
  BY <1>3, <1>8, <1>9 DEF NothingLost, Shared
<1>11. Finalized /\ Reached
  BY <1>8 DEF Finalized, Reached, Idle, Prepare
<1>12. BatchSound /\ Progress /\ Moved
  BY <1>3 DEF BatchSound, Progress, Moved
<1> QED BY <1>7, <1>10, <1>11, <1>12 DEF IInv

LEMMA NextInv == IInv /\ [Next]_vars => IInv'
<1> SUFFICES ASSUME IInv, [Next]_vars PROVE IInv'
  OBVIOUS
<1>0. Types /\ NothingLost /\ Finalized /\ Reached /\ BatchSound /\ Shared /\ Progress /\ Moved
  BY DEF IInv
<1>1. CASE UNCHANGED vars
  <2>1. UNCHANGED <<schema, data, ring, proc, backfill, moved, writes, crashes>>
    BY <1>1 DEF vars
  <2>2. UNCHANGED <<InUse, Rings, Running, Protected>>
    BY <2>1 DEF schema, data, InUse, Rings, Running, Protected
  <2>3. Types' /\ Reached' /\ BatchSound'
    BY <1>0, <2>1 DEF Types, TypeOK, Reached, BatchSound, schema, data
  <2>4. NothingLost' /\ Shared' /\ Finalized'
    BY <1>0, <2>1, <2>2 DEF NothingLost, Shared, Finalized, schema
  <2>5. Progress' /\ Moved'
    BY <1>0, <2>1, <2>2 DEF Progress, Moved, Everyone, UsersUnder, MessagesUnder, data
  <2> QED BY <2>3, <2>4, <2>5 DEF IInv
<1>2. CASE Next
  <2>1. Types' /\ Finalized' /\ Reached' /\ BatchSound' /\ Progress' /\ Moved'
    BY <1>0, <1>2, TypesKept, FinalizedKept, BatchKept, ProgressKept, MovedKept
  <2>2. CASE Use \/ Protect
    BY <1>0, <2>1, <2>2, WritesKept DEF IInv
  <2>3. CASE Rotate
    BY <1>0, <2>1, <2>3, RotateKept DEF IInv
  <2>4. CASE Migrate
    BY <1>0, <2>1, <2>4, MigrateLeaves DEF IInv, Shared, NothingLost, Rings, Running, InUse, data
  <2> QED BY <1>2, <2>2, <2>3, <2>4 DEF Next
<1> QED BY <1>1, <1>2

\* Every row, every phone lookup and the canary can be read by whoever runs and
\* by whoever starts next, in every interleaving of the upgrade, the writers,
\* retention, the backfill, its kills and the rotation.
THEOREM KeySafety == Spec => []KeysInv
<1>1. Init => IInv
  BY InitInv
<1>2. IInv /\ [Next]_vars => IInv'
  BY NextInv
<1>3. IInv => KeysInv
  BY DEF IInv, Types, KeysInv
<1> QED BY <1>1, <1>2, <1>3, PTL DEF Spec

\* A database with 006 has neither plaintext nor unsigned audit events, and the
\* service runs on no other.
THEOREM UpgradeSafety == Spec => []Finalized
<1>1. Init => IInv
  BY InitInv
<1>2. IInv /\ [Next]_vars => IInv'
  BY NextInv
<1>3. IInv => Finalized
  BY DEF IInv
<1> QED BY <1>1, <1>2, <1>3, PTL DEF Spec

\* The backfill restores nothing that retention erased behind its back.
THEOREM BackfillErasureSafety == Spec => ErasedForGood
<1>1. Init => IInv
  BY InitInv
<1>2. IInv /\ [Next]_vars => IInv'
  BY NextInv
<1>3. IInv /\ [Next]_vars => [\A r \in Messages : stored[r] = Erased => stored'[r] = Erased]_vars
  BY ErasureKept DEF IInv
<1> QED BY <1>1, <1>2, <1>3, PTL DEF Spec, ErasedForGood
=============================================================================
