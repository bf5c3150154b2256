---------------------------- MODULE AdminPanelProofs ----------------------------
(***************************************************************************)
(* For every set of clients, phones, forms, batches and addresses and every *)
(* limit: whatever the transactions of the whitelist do to each other, and  *)
(* however logins, failures, expiry and restarts interleave, the whitelist, *)
(* its audit records, the sessions and the counts of failures agree.        *)
(***************************************************************************)
EXTENDS AdminPanel, FiniteSetTheorems, NaturalsInduction, WellFoundedInduction, TLAPS

Ids == Nat \ {0}
FormRoles == {form.role : form \in Forms}
FormGrants == {form.grants : form \in Forms}
Row == [phone : Phones, role : FormRoles, active : BOOLEAN, grants : FormGrants]

\* Users with their permissions, by id.
Table(f) == DOMAIN f \subseteq Ids /\ IsFiniteSet(DOMAIN f) /\ f \in [DOMAIN f -> Row]

Entry == [id : Ids, job : Jobs]

TxType(t) ==
  /\ t = [pc |-> t.pc, jobs |-> t.jobs, found |-> t.found, locks |-> t.locks,
          pending |-> t.pending, log |-> t.log]
  /\ t.pc \in {"idle", "lookup", "write", "audit", "commit"}
  /\ t.jobs \in Seq(Jobs) /\ t.found \in Nat /\ t.locks \subseteq Ids
  /\ Table(t.pending) /\ t.log \in Seq(Entry)

\* A transaction is a batch of upserts, or one activation.
Planned(t) ==
  /\ \A i \in DOMAIN t.jobs : t.jobs[i].kind = "upsert" => Valid(t.jobs[i])
  /\ \/ \A i \in DOMAIN t.jobs : t.jobs[i].kind = "upsert"
     \/ Len(t.jobs) = 1 /\ t.jobs[1].kind = "activate" /\ t.log = <<>>
  /\ t.pc \in {"lookup", "write", "audit"} => t.jobs # <<>>
  /\ t.pc = "lookup" => t.jobs[1].kind = "upsert"

\* What it changed is locked, and what it locked is there.
Locked(t) ==
  /\ DOMAIN t.pending \subseteq t.locks
  /\ t.locks \subseteq DOMAIN rows \cup DOMAIN t.pending

\* It changes no phone number, and inserts none that is there.
SamePhones(t) ==
  /\ \A id \in DOMAIN t.pending \cap DOMAIN rows : t.pending[id].phone = rows[id].phone
  /\ \A id \in DOMAIN t.pending \ DOMAIN rows :
       /\ \A r \in DOMAIN rows : rows[r].phone # t.pending[id].phone
       /\ \A e \in DOMAIN t.pending \ DOMAIN rows : t.pending[e].phone = t.pending[id].phone => e = id

\* What it looked up is what it will write.
RowOf(t, id) == IF id \in DOMAIN t.pending THEN t.pending[id] ELSE rows[id]

Aimed(t) ==
  t.pc = "write" /\ t.jobs[1].kind = "upsert" =>
    IF t.found = 0 THEN \A id \in DOMAIN t.pending : t.pending[id].phone # t.jobs[1].phone
    ELSE t.found \in t.locks /\ RowOf(t, t.found).phone = t.jobs[1].phone

\* It has recorded what it changed, but for the change in hand.
Logged(t) ==
  DOMAIN t.pending =
    {t.log[i].id : i \in DOMAIN t.log} \cup (IF t.pc = "audit" THEN {t.found} ELSE {})

\* A record of a user says what the transaction's row of the user holds.
Agrees(row, id, job) ==
  IF job.kind = "upsert" THEN row.active = TRUE /\ row.grants = job.grants
  ELSE row.active = job.active /\ id \in DOMAIN rows /\ row.grants = rows[id].grants

LastAbout(log, i) == \A j \in DOMAIN log : log[j].id = log[i].id => j <= i

Truthful(t) ==
  /\ t.pc = "audit" => Agrees(t.pending[t.found], t.found, t.jobs[1])
  /\ \A i \in DOMAIN t.log :
       LastAbout(t.log, i) /\ ~(t.pc = "audit" /\ t.log[i].id = t.found) =>
         Agrees(t.pending[t.log[i].id], t.log[i].id, t.log[i].job)

ValidRows(f) == \A id \in DOMAIN f : Valid(f[id])

Own(t) ==
  /\ TxType(t) /\ Planned(t) /\ Locked(t) /\ SamePhones(t) /\ Aimed(t) /\ Logged(t)
  /\ Truthful(t) /\ ValidRows(t.pending)

\* Two transactions never hold one row, nor insert one phone number.
Apart(t, u) ==
  /\ t.locks \cap u.locks = {}
  /\ \A id \in DOMAIN t.pending \ DOMAIN rows, e \in DOMAIN u.pending \ DOMAIN rows :
       t.pending[id].phone # u.pending[e].phone

WInv ==
  /\ Table(rows) /\ WhitelistInv
  /\ tx = [c \in Clients |-> tx[c]]
  /\ \A c \in Clients : Own(tx[c])
  /\ \A c, d \in Clients : c # d => Apart(tx[c], tx[d])

-----------------------------------------------------------------------------
Bucket == [failures : 0..MaxFailures, resetAt : Nat, blockedUntil : Nat]

\* What the map of sessions holds is what was issued and neither ended nor displaced.
Kept ==
  /\ now \in Nat /\ issued \in Seq([at : Nat, ended : BOOLEAN])
  /\ DOMAIN sessions \subseteq DOMAIN issued /\ sessions = [t \in DOMAIN sessions |-> sessions[t]]
  /\ \A t \in DOMAIN sessions : sessions[t] = issued[t].at + SessionTtl /\ ~issued[t].ended
  /\ Cardinality(DOMAIN sessions) <= MaxSessions
  /\ \A t \in DOMAIN issued :
       ~issued[t].ended /\ issued[t].at + SessionTtl > now /\ Len(issued) - t < MaxSessions
         => t \in DOMAIN sessions

\* Of the guesses told, the last ones that the bucket counts were told in its
\* window, those before it at the latest when it began, and those before the
\* window that came before at the latest a window's length earlier.
Told(b) == IF b.failures < MaxFailures THEN b.failures ELSE MaxFailures - 1

Budgeted(b, g) ==
  /\ b \in Bucket /\ g \in Seq(Nat) /\ Len(g) <= Most + 1
  /\ b.resetAt <= now + Window
  /\ b.failures = MaxFailures => b.blockedUntil >= b.resetAt
  /\ \A i \in 1..Len(g) : g[i] <= now
  /\ Told(b) = 0 => Len(g) = 0
  /\ Told(b) > 0 => Len(g) > 0 /\ g[Len(g)] + Window >= b.resetAt
  /\ \A i \in 1..Len(g) :
       /\ i <= Len(g) - Told(b) => g[i] + Window <= b.resetAt
       /\ i <= Len(g) - Told(b) - (MaxFailures - 1) => g[i] + 2 * Window <= b.resetAt

Counts ==
  /\ buckets = [ip \in Ips |-> buckets[ip]] /\ guesses = [ip \in Ips |-> guesses[ip]]
  /\ \A ip \in Ips : Budgeted(buckets[ip], guesses[ip])

PInv == Kept /\ Counts

IInv == WInv /\ PInv
-----------------------------------------------------------------------------
LEMMA LessIsWellFounded == IsWellFoundedOn({ss \in Nat \X Nat : ss[1] < ss[2]}, Nat)
  BY NatLessThanWellFounded DEF OpToRel

\* A set of numbers has a least one.
LEMMA Least ==
  ASSUME NEW T, T \subseteq Nat, T # {}
  PROVE  \E n \in T : \A k \in T : n <= k
<1> DEFINE R == {ss \in Nat \X Nat : ss[1] < ss[2]}
<1>1. \E n \in T : \A k \in T : ~(<<k, n>> \in R)
  <2> HIDE DEF R
  <2>1. IsWellFoundedOn(R, Nat)
    BY LessIsWellFounded DEF R
  <2> QED BY <2>1, WFMin
<1>2. PICK n \in T : \A k \in T : ~(<<k, n>> \in R)
  BY <1>1
<1>3. ASSUME NEW k \in T PROVE n <= k
  <2>1. k \in Nat /\ n \in Nat
    OBVIOUS
  <2>2. k < n => <<k, n>> \in R
    BY <2>1
  <2> QED BY <2>1, <2>2, <1>2
<1> QED BY <1>3

\* The n numbers with fewer than n larger ones are at most n.
LEMMA FewLargest ==
  ASSUME NEW S \in SUBSET Nat, IsFiniteSet(S), NEW n \in Nat,
         NEW T, T = {t \in S : Cardinality({u \in S : u > t}) < n}
  PROVE  IsFiniteSet(T) /\ Cardinality(T) <= n
<1>1. IsFiniteSet(T) /\ T \subseteq Nat /\ T \subseteq S
  BY FS_Subset
<1>2. CASE T = {}
  <2>1. Cardinality(T) = 0
    BY <1>2, FS_EmptySet
  <2> QED BY <1>1, <2>1
<1>3. CASE T # {}
  <2>1. PICK m \in T : \A k \in T : m <= k
    BY <1>1, <1>3, Least
  <2>2. PICK L : L = {u \in S : u > m}
    OBVIOUS
  <2>3. L \in SUBSET S /\ Cardinality(L) < n
    BY <2>1, <2>2
  <2>4. IsFiniteSet(L) /\ Cardinality(L) \in Nat
    BY <2>3, FS_Subset, FS_CardinalityType
  <2>5. T \ {m} \subseteq L
    BY <1>1, <2>1, <2>2
  <2>6. Cardinality(T \ {m}) <= Cardinality(L)
    BY <2>4, <2>5, FS_Subset
  <2>7. Cardinality(T \ {m}) = Cardinality(T) - 1 /\ Cardinality(T) \in Nat
    BY <1>1, <2>1, FS_RemoveElement, FS_CardinalityType
  <2> QED BY <1>1, <2>3, <2>4, <2>6, <2>7
<1> QED BY <1>2, <1>3

LEMMA Limits ==
  /\ MaxSessions \in Nat \ {0} /\ SessionTtl \in Nat \ {0} /\ MaxFailures \in Nat \ {0}
  /\ Window \in Nat \ {0} /\ BlockFor \in Nat /\ BlockFor >= Window
  /\ Most \in Nat /\ Most = 2 * (MaxFailures - 1)
  BY PanelAssumption DEF Most

-----------------------------------------------------------------------------
\* The sessions.
Issues == [at : Nat, ended : BOOLEAN]

LEMMA LoginKeeps ==
  ASSUME Kept, NEW ip, Login(ip)
  PROVE  Kept'
<1> DEFINE n == Len(issued)
           token == n + 1
<1>1. /\ now \in Nat /\ now' = now /\ issued \in Seq(Issues) /\ n \in Nat
      /\ DOMAIN issued = 1..n
  BY DEF Kept, Login, Issues
<1>2. issued' = Append(issued, [at |-> now, ended |-> FALSE])
  BY DEF Login
<1>3. /\ issued' \in Seq(Issues) /\ Len(issued') = n + 1 /\ DOMAIN issued' = 1..(n + 1)
      /\ \A t \in 1..n : issued'[t] = issued[t]
      /\ issued'[n + 1] = [at |-> now, ended |-> FALSE]
  BY <1>1, <1>2 DEF Issues
<1>4. PICK P : P = Pruned
  OBVIOUS
<1>5. sessions' = [t \in P \cup {token} |-> IF t = token THEN now + SessionTtl ELSE sessions[t]]
  BY <1>4 DEF Login
<1>6. /\ Live \subseteq DOMAIN sessions /\ P \subseteq Live /\ DOMAIN sessions \subseteq 1..n
      /\ Live \in SUBSET Nat /\ IsFiniteSet(Live)
  <2>1. DOMAIN sessions \subseteq 1..n /\ Live \subseteq DOMAIN sessions /\ P \subseteq Live
    BY <1>1, <1>4 DEF Kept, Live, Pruned
  <2>2. IsFiniteSet(1..n)
    BY <1>1, FS_Interval
  <2> QED BY <2>1, <2>2, FS_Subset
<1>7. IsFiniteSet(P) /\ Cardinality(P) <= MaxSessions - 1
  <2>1. PICK m \in Nat : m = MaxSessions - 1
    BY Limits
  <2>2. PICK S \in SUBSET Nat : S = Live
    BY <1>6
  <2>3. P = {t \in S : Cardinality({u \in S : u > t}) < m}
    BY <1>4, <2>1, <2>2 DEF Pruned
  <2>4. IsFiniteSet(S)
    BY <1>6, <2>2
  <2>5. IsFiniteSet(P) /\ Cardinality(P) <= m
    BY <2>3, <2>4, FewLargest
  <2> QED BY <2>1, <2>5
<1> HIDE DEF n, token
<1>8. DOMAIN sessions' = P \cup {token} /\ sessions' = [t \in DOMAIN sessions' |-> sessions'[t]]
  BY <1>5
<1>9. Cardinality(DOMAIN sessions') <= MaxSessions
  <2>1. IsFiniteSet(P) /\ IsFiniteSet(P \cup {token})
    BY <1>7, FS_AddElement
  <2>2. Cardinality(P \cup {token}) = IF token \in P THEN Cardinality(P) ELSE Cardinality(P) + 1
    BY <1>7, FS_AddElement
  <2>3. Cardinality(P) \in Nat
    BY <2>1, FS_CardinalityType
  <2>4. Cardinality(P \cup {token}) <= Cardinality(P) + 1 /\ Cardinality(P \cup {token}) \in Nat
    BY <2>2, <2>3
  <2> QED BY <1>7, <1>8, <2>3, <2>4, Limits
<1>10. DOMAIN sessions' \subseteq DOMAIN issued'
  BY <1>1, <1>3, <1>6, <1>8 DEF token
<1>11. ASSUME NEW t \in DOMAIN sessions'
       PROVE  sessions'[t] = issued'[t].at + SessionTtl /\ ~issued'[t].ended
  <2>1. CASE t = token
    BY <1>1, <1>3, <1>5, <1>8, <2>1 DEF token
  <2>2. CASE t # token
    <3>1. t \in DOMAIN sessions /\ t \in 1..n /\ sessions'[t] = sessions[t]
      BY <1>5, <1>6, <1>8, <2>2
    <3> QED BY <1>3, <3>1 DEF Kept
  <2> QED BY <2>1, <2>2
<1>12. ASSUME NEW t \in DOMAIN issued', ~issued'[t].ended, issued'[t].at + SessionTtl > now',
              Len(issued') - t < MaxSessions
       PROVE  t \in DOMAIN sessions'
  <2>1. CASE t = token
    BY <1>8, <2>1
  <2>2. CASE t # token
    <3>1. t \in 1..n /\ issued'[t] = issued[t] /\ n - t < MaxSessions - 1
      BY <1>1, <1>3, <1>12, <2>2, Limits DEF token
    <3>2. t \in DOMAIN sessions /\ sessions[t] = issued[t].at + SessionTtl
      <4>1. n - t < MaxSessions
        BY <1>1, <3>1, Limits
      <4> QED BY <1>1, <1>12, <3>1, <4>1 DEF Kept, n
    <3>3. t \in Live
      BY <1>1, <1>12, <3>1, <3>2 DEF Live
    <3>4. PICK U : U = {u \in Live : u > t}
      OBVIOUS
    <3>5. U \subseteq (t + 1)..n
      BY <1>1, <1>6, <3>1, <3>4
    <3>6. IsFiniteSet((t + 1)..n) /\ Cardinality((t + 1)..n) = n - t
      <4>1. t + 1 \in Int /\ n \in Int /\ (t + 1 > n => n - t = 0) /\ n - (t + 1) + 1 = n - t
        BY <1>1, <3>1
      <4> QED BY <4>1, FS_Interval
    <3>7. Cardinality(U) <= n - t /\ Cardinality(U) \in Nat
      BY <3>5, <3>6, FS_Subset, FS_CardinalityType
    <3>8. Cardinality(U) < MaxSessions - 1
      BY <1>1, <3>1, <3>7, Limits
    <3> QED BY <1>4, <1>8, <3>3, <3>4, <3>8 DEF Pruned
  <2> QED BY <2>1, <2>2
<1> QED BY <1>1, <1>3, <1>8, <1>9, <1>10, <1>11, <1>12 DEF Kept, Issues

\* A session that is deleted was expired, or is ended with it.
LEMMA WithoutKeeps ==
  ASSUME Kept, NEW token \in DOMAIN issued, sessions' = Without(token), now' = now,
         \/ token \in DOMAIN sessions \ Live /\ issued' = issued
         \/ issued' = [issued EXCEPT ![token].ended = TRUE]
  PROVE  Kept'
<1> DEFINE n == Len(issued)
<1>1. /\ now \in Nat /\ issued \in Seq(Issues) /\ n \in Nat /\ DOMAIN issued = 1..n
      /\ DOMAIN sessions \subseteq 1..n
  BY DEF Kept, Issues
<1>2. /\ issued' \in Seq(Issues) /\ Len(issued') = n /\ DOMAIN issued' = 1..n
      /\ \A t \in 1..n : issued'[t].at = issued[t].at /\ (t # token => issued'[t] = issued[t])
  <2>1. CASE issued' = issued
    BY <1>1, <2>1
  <2>2. CASE issued' = [issued EXCEPT ![token].ended = TRUE]
    <3>1. issued[token] \in Issues /\ token \in 1..n
      BY <1>1
    <3>2. PICK e : e = [issued[token] EXCEPT !.ended = TRUE]
      OBVIOUS
    <3>3. e \in Issues /\ e.at = issued[token].at /\ e.ended = TRUE
      BY <3>1, <3>2 DEF Issues
    <3>4. issued' = [issued EXCEPT ![token] = e]
      BY <2>2, <3>2
    <3>5. issued' \in [1..n -> Issues] /\ \A t \in 1..n : issued'[t] = IF t = token THEN e ELSE issued[t]
      BY <1>1, <3>1, <3>3, <3>4
    <3> QED BY <1>1, <3>3, <3>5
  <2> QED BY <2>1, <2>2
<1>3. /\ DOMAIN sessions' = DOMAIN sessions \ {token}
      /\ sessions' = [t \in DOMAIN sessions' |-> sessions'[t]]
      /\ \A t \in DOMAIN sessions' : sessions'[t] = sessions[t]
  BY DEF Without, Restrict
<1>4. Cardinality(DOMAIN sessions') <= MaxSessions
  <2>1. IsFiniteSet(DOMAIN sessions)
    <3>1. IsFiniteSet(1..n)
      BY <1>1, FS_Interval
    <3>2. DOMAIN sessions \in SUBSET (1..n)
      BY <1>1
    <3> QED BY <3>1, <3>2, FS_Subset
  <2>2. DOMAIN sessions' \subseteq DOMAIN sessions
    BY <1>3
  <2>3. /\ Cardinality(DOMAIN sessions') <= Cardinality(DOMAIN sessions)
        /\ Cardinality(DOMAIN sessions') \in Nat /\ Cardinality(DOMAIN sessions) \in Nat
    BY <2>1, <2>2, FS_Subset, FS_CardinalityType
  <2> QED BY <2>3, Limits DEF Kept
<1>5. ASSUME NEW t \in DOMAIN sessions'
      PROVE  sessions'[t] = issued'[t].at + SessionTtl /\ ~issued'[t].ended
  <2>1. t \in DOMAIN sessions /\ t # token /\ t \in 1..n
    BY <1>1, <1>3
  <2> QED BY <1>2, <1>3, <2>1 DEF Kept
<1>6. ASSUME NEW t \in DOMAIN issued', ~issued'[t].ended, issued'[t].at + SessionTtl > now',
             Len(issued') - t < MaxSessions
      PROVE  t \in DOMAIN sessions'
  <2>1. t \in 1..n
    BY <1>2
  <2>2. CASE t = token
    <3>1. token \in DOMAIN sessions \ Live /\ issued' = issued
      <4>1. issued' # [issued EXCEPT ![token].ended = TRUE]
        <5>1. issued[token] \in Issues
          BY <1>1
        <5> QED BY <1>1, <1>6, <2>1, <2>2, <5>1 DEF Issues
      <4> QED BY <4>1
    <3>2. sessions[t] = issued[t].at + SessionTtl /\ ~(sessions[t] > now)
      BY <2>2, <3>1 DEF Kept, Live
    <3> QED BY <1>6, <3>1, <3>2
  <2>3. CASE t # token
    <3>1. t \in DOMAIN sessions
      BY <1>1, <1>2, <1>6, <2>1, <2>3 DEF Kept
    <3> QED BY <1>3, <2>3, <3>1
  <2> QED BY <2>2, <2>3
<1> QED BY <1>1, <1>2, <1>3, <1>4, <1>5, <1>6 DEF Kept, Issues

LEMMA RestartKeeps ==
  ASSUME Kept, Restart
  PROVE  Kept'
<1> DEFINE n == Len(issued)
<1>1. /\ now \in Nat /\ now' = now /\ issued \in Seq(Issues) /\ n \in Nat /\ DOMAIN issued = 1..n
  BY DEF Kept, Issues, Restart
<1>2. issued' = [t \in 1..n |-> [issued[t] EXCEPT !.ended = TRUE]]
  BY <1>1 DEF Restart
<1>3. \A t \in 1..n : issued[t] \in Issues
  BY <1>1
<1>4. \A t \in 1..n : issued'[t] \in Issues /\ issued'[t].ended = TRUE
  BY <1>2, <1>3 DEF Issues
<1>5. issued' \in Seq(Issues) /\ DOMAIN issued' = 1..n
  <2>1. issued' \in [1..n -> Issues]
    BY <1>2, <1>4
  <2> QED BY <1>1, <2>1
<1>6. sessions' = <<>>
  BY DEF Restart
<1>7. DOMAIN sessions' = {} /\ sessions' = [t \in DOMAIN sessions' |-> sessions'[t]]
  BY <1>6
<1> QED BY <1>1, <1>4, <1>5, <1>7, FS_EmptySet, Limits DEF Kept, Issues
-----------------------------------------------------------------------------
\* The counts of wrong passwords.
LEMMA YoungestIs ==
  ASSUME NEW g \in Seq(Nat), NEW x \in Nat, NEW n \in Nat \ {0}, Len(g) <= n,
         NEW r, r = Youngest(Append(g, x), n)
  PROVE  /\ r \in Seq(Nat) /\ Len(r) \in Nat \ {0} /\ r[Len(r)] = x
         /\ \E d \in {0, 1} : /\ Len(r) = Len(g) + 1 - d /\ (d = 1 => Len(g) = n)
                              /\ \A i \in 1..(Len(r) - 1) : r[i] = g[i + d] /\ i + d \in 1..Len(g)
         /\ Len(r) <= n
<1>1. PICK a \in Seq(Nat) : a = Append(g, x)
  <2>1. Append(g, x) \in Seq(Nat)
    OBVIOUS
  <2> QED BY <2>1
<1>2. /\ Len(g) \in Nat /\ Len(a) = Len(g) + 1 /\ a[Len(g) + 1] = x
      /\ \A i \in 1..Len(g) : a[i] = g[i]
  BY <1>1
<1>3. CASE Len(g) < n
  <2>1. r = SubSeq(a, 1, Len(a))
    <3>1. ~(Len(a) > n)
      BY <1>2, <1>3
    <3> QED BY <1>1, <3>1 DEF Youngest
  <2>2. r = a
    BY <1>1, <1>2, <2>1
  <2> QED BY <1>1, <1>2, <1>3, <2>2
<1>4. CASE Len(g) = n
  <2>1. r = SubSeq(a, 2, n + 1)
    <3>1. Len(a) > n /\ Len(a) - n + 1 = 2 /\ Len(a) = n + 1
      BY <1>2, <1>4
    <3> QED BY <1>1, <3>1 DEF Youngest
  <2>2. r \in Seq(Nat) /\ Len(r) = n /\ \A i \in 1..n : r[i] = a[i + 1]
    BY <1>1, <1>2, <1>4, <2>1
  <2>3. r[Len(r)] = x
    BY <1>2, <1>4, <2>2
  <2>4. \A i \in 1..(Len(r) - 1) : r[i] = g[i + 1] /\ i + 1 \in 1..Len(g)
    BY <1>2, <1>4, <2>2
  <2> QED BY <1>4, <2>2, <2>3, <2>4
<1> QED BY <1>2, <1>3, <1>4

LEMMA FailedIs ==
  ASSUME now \in Nat, NEW b \in Bucket, b.failures = MaxFailures => b.blockedUntil >= b.resetAt,
         ~(b.blockedUntil > now)
  PROVE  \E f \in 0..(MaxFailures - 1), r \in Nat, u \in Nat :
           /\ Failed(b) = [failures |-> f + 1, resetAt |-> r,
                           blockedUntil |-> IF f + 1 >= MaxFailures THEN now + BlockFor ELSE u]
           /\ ~(u > now)
           /\ \/ b.resetAt <= now /\ f = 0 /\ r = now + Window
              \/ b.failures < MaxFailures /\ b.resetAt > now /\ f = b.failures /\ r = b.resetAt
<1>1. /\ b.failures \in 0..MaxFailures /\ b.resetAt \in Nat /\ b.blockedUntil \in Nat
      /\ b = [failures |-> b.failures, resetAt |-> b.resetAt, blockedUntil |-> b.blockedUntil]
  BY DEF Bucket
<1>2. CASE b.resetAt <= now
  <2>1. Failed(b) = [failures |-> 0 + 1, resetAt |-> now + Window,
                     blockedUntil |-> IF 0 + 1 >= MaxFailures THEN now + BlockFor ELSE 0]
    BY <1>2 DEF Failed, StaleBucket
  <2>2. 0 \in 0..(MaxFailures - 1) /\ now + Window \in Nat /\ 0 \in Nat /\ ~(0 > now)
    BY Limits
  <2> QED BY <1>2, <2>1, <2>2
<1>3. CASE b.resetAt > now
  <2>1. b.failures # MaxFailures
    BY <1>1, <1>3
  <2>2. b.failures \in 0..(MaxFailures - 1) /\ b.failures < MaxFailures
    BY <1>1, <2>1, Limits
  <2>3. ~(b.resetAt <= now)
    BY <1>1, <1>3
  <2>4. Failed(b) = [failures |-> b.failures + 1, resetAt |-> b.resetAt,
                     blockedUntil |-> IF b.failures + 1 >= MaxFailures THEN now + BlockFor
                                      ELSE b.blockedUntil]
    BY <1>1, <2>3 DEF Failed, StaleBucket
  <2> QED BY <1>1, <1>3, <2>2, <2>4
<1> QED BY <1>1, <1>2, <1>3

\* A failure is counted in the bucket, and told unless it blocks the address.
LEMMA FailureCounted ==
  ASSUME now \in Nat, NEW b, NEW g, Budgeted(b, g), NEW b2, b2 = Failed(b),
         NEW g2, g2 = IF b2.blockedUntil > now THEN g ELSE Youngest(Append(g, now), Most + 1)
  PROVE  Budgeted(b2, g2)
<1>1. /\ b \in Bucket /\ g \in Seq(Nat) /\ Len(g) <= Most + 1 /\ Len(g) \in Nat
      /\ b.failures = MaxFailures => b.blockedUntil >= b.resetAt
  BY DEF Budgeted
<1>2. CASE b.blockedUntil > now
  <2>1. b2 = b
    BY <1>2 DEF Failed
  <2> QED BY <1>2, <2>1
<1>3. CASE ~(b.blockedUntil > now)
  <2>1. PICK f \in 0..(MaxFailures - 1), r \in Nat, u \in Nat :
           /\ b2 = [failures |-> f + 1, resetAt |-> r,
                    blockedUntil |-> IF f + 1 >= MaxFailures THEN now + BlockFor ELSE u]
           /\ ~(u > now)
           /\ \/ b.resetAt <= now /\ f = 0 /\ r = now + Window
              \/ b.failures < MaxFailures /\ b.resetAt > now /\ f = b.failures /\ r = b.resetAt
    BY <1>1, <1>3, FailedIs
  <2>2. f + 1 \in 0..MaxFailures /\ f \in Nat /\ b.resetAt \in Nat /\ b.failures \in 0..MaxFailures
    BY <1>1, Limits DEF Bucket
  <2>3. b2.failures = f + 1 /\ b2.resetAt = r
    BY <2>1
  <2>4. PICK k \in Nat : k = Told(b)
    BY <2>2, Limits DEF Told
  <2>5. k <= MaxFailures - 1 /\ (b.failures < MaxFailures => k = b.failures)
    BY <2>2, <2>4, Limits DEF Told
  <2>6. /\ \A i \in 1..Len(g) : g[i] <= now
        /\ k = 0 => Len(g) = 0
        /\ k > 0 => Len(g) > 0 /\ g[Len(g)] + Window >= b.resetAt
        /\ \A i \in 1..Len(g) :
             /\ i <= Len(g) - k => g[i] + Window <= b.resetAt
             /\ i <= Len(g) - k - (MaxFailures - 1) => g[i] + 2 * Window <= b.resetAt
    BY <2>4 DEF Budgeted
  \* What is so of the guesses told until now, by the bucket that counts this one.
  <2>7. /\ f > 0 => Len(g) > 0 /\ g[Len(g)] + Window >= r
        /\ \A i \in 1..Len(g) :
             /\ i <= Len(g) - f => g[i] + Window <= r
             /\ i <= Len(g) - f - (MaxFailures - 1) => g[i] + 2 * Window <= r
        /\ r <= now + Window
    <3>1. CASE b.resetAt <= now /\ f = 0 /\ r = now + Window
      <4>1. ASSUME NEW i \in 1..Len(g)
            PROVE  /\ g[i] + Window <= r
                   /\ i <= Len(g) - (MaxFailures - 1) => g[i] + 2 * Window <= r
        <5>1. g[i] \in Nat /\ g[i] <= now
          BY <1>1, <2>6
        <5>2. i <= Len(g) - (MaxFailures - 1) => i <= Len(g) - k
          BY <1>1, <2>5, Limits
        <5>3. i <= Len(g) - (MaxFailures - 1) => g[i] + Window <= b.resetAt
          BY <2>6, <5>2
        <5> QED BY <2>2, <3>1, <5>1, <5>3, Limits
      <4> QED BY <1>1, <3>1, <4>1, Limits
    <3>2. CASE b.failures < MaxFailures /\ b.resetAt > now /\ f = b.failures /\ r = b.resetAt
      <4>1. k = f
        BY <2>5, <3>2
      <4>2. r <= now + Window
        BY <3>2 DEF Budgeted
      <4> QED BY <2>6, <3>2, <4>1, <4>2
    <3> QED BY <2>1, <3>1, <3>2
  <2>8. b2 \in Bucket /\ b2.resetAt <= now + Window
    <3>1. (IF f + 1 >= MaxFailures THEN now + BlockFor ELSE u) \in Nat
      BY Limits
    <3> QED BY <2>1, <2>2, <2>3, <2>7, <3>1 DEF Bucket
  <2>9. CASE f + 1 >= MaxFailures
    <3>1. b2.blockedUntil = now + BlockFor
      BY <2>1, <2>9
    <3>2. b2.blockedUntil > now /\ b2.blockedUntil >= b2.resetAt
      BY <2>3, <2>7, <3>1, Limits
    <3>3. g2 = g /\ f = MaxFailures - 1
      BY <2>2, <2>9, <3>2, Limits
    <3>4. Told(b2) = f
      BY <2>3, <2>9, <3>3, Limits DEF Told
    <3>5. f = 0 => Len(g) = 0
      <4>1. f = 0 => MaxFailures = 1
        BY <3>3, Limits
      <4>2. MaxFailures = 1 => k = 0
        BY <2>5
      <4> QED BY <2>6, <4>1, <4>2
    <3> QED BY <1>1, <2>3, <2>6, <2>7, <2>8, <3>2, <3>3, <3>4, <3>5 DEF Budgeted
  <2>10. CASE ~(f + 1 >= MaxFailures)
    <3>1. b2.blockedUntil = u /\ ~(b2.blockedUntil > now)
      BY <2>1, <2>10
    <3>2. g2 = Youngest(Append(g, now), Most + 1) /\ b2.failures # MaxFailures
      BY <2>2, <2>3, <2>10, <3>1, Limits
    <3>3. Told(b2) = f + 1
      BY <2>2, <2>3, <2>10, Limits DEF Told
    <3>0. PICK n \in Nat \ {0} : n = Most + 1
      <4>1. Most + 1 \in Nat \ {0}
        BY Limits
      <4> QED BY <4>1
    <3>a. PICK x \in Nat : x = now
      OBVIOUS
    <3>b. Len(g) <= n /\ g2 = Youngest(Append(g, x), n)
      BY <1>1, <3>0, <3>2, <3>a
    <3>c. /\ g2 \in Seq(Nat) /\ Len(g2) \in Nat \ {0} /\ g2[Len(g2)] = x
          /\ \E d \in {0, 1} : /\ Len(g2) = Len(g) + 1 - d /\ (d = 1 => Len(g) = n)
                               /\ \A i \in 1..(Len(g2) - 1) : g2[i] = g[i + d] /\ i + d \in 1..Len(g)
          /\ Len(g2) <= n
      BY <1>1, <3>b, YoungestIs
    <3>4. /\ g2 \in Seq(Nat) /\ Len(g2) \in Nat \ {0} /\ g2[Len(g2)] = now
          /\ Len(g2) <= Most + 1
      BY <3>0, <3>a, <3>c
    <3>5. PICK d \in {0, 1} : /\ Len(g2) = Len(g) + 1 - d
                             /\ \A i \in 1..(Len(g2) - 1) : g2[i] = g[i + d] /\ i + d \in 1..Len(g)
      BY <3>c
    <3>6. ASSUME NEW i \in 1..Len(g2)
          PROVE  /\ g2[i] <= now
                 /\ i <= Len(g2) - (f + 1) => g2[i] + Window <= r
                 /\ i <= Len(g2) - (f + 1) - (MaxFailures - 1) => g2[i] + 2 * Window <= r
      <4>1. CASE i = Len(g2)
        <5>1. ~(i <= Len(g2) - (f + 1)) /\ ~(i <= Len(g2) - (f + 1) - (MaxFailures - 1))
          BY <2>2, <3>4, <4>1, Limits
        <5> QED BY <3>4, <4>1, <5>1
      <4>2. CASE i # Len(g2)
        <5>1. i \in 1..(Len(g2) - 1)
          BY <3>4, <4>2
        <5>2. g2[i] = g[i + d] /\ i + d \in 1..Len(g)
          BY <3>5, <5>1
        <5>3. i <= Len(g2) - (f + 1) => i + d <= Len(g) - f
          BY <1>1, <2>2, <3>5
        <5>4. i <= Len(g2) - (f + 1) - (MaxFailures - 1) => i + d <= Len(g) - f - (MaxFailures - 1)
          BY <1>1, <2>2, <3>5, Limits
        <5> QED BY <2>6, <2>7, <5>2, <5>3, <5>4
      <4> QED BY <4>1, <4>2
    <3>7. g2[Len(g2)] + Window >= r
      BY <2>7, <3>4
    <3> QED BY <2>2, <2>3, <2>8, <3>2, <3>3, <3>4, <3>6, <3>7 DEF Budgeted
  <2> QED BY <2>9, <2>10
<1> QED BY <1>2, <1>3
LEMMA NothingCounted ==
  ASSUME now \in Nat
  PROVE  Budgeted(NoBucket, <<>>)
<1>1. NoBucket \in Bucket /\ Told(NoBucket) = 0 /\ NoBucket.resetAt = 0 /\ NoBucket.failures = 0
  BY Limits DEF NoBucket, Bucket, Told
<1>2. <<>> \in Seq(Nat) /\ Len(<<>>) = 0 /\ 1..0 = {}
  OBVIOUS
<1> QED BY <1>1, <1>2, Limits DEF Budgeted

LEMMA TimePasses ==
  ASSUME now \in Nat, now' = now \/ now' = now + 1, NEW b, NEW g, Budgeted(b, g)
  PROVE  Budgeted(b, g)'
<1>1. b.resetAt \in Nat /\ \A i \in 1..Len(g) : g[i] \in Nat
  BY DEF Budgeted, Bucket
<1>2. b.resetAt <= now' + Window
  BY <1>1, Limits DEF Budgeted
<1>3. \A i \in 1..Len(g) : g[i] <= now'
  BY <1>1 DEF Budgeted
<1> QED BY <1>2, <1>3 DEF Budgeted

LEMMA CountsStay ==
  ASSUME Counts, now \in Nat, now' = now \/ now' = now + 1, buckets' = buckets, guesses' = guesses
  PROVE  Counts'
<1>1. \A ip \in Ips : Budgeted(buckets[ip], guesses[ip])'
  <2> SUFFICES ASSUME NEW ip \in Ips PROVE Budgeted(buckets[ip], guesses[ip])'
    OBVIOUS
  <2>1. PICK b, g : b = buckets[ip] /\ g = guesses[ip]
    OBVIOUS
  <2>2. Budgeted(b, g)
    BY <2>1 DEF Counts
  <2>3. Budgeted(b, g)'
    BY <2>2, TimePasses
  <2> QED BY <2>1, <2>3 DEF Budgeted
<1> QED BY <1>1 DEF Counts

\* One address's bucket and guesses change, to a pair that is in order.
LEMMA CountsChange ==
  ASSUME Counts, now \in Nat, now' = now, NEW ip \in Ips, NEW b, NEW g, Budgeted(b, g),
         buckets' = [buckets EXCEPT ![ip] = b], guesses' = [guesses EXCEPT ![ip] = g]
  PROVE  Counts'
<1>1. /\ DOMAIN buckets = Ips /\ DOMAIN guesses = Ips
      /\ \A i \in Ips : Budgeted(buckets[i], guesses[i])
  BY DEF Counts
<1>2. /\ buckets' = [i \in Ips |-> buckets'[i]] /\ guesses' = [i \in Ips |-> guesses'[i]]
      /\ buckets'[ip] = b /\ guesses'[ip] = g
      /\ \A i \in Ips \ {ip} : buckets'[i] = buckets[i] /\ guesses'[i] = guesses[i]
  BY <1>1
<1>3. ASSUME NEW i \in Ips PROVE Budgeted(buckets'[i], guesses'[i])
  <2>1. CASE i = ip
    BY <1>2, <2>1
  <2>2. CASE i # ip
    BY <1>1, <1>2, <2>2
  <2> QED BY <2>1, <2>2
<1>4. \A i \in Ips : Budgeted(buckets[i], guesses[i])'
  BY <1>3 DEF Budgeted
<1> QED BY <1>2, <1>4 DEF Counts

LEMMA WelcomeKeeps ==
  ASSUME Counts, now \in Nat, now' = now, NEW ip \in Ips, Welcome(ip)
  PROVE  Counts'
<1>1. PICK b, g : b = NoBucket /\ g = <<>>
  OBVIOUS
<1>2. Budgeted(b, g)
  BY <1>1, NothingCounted
<1>3. buckets' = [buckets EXCEPT ![ip] = b] /\ guesses' = [guesses EXCEPT ![ip] = g]
  BY <1>1 DEF Welcome
<1> QED BY <1>2, <1>3, CountsChange

LEMMA RefuseKeeps ==
  ASSUME Counts, now \in Nat, NEW ip \in Ips, Refuse(ip)
  PROVE  Counts'
<1>1. PICK b, g : b = buckets[ip] /\ g = guesses[ip]
  OBVIOUS
<1>2. PICK b2 : b2 = Failed(b)
  OBVIOUS
<1>3. PICK g2 : g2 = IF b2.blockedUntil > now THEN g ELSE Youngest(Append(g, now), Most + 1)
  OBVIOUS
<1>4. Budgeted(b2, g2)
  BY <1>1, <1>2, <1>3, FailureCounted DEF Counts
<1>5. /\ now' = now /\ buckets' = [buckets EXCEPT ![ip] = b2]
      /\ guesses' = [guesses EXCEPT ![ip] =
                       IF b2.blockedUntil > now THEN @ ELSE Youngest(Append(@, now), Most + 1)]
  BY <1>1, <1>2 DEF Refuse
<1>6. guesses' = [guesses EXCEPT ![ip] = g2]
  BY <1>1, <1>3, <1>5
<1> QED BY <1>4, <1>5, <1>6, CountsChange

LEMMA KeptStays ==
  ASSUME Kept, now' = now \/ now' = now + 1, sessions' = sessions, issued' = issued
  PROVE  Kept'
<1>1. ASSUME NEW t \in DOMAIN issued, ~issued[t].ended, issued[t].at + SessionTtl > now',
             Len(issued) - t < MaxSessions
      PROVE  t \in DOMAIN sessions
  <2>1. issued[t].at \in Nat /\ now \in Nat
    <3>1. issued \in Seq(Issues) /\ now \in Nat
      BY DEF Kept, Issues
    <3>2. issued[t] \in Issues
      BY <3>1
    <3> QED BY <3>1, <3>2 DEF Issues
  <2>2. issued[t].at + SessionTtl > now
    BY <1>1, <2>1, Limits
  <2> QED BY <1>1, <2>2 DEF Kept
<1>2. now' \in Nat
  BY DEF Kept
<1> QED BY <1>1, <1>2 DEF Kept

LEMMA PNextKeeps == PInv /\ [Next]_vars => PInv'
<1> SUFFICES ASSUME PInv, [Next]_vars PROVE Kept' /\ Counts'
  BY DEF PInv, Counts
<1>0. Kept /\ Counts /\ now \in Nat
  BY DEF PInv, Counts, Kept
<1>1. ASSUME NEW ip \in Ips, Login(ip) PROVE Kept' /\ Counts'
  <2>1. Welcome(ip) /\ now' = now
    BY <1>1 DEF Login
  <2> QED BY <1>0, <1>1, <2>1, LoginKeeps, WelcomeKeeps
<1>2. ASSUME NEW ip \in Ips, Refuse(ip) PROVE Kept' /\ Counts'
  <2>1. now' = now /\ sessions' = sessions /\ issued' = issued
    BY <1>2 DEF Refuse
  <2> QED BY <1>0, <1>2, <2>1, KeptStays, RefuseKeeps
<1>3. ASSUME NEW ip \in Ips, NEW token \in DOMAIN issued, Visit(ip, token) PROVE Kept' /\ Counts'
  <2>1. Welcome(ip) /\ now' = now /\ sessions' = sessions /\ issued' = issued
    BY <1>3 DEF Visit
  <2> QED BY <1>0, <2>1, KeptStays, WelcomeKeeps
<1>4. ASSUME NEW ip \in Ips, NEW token \in DOMAIN issued, Logout(ip, token) PROVE Kept' /\ Counts'
  <2>1. /\ Welcome(ip) /\ now' = now /\ sessions' = Without(token)
        /\ issued' = [issued EXCEPT ![token].ended = TRUE]
    BY <1>4 DEF Logout
  <2> QED BY <1>0, <2>1, WithoutKeeps, WelcomeKeeps
<1>5. ASSUME NEW ip \in Ips, NEW token \in DOMAIN issued, NEW c, NEW job, Submit(ip, token, c, job)
      PROVE  Kept' /\ Counts'
  <2>1. Welcome(ip) /\ now' = now /\ sessions' = sessions /\ issued' = issued
    BY <1>5 DEF Submit
  <2> QED BY <1>0, <2>1, KeptStays, WelcomeKeeps
<1>6. ASSUME NEW token \in DOMAIN issued, Expired(token) PROVE Kept' /\ Counts'
  <2>1. /\ now' = now /\ sessions' = Without(token) /\ issued' = issued
        /\ token \in DOMAIN sessions \ Live /\ buckets' = buckets /\ guesses' = guesses
    BY <1>6 DEF Expired
  <2> QED BY <1>0, <2>1, WithoutKeeps, CountsStay
<1>7. CASE Restart
  <2>1. /\ now' = now /\ buckets' = [ip \in Ips |-> NoBucket] /\ guesses' = [ip \in Ips |-> <<>>]
    BY <1>7 DEF Restart
  <2>2. \A ip \in Ips : Budgeted(buckets[ip], guesses[ip])'
    <3>1. Budgeted(NoBucket, <<>>)
      BY <1>0, NothingCounted
    <3> QED BY <2>1, <3>1 DEF Budgeted
  <2>3. Counts'
    BY <2>1, <2>2 DEF Counts
  <2> QED BY <1>0, <1>7, <2>3, RestartKeeps
<1>8. CASE now' \in {now, now + 1} /\ UNCHANGED panel
  BY <1>0, <1>8, KeptStays, CountsStay DEF panel
<1>9. Tick \/ (Statement /\ UNCHANGED <<panel, now>>) \/ UNCHANGED vars
        \/ (\E c, jobs : RunScript(c, jobs)) => now' \in {now, now + 1} /\ UNCHANGED panel
  BY DEF Tick, RunScript, vars
<1> QED BY <1>1, <1>2, <1>3, <1>4, <1>5, <1>6, <1>7, <1>8, <1>9 DEF Next

LEMMA PInitInv == Init => PInv
<1> SUFFICES ASSUME Init PROVE Kept /\ Counts
  BY DEF PInv, Counts
<1>1. /\ now = 1 /\ sessions = <<>> /\ issued = <<>>
      /\ buckets = [ip \in Ips |-> NoBucket] /\ guesses = [ip \in Ips |-> <<>>]
  BY DEF Init
<1>2. DOMAIN sessions = {} /\ DOMAIN issued = {} /\ issued \in Seq(Issues)
      /\ sessions = [t \in DOMAIN sessions |-> sessions[t]]
  BY <1>1
<1>3. Kept
  BY <1>1, <1>2, FS_EmptySet, Limits DEF Kept, Issues
<1>4. Counts
  BY <1>1, NothingCounted DEF Counts
<1> QED BY <1>3, <1>4

LEMMA PInvImplies == PInv => PanelInv
<1> SUFFICES ASSUME PInv PROVE PanelInv
  OBVIOUS
<1>1. SessionsExact
  <2>1. Cardinality(DOMAIN sessions) <= MaxSessions
    BY DEF PInv, Kept
  <2>2. ASSUME NEW t \in DOMAIN issued
        PROVE  /\ Holds(t) => ~issued[t].ended /\ issued[t].at + SessionTtl > now
               /\ ~issued[t].ended /\ issued[t].at + SessionTtl > now
                  /\ Len(issued) - t < MaxSessions => Holds(t)
    BY DEF PInv, Kept, Holds, Live
  <2> QED BY <2>1, <2>2 DEF SessionsExact
<1>2. GuessBound
  <2> SUFFICES ASSUME NEW ip \in Ips, Len(guesses[ip]) > Most
               PROVE  guesses[ip][Most + 1] - guesses[ip][1] >= Window
    BY DEF GuessBound
  <2>1. PICK b, g : b = buckets[ip] /\ g = guesses[ip]
    OBVIOUS
  <2>2. Budgeted(b, g)
    BY <2>1 DEF PInv, Counts
  <2>3. /\ g \in Seq(Nat) /\ Len(g) \in Nat /\ Len(g) = Most + 1 /\ b.resetAt \in Nat
        /\ b.failures \in 0..MaxFailures
    <3>1. b \in Bucket /\ g \in Seq(Nat) /\ Len(g) <= Most + 1
      BY <2>2 DEF Budgeted
    <3>2. b.resetAt \in Nat /\ b.failures \in 0..MaxFailures
      BY <3>1 DEF Bucket
    <3>3. Len(g) \in Nat
      BY <3>1
    <3>4. Len(g) > Most
      BY <2>1
    <3>5. Len(g) = Most + 1
      BY <3>1, <3>3, <3>4, Limits
    <3> QED BY <3>1, <3>2, <3>3, <3>5
  <2>4. Told(b) \in 0..(MaxFailures - 1)
    BY <2>3, Limits DEF Told
  <2>5. Told(b) # 0 /\ Told(b) > 0
    BY <2>2, <2>3, <2>4, Limits DEF Budgeted
  <2>6. g[Len(g)] + Window >= b.resetAt
    BY <2>2, <2>5 DEF Budgeted
  <2>7. 1 \in 1..Len(g) /\ 1 <= Len(g) - Told(b) - (MaxFailures - 1)
    BY <2>3, <2>4, Limits
  <2>8. g[1] + 2 * Window <= b.resetAt
    BY <2>2, <2>7 DEF Budgeted
  <2>9. g[1] \in Nat /\ g[Len(g)] \in Nat
    BY <2>3, <2>7
  <2>10. g[Len(g)] - g[1] >= Window
    <3>1. PICK x, y, r : x = g[1] /\ y = g[Len(g)] /\ r = b.resetAt
      OBVIOUS
    <3>2. x \in Nat /\ y \in Nat /\ r \in Nat /\ y + Window >= r /\ x + 2 * Window <= r
      BY <2>3, <2>6, <2>8, <2>9, <3>1
    <3>3. y - x >= Window
      BY <3>2, Limits
    <3> QED BY <3>1, <3>3
  <2> QED BY <2>1, <2>3, <2>10
<1> QED BY <1>1, <1>2 DEF PanelInv
-----------------------------------------------------------------------------
\* The transactions of the whitelist.
LEMMA JobTypes ==
  ASSUME NEW job \in Jobs
  PROVE  /\ job.phone \in Phones /\ job.active \in BOOLEAN
         /\ job.kind \in {"upsert", "activate"}
         /\ job.kind = "upsert" => job.role \in FormRoles /\ job.grants \in FormGrants
<1>1. CASE \E phone \in Phones, form \in Forms : job = Upsert(phone, form)
  <2>1. PICK phone \in Phones, form \in Forms : job = Upsert(phone, form)
    BY <1>1
  <2>2. /\ job.phone = phone /\ job.active = TRUE /\ job.kind = "upsert"
        /\ job.role = form.role /\ job.grants = form.grants
    BY <2>1 DEF Upsert
  <2>3. form.role \in FormRoles /\ form.grants \in FormGrants
    BY DEF FormRoles, FormGrants
  <2> QED BY <2>2, <2>3
<1>2. CASE \E phone \in Phones, active \in BOOLEAN : job = Activation(phone, active)
  <2>1. PICK phone \in Phones, active \in BOOLEAN : job = Activation(phone, active)
    BY <1>2
  <2>2. job.phone = phone /\ job.active = active /\ job.kind = "activate"
    BY <2>1 DEF Activation
  <2> QED BY <2>2
<1> QED BY <1>1, <1>2 DEF Jobs

LEMMA IdleIsFine ==
  /\ Own(IdleTx)
  /\ \A u : Apart(IdleTx, u)
<1>1. /\ IdleTx.pc = "idle" /\ IdleTx.jobs = <<>> /\ IdleTx.found = 0 /\ IdleTx.locks = {}
      /\ IdleTx.pending = <<>> /\ IdleTx.log = <<>>
      /\ IdleTx = [pc |-> "idle", jobs |-> <<>>, found |-> 0, locks |-> {}, pending |-> <<>>, log |-> <<>>]
  BY DEF IdleTx
<1>2. DOMAIN IdleTx.pending = {} /\ DOMAIN IdleTx.log = {} /\ DOMAIN IdleTx.jobs = {}
  BY <1>1
<1>3. Table(IdleTx.pending)
  <2>1. IdleTx.pending \in [{} -> Row]
    BY <1>1, <1>2
  <2> QED BY <1>2, <2>1, FS_EmptySet DEF Table
<1>4. TxType(IdleTx)
  BY <1>1, <1>3 DEF TxType
<1>5. Own(IdleTx)
  BY <1>1, <1>2, <1>4 DEF Own, Planned, Locked, SamePhones, Aimed, Logged, Truthful, ValidRows
<1>6. \A u : Apart(IdleTx, u)
  BY <1>1, <1>2 DEF Apart
<1> QED BY <1>5, <1>6

LEMMA ApartIsMutual ==
  ASSUME NEW t, NEW u, Apart(t, u)
  PROVE  Apart(u, t)
  BY DEF Apart

LEMMA OwnStays ==
  ASSUME NEW t, rows' = rows
  PROVE  /\ Own(t) => Own(t)'
         /\ \A u : Apart(t, u) => Apart(t, u)'
<1>1. Own(t) => Own(t)'
  BY DEF Own, Planned, Locked, SamePhones, Aimed, RowOf, Logged, Truthful, Agrees, LastAbout, ValidRows,
         TxType, Table, Valid
<1>2. \A u : Apart(t, u) => Apart(t, u)'
  BY DEF Apart
<1> QED BY <1>1, <1>2

\* A statement of one transaction, which changes nothing that is committed.
LEMMA ClientStep ==
  ASSUME WInv, NEW c \in Clients, rows' = rows, said' = said, NEW t, Own(t),
         tx' = [tx EXCEPT ![c] = t],
         \A d \in Clients \ {c} : Apart(t, tx[d])
  PROVE  WInv'
<1>1. /\ tx' = [d \in Clients |-> tx'[d]] /\ tx'[c] = t
      /\ \A d \in Clients \ {c} : tx'[d] = tx[d]
  BY DEF WInv
<1>2. \A d \in Clients : Own(tx'[d])
  BY <1>1 DEF WInv
<1>3. \A d \in Clients : Own(tx[d])'
  <2> SUFFICES ASSUME NEW d \in Clients PROVE Own(tx[d])'
    OBVIOUS
  <2>1. PICK u : u = tx'[d]
    OBVIOUS
  <2>2. Own(u)'
    BY <1>2, <2>1, OwnStays
  <2> QED BY <2>1, <2>2
<1>4. \A d, e \in Clients : d # e => Apart(tx'[d], tx'[e])
  BY <1>1, ApartIsMutual DEF WInv
<1>5. \A d, e \in Clients : d # e => Apart(tx[d], tx[e])'
  <2> SUFFICES ASSUME NEW d \in Clients, NEW e \in Clients, d # e PROVE Apart(tx[d], tx[e])'
    OBVIOUS
  <2>1. PICK u, v : u = tx'[d] /\ v = tx'[e]
    OBVIOUS
  <2>2. Apart(u, v)'
    BY <1>4, <2>1, OwnStays
  <2> QED BY <2>1, <2>2
<1>6. Table(rows)' /\ WhitelistInv'
  BY DEF WInv, Table, WhitelistInv, OneUserPerPhone, Audited, ExploreNeedsRole, Valid
<1> QED BY <1>1, <1>3, <1>5, <1>6 DEF WInv

LEMMA RollbackKeeps ==
  ASSUME WInv, NEW c \in Clients, rows' = rows, said' = said, Rollback(c)
  PROVE  WInv'
<1>1. PICK t : t = IdleTx
  OBVIOUS
<1>2. tx' = [tx EXCEPT ![c] = t] /\ Own(t) /\ \A u : Apart(t, u)
  BY <1>1, IdleIsFine DEF Rollback
<1> QED BY <1>2, ClientStep

LEMMA BeginKeeps ==
  ASSUME WInv, NEW c \in Clients, NEW jobs \in Seq(Jobs) \ {<<>>}, Begin(c, jobs),
         \/ \A i \in DOMAIN jobs : jobs[i].kind = "upsert"
         \/ Len(jobs) = 1 /\ jobs[1].kind = "activate"
  PROVE  WInv'
<1>1. PICK t : t = Started(jobs)
  OBVIOUS
<1>2. PICK p \in {"lookup", "write"} : p = IF jobs[1].kind = "upsert" THEN "lookup" ELSE "write"
  OBVIOUS
<1>3. /\ t = [pc |-> p, jobs |-> jobs, found |-> 0, locks |-> {}, pending |-> <<>>, log |-> <<>>]
      /\ t.pc = p /\ t.jobs = jobs /\ t.found = 0 /\ t.locks = {} /\ t.pending = <<>> /\ t.log = <<>>
  BY <1>1, <1>2 DEF Started, IdleTx
<1>4. DOMAIN t.pending = {} /\ DOMAIN t.log = {} /\ Table(t.pending)
  <2>1. t.pending \in [{} -> Row] /\ DOMAIN t.pending = {} /\ DOMAIN t.log = {}
    BY <1>3
  <2> QED BY <2>1, FS_EmptySet DEF Table
<1>5. TxType(t)
  BY <1>3, <1>4 DEF TxType
<1>6. Planned(t)
  <2>1. \A i \in DOMAIN jobs : jobs[i].kind = "upsert" => Valid(jobs[i])
    BY DEF Begin
  <2> QED BY <1>2, <1>3, <2>1 DEF Planned
<1>7. Own(t)
  BY <1>2, <1>3, <1>4, <1>5, <1>6 DEF Own, Locked, SamePhones, Aimed, Logged, Truthful, ValidRows
<1>8. \A u : Apart(t, u)
  BY <1>3, <1>4 DEF Apart
<1>9. tx' = [tx EXCEPT ![c] = t] /\ rows' = rows /\ said' = said
  BY <1>1 DEF Begin
<1> QED BY <1>7, <1>8, <1>9, ClientStep

\* What a statement sees.
LEMMA Seen ==
  ASSUME WInv, NEW c \in Clients, NEW t, t = tx[c]
  PROVE  /\ Own(t) /\ TxType(t)
         /\ DOMAIN View(c) = DOMAIN rows \cup DOMAIN t.pending /\ DOMAIN View(c) \subseteq Ids
         /\ \A id \in DOMAIN View(c) : View(c)[id] = RowOf(t, id) /\ RowOf(t, id) \in Row
         /\ Job(c) = t.jobs[1]
         /\ Matching(c) = {id \in DOMAIN rows \cup DOMAIN t.pending : RowOf(t, id).phone = t.jobs[1].phone}
<1>1. Own(t) /\ TxType(t)
  BY DEF WInv, Own
<1>2. /\ DOMAIN View(c) = DOMAIN rows \cup DOMAIN t.pending
      /\ \A id \in DOMAIN View(c) : View(c)[id] = RowOf(t, id)
  BY DEF View, RowOf
<1>3. DOMAIN rows \cup DOMAIN t.pending \subseteq Ids
      /\ \A id \in DOMAIN rows \cup DOMAIN t.pending : RowOf(t, id) \in Row
  BY <1>1 DEF WInv, Table, TxType, RowOf
<1>4. Job(c) = t.jobs[1]
  BY DEF Job
<1> QED BY <1>1, <1>2, <1>3, <1>4 DEF Matching

LEMMA Txs == WInv => tx = [d \in Clients |-> tx[d]]
  BY DEF WInv

LEMMA TxRecord ==
  ASSUME NEW t, TxType(t)
  PROVE  t = [pc |-> t.pc, jobs |-> t.jobs, found |-> t.found, locks |-> t.locks,
              pending |-> t.pending, log |-> t.log]
  BY DEF TxType

\* What a statement makes of a transaction.
LEMMA MissChanges ==
  ASSUME NEW t, TxType(t), NEW p, NEW n
  PROVE  [t EXCEPT !.pc = p, !.found = n]
         = [pc |-> p, jobs |-> t.jobs, found |-> n,
           locks |-> t.locks, pending |-> t.pending, log |-> t.log]
<1>1. PICK a, b, c, d, e, f : /\ a = t.pc /\ b = t.jobs /\ c = t.found
                              /\ d = t.locks /\ e = t.pending /\ f = t.log
  OBVIOUS
<1>2. t = [pc |-> a, jobs |-> b, found |-> c, locks |-> d, pending |-> e, log |-> f]
  BY <1>1, TxRecord
<1>3. PICK t1 : t1 = [t EXCEPT !.pc = p]
  OBVIOUS
<1>4. t1 = [pc |-> p, jobs |-> b, found |-> c,
           locks |-> d, pending |-> e, log |-> f]
  BY <1>2, <1>3
<1>5. PICK t2 : t2 = [t1 EXCEPT !.found = n]
  OBVIOUS
<1>6. t2 = [pc |-> p, jobs |-> b, found |-> n,
           locks |-> d, pending |-> e, log |-> f]
  BY <1>4, <1>5
<1>7. [t EXCEPT !.pc = p, !.found = n] = t2
  BY <1>3, <1>5
<1> QED BY <1>1, <1>6, <1>7

LEMMA HitChanges ==
  ASSUME NEW t, TxType(t), NEW p, NEW n, NEW l
  PROVE  [t EXCEPT !.pc = p, !.found = n, !.locks = l]
         = [pc |-> p, jobs |-> t.jobs, found |-> n,
           locks |-> l, pending |-> t.pending, log |-> t.log]
<1>1. PICK a, b, c, d, e, f : /\ a = t.pc /\ b = t.jobs /\ c = t.found
                              /\ d = t.locks /\ e = t.pending /\ f = t.log
  OBVIOUS
<1>2. t = [pc |-> a, jobs |-> b, found |-> c, locks |-> d, pending |-> e, log |-> f]
  BY <1>1, TxRecord
<1>3. PICK t1 : t1 = [t EXCEPT !.pc = p]
  OBVIOUS
<1>4. t1 = [pc |-> p, jobs |-> b, found |-> c,
           locks |-> d, pending |-> e, log |-> f]
  BY <1>2, <1>3
<1>5. PICK t2 : t2 = [t1 EXCEPT !.found = n]
  OBVIOUS
<1>6. t2 = [pc |-> p, jobs |-> b, found |-> n,
           locks |-> d, pending |-> e, log |-> f]
  BY <1>4, <1>5
<1>7. PICK t3 : t3 = [t2 EXCEPT !.locks = l]
  OBVIOUS
<1>8. t3 = [pc |-> p, jobs |-> b, found |-> n,
           locks |-> l, pending |-> e, log |-> f]
  BY <1>6, <1>7
<1>9. [t EXCEPT !.pc = p, !.found = n, !.locks = l] = t3
  BY <1>3, <1>5, <1>7
<1> QED BY <1>1, <1>8, <1>9

Record(p, j, n, l, w, g) ==
  [pc |-> p, jobs |-> j, found |-> n, locks |-> l, pending |-> w, log |-> g]
Made(t, p, n, l, w) == [t EXCEPT !.pc = p, !.found = n, !.locks = l, !.pending = w]

LEMMA WriteChanges ==
  ASSUME NEW t, TxType(t), NEW p, NEW n, NEW l, NEW w
  PROVE  Made(t, p, n, l, w) = Record(p, t.jobs, n, l, w, t.log)
<1>1. PICK a, b, c, d, e, f : /\ a = t.pc /\ b = t.jobs /\ c = t.found
                              /\ d = t.locks /\ e = t.pending /\ f = t.log
  OBVIOUS
<1>2. t = [pc |-> a, jobs |-> b, found |-> c, locks |-> d, pending |-> e, log |-> f]
  BY <1>1, TxRecord
<1>3. PICK t1 : t1 = [t EXCEPT !.pc = p]
  OBVIOUS
<1>4. t1 = [pc |-> p, jobs |-> b, found |-> c,
           locks |-> d, pending |-> e, log |-> f]
  BY <1>2, <1>3
<1>5. PICK t2 : t2 = [t1 EXCEPT !.found = n]
  OBVIOUS
<1>6. t2 = [pc |-> p, jobs |-> b, found |-> n,
           locks |-> d, pending |-> e, log |-> f]
  BY <1>4, <1>5
<1>7. PICK t3 : t3 = [t2 EXCEPT !.locks = l]
  OBVIOUS
<1>8. t3 = [pc |-> p, jobs |-> b, found |-> n,
           locks |-> l, pending |-> e, log |-> f]
  BY <1>6, <1>7
<1>9. PICK t4 : t4 = [t3 EXCEPT !.pending = w]
  OBVIOUS
<1>10. t4 = [pc |-> p, jobs |-> b, found |-> n,
           locks |-> l, pending |-> w, log |-> f]
  BY <1>8, <1>9
<1>11. [t EXCEPT !.pc = p, !.found = n, !.locks = l, !.pending = w] = t4
  BY <1>3, <1>5, <1>7, <1>9
<1> QED BY <1>1, <1>10, <1>11 DEF Made, Record

LEMMA UpdateChanges ==
  ASSUME NEW t, TxType(t), NEW p, NEW w
  PROVE  [t EXCEPT !.pc = p, !.pending = w]
         = [pc |-> p, jobs |-> t.jobs, found |-> t.found,
           locks |-> t.locks, pending |-> w, log |-> t.log]
<1>1. PICK a, b, c, d, e, f : /\ a = t.pc /\ b = t.jobs /\ c = t.found
                              /\ d = t.locks /\ e = t.pending /\ f = t.log
  OBVIOUS
<1>2. t = [pc |-> a, jobs |-> b, found |-> c, locks |-> d, pending |-> e, log |-> f]
  BY <1>1, TxRecord
<1>3. PICK t1 : t1 = [t EXCEPT !.pc = p]
  OBVIOUS
<1>4. t1 = [pc |-> p, jobs |-> b, found |-> c,
           locks |-> d, pending |-> e, log |-> f]
  BY <1>2, <1>3
<1>5. PICK t2 : t2 = [t1 EXCEPT !.pending = w]
  OBVIOUS
<1>6. t2 = [pc |-> p, jobs |-> b, found |-> c,
           locks |-> d, pending |-> w, log |-> f]
  BY <1>4, <1>5
<1>7. [t EXCEPT !.pc = p, !.pending = w] = t2
  BY <1>3, <1>5
<1> QED BY <1>1, <1>6, <1>7

LEMMA LookupKeeps ==
  ASSUME WInv, NEW c \in Clients, Lookup(c)
  PROVE  WInv'
<1>1. PICK t : t = tx[c]
  OBVIOUS
<1>2. /\ Own(t) /\ TxType(t) /\ t.pc = "lookup" /\ t.jobs # <<>>
      /\ rows' = rows /\ said' = said
      /\ Matching(c) = {id \in DOMAIN rows \cup DOMAIN t.pending : RowOf(t, id).phone = t.jobs[1].phone}
  BY <1>1, Seen DEF Lookup, Own, Planned
<1>3. t.jobs \in Seq(Jobs) /\ t.pending = t.pending /\ DOMAIN rows \subseteq Ids /\ DOMAIN t.pending \subseteq Ids
  BY <1>2 DEF TxType, Table, WInv
<1>4. \A d \in Clients \ {c} : Apart(t, tx[d])
  BY <1>1 DEF WInv
<1>5. CASE Matching(c) = {} /\ tx' = [tx EXCEPT ![c].pc = "write", ![c].found = 0]
  <2>1. PICK t2 : t2 = [pc |-> "write", jobs |-> t.jobs, found |-> 0, locks |-> t.locks,
                        pending |-> t.pending, log |-> t.log]
    OBVIOUS
  <2>2. tx' = [tx EXCEPT ![c] = t2]
    <3>1. tx' = [tx EXCEPT ![c] = [tx[c] EXCEPT !.pc = "write", !.found = 0]]
      BY <1>5, Txs
    <3>2. t2 = [t EXCEPT !.pc = "write", !.found = 0]
      BY <1>2, <2>1, MissChanges
    <3> QED BY <1>1, <3>1, <3>2
  <2>3. /\ t2.pc = "write" /\ t2.jobs = t.jobs /\ t2.found = 0 /\ t2.locks = t.locks
        /\ t2.pending = t.pending /\ t2.log = t.log
    BY <2>1
  <2>4. TxType(t2)
    BY <1>2, <2>1, <2>3 DEF TxType
  <2>5. Planned(t2) /\ Locked(t2) /\ SamePhones(t2) /\ Logged(t2) /\ ValidRows(t2.pending)
    BY <1>2, <2>3 DEF Own, Planned, Locked, SamePhones, Logged
  <2>6. Aimed(t2)
    BY <1>2, <1>5, <2>3 DEF Aimed, RowOf
  <2>7. Truthful(t2)
    BY <1>2, <2>3 DEF Own, Truthful
  <2>8. \A d \in Clients \ {c} : Apart(t2, tx[d])
    BY <1>4, <2>3 DEF Apart
  <2> QED BY <1>2, <2>2, <2>4, <2>5, <2>6, <2>7, <2>8, ClientStep DEF Own
<1>6. ASSUME NEW id \in Matching(c), Free(c, id),
             tx' = [tx EXCEPT ![c].pc = "write", ![c].found = id, ![c].locks = @ \cup {id}]
      PROVE  WInv'
  <2>0. PICK l : l = t.locks \cup {id}
    OBVIOUS
  <2>1. PICK t2 : t2 = [pc |-> "write", jobs |-> t.jobs, found |-> id, locks |-> l,
                        pending |-> t.pending, log |-> t.log]
    OBVIOUS
  <2>2. tx' = [tx EXCEPT ![c] = t2]
    <3>2. tx' = [tx EXCEPT ![c] = [tx[c] EXCEPT !.pc = "write", !.found = id, !.locks = l]]
      BY <1>1, <1>6, <2>0, Txs
    <3>3. t2 = [t EXCEPT !.pc = "write", !.found = id, !.locks = l]
      <4>1. TxType(t)
        BY <1>2
      <4>2. PICK p : p = "write"
        OBVIOUS
      <4>3. [t EXCEPT !.pc = p, !.found = id, !.locks = l]
              = [pc |-> p, jobs |-> t.jobs, found |-> id, locks |-> l, pending |-> t.pending, log |-> t.log]
        BY <4>1, HitChanges
      <4> QED BY <2>1, <4>2, <4>3
    <3> QED BY <1>1, <3>2, <3>3
  <2>3. /\ t2.pc = "write" /\ t2.jobs = t.jobs /\ t2.found = id /\ t2.locks = t.locks \cup {id}
        /\ t2.pending = t.pending /\ t2.log = t.log
    BY <2>0, <2>1
  <2>4. id \in DOMAIN rows \cup DOMAIN t.pending /\ id \in Ids /\ RowOf(t, id).phone = t.jobs[1].phone
    BY <1>2, <1>3, <1>6
  <2>5. TxType(t2)
    <3>1. id \in Nat /\ t.locks \cup {id} \subseteq Ids
      BY <1>2, <2>4 DEF TxType, Ids
    <3> QED BY <1>2, <2>1, <2>3, <3>1 DEF TxType
  <2>6. Planned(t2) /\ Locked(t2) /\ SamePhones(t2) /\ Logged(t2) /\ ValidRows(t2.pending)
    BY <1>2, <2>3, <2>4 DEF Own, Planned, Locked, SamePhones, Logged
  <2>7. Aimed(t2)
    BY <2>3, <2>4 DEF Aimed, RowOf, Ids
  <2>8. Truthful(t2)
    BY <1>2, <2>3 DEF Own, Truthful
  <2>9. \A d \in Clients \ {c} : Apart(t2, tx[d])
    BY <1>4, <1>6, <2>3 DEF Apart, Free
  <2> QED BY <1>2, <2>2, <2>5, <2>6, <2>7, <2>8, <2>9, ClientStep DEF Own
<1> QED BY <1>5, <1>6 DEF Lookup

\* The row keeps its phone number, or is new and has one that no other row has.
SamePhone(t, n, r) == n \in DOMAIN rows \cup DOMAIN t.pending /\ r.phone = RowOf(t, n).phone
NewPhone(c, t, n, r) ==
  /\ n \notin DOMAIN rows \cup DOMAIN t.pending
  /\ \A id \in DOMAIN rows : rows[id].phone # r.phone
  /\ \A id \in DOMAIN t.pending : t.pending[id].phone # r.phone
  /\ \A d \in Clients \ {c} : \A id \in DOMAIN tx[d].pending \ DOMAIN rows :
       tx[d].pending[id].phone # r.phone

Fits(c, t, n, r) ==
  /\ n \in Ids /\ r \in Row /\ Valid(r) /\ Agrees(r, n, t.jobs[1])
  /\ \A d \in Clients \ {c} : n \notin tx[d].locks
  /\ SamePhone(t, n, r) \/ NewPhone(c, t, n, r)

\* w is what the transaction had pending, with r as n's row.
Wrote(t, n, r, w) ==
  /\ DOMAIN w = DOMAIN t.pending \cup {n} /\ w = [id \in DOMAIN w |-> w[id]] /\ w[n] = r
  /\ \A id \in DOMAIN t.pending \ {n} : w[id] = t.pending[id]

\* One row is written: n's, which the transaction has locked or just made.
LEMMA WriteKeeps ==
  ASSUME WInv, NEW c \in Clients, NEW t, t = tx[c], t.pc = "write", rows' = rows, said' = said,
         NEW n, NEW r, Fits(c, t, n, r), NEW w, Wrote(t, n, r, w), NEW l, l = t.locks \cup {n},
         NEW t2, t2 = Record("audit", t.jobs, n, l, w, t.log), tx' = [tx EXCEPT ![c] = t2]
  PROVE  WInv'
<1>0. /\ n \in Ids /\ r \in Row /\ Valid(r) /\ Agrees(r, n, t.jobs[1])
      /\ \A d \in Clients \ {c} : n \notin tx[d].locks
      /\ DOMAIN w = DOMAIN t.pending \cup {n} /\ w = [id \in DOMAIN w |-> w[id]] /\ w[n] = r
      /\ \A id \in DOMAIN t.pending \ {n} : w[id] = t.pending[id]
  BY DEF Fits, Wrote
<1>1. PICK u : u = [pc |-> "audit", jobs |-> t.jobs, found |-> n, locks |-> l, pending |-> w, log |-> t.log]
  OBVIOUS
<1>2. /\ u.pc = "audit" /\ u.jobs = t.jobs /\ u.found = n /\ u.locks = l
      /\ u.pending = w /\ u.log = t.log
  BY <1>1
<1>13. SamePhone(t, n, r) \/ NewPhone(c, t, n, r)
  BY DEF Fits
<1>3. Own(t) /\ TxType(t) /\ Table(t.pending)
  BY <1>0 DEF WInv, Own, TxType
<1>4. Table(w) /\ \A id \in DOMAIN w : w[id] \in Row
  <2>1. DOMAIN w \subseteq Ids /\ IsFiniteSet(DOMAIN w)
    BY <1>0, <1>3, FS_AddElement DEF Table
  <2>2. \A id \in DOMAIN w : w[id] \in Row
    BY <1>0, <1>3 DEF Table
  <2> QED BY <1>0, <2>1, <2>2 DEF Table
<1>5. TxType(u)
  <2>1. n \in Nat /\ l \subseteq Ids
    BY <1>0, <1>3 DEF TxType, Ids
  <2> QED BY <1>1, <1>2, <1>3, <1>4, <2>1 DEF TxType
<1>6. Planned(u) /\ Locked(u) /\ Aimed(u)
  <2>1. Planned(u)
    <3>1. Planned(t)
      BY <1>3 DEF Own
    <3> QED BY <1>2, <3>1 DEF Planned
  <2>2. Locked(u)
    BY <1>0, <1>2, <1>3 DEF Own, Locked
  <2>3. Aimed(u)
    BY <1>0, <1>2 DEF Aimed
  <2> QED BY <2>1, <2>2, <2>3
<1>7. SamePhones(u)
  <2>0. SamePhones(t)
    BY <1>0, <1>3 DEF Own
  <2>1. ASSUME NEW id \in DOMAIN w \cap DOMAIN rows PROVE w[id].phone = rows[id].phone
    BY <1>0, <1>13, <2>0 DEF SamePhones, RowOf, SamePhone, NewPhone
  <2>2. ASSUME NEW id \in DOMAIN w \ DOMAIN rows, NEW q \in DOMAIN rows
        PROVE  rows[q].phone # w[id].phone
    BY <1>0, <1>13, <2>0 DEF SamePhones, RowOf, SamePhone, NewPhone
  <2>3. ASSUME NEW id \in DOMAIN w \ DOMAIN rows, NEW e \in DOMAIN w \ DOMAIN rows,
               w[e].phone = w[id].phone
        PROVE  e = id
    <3>1. CASE SamePhone(t, n, r)
      <4>1. id \in DOMAIN t.pending /\ e \in DOMAIN t.pending
        BY <1>0, <2>3, <3>1 DEF SamePhone
      <4>2. w[id].phone = t.pending[id].phone /\ w[e].phone = t.pending[e].phone
        BY <1>0, <3>1, <4>1 DEF RowOf, SamePhone
      <4> QED BY <2>0, <2>3, <4>1, <4>2 DEF SamePhones
    <3>2. CASE NewPhone(c, t, n, r)
      BY <1>0, <2>0, <2>3, <3>2 DEF SamePhones, NewPhone
    <3> QED BY <1>13, <3>1, <3>2
  <2>4. \A id \in DOMAIN u.pending \cap DOMAIN rows : u.pending[id].phone = rows[id].phone
    BY <1>2, <2>1
  <2>5. \A id \in DOMAIN u.pending \ DOMAIN rows :
          \A q \in DOMAIN rows : rows[q].phone # u.pending[id].phone
    BY <1>2, <2>2
  <2>6. \A id \in DOMAIN u.pending \ DOMAIN rows :
          \A e \in DOMAIN u.pending \ DOMAIN rows :
            u.pending[e].phone = u.pending[id].phone => e = id
    BY <1>2, <2>3
  <2> QED BY <2>4, <2>5, <2>6 DEF SamePhones
<1>8. Logged(u)
  <2>1. DOMAIN w = DOMAIN t.pending \cup {n}
    BY <1>0
  <2>2. DOMAIN t.pending = {t.log[i].id : i \in DOMAIN t.log}
    BY <1>3 DEF Own, Logged
  <2>3. DOMAIN u.pending = {u.log[i].id : i \in DOMAIN u.log} \cup {u.found}
    BY <1>2, <2>1, <2>2
  <2> QED BY <1>2, <2>3 DEF Logged
<1>9. Truthful(u)
  <2>1. Agrees(u.pending[u.found], u.found, u.jobs[1])
    BY <1>0, <1>2
  <2>2. ASSUME NEW i \in DOMAIN u.log, LastAbout(u.log, i), u.log[i].id # u.found
        PROVE  Agrees(u.pending[u.log[i].id], u.log[i].id, u.log[i].job)
    <3>1. Agrees(t.pending[t.log[i].id], t.log[i].id, t.log[i].job)
      BY <1>0, <1>2, <1>3, <2>2 DEF Own, Truthful
    <3>2. t.log[i].id \in DOMAIN t.pending \ {n}
      BY <1>0, <1>2, <1>3, <2>2 DEF Own, Logged
    <3>3. w[t.log[i].id] = t.pending[t.log[i].id]
      BY <1>0, <3>2
    <3> QED BY <1>2, <3>1, <3>3
  <2>3. u.pc = "audit"
    BY <1>2
  <2> QED BY <2>1, <2>2, <2>3 DEF Truthful
<1>10. ValidRows(u.pending)
  BY <1>0, <1>2, <1>3 DEF Own, ValidRows
<1>11. ASSUME NEW d \in Clients \ {c} PROVE Apart(u, tx[d])
  <2>1. Apart(t, tx[d])
    BY <1>0 DEF WInv
  <2>2. u.locks \cap tx[d].locks = {}
    BY <1>0, <1>2, <2>1 DEF Apart
  <2>3. ASSUME NEW id \in DOMAIN w \ DOMAIN rows, NEW e \in DOMAIN tx[d].pending \ DOMAIN rows
        PROVE  w[id].phone # tx[d].pending[e].phone
    BY <1>0, <1>13, <2>1 DEF Apart, RowOf, SamePhone, NewPhone
  <2>4. \A id \in DOMAIN u.pending \ DOMAIN rows, e \in DOMAIN tx[d].pending \ DOMAIN rows :
          u.pending[id].phone # tx[d].pending[e].phone
    BY <1>2, <2>3
  <2> QED BY <2>2, <2>4 DEF Apart
<1>12. tx' = [tx EXCEPT ![c] = u]
  BY <1>1 DEF Record
<1>14. Own(u)
  BY <1>0, <1>1, <1>5, <1>6, <1>7, <1>8, <1>9, <1>10 DEF Own
<1> QED BY <1>11, <1>12, <1>14, ClientStep

LEMMA UpdateKeeps ==
  ASSUME WInv, NEW c \in Clients, Update(c)
  PROVE  WInv'
<1>1. PICK t : t = tx[c]
  OBVIOUS
<1>2. /\ Own(t) /\ TxType(t) /\ t.pc = "write" /\ t.found # 0 /\ t.jobs # <<>>
      /\ rows' = rows /\ said' = said /\ Job(c) = t.jobs[1] /\ t.jobs[1].kind = "upsert"
  BY <1>1, Seen DEF Update, Own, Planned
<1>3. PICK n, j : n = t.found /\ j = t.jobs[1]
  OBVIOUS
<1>4. j \in Jobs /\ n \in t.locks /\ RowOf(t, n).phone = j.phone /\ Valid(j)
  <2>1. 1 \in DOMAIN t.jobs /\ t.jobs[1] \in Jobs
    BY <1>2 DEF TxType
  <2> QED BY <1>2, <1>3, <2>1 DEF Own, Aimed, Planned
<1>5. n \in DOMAIN rows \cup DOMAIN t.pending /\ n \in Ids
  BY <1>2, <1>4 DEF Own, Locked, TxType
<1>6. PICK r : r = [phone |-> j.phone, role |-> j.role, active |-> TRUE, grants |-> j.grants]
  OBVIOUS
<1>7. r \in Row /\ r.phone = j.phone /\ r.active = TRUE /\ r.grants = j.grants /\ r.role = j.role
  BY <1>2, <1>3, <1>4, <1>6, JobTypes DEF Row
<1>8. Valid(r) /\ Agrees(r, n, j)
  BY <1>2, <1>3, <1>4, <1>7 DEF Valid, Agrees
<1>9. PICK f : f = [id \in {t.found} |-> [phone |-> j.phone, role |-> j.role, active |-> TRUE,
                                           grants |-> Granted(View(c)[id].grants, j.grants)]]
  OBVIOUS
<1>10. DOMAIN f = {n} /\ f[n] = r
  BY <1>3, <1>6, <1>9 DEF Granted
<1>11. PICK w : w = Put(c, f)
  OBVIOUS
<1>12. PICK p : p = "audit"
  OBVIOUS
<1>13. tx' = [tx EXCEPT ![c] = [tx[c] EXCEPT !.pc = p, !.pending = w]]
  BY <1>1, <1>2, <1>3, <1>9, <1>11, <1>12, Txs DEF Update
<1>14. [t EXCEPT !.pc = p, !.pending = w]
         = [pc |-> p, jobs |-> t.jobs, found |-> t.found, locks |-> t.locks, pending |-> w, log |-> t.log]
  <2>1. TxType(t)
    BY <1>2
  <2> QED BY <2>1, UpdateChanges
<1>15. PICK t2 : t2 = Record("audit", t.jobs, n, t.locks, w, t.log)
  OBVIOUS
<1>19. tx' = [tx EXCEPT ![c] = t2]
  BY <1>1, <1>3, <1>12, <1>13, <1>14, <1>15 DEF Record
<1>16. t.locks = t.locks \cup {n}
  BY <1>4
<1>17. \A d \in Clients \ {c} : n \notin tx[d].locks
  BY <1>1, <1>4 DEF WInv, Apart
<1>18. Wrote(t, n, r, w)
  BY <1>1, <1>10, <1>11 DEF Put, Wrote
<1>20. Fits(c, t, n, r)
  BY <1>2, <1>3, <1>4, <1>5, <1>7, <1>8, <1>17 DEF SamePhone, Fits
<1> QED BY <1>1, <1>2, <1>15, <1>16, <1>18, <1>19, <1>20, WriteKeeps

\* randomUUID gives an id that neither a row nor a transaction has.
LEMMA NewIdIsNew ==
  ASSUME WInv
  PROVE  NewId \in Ids /\ NewId \notin UsedIds
<1>1. PICK f : f = [d \in Clients |-> DOMAIN tx[d].pending]
  OBVIOUS
<1>2. PICK T : T = {DOMAIN tx[d].pending : d \in Clients}
  OBVIOUS
<1>3. f \in Surjection(Clients, T)
  BY <1>1, <1>2 DEF Surjection
<1>4. IsFiniteSet(Clients)
  BY WhitelistAssumption
<1>5. IsFiniteSet(T)
  BY <1>3, <1>4, FS_Surjection
<1>6. \A D \in T : IsFiniteSet(D)
  BY <1>2 DEF WInv, Own, TxType, Table
<1>7. IsFiniteSet(UNION T)
  BY <1>5, <1>6, FS_UNION
<1>8. IsFiniteSet(DOMAIN rows)
  BY DEF WInv, Table
<1>9. PICK U : U = UsedIds
  OBVIOUS
<1>10. IsFiniteSet(U) /\ Cardinality(U) \in Nat
  <2>1. U = DOMAIN rows \cup UNION T
    BY <1>2, <1>9 DEF UsedIds
  <2> QED BY <1>7, <1>8, <2>1, FS_Union, FS_CardinalityType
<1>11. PICK k \in Nat : k = Cardinality(U) + 1
  BY <1>10
<1>12. \E id \in 1..k : id \notin U
  <2> SUFFICES ASSUME \A id \in 1..k : id \in U PROVE FALSE
    OBVIOUS
  <2>1. (1..k) \in SUBSET U
    OBVIOUS
  <2>2. Cardinality(1..k) <= Cardinality(U)
    BY <1>10, <2>1, FS_Subset
  <2>3. Cardinality(1..k) = k
    <3>1. 1 \in Int /\ k \in Int /\ k > 0
      BY <1>10, <1>11
    <3> QED BY <3>1, FS_Interval
  <2> QED BY <1>10, <1>11, <2>2, <2>3
<1>13. NewId = CHOOSE id \in 1..k : id \notin U
  BY <1>9, <1>11 DEF NewId
<1>14. NewId \in 1..k /\ NewId \notin U
  BY <1>12, <1>13
<1> QED BY <1>9, <1>14 DEF Ids

LEMMA InsertKeeps ==
  ASSUME WInv, NEW c \in Clients, Insert(c)
  PROVE  WInv'
<1>1. PICK t : t = tx[c]
  OBVIOUS
<1>2. /\ Own(t) /\ TxType(t) /\ t.pc = "write" /\ t.found = 0 /\ t.jobs # <<>>
      /\ rows' = rows /\ said' = said /\ Job(c) = t.jobs[1] /\ t.jobs[1].kind = "upsert"
  <2>1. Own(t) /\ TxType(t) /\ Job(c) = t.jobs[1]
    BY <1>1, Seen
  <2>2. /\ t.pc = "write" /\ t.found = 0 /\ rows' = rows /\ said' = said
        /\ Job(c).kind = "upsert"
    BY <1>1 DEF Insert
  <2>3. t.jobs # <<>>
    BY <2>1, <2>2 DEF Own, Planned
  <2> QED BY <2>1, <2>2, <2>3
<1>3. CASE Rollback(c)
  BY <1>2, <1>3, RollbackKeeps
<1>4. PICK n, j : n = NewId /\ j = t.jobs[1]
  OBVIOUS
<1>5. CASE /\ ~Taken(j.phone)
           /\ tx' = [tx EXCEPT ![c].pc = "audit", ![c].found = n,
                ![c].locks = @ \cup {n},
                ![c].pending = Put(c, [id \in {n} |->
                              [phone |-> j.phone, role |-> j.role, active |-> TRUE,
                               grants |-> j.grants]])]
  <2>1. j \in Jobs /\ Valid(j)
    <3>1. 1 \in DOMAIN t.jobs /\ t.jobs[1] \in Jobs
      BY <1>2 DEF TxType
    <3> QED BY <1>2, <1>4, <3>1 DEF Own, Planned
  <2>2. PICK r : r = [phone |-> j.phone, role |-> j.role, active |-> TRUE, grants |-> j.grants]
    OBVIOUS
  <2>3. r \in Row /\ r.phone = j.phone /\ r.active = TRUE /\ r.grants = j.grants /\ r.role = j.role
    BY <1>2, <1>4, <2>1, <2>2, JobTypes DEF Row
  <2>4. Valid(r) /\ Agrees(r, n, t.jobs[1])
    BY <1>2, <1>4, <2>1, <2>3 DEF Valid, Agrees
  <2>5. n \in Ids /\ n \notin UsedIds
    BY <1>4, NewIdIsNew
  <2>6. /\ n \notin DOMAIN rows \cup DOMAIN t.pending
        /\ \A d \in Clients \ {c} : n \notin tx[d].locks
    BY <1>1, <2>5 DEF UsedIds, WInv, Own, Locked
  <2>7. /\ \A id \in DOMAIN rows : rows[id].phone # r.phone
        /\ \A id \in DOMAIN t.pending : t.pending[id].phone # r.phone
        /\ \A d \in Clients \ {c} : \A id \in DOMAIN tx[d].pending \ DOMAIN rows :
             tx[d].pending[id].phone # r.phone
    <3>1. \A id \in DOMAIN rows : rows[id].phone # r.phone
      BY <1>5, <2>3 DEF Taken
    <3>2. \A id \in DOMAIN t.pending : t.pending[id].phone # r.phone
      BY <1>2, <1>4, <2>3 DEF Own, Aimed
    <3>3. \A d \in Clients \ {c} : ~Inserting(d, j.phone)
      BY <1>2, <1>4 DEF Insert
    <3> QED BY <2>3, <3>1, <3>2, <3>3 DEF Inserting
  <2>8. PICK f : f = [id \in {n} |-> r]
    OBVIOUS
  <2>9. PICK w : w = Put(c, f)
    OBVIOUS
  <2>10. Wrote(t, n, r, w)
    BY <1>1, <2>8, <2>9 DEF Put, Wrote
  <2>11. PICK p, l : p = "audit" /\ l = t.locks \cup {n}
    OBVIOUS
  <2>12. PICK t2 : t2 = Record("audit", t.jobs, n, l, w, t.log)
    OBVIOUS
  <2>13. tx' = [tx EXCEPT ![c] = Made(t, p, n, l, w)]
    BY <1>1, <1>5, <2>2, <2>8, <2>9, <2>11, Txs DEF Made
  <2>14. Made(t, p, n, l, w) = Record(p, t.jobs, n, l, w, t.log)
    BY <1>2, WriteChanges
  <2>15. tx' = [tx EXCEPT ![c] = t2]
    BY <1>1, <2>11, <2>12, <2>13, <2>14
  <2>16. t.pc = "write" /\ rows' = rows /\ said' = said /\ l = t.locks \cup {n}
    BY <1>2, <2>11
  <2>17. \A d \in Clients \ {c} : n \notin tx[d].locks
    BY <2>6
  <2>18. NewPhone(c, t, n, r)
    BY <2>6, <2>7 DEF NewPhone
  <2>19. Fits(c, t, n, r)
    BY <2>3, <2>4, <2>5, <2>17, <2>18 DEF Fits
  <2> QED BY <1>1, <2>10, <2>12, <2>15, <2>16, <2>19, WriteKeeps
<1> QED BY <1>2, <1>3, <1>4, <1>5 DEF Insert

LEMMA SetActiveKeeps ==
  ASSUME WInv, NEW c \in Clients, SetActive(c)
  PROVE  WInv'
<1>1. PICK t : t = tx[c]
  OBVIOUS
<1>2. /\ Own(t) /\ TxType(t) /\ t.pc = "write" /\ t.jobs # <<>>
      /\ rows' = rows /\ said' = said /\ Job(c) = t.jobs[1] /\ t.jobs[1].kind = "activate"
      /\ Matching(c) = {id \in DOMAIN rows \cup DOMAIN t.pending : RowOf(t, id).phone = t.jobs[1].phone}
      /\ \A id \in DOMAIN View(c) : View(c)[id] = RowOf(t, id)
      /\ DOMAIN View(c) = DOMAIN rows \cup DOMAIN t.pending
  <2>1. /\ Own(t) /\ TxType(t) /\ Job(c) = t.jobs[1]
        /\ Matching(c) = {id \in DOMAIN rows \cup DOMAIN t.pending : RowOf(t, id).phone = t.jobs[1].phone}
        /\ \A id \in DOMAIN View(c) : View(c)[id] = RowOf(t, id)
        /\ DOMAIN View(c) = DOMAIN rows \cup DOMAIN t.pending
    BY <1>1, Seen
  <2>2. t.pc = "write" /\ rows' = rows /\ said' = said /\ Job(c).kind = "activate"
    BY <1>1 DEF SetActive
  <2>3. t.jobs # <<>>
    BY <2>1, <2>2 DEF Own, Planned
  <2> QED BY <2>1, <2>2, <2>3
<1>3. CASE Rollback(c)
  BY <1>2, <1>3, RollbackKeeps
<1>4. PICK n, j, M : n = (CHOOSE id \in Matching(c) : TRUE) /\ j = t.jobs[1] /\ M = Matching(c)
  OBVIOUS
<1>5. CASE /\ M # {} /\ \A id \in M : Free(c, id)
           /\ tx' = [tx EXCEPT ![c].pc = "audit", ![c].found = n,
                ![c].locks = @ \cup M,
                ![c].pending = Put(c, [id \in M |-> [View(c)[id] EXCEPT !.active = j.active]])]
  <2>1. j \in Jobs /\ 1 \in DOMAIN t.jobs
    BY <1>2, <1>4 DEF TxType
  <2>2. DOMAIN t.pending = {}
    <3>1. t.log = <<>>
      BY <1>2, <2>1 DEF Own, Planned
    <3> QED BY <1>2, <3>1 DEF Own, Logged
  <2>3. n \in M /\ n \in DOMAIN rows /\ n \in Ids /\ rows[n].phone = j.phone /\ RowOf(t, n) = rows[n]
    BY <1>2, <1>4, <1>5, <2>2 DEF RowOf, WInv, Table
  <2>4. M = {n}
    <3>1. ASSUME NEW id \in M PROVE id = n
      <4>1. id \in DOMAIN rows /\ rows[id].phone = rows[n].phone
        BY <1>2, <1>4, <2>2, <2>3 DEF RowOf
      <4> QED BY <2>3, <4>1 DEF WInv, WhitelistInv, OneUserPerPhone
    <3> QED BY <2>3, <3>1
  <2>5. PICK r : r = [rows[n] EXCEPT !.active = j.active]
    OBVIOUS
  <2>6. rows[n] \in Row /\ j.active \in BOOLEAN
    BY <2>1, <2>3, JobTypes DEF WInv, Table
  <2>7. /\ r \in Row /\ r.phone = rows[n].phone /\ r.active = j.active
        /\ r.grants = rows[n].grants /\ r.role = rows[n].role
    BY <2>5, <2>6 DEF Row
  <2>8. Valid(r) /\ Agrees(r, n, t.jobs[1])
    <3>1. Valid(rows[n])
      BY <2>3 DEF WInv, WhitelistInv, ExploreNeedsRole
    <3>2. Valid(r)
      BY <2>7, <3>1 DEF Valid
    <3>3. j.kind # "upsert"
      BY <1>2, <1>4
    <3> QED BY <1>4, <2>3, <2>7, <3>2, <3>3 DEF Agrees
  <2>9. \A d \in Clients \ {c} : n \notin tx[d].locks
    BY <1>5, <2>3 DEF Free
  <2>10. PICK f : f = [id \in M |-> [View(c)[id] EXCEPT !.active = j.active]]
    OBVIOUS
  <2>11. DOMAIN f = {n} /\ f[n] = r
    <3>1. View(c)[n] = rows[n]
      BY <1>2, <2>3
    <3> QED BY <2>4, <2>5, <2>10, <3>1
  <2>12. PICK w : w = Put(c, f)
    OBVIOUS
  <2>13. Wrote(t, n, r, w)
    BY <1>1, <2>11, <2>12 DEF Put, Wrote
  <2>14. PICK p, l : p = "audit" /\ l = t.locks \cup {n}
    OBVIOUS
  <2>15. PICK t2 : t2 = Record("audit", t.jobs, n, l, w, t.log)
    OBVIOUS
  <2>16. tx' = [tx EXCEPT ![c] = Made(t, p, n, l, w)]
    BY <1>1, <1>5, <2>4, <2>10, <2>12, <2>14, Txs DEF Made
  <2>17. Made(t, p, n, l, w) = Record(p, t.jobs, n, l, w, t.log)
    BY <1>2, WriteChanges
  <2>18. tx' = [tx EXCEPT ![c] = t2]
    BY <1>1, <2>14, <2>15, <2>16, <2>17
  <2>19. /\ t.pc = "write" /\ rows' = rows /\ said' = said /\ l = t.locks \cup {n}
         /\ SamePhone(t, n, r)
    BY <1>2, <2>3, <2>7, <2>14 DEF SamePhone
  <2>20. Fits(c, t, n, r)
    BY <2>3, <2>7, <2>8, <2>9, <2>19 DEF Fits
  <2> QED BY <1>1, <2>13, <2>15, <2>18, <2>19, <2>20, WriteKeeps
<1> QED BY <1>2, <1>3, <1>4, <1>5 DEF SetActive

LEMMA AuditKeeps ==
  ASSUME WInv, NEW c \in Clients, Audit(c)
  PROVE  WInv'
<1>1. PICK t : t = tx[c]
  OBVIOUS
<1>2. /\ Own(t) /\ TxType(t) /\ t.pc = "audit" /\ t.jobs # <<>> /\ Job(c) = t.jobs[1]
      /\ rows' = rows /\ said' = said
  <2>1. Own(t) /\ TxType(t) /\ Job(c) = t.jobs[1]
    BY <1>1, Seen
  <2>2. t.pc = "audit" /\ rows' = rows /\ said' = said
    BY <1>1 DEF Audit
  <2>3. t.jobs # <<>>
    BY <2>1, <2>2 DEF Own, Planned
  <2> QED BY <2>1, <2>2, <2>3
<1>3. PICK j, m : j = t.jobs[1] /\ m = Len(t.jobs)
  OBVIOUS
<1>4. PICK p, rest : p = (IF m = 1 THEN "commit" ELSE "lookup") /\ rest = Tail(t.jobs)
  OBVIOUS
<1>5. PICK e : e = [id |-> t.found, job |-> j]
  OBVIOUS
<1>6. PICK log2 : log2 = Append(t.log, e)
  OBVIOUS
<1>7. PICK t2 : t2 = [pc |-> p, jobs |-> rest, found |-> t.found, locks |-> t.locks,
                      pending |-> t.pending, log |-> log2]
  OBVIOUS
<1>8. /\ t2.pc = p /\ t2.jobs = rest /\ t2.found = t.found /\ t2.locks = t.locks
      /\ t2.pending = t.pending /\ t2.log = log2
  BY <1>7
<1>9. tx' = [tx EXCEPT ![c] = t2]
  <2>1. tx' = [tx EXCEPT ![c] = [tx[c] EXCEPT !.pc = p, !.jobs = rest, !.log = log2]]
    BY <1>1, <1>2, <1>3, <1>4, <1>5, <1>6, Txs DEF Audit
  <2>2. [t EXCEPT !.pc = p, !.jobs = rest, !.log = log2]
          = [pc |-> p, jobs |-> rest, found |-> t.found, locks |-> t.locks,
             pending |-> t.pending, log |-> log2]
    <3>1. PICK a, b, f, g, h, l : /\ a = t.pc /\ b = t.jobs /\ f = t.found
                                  /\ g = t.locks /\ h = t.pending /\ l = t.log
      OBVIOUS
    <3>2. t = [pc |-> a, jobs |-> b, found |-> f, locks |-> g, pending |-> h, log |-> l]
      BY <1>2, <3>1, TxRecord
    <3>3. PICK t3 : t3 = [t EXCEPT !.pc = p]
      OBVIOUS
    <3>4. t3 = [pc |-> p, jobs |-> b, found |-> f, locks |-> g, pending |-> h, log |-> l]
      BY <3>2, <3>3
    <3>5. PICK t4 : t4 = [t3 EXCEPT !.jobs = rest]
      OBVIOUS
    <3>6. t4 = [pc |-> p, jobs |-> rest, found |-> f, locks |-> g, pending |-> h, log |-> l]
      BY <3>4, <3>5
    <3>7. PICK t5 : t5 = [t4 EXCEPT !.log = log2]
      OBVIOUS
    <3>8. t5 = [pc |-> p, jobs |-> rest, found |-> f, locks |-> g, pending |-> h, log |-> log2]
      BY <3>6, <3>7
    <3>9. [t EXCEPT !.pc = p, !.jobs = rest, !.log = log2] = t5
      BY <3>3, <3>5, <3>7
    <3> QED BY <3>1, <3>8, <3>9
  <2> QED BY <1>1, <1>7, <2>1, <2>2
<1>10. /\ t.jobs \in Seq(Jobs) /\ m \in Nat \ {0} /\ j \in Jobs
       /\ rest \in Seq(Jobs) /\ DOMAIN rest = 1..(m - 1)
       /\ \A i \in DOMAIN rest : i + 1 \in DOMAIN t.jobs /\ rest[i] = t.jobs[i + 1]
  BY <1>2, <1>3, <1>4 DEF TxType
<1>11. t.found \in DOMAIN t.pending /\ t.found \in Ids
  BY <1>2 DEF Own, Logged, TxType, Table
<1>12. PICK k \in Nat : k = Len(t.log)
  BY <1>2 DEF TxType
<1>13. /\ log2 \in Seq(Entry) /\ DOMAIN t.log = 1..k /\ DOMAIN log2 = 1..(k + 1) /\ log2[k + 1] = e
       /\ \A i \in 1..k : log2[i] = t.log[i]
  <2>1. e \in Entry
    BY <1>5, <1>10, <1>11 DEF Entry
  <2>2. t.log \in Seq(Entry)
    BY <1>2 DEF TxType
  <2> QED BY <1>6, <1>12, <2>1, <2>2
<1>14. p \in {"commit", "lookup"} /\ (p = "lookup" <=> m # 1)
  BY <1>4
<1>15. TxType(t2)
  <2>1. t.found \in Nat /\ t.locks \subseteq Ids /\ Table(t.pending)
    BY <1>2 DEF TxType
  <2>2. t2 = [pc |-> t2.pc, jobs |-> t2.jobs, found |-> t2.found, locks |-> t2.locks,
              pending |-> t2.pending, log |-> t2.log]
    BY <1>7, <1>8
  <2>3. t2.pc \in {"idle", "lookup", "write", "audit", "commit"}
    BY <1>8, <1>14
  <2> QED BY <1>8, <1>10, <1>13, <2>1, <2>2, <2>3 DEF TxType
<1>16. Planned(t2)
  <2>0. Planned(t)
    BY <1>2 DEF Own
  <2>1. \A i \in DOMAIN rest : rest[i].kind = "upsert" => Valid(rest[i])
    BY <1>10, <2>0 DEF Planned
  <2>2. \A i \in DOMAIN rest : rest[i].kind = "upsert"
    <3>1. CASE \A i \in DOMAIN t.jobs : t.jobs[i].kind = "upsert"
      BY <1>10, <3>1
    <3>2. CASE m = 1
      BY <1>10, <3>2
    <3> QED BY <1>3, <2>0, <3>1, <3>2 DEF Planned
  <2>3. p = "lookup" => 1 \in DOMAIN rest /\ rest # <<>>
    BY <1>10, <1>14
  <2>4. t2.pc \in {"lookup", "write", "audit"} => t2.jobs # <<>>
    BY <1>8, <1>14, <2>3
  <2>5. t2.pc = "lookup" => t2.jobs[1].kind = "upsert"
    BY <1>8, <2>2, <2>3
  <2> QED BY <1>8, <2>1, <2>2, <2>4, <2>5 DEF Planned
<1>17. Locked(t2) /\ SamePhones(t2) /\ Aimed(t2) /\ ValidRows(t2.pending)
  <2>1. Locked(t2) /\ SamePhones(t2) /\ ValidRows(t2.pending)
    BY <1>2, <1>8 DEF Own, Locked, SamePhones, ValidRows
  <2>2. Aimed(t2)
    BY <1>8, <1>14 DEF Aimed
  <2> QED BY <2>1, <2>2
<1>18. Logged(t2)
  <2>1. DOMAIN t.pending = {t.log[i].id : i \in 1..k} \cup {t.found}
    BY <1>2, <1>13 DEF Own, Logged
  <2>2. {log2[i].id : i \in 1..(k + 1)} = {t.log[i].id : i \in 1..k} \cup {t.found}
    <3>1. e.id = t.found
      BY <1>5
    <3>2. 1..(k + 1) = (1..k) \cup {k + 1}
      BY <1>12
    <3> QED BY <1>13, <3>1, <3>2
  <2>3. /\ DOMAIN t2.pending = DOMAIN t.pending /\ t2.pc # "audit" /\ DOMAIN t2.log = 1..(k + 1)
        /\ t2.log = log2
    BY <1>8, <1>13, <1>14
  <2>4. DOMAIN t2.pending = {t2.log[i].id : i \in DOMAIN t2.log}
    BY <2>1, <2>2, <2>3
  <2> QED BY <2>3, <2>4 DEF Logged
<1>19. Truthful(t2)
  <2>0. Truthful(t)
    BY <1>2 DEF Own
  <2>1. ASSUME NEW i \in DOMAIN log2, LastAbout(log2, i)
        PROVE  Agrees(t.pending[log2[i].id], log2[i].id, log2[i].job)
    <3>1. CASE i = k + 1
      <4>1. log2[i].id = t.found /\ log2[i].job = t.jobs[1]
        BY <1>3, <1>5, <1>13, <3>1
      <4> QED BY <1>2, <2>0, <4>1 DEF Truthful
    <3>2. CASE i # k + 1
      <4>1. i \in 1..k /\ i \in DOMAIN t.log /\ log2[i] = t.log[i]
        BY <1>12, <1>13, <3>2
      <4>2. t.log[i].id # t.found
        <5>1. k + 1 \in DOMAIN log2 /\ log2[k + 1].id = t.found /\ ~(k + 1 <= i)
          BY <1>5, <1>12, <1>13, <4>1
        <5> QED BY <2>1, <4>1, <5>1 DEF LastAbout
      <4>3. LastAbout(t.log, i)
        <5>1. \A q \in DOMAIN t.log : q \in DOMAIN log2 /\ log2[q] = t.log[q]
          BY <1>12, <1>13
        <5> QED BY <2>1, <4>1, <5>1 DEF LastAbout
      <4> QED BY <2>0, <4>1, <4>2, <4>3 DEF Truthful
    <3> QED BY <3>1, <3>2
  <2> QED BY <1>8, <1>14, <2>1 DEF Truthful
<1>20. \A d \in Clients \ {c} : Apart(t2, tx[d])
  BY <1>1, <1>8 DEF WInv, Apart
<1>21. Own(t2)
  BY <1>15, <1>16, <1>17, <1>18, <1>19 DEF Own
<1> QED BY <1>2, <1>9, <1>20, <1>21, ClientStep

\* A finite set of positions in a sequence has a last one.
LEMMA LastOne ==
  ASSUME NEW n \in Nat, NEW T \in SUBSET (1..n), T # {}
  PROVE  \E i \in T : \A j \in T : j <= i
<1>1. PICK R : R = {q \in 0..n : n - q \in T}
  OBVIOUS
<1>2. R \subseteq Nat /\ R # {}
  <2>1. PICK i \in T : i \in 1..n
    OBVIOUS
  <2>2. PICK q \in 0..n : q = n - i
    BY <2>1
  <2>3. n - q = i
    BY <2>1, <2>2
  <2> QED BY <1>1, <2>3
<1>3. PICK q \in R : \A k \in R : q <= k
  BY <1>2, Least
<1>4. n - q \in T /\ q \in Nat
  BY <1>1, <1>3
<1>5. ASSUME NEW j \in T PROVE j <= n - q
  <2>1. j \in 1..n /\ n - j \in 0..n /\ n - (n - j) = j
    OBVIOUS
  <2>2. n - j \in R
    BY <1>1, <2>1
  <2>3. q <= n - j
    BY <1>3, <2>2
  <2> QED BY <1>4, <2>1, <2>3
<1> QED BY <1>4, <1>5

\* What a commit means for a transaction that goes on.
LEMMA OthersStay ==
  ASSUME Table(rows), NEW t, Own(t), NEW u, Own(u), Apart(t, u), NEW V, rows' = V,
         DOMAIN V = DOMAIN rows \cup DOMAIN t.pending,
         \A id \in DOMAIN V : V[id] = RowOf(t, id)
  PROVE  Own(u)'
<1>1. /\ DOMAIN u.pending \subseteq u.locks /\ DOMAIN t.pending \subseteq t.locks
      /\ u.locks \cap t.locks = {} /\ u.locks \subseteq DOMAIN rows \cup DOMAIN u.pending
  BY DEF Own, Locked, Apart
<1>2. \A id \in u.locks \cap DOMAIN rows : id \in DOMAIN V /\ V[id] = rows[id]
  BY <1>1 DEF RowOf
<1>3. TxType(u)' /\ Planned(u)' /\ Logged(u)' /\ ValidRows(u.pending)'
  BY DEF Own, TxType, Table, Planned, Logged, ValidRows, Valid
<1>4. Locked(u)'
  BY <1>1 DEF Locked
<1>5. SamePhones(u)'
  <2>1. ASSUME NEW id \in DOMAIN u.pending \cap DOMAIN V PROVE u.pending[id].phone = V[id].phone
    <3>1. id \in DOMAIN rows /\ V[id] = rows[id]
      BY <1>1, <1>2
    <3> QED BY <3>1 DEF Own, SamePhones
  <2>2. ASSUME NEW id \in DOMAIN u.pending \ DOMAIN V, NEW r \in DOMAIN V
        PROVE  V[r].phone # u.pending[id].phone
    <3>1. CASE r \in DOMAIN rows
      <4>1. V[r].phone = rows[r].phone
        BY <3>1 DEF Own, SamePhones, RowOf
      <4> QED BY <3>1, <4>1 DEF Own, SamePhones
    <3>2. CASE r \notin DOMAIN rows
      <4>1. r \in DOMAIN t.pending /\ V[r] = t.pending[r]
        BY <3>2 DEF RowOf
      <4> QED BY <3>2, <4>1 DEF Apart
    <3> QED BY <3>1, <3>2
  <2>3. ASSUME NEW id \in DOMAIN u.pending \ DOMAIN V, NEW e \in DOMAIN u.pending \ DOMAIN V,
               u.pending[e].phone = u.pending[id].phone
        PROVE  e = id
    BY <2>3 DEF Own, SamePhones
  <2> QED BY <2>1, <2>2, <2>3 DEF SamePhones
<1>6. Aimed(u)'
  <2> SUFFICES ASSUME u.pc = "write", u.jobs[1].kind = "upsert", u.found # 0
               PROVE  u.found \in u.locks /\ RowOf(u, u.found)'.phone = u.jobs[1].phone
    BY DEF Own, Aimed
  <2>1. u.found \in u.locks /\ RowOf(u, u.found).phone = u.jobs[1].phone
    BY DEF Own, Aimed
  <2>2. RowOf(u, u.found)' = RowOf(u, u.found)
    BY <1>1, <1>2, <2>1 DEF RowOf
  <2> QED BY <2>1, <2>2
<1>7. Truthful(u)'
  <2>1. ASSUME NEW id \in DOMAIN u.pending, NEW job, Agrees(u.pending[id], id, job)
        PROVE  Agrees(u.pending[id], id, job)'
    <3>1. id \in DOMAIN rows => id \in DOMAIN V /\ V[id] = rows[id]
      BY <1>1, <1>2
    <3> QED BY <2>1, <3>1 DEF Agrees
  <2>2. /\ u.pc = "audit" => u.found \in DOMAIN u.pending
        /\ \A i \in DOMAIN u.log : u.log[i].id \in DOMAIN u.pending
    BY DEF Own, Logged
  <2>3. u.pc = "audit" => Agrees(u.pending[u.found], u.found, u.jobs[1])'
    BY <2>1, <2>2 DEF Own, Truthful
  <2>4. ASSUME NEW i \in DOMAIN u.log, LastAbout(u.log, i), ~(u.pc = "audit" /\ u.log[i].id = u.found)
        PROVE  Agrees(u.pending[u.log[i].id], u.log[i].id, u.log[i].job)'
    <3>1. Agrees(u.pending[u.log[i].id], u.log[i].id, u.log[i].job)
      BY <2>4 DEF Own, Truthful
    <3> QED BY <2>1, <2>2, <3>1
  <2> QED BY <2>3, <2>4 DEF Truthful, LastAbout
<1> QED BY <1>3, <1>4, <1>5, <1>6, <1>7 DEF Own

LEMMA IdleIsFineNext ==
  /\ Own(IdleTx)'
  /\ (\A u : Apart(IdleTx, u))'
  BY IdleIsFine, PTL

\* The users and their audit records after a commit.
LEMMA CommitRows ==
  ASSUME WInv, NEW c \in Clients, NEW t, t = tx[c], t.pc = "commit", rows' = View(c), said' = Say(c)
  PROVE  Table(rows)' /\ WhitelistInv'
<1>1. /\ Own(t) /\ TxType(t)
      /\ DOMAIN View(c) = DOMAIN rows \cup DOMAIN t.pending /\ DOMAIN View(c) \subseteq Ids
      /\ \A id \in DOMAIN View(c) : View(c)[id] = RowOf(t, id) /\ RowOf(t, id) \in Row
  BY Seen
<1>2. PICK V : V = View(c)
  OBVIOUS
<1>3. /\ DOMAIN V = DOMAIN rows \cup DOMAIN t.pending /\ DOMAIN V \subseteq Ids
      /\ \A id \in DOMAIN V : V[id] = RowOf(t, id) /\ V[id] \in Row
      /\ V = [id \in DOMAIN V |-> V[id]]
  BY <1>1, <1>2 DEF View
<1>4. Table(rows)'
  <2>1. IsFiniteSet(DOMAIN V)
    <3>1. PICK A, B : A = DOMAIN rows /\ B = DOMAIN t.pending
      OBVIOUS
    <3>2. IsFiniteSet(A) /\ IsFiniteSet(B)
      BY <1>1, <3>1 DEF WInv, TxType, Table
    <3>3. IsFiniteSet(A \cup B)
      BY <3>2, FS_Union
    <3> QED BY <1>3, <3>1, <3>3
  <2> QED BY <1>2, <1>3, <2>1 DEF Table
<1>5. OneUserPerPhone'
  <2>1. ASSUME NEW a \in DOMAIN V, NEW b \in DOMAIN V, V[a].phone = V[b].phone PROVE a = b
    <3>1. SamePhones(t) /\ OneUserPerPhone
      BY <1>1 DEF Own, WInv, WhitelistInv
    <3>2. \A id \in DOMAIN rows : id \in DOMAIN V /\ V[id].phone = rows[id].phone
      BY <1>3, <3>1 DEF SamePhones, RowOf
    <3>3. \A id \in DOMAIN V \ DOMAIN rows :
            id \in DOMAIN t.pending \ DOMAIN rows /\ V[id] = t.pending[id]
      BY <1>3 DEF RowOf
    <3>4. CASE a \in DOMAIN rows /\ b \in DOMAIN rows
      BY <2>1, <3>1, <3>2, <3>4 DEF OneUserPerPhone
    <3>5. CASE a \notin DOMAIN rows /\ b \notin DOMAIN rows
      BY <2>1, <3>1, <3>3, <3>5 DEF SamePhones
    <3>6. CASE a \in DOMAIN rows /\ b \notin DOMAIN rows
      BY <2>1, <3>1, <3>2, <3>3, <3>6 DEF SamePhones
    <3>7. CASE a \notin DOMAIN rows /\ b \in DOMAIN rows
      BY <2>1, <3>1, <3>2, <3>3, <3>7 DEF SamePhones
    <3> QED BY <3>4, <3>5, <3>6, <3>7
  <2> QED BY <1>2, <2>1 DEF OneUserPerPhone
<1>6. ExploreNeedsRole'
  <2>1. \A id \in DOMAIN V : Valid(V[id])
    BY <1>1, <1>3 DEF RowOf, Own, ValidRows, WInv, WhitelistInv, ExploreNeedsRole
  <2> QED BY <1>2, <2>1 DEF ExploreNeedsRole, Valid
<1>7. Audited'
  <2>0. /\ DOMAIN said = DOMAIN rows
        /\ \A id \in DOMAIN rows : rows[id].active = said[id].active /\ rows[id].grants = said[id].grants
    BY DEF WInv, WhitelistInv, Audited
  <2>1. DOMAIN t.pending = {t.log[i].id : i \in DOMAIN t.log}
    BY <1>1 DEF Own, Logged
  <2>2. PICK S : S = Say(c)
    OBVIOUS
  <2>3. DOMAIN S = DOMAIN V
    BY <1>3, <2>0, <2>1, <2>2 DEF Say
  <2>4. ASSUME NEW id \in DOMAIN V PROVE V[id].active = S[id].active /\ V[id].grants = S[id].grants
    <3>1. PICK about : about = {i \in DOMAIN t.log : t.log[i].id = id}
      OBVIOUS
    <3>2. PICK last : last = t.log[CHOOSE i \in about : \A j \in about : j <= i].job
      OBVIOUS
    <3>3. S[id] = IF about = {} THEN said[id]
                  ELSE IF last.kind = "upsert" THEN [active |-> TRUE, grants |-> last.grants]
                  ELSE [active |-> last.active, grants |-> said[id].grants]
      BY <2>2, <2>3, <3>1, <3>2 DEF Say
    <3>4. CASE about = {}
      <4>1. id \notin DOMAIN t.pending
        BY <2>1, <3>1, <3>4
      <4>2. id \in DOMAIN rows /\ V[id] = rows[id]
        BY <1>3, <4>1 DEF RowOf
      <4>3. S[id] = said[id]
        BY <3>3, <3>4
      <4> QED BY <2>0, <4>2, <4>3
    <3>5. CASE about # {}
      <4>1. \E i \in about : \A j \in about : j <= i
        <5>1. PICK n \in Nat : DOMAIN t.log = 1..n
          BY <1>1 DEF TxType
        <5>2. about \in SUBSET (1..n)
          BY <3>1, <5>1
        <5> QED BY <3>5, <5>2, LastOne
      <4>2. PICK i : i = CHOOSE k \in about : \A j \in about : j <= k
        OBVIOUS
      <4>3. i \in about /\ \A j \in about : j <= i
        BY <4>1, <4>2
      <4>4. i \in DOMAIN t.log /\ t.log[i].id = id /\ last = t.log[i].job /\ LastAbout(t.log, i)
        <5>1. i \in DOMAIN t.log /\ t.log[i].id = id
          BY <3>1, <4>3
        <5>2. LastAbout(t.log, i)
          BY <3>1, <4>3, <5>1 DEF LastAbout
        <5>3. last = t.log[i].job
          BY <3>2, <4>2
        <5> QED BY <5>1, <5>2, <5>3
      <4>5. Agrees(t.pending[id], id, last)
        BY <1>1, <4>4 DEF Own, Truthful
      <4>6. id \in DOMAIN t.pending /\ V[id] = t.pending[id]
        BY <1>3, <2>1, <4>4 DEF RowOf
      <4>7. CASE last.kind = "upsert"
        <5>1. S[id] = [active |-> TRUE, grants |-> last.grants]
          BY <3>3, <3>5, <4>7
        <5>2. S[id].active = TRUE /\ S[id].grants = last.grants
          BY <5>1
        <5>3. V[id].active = TRUE /\ V[id].grants = last.grants
          BY <4>5, <4>6, <4>7 DEF Agrees
        <5> QED BY <5>2, <5>3
      <4>8. CASE last.kind # "upsert"
        <5>1. S[id] = [active |-> last.active, grants |-> said[id].grants]
          BY <3>3, <3>5, <4>8
        <5> QED BY <2>0, <4>5, <4>6, <4>8, <5>1 DEF Agrees
      <4> QED BY <4>7, <4>8
    <3> QED BY <3>4, <3>5
  <2>5. rows' = V /\ said' = S
    BY <1>2, <2>2
  <2> QED BY <2>3, <2>4, <2>5 DEF Audited
<1> QED BY <1>4, <1>5, <1>6, <1>7 DEF WhitelistInv

LEMMA CommitKeeps ==
  ASSUME WInv, NEW c \in Clients, Commit(c)
  PROVE  WInv'
<1>1. PICK t, V, z : t = tx[c] /\ V = View(c) /\ z = IdleTx
  OBVIOUS
<1>2. /\ t.pc = "commit" /\ rows' = V /\ said' = Say(c) /\ tx' = [tx EXCEPT ![c] = z]
      /\ rows' = View(c)
  BY <1>1 DEF Commit
<1>3. Table(rows)' /\ WhitelistInv'
  BY <1>1, <1>2, CommitRows
<1>4. /\ Own(t) /\ DOMAIN V = DOMAIN rows \cup DOMAIN t.pending
      /\ \A id \in DOMAIN V : V[id] = RowOf(t, id)
  BY <1>1, Seen
<1>5. /\ tx' = [d \in Clients |-> tx'[d]] /\ tx'[c] = z
      /\ \A d \in Clients \ {c} : tx'[d] = tx[d]
  BY <1>2 DEF WInv
<1>6. Own(z)' /\ \A u : Apart(z, u)'
  BY <1>1, IdleIsFineNext
<1>7. ASSUME NEW d \in Clients PROVE Own(tx[d])'
  <2>1. CASE d = c
    <3>1. PICK u : u = tx'[d]
      OBVIOUS
    <3>2. u = z
      BY <1>5, <2>1, <3>1
    <3> QED BY <1>6, <3>1, <3>2
  <2>2. CASE d # c
    <3>1. PICK u : u = tx[d]
      OBVIOUS
    <3>2. Own(u) /\ Apart(t, u) /\ Table(rows)
      BY <1>1, <2>2, <3>1 DEF WInv
    <3>3. Own(u)'
      BY <1>2, <1>4, <3>2, OthersStay
    <3>4. tx'[d] = u
      BY <1>5, <2>2, <3>1
    <3> QED BY <3>3, <3>4
  <2> QED BY <2>1, <2>2
<1>8. ASSUME NEW d \in Clients, NEW e \in Clients, d # e PROVE Apart(tx[d], tx[e])'
  <2>1. PICK u, v : u = tx'[d] /\ v = tx'[e]
    OBVIOUS
  <2>2. CASE d = c
    <3>1. u = z
      BY <1>5, <2>1, <2>2
    <3> QED BY <1>6, <2>1, <3>1
  <2>3. CASE e = c
    <3>1. v = z
      BY <1>5, <2>1, <2>3
    <3>2. Apart(v, u)'
      BY <1>6, <3>1
    <3>3. Apart(u, v)'
      BY <3>2 DEF Apart
    <3> QED BY <2>1, <3>3
  <2>4. CASE d # c /\ e # c
    <3>1. u = tx[d] /\ v = tx[e]
      BY <1>5, <2>1, <2>4
    <3>2. Apart(u, v)
      BY <1>8, <3>1 DEF WInv
    <3>3. DOMAIN rows \subseteq DOMAIN V
      BY <1>4
    <3>4. Apart(u, v)'
      BY <1>2, <3>2, <3>3 DEF Apart
    <3> QED BY <2>1, <3>4
  <2> QED BY <2>2, <2>3, <2>4
<1> QED BY <1>3, <1>5, <1>7, <1>8 DEF WInv

LEMMA WhitelistStays ==
  ASSUME WInv, UNCHANGED whitelist
  PROVE  WInv'
<1>1. rows' = rows /\ said' = said /\ tx' = tx
  BY DEF whitelist
<1>2. ASSUME NEW d \in Clients PROVE Own(tx[d])'
  <2>1. PICK u : u = tx[d]
    OBVIOUS
  <2>2. Own(u)'
    BY <1>1, <2>1, OwnStays DEF WInv
  <2> QED BY <1>1, <2>1, <2>2
<1>3. ASSUME NEW d \in Clients, NEW e \in Clients, d # e PROVE Apart(tx[d], tx[e])'
  <2>1. PICK u, v : u = tx[d] /\ v = tx[e]
    OBVIOUS
  <2>2. Apart(u, v)'
    BY <1>1, <1>3, <2>1, OwnStays DEF WInv
  <2> QED BY <1>1, <2>1, <2>2
<1>4. Table(rows)' /\ WhitelistInv' /\ (tx = [d \in Clients |-> tx[d]])'
  BY <1>1 DEF WInv, Table, WhitelistInv, OneUserPerPhone, Audited, ExploreNeedsRole, Valid
<1> QED BY <1>2, <1>3, <1>4 DEF WInv

\* A restart ends the panel's transactions and none of a script's.
LEMMA RestartRollsBack ==
  ASSUME WInv, Restart
  PROVE  WInv'
<1>1. PICK z : z = IdleTx
  OBVIOUS
<1>2. /\ rows' = rows /\ said' = said
      /\ tx' = [d \in Clients |-> IF d \in Scripts THEN tx[d] ELSE z]
  BY <1>1 DEF Restart
<1>3. Own(z) /\ (\A u : Apart(z, u)) /\ (\A u : Apart(u, z))
  BY <1>1, IdleIsFine, ApartIsMutual
<1>4. ASSUME NEW d \in Clients PROVE Own(tx[d])'
  <2>1. PICK u : u = tx'[d]
    OBVIOUS
  <2>2. Own(u)
    BY <1>2, <1>3, <2>1 DEF WInv
  <2>3. Own(u)'
    BY <1>2, <2>2, OwnStays
  <2> QED BY <2>1, <2>3
<1>5. ASSUME NEW d \in Clients, NEW e \in Clients, d # e PROVE Apart(tx[d], tx[e])'
  <2>1. PICK u, v : u = tx'[d] /\ v = tx'[e]
    OBVIOUS
  <2>2. Apart(u, v)
    BY <1>2, <1>3, <1>5, <2>1 DEF WInv
  <2>3. Apart(u, v)'
    BY <1>2, <2>2, OwnStays
  <2> QED BY <2>1, <2>3
<1>6. Table(rows)' /\ WhitelistInv' /\ (tx = [d \in Clients |-> tx[d]])'
  BY <1>2 DEF WInv, Table, WhitelistInv, OneUserPerPhone, Audited, ExploreNeedsRole, Valid
<1> QED BY <1>4, <1>5, <1>6 DEF WInv

\* What the panel and the scripts may begin.
LEMMA OneJob ==
  ASSUME WInv, NEW c \in Clients, NEW job \in Jobs, Begin(c, <<job>>)
  PROVE  WInv'
<1>1. PICK jobs : jobs = <<job>>
  OBVIOUS
<1>2. /\ jobs \in Seq(Jobs) \ {<<>>} /\ Len(jobs) = 1 /\ jobs[1] = job
      /\ DOMAIN jobs = {1} /\ Begin(c, jobs)
  BY <1>1
<1>3. job.kind \in {"upsert", "activate"}
  BY JobTypes
<1>4. \/ \A i \in DOMAIN jobs : jobs[i].kind = "upsert"
      \/ Len(jobs) = 1 /\ jobs[1].kind = "activate"
  BY <1>2, <1>3
<1> QED BY <1>2, <1>4, BeginKeeps

LEMMA OneBatch ==
  ASSUME WInv, NEW c \in Clients, NEW batch \in Batches, Begin(c, batch)
  PROVE  WInv'
<1> DEFINE U == {Upsert(phone, form) : phone \in Phones, form \in Forms}
<1>2. batch \in Seq(U) \ {<<>>}
  BY PanelAssumption
<1>3. U \subseteq Jobs /\ \A job \in U : job.kind = "upsert"
  BY DEF Jobs, Upsert
<1> HIDE DEF U
<1>4. batch \in Seq(Jobs) \ {<<>>} /\ \A i \in DOMAIN batch : batch[i].kind = "upsert"
  BY <1>2, <1>3
<1> QED BY <1>4, BeginKeeps

LEMMA WNextKeeps == WInv /\ [Next]_vars => WInv'
<1> SUFFICES ASSUME WInv, [Next]_vars PROVE WInv'
  OBVIOUS
<1>1. ASSUME NEW ip \in Ips, Login(ip) \/ Refuse(ip) PROVE WInv'
  BY <1>1, WhitelistStays DEF Login, Refuse
<1>2. ASSUME NEW ip \in Ips, NEW token \in DOMAIN issued, Visit(ip, token) \/ Logout(ip, token)
      PROVE  WInv'
  BY <1>2, WhitelistStays DEF Visit, Logout
<1>3. ASSUME NEW ip \in Ips, NEW token \in DOMAIN issued, NEW c \in Clients, NEW job \in Jobs,
             Submit(ip, token, c, job)
      PROVE  WInv'
  <2>1. Begin(c, <<job>>)
    BY <1>3 DEF Submit
  <2> QED BY <2>1, OneJob
<1>4. ASSUME NEW token \in DOMAIN issued, Expired(token) PROVE WInv'
  BY <1>4, WhitelistStays DEF Expired
<1>5. ASSUME NEW c \in Clients, NEW job \in Jobs, RunScript(c, <<job>>) PROVE WInv'
  <2>1. Begin(c, <<job>>)
    BY <1>5 DEF RunScript
  <2> QED BY <2>1, OneJob
<1>6. ASSUME NEW c \in Clients, NEW batch \in Batches, RunScript(c, batch) PROVE WInv'
  <2>1. Begin(c, batch)
    BY <1>6 DEF RunScript
  <2> QED BY <2>1, OneBatch
<1>7. ASSUME NEW c \in Clients, Abort(c) PROVE WInv'
  <2>1. Rollback(c) /\ rows' = rows /\ said' = said
    BY <1>7 DEF Abort
  <2> QED BY <2>1, RollbackKeeps
<1>8. CASE Statement
  BY <1>7, <1>8, LookupKeeps, UpdateKeeps, InsertKeeps, SetActiveKeeps, AuditKeeps, CommitKeeps
     DEF Statement
<1>9. CASE Restart
  BY <1>9, RestartRollsBack
<1>10. CASE Tick
  BY <1>10, WhitelistStays DEF Tick
<1>11. CASE UNCHANGED vars
  BY <1>11, WhitelistStays DEF vars
<1> QED BY <1>1, <1>2, <1>3, <1>4, <1>5, <1>6, <1>8, <1>9, <1>10, <1>11 DEF Next

LEMMA WInitInv == Init => WInv
<1> SUFFICES ASSUME Init PROVE WInv
  OBVIOUS
<1>1. rows = <<>> /\ said = <<>> /\ tx = [c \in Clients |-> IdleTx]
  BY DEF Init, WhitelistInit
<1>2. DOMAIN rows = {} /\ DOMAIN said = {} /\ rows \in [{} -> Row]
  BY <1>1
<1>3. Table(rows) /\ WhitelistInv
  BY <1>2, FS_EmptySet DEF Table, WhitelistInv, OneUserPerPhone, Audited, ExploreNeedsRole
<1>4. PICK z : z = IdleTx
  OBVIOUS
<1>5. Own(z) /\ \A u : Apart(z, u)
  BY <1>4, IdleIsFine
<1>6. tx = [c \in Clients |-> tx[c]] /\ \A c \in Clients : tx[c] = z
  BY <1>1, <1>4
<1> QED BY <1>3, <1>5, <1>6 DEF WInv

-----------------------------------------------------------------------------
\* What every step keeps: rows and audit records that agree, transactions that
\* hold disjoint rows, sessions and buckets that remember what they must.
THEOREM Inductive == Spec => []IInv
<1>1. Init => IInv
  BY WInitInv, PInitInv DEF IInv
<1>2. IInv /\ [Next]_vars => IInv'
  BY WNextKeeps, PNextKeeps DEF IInv
<1> QED BY <1>1, <1>2, PTL DEF Spec

\* However the panel's transactions and the scripts' interleave, wait, abort and
\* commit, a phone number has one user, the last audit records say what the
\* whitelist holds, and no grant to explore outlives its role
\* (whitelist-user.ts:87-166, store.ts).
THEOREM WhitelistSafety == Spec => []WhitelistInv
<1>1. IInv => WhitelistInv
  BY DEF IInv, WInv
<1> QED BY <1>1, Inductive, PTL

\* A session admits whom it was given to until it ends, and an address is told
\* at most 2 * (MaxFailures - 1) times in a window's length that its password is
\* wrong, whatever restarts, logins and expiry come between
\* (admin/app.ts:161-210, 361-375).
THEOREM PanelSafety == Spec => []PanelInv
<1>1. IInv => PanelInv
  BY PInvImplies DEF IInv
<1> QED BY <1>1, Inductive, PTL
=============================================================================
