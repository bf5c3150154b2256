----------------------------- MODULE RateLimits -----------------------------
(***************************************************************************)
(* The fixed-window limits every replica shares through the table          *)
(* rate_limit_buckets (src/security/rate-limiter.ts).  One call is one      *)
(* upsert: it counts itself, allowed or not, and starts a new window when   *)
(* the one at hand began a minute ago.  The lifecycle job deletes buckets   *)
(* that nobody has used for two minutes.                                    *)
(***************************************************************************)
EXTENDS Integers, Sequences

CONSTANTS
  Buckets,    \* scope and subject of each limit
  Capacity,   \* calls a bucket allows in one window
  Minute,     \* ticks in a minute
  MaxTime     \* bound: the last tick

ASSUME BucketAssumption == Capacity \in [Buckets -> Nat \ {0}]
ASSUME MinuteAssumption == Minute \in Nat \ {0} /\ MaxTime \in Nat

VARIABLES
  now,      \* clock_timestamp()
  bucket,   \* rate_limit_buckets
  passed    \* history since the last erasure: when each bucket let a call
            \* pass, and which of these opened its last window and the one before

limits == <<now, bucket, passed>>

NoBucket == [started |-> 0, count |-> 0, expires |-> 0]
Bucket == [started : Nat, count : Nat, expires : Nat]

Unused == [at |-> <<>>, first |-> 0, prev |-> 0]
Passed == [at : Seq(Nat), first : Nat, prev : Nat]

LimitTypeOK ==
  /\ now \in Nat
  /\ bucket \in [Buckets -> Bucket]
  /\ passed \in [Buckets -> Passed]

LimitInit ==
  /\ now = 0
  /\ bucket = [b \in Buckets |-> NoBucket]
  /\ passed = [b \in Buckets |-> Unused]

RestartsEarly(b) == bucket[b].count = 0 \/ bucket[b].started < now

\* No row, or a row whose window is over.
Restarts(b) == bucket[b].count = 0 \/ bucket[b].started <= now - Minute

\* request_count and window_started_at after the upsert.
Counted(b) ==
  [started |-> IF Restarts(b) THEN now ELSE bucket[b].started,
   count   |-> IF Restarts(b) THEN 1 ELSE bucket[b].count + 1,
   expires |-> now + 2 * Minute]

\* RETURNING request_count <= capacity
Allows(b) == Counted(b).count <= Capacity[b]

Noted(b) ==
  [at    |-> Append(passed[b].at, now),
   first |-> IF Restarts(b) THEN Len(passed[b].at) + 1 ELSE passed[b].first,
   prev  |-> IF Restarts(b) THEN passed[b].first ELSE passed[b].prev]

Consume(b) ==
  /\ bucket' = [bucket EXCEPT ![b] = Counted(b)]
  /\ passed' = [passed EXCEPT ![b] = IF Allows(b) THEN Noted(b) ELSE @]
  /\ UNCHANGED now

\* DELETE FROM rate_limit_buckets WHERE expires_at < NOW()
PurgeBuckets ==
  /\ \E b \in Buckets : bucket[b].count > 0 /\ bucket[b].expires < now
  /\ bucket' = [b \in Buckets |-> IF bucket[b].expires < now THEN NoBucket ELSE bucket[b]]
  /\ UNCHANGED <<now, passed>>

\* DELETE FROM rate_limit_buckets, when a client's data are erased.
EraseBuckets ==
  /\ bucket' = [b \in Buckets |-> NoBucket]
  /\ passed' = [b \in Buckets |-> Unused]
  /\ UNCHANGED now

Elapse ==
  /\ now < MaxTime
  /\ now' = now + 1
  /\ UNCHANGED <<bucket, passed>>

LimitNext == (\E b \in Buckets : Consume(b)) \/ PurgeBuckets \/ EraseBuckets \/ Elapse

LimitSpec == LimitInit /\ [][LimitNext]_limits

\* A window that ends at any moment, not only at the one the bucket counts by:
\* across a boundary a bucket may let almost twice its capacity pass in one
\* minute, and never more.  For the notices and the lockout report, whose
\* capacity is one, that is one a minute (message-processor.ts:294, 563).
BurstBound ==
  \A b \in Buckets : LET at == passed[b].at IN
    \A n \in DOMAIN at : LET k == n + 2 * Capacity[b] - 1 IN
      k \in DOMAIN at => at[n] + Minute <= at[k]

\* Why: calls pass in order, each window lets at most its capacity pass, and
\* the last two windows began a minute apart.
InOrder ==
  \A b \in Buckets : LET at == passed[b].at IN
    /\ \A n \in DOMAIN at : at[n] <= now
    /\ \A n, k \in DOMAIN at : n <= k => at[n] <= at[k]

WindowsFit ==
  \A b \in Buckets : LET p == passed[b] IN
    /\ p.first <= Len(p.at) /\ p.prev <= p.first
    /\ Len(p.at) > 0 => p.first > 0
    /\ Len(p.at) + 1 - p.first <= Capacity[b] \/ Len(p.at) = 0
    /\ p.first - p.prev <= Capacity[b]
    /\ p.prev > 0 => p.at[p.prev] + Minute <= p.at[p.first]
    /\ p.prev = 0 => p.first <= 1

BucketCounts ==
  \A b \in Buckets : LET p == passed[b] IN
    /\ bucket[b].count > 0 =>
         /\ p.first > 0 /\ bucket[b].started = p.at[p.first]
         /\ Len(p.at) + 1 - p.first <= bucket[b].count
         /\ bucket[b].expires >= bucket[b].started + 2 * Minute
    /\ bucket[b].count = 0 /\ p.first > 0 => p.at[p.first] + Minute <= now

LimitInv == LimitTypeOK /\ InOrder /\ WindowsFit /\ BucketCounts /\ BurstBound
=============================================================================
