---------------------------- MODULE IngressProofs ----------------------------
(***************************************************************************)
(* The webhook from request to row, for every number of requests, messages, *)
(* senders and keys: it is a user of the limits (so their bound holds here), *)
(* nothing is stored after an erasure, an acknowledged message is stored or  *)
(* refused, and none is stored twice where the freshness test is on.         *)
(***************************************************************************)
EXTENDS Ingress, FiniteSetTheorems, NaturalsInduction, WellFoundedInduction, TLAPS

-----------------------------------------------------------------------------
\* A sequence one longer keeps what it had.
LEMMA Longer ==
  ASSUME NEW s \in Seq(Nat), NEW x \in Nat
  PROVE  /\ Append(s, x) \in Seq(Nat) /\ Len(Append(s, x)) = Len(s) + 1
         /\ DOMAIN s = 1..Len(s) /\ DOMAIN Append(s, x) = 1..(Len(s) + 1)
         /\ \A n \in 1..Len(s) : Append(s, x)[n] = s[n] /\ s[n] \in Nat
         /\ Append(s, x)[Len(s) + 1] = x
         /\ Len(s) \in Nat
  OBVIOUS

LEMMA Slack ==
  ASSUME NEW i \in Nat, NEW j \in Nat, NEW d \in Nat, NEW t \in Nat, i <= j
  PROVE  (j + d <= t => i + d <= t) /\ (j <= t => i + d <= t + d)
  OBVIOUS

\* Calls that passed at s are in order, and none is later than t.
Ordered(s, t) ==
  /\ \A n \in 1..Len(s) : s[n] <= t
  /\ \A n, k \in 1..Len(s) : n <= k => s[n] <= s[k]

\* The last window began with call f, the one before with call g.
Windows(s, f, g, c) ==
  /\ f <= Len(s) /\ g <= f
  /\ Len(s) > 0 => f > 0
  /\ Len(s) + 1 - f <= c \/ Len(s) = 0
  /\ f - g <= c
  /\ g > 0 => s[g] + Minute <= s[f]
  /\ g = 0 => f <= 1

\* The row began at w, counted q calls and goes at e.
Counts(s, f, w, q, e, t) ==
  /\ q > 0 => /\ f > 0 /\ w = s[f]
              /\ Len(s) + 1 - f <= q
              /\ e >= w + 2 * Minute
  /\ q = 0 /\ f > 0 => s[f] + Minute <= t

Bursts(s, c) ==
  \A n \in 1..Len(s) : n + 2 * c - 1 \in 1..Len(s) => s[n] + Minute <= s[n + 2 * c - 1]

\* What the invariant says of one bucket, and of no other.
Fits(s, f, g, w, q, e, c, t) ==
  Ordered(s, t) /\ Windows(s, f, g, c) /\ Counts(s, f, w, q, e, t) /\ Bursts(s, c)

LEMMA EachFits ==
  ASSUME LimitInv, NEW b \in Buckets
  PROVE  /\ passed[b].at \in Seq(Nat) /\ passed[b].first \in Nat /\ passed[b].prev \in Nat
         /\ bucket[b].started \in Nat /\ bucket[b].count \in Nat /\ bucket[b].expires \in Nat
         /\ Capacity[b] \in Nat \ {0} /\ now \in Nat /\ Minute \in Nat \ {0}
         /\ Fits(passed[b].at, passed[b].first, passed[b].prev, bucket[b].started,
                 bucket[b].count, bucket[b].expires, Capacity[b], now)
<1>1. passed[b] \in Passed /\ bucket[b] \in Bucket /\ now \in Nat
  BY DEF LimitInv, LimitTypeOK
<1>2. /\ passed[b].at \in Seq(Nat) /\ passed[b].first \in Nat /\ passed[b].prev \in Nat
      /\ bucket[b].started \in Nat /\ bucket[b].count \in Nat /\ bucket[b].expires \in Nat
  BY <1>1 DEF Passed, Bucket
<1>3. Capacity[b] \in Nat \ {0} /\ Minute \in Nat \ {0}
  BY BucketAssumption, MinuteAssumption
<1>4. DOMAIN passed[b].at = 1..Len(passed[b].at)
  BY <1>2
<1>5. Ordered(passed[b].at, now)
  BY <1>4 DEF LimitInv, InOrder, Ordered
<1>6. Windows(passed[b].at, passed[b].first, passed[b].prev, Capacity[b])
  BY DEF LimitInv, WindowsFit, Windows
<1>7. Counts(passed[b].at, passed[b].first, bucket[b].started, bucket[b].count,
             bucket[b].expires, now)
  BY DEF LimitInv, BucketCounts, Counts
<1>8. Bursts(passed[b].at, Capacity[b])
  BY <1>4 DEF LimitInv, BurstBound, Bursts
<1>9. QED
  BY <1>1, <1>2, <1>3, <1>5, <1>6, <1>7, <1>8 DEF Fits

\* And the invariant after a step, from what the step leaves of each bucket.
LEMMA AllFit ==
  ASSUME /\ now' \in Nat /\ bucket' \in [Buckets -> Bucket] /\ passed' \in [Buckets -> Passed]
         /\ \A b \in Buckets :
              Fits(passed'[b].at, passed'[b].first, passed'[b].prev, bucket'[b].started,
                   bucket'[b].count, bucket'[b].expires, Capacity[b], now')
  PROVE  LimitInv'
<1>1. \A b \in Buckets : DOMAIN passed'[b].at = 1..Len(passed'[b].at)
  BY DEF Passed
<1>2. LimitTypeOK'
  BY DEF LimitTypeOK
<1>3. InOrder'
  BY <1>1 DEF Fits, Ordered, InOrder
<1>4. WindowsFit'
  BY DEF Fits, Windows, WindowsFit
<1>5. BucketCounts'
  BY DEF Fits, Counts, BucketCounts
<1>6. BurstBound'
  BY <1>1 DEF Fits, Bursts, BurstBound
<1>7. QED
  BY <1>2, <1>3, <1>4, <1>5, <1>6 DEF LimitInv

\* One more call at time t keeps the order.
LEMMA OrderKept ==
  ASSUME NEW s \in Seq(Nat), NEW t \in Nat, Ordered(s, t)
  PROVE  Ordered(Append(s, t), t)
<1>1. \A n \in 1..Len(s) : Append(s, t)[n] = s[n] /\ s[n] <= t
  BY Longer DEF Ordered
<1>2. Len(Append(s, t)) = Len(s) + 1 /\ Append(s, t)[Len(s) + 1] = t /\ Len(s) \in Nat
  BY Longer
<1>3. \A n, k \in 1..Len(s) : n <= k => s[n] <= s[k]
  BY DEF Ordered
<1>4. ASSUME NEW n \in 1..(Len(s) + 1), NEW k \in 1..(Len(s) + 1), n <= k
      PROVE  Append(s, t)[n] <= Append(s, t)[k]
  <2>1. CASE k \in 1..Len(s)
    BY <1>1, <1>2, <1>3, <1>4, <2>1
  <2>2. CASE n \in 1..Len(s) /\ k = Len(s) + 1
    BY <1>1, <1>2, <2>2
  <2>3. CASE n = Len(s) + 1 /\ k = Len(s) + 1
    BY <1>2, <2>3
  <2>4. QED
    BY <1>2, <1>4, <2>1, <2>2, <2>3
<1>5. \A n \in 1..(Len(s) + 1) : Append(s, t)[n] <= t
  BY <1>1, <1>2
<1>6. QED
  BY <1>2, <1>4, <1>5 DEF Ordered

\* It keeps the bound too, when the calls up to h passed a minute before t and
\* fewer than 2 * c - 1 calls have passed since.
LEMMA BoundKept ==
  ASSUME NEW s \in Seq(Nat), NEW t \in Nat, NEW c \in Nat \ {0}, NEW h \in Nat,
         Minute \in Nat, Ordered(s, t), Bursts(s, c),
         h <= Len(s), Len(s) - h <= 2 * c - 2, h > 0 => s[h] + Minute <= t
  PROVE  Bursts(Append(s, t), c)
<1>1. /\ \A n \in 1..Len(s) : Append(s, t)[n] = s[n] /\ s[n] \in Nat
      /\ Len(Append(s, t)) = Len(s) + 1 /\ Append(s, t)[Len(s) + 1] = t /\ Len(s) \in Nat
  BY Longer
<1>2. ASSUME NEW n \in 1..(Len(s) + 1), NEW k \in 1..(Len(s) + 1), k = n + 2 * c - 1
      PROVE  Append(s, t)[n] + Minute <= Append(s, t)[k]
  <2>1. n < k
    BY <1>2
  <2>2. CASE k \in 1..Len(s)
    <3>1. n \in 1..Len(s) /\ n + 2 * c - 1 \in 1..Len(s)
      BY <1>1, <1>2, <2>1, <2>2
    <3>2. s[n] + Minute <= s[k]
      BY <1>2, <3>1 DEF Bursts
    <3>3. QED
      BY <1>1, <2>2, <3>1, <3>2
  <2>3. CASE k = Len(s) + 1
    <3>1. n \in 1..Len(s) /\ n <= h /\ h \in 1..Len(s)
      BY <1>1, <1>2, <2>1, <2>3
    <3>2. s[n] <= s[h] /\ s[h] + Minute <= t
      BY <3>1 DEF Ordered
    <3>3. s[n] \in Nat /\ s[h] \in Nat
      BY <1>1, <3>1
    <3>4. s[n] + Minute <= t
      BY <3>2, <3>3, Slack
    <3>5. Append(s, t)[n] = s[n] /\ Append(s, t)[k] = t
      BY <1>1, <2>3, <3>1
    <3>6. QED
      BY <3>4, <3>5
  <2>4. QED
    BY <1>1, <2>2, <2>3
<1>3. QED
  BY <1>1, <1>2 DEF Bursts

\* A call that passes as the first of a new window.
LEMMA PassesFirst ==
  ASSUME NEW s \in Seq(Nat), NEW f \in Nat, NEW g \in Nat, NEW w \in Nat, NEW q \in Nat,
         NEW e \in Nat, NEW c \in Nat \ {0}, NEW t \in Nat, Minute \in Nat \ {0},
         Fits(s, f, g, w, q, e, c, t), q = 0 \/ w <= t - Minute
  PROVE  Fits(Append(s, t), Len(s) + 1, f, t, 1, t + 2 * Minute, c, t)
<1>1. /\ \A n \in 1..Len(s) : Append(s, t)[n] = s[n] /\ s[n] \in Nat
      /\ Len(Append(s, t)) = Len(s) + 1 /\ Append(s, t)[Len(s) + 1] = t /\ Len(s) \in Nat
  BY Longer
<1>2. Ordered(s, t) /\ Windows(s, f, g, c) /\ Counts(s, f, w, q, e, t) /\ Bursts(s, c)
  BY DEF Fits
<1>3. f > 0 => f \in 1..Len(s)
  BY <1>1, <1>2 DEF Windows
<1>4. f > 0 => s[f] + Minute <= t
  BY <1>1, <1>2, <1>3 DEF Counts
<1>5. Ordered(Append(s, t), t)
  BY <1>2, OrderKept
<1>6. f <= Len(s) /\ (f = 0 => Len(s) = 0) /\ Len(s) + 1 - f <= c
  BY <1>1, <1>2 DEF Windows
<1>7. f > 0 => Append(s, t)[f] + Minute <= Append(s, t)[Len(s) + 1]
  BY <1>1, <1>3, <1>4
<1>8. Windows(Append(s, t), Len(s) + 1, f, c)
  BY <1>1, <1>6, <1>7 DEF Windows
<1>9. Counts(Append(s, t), Len(s) + 1, t, 1, t + 2 * Minute, t)
  BY <1>1 DEF Counts
<1>10. Len(s) - f <= 2 * c - 2
  BY <1>1, <1>6
<1>11. Bursts(Append(s, t), c)
  BY <1>2, <1>4, <1>6, <1>10, BoundKept
<1>12. QED
  BY <1>5, <1>8, <1>9, <1>11 DEF Fits

\* A call that passes in the window the bucket has.
LEMMA PassesNext ==
  ASSUME NEW s \in Seq(Nat), NEW f \in Nat, NEW g \in Nat, NEW w \in Nat, NEW q \in Nat,
         NEW e \in Nat, NEW c \in Nat \ {0}, NEW t \in Nat, Minute \in Nat \ {0},
         Fits(s, f, g, w, q, e, c, t), q > 0, q + 1 <= c
  PROVE  Fits(Append(s, t), f, g, w, q + 1, t + 2 * Minute, c, t)
<1>1. /\ \A n \in 1..Len(s) : Append(s, t)[n] = s[n] /\ s[n] \in Nat
      /\ Len(Append(s, t)) = Len(s) + 1 /\ Append(s, t)[Len(s) + 1] = t /\ Len(s) \in Nat
  BY Longer
<1>2. Ordered(s, t) /\ Windows(s, f, g, c) /\ Counts(s, f, w, q, e, t) /\ Bursts(s, c)
  BY DEF Fits
<1>3. f > 0 /\ w = s[f] /\ Len(s) + 1 - f <= q
  BY <1>2 DEF Counts
<1>4. f <= Len(s) /\ g <= f /\ f - g <= c /\ (g = 0 => f <= 1)
      /\ (g > 0 => s[g] + Minute <= s[f])
  BY <1>2 DEF Windows
<1>5. f \in 1..Len(s) /\ (g > 0 => g \in 1..Len(s))
  BY <1>1, <1>3, <1>4
<1>6. s[f] <= t
  BY <1>2, <1>5 DEF Ordered
<1>7. Ordered(Append(s, t), t)
  BY <1>2, OrderKept
<1>8. Append(s, t)[f] = s[f] /\ (g > 0 => Append(s, t)[g] = s[g])
  BY <1>1, <1>5
<1>9. Windows(Append(s, t), f, g, c)
  BY <1>1, <1>3, <1>4, <1>8 DEF Windows
<1>10. Counts(Append(s, t), f, w, q + 1, t + 2 * Minute, t)
  BY <1>1, <1>3, <1>6, <1>8 DEF Counts
<1>11. g <= Len(s) /\ Len(s) - g <= 2 * c - 2
  BY <1>1, <1>3, <1>4
<1>12. g > 0 => s[g] + Minute <= t
  <2>1. CASE g > 0
    <3>1. s[g] \in Nat /\ s[f] \in Nat /\ s[g] + Minute <= s[f]
      BY <1>1, <1>4, <1>5, <2>1
    <3>2. s[g] + Minute <= t
      <4>1. \A i, j, d, k \in Nat : i + d <= j /\ j <= k => i + d <= k
        OBVIOUS
      <4>2. Minute \in Nat /\ t \in Nat
        OBVIOUS
      <4>3. QED
        BY <1>6, <3>1, <4>1, <4>2
    <3>3. QED
      BY <3>2
  <2>2. QED
    BY <2>1
<1>13. Bursts(Append(s, t), c)
  BY <1>2, <1>11, <1>12, BoundKept
<1>14. QED
  BY <1>7, <1>9, <1>10, <1>13 DEF Fits

\* A call the bucket turns away only counts itself.
LEMMA TurnedAway ==
  ASSUME NEW s \in Seq(Nat), NEW f \in Nat, NEW g \in Nat, NEW w \in Nat, NEW q \in Nat,
         NEW e \in Nat, NEW c \in Nat \ {0}, NEW t \in Nat, Minute \in Nat \ {0},
         Fits(s, f, g, w, q, e, c, t), q > 0
  PROVE  Fits(s, f, g, w, q + 1, t + 2 * Minute, c, t)
<1>1. Ordered(s, t) /\ Windows(s, f, g, c) /\ Counts(s, f, w, q, e, t) /\ Bursts(s, c)
  BY DEF Fits
<1>2. f > 0 /\ w = s[f] /\ Len(s) + 1 - f <= q /\ Len(s) \in Nat
  BY <1>1 DEF Counts
<1>3. f \in 1..Len(s)
  BY <1>1, <1>2 DEF Windows
<1>4. w <= t
  BY <1>1, <1>2, <1>3 DEF Ordered
<1>5. Len(s) + 1 - f <= q + 1 /\ q + 1 > 0 /\ q + 1 # 0 /\ t + 2 * Minute >= w + 2 * Minute
  <2>1. \A i, j, k, d \in Nat : /\ i + 1 - j <= k => i + 1 - j <= k + 1
                               /\ i <= j => j + 2 * d >= i + 2 * d
    OBVIOUS
  <2>2. q + 1 > 0 /\ q + 1 # 0
    OBVIOUS
  <2>3. PICK n \in Nat : n = Len(s)
    BY <1>2
  <2>4. n + 1 - f <= q
    BY <1>2, <2>3
  <2>5. n + 1 - f <= q + 1
    BY <2>1, <2>4
  <2>6. t + 2 * Minute >= w + 2 * Minute
    <3>1. Minute \in Nat
      OBVIOUS
    <3>2. QED
      BY <1>4, <2>1, <3>1
  <2>7. QED
    BY <2>2, <2>3, <2>5, <2>6
<1>6. Counts(s, f, w, q + 1, t + 2 * Minute, t)
  BY <1>2, <1>5 DEF Counts
<1>7. QED
  BY <1>1, <1>6 DEF Fits

\* Time passes; a bucket that nobody used for two minutes goes.
LEMMA Ages ==
  ASSUME NEW s \in Seq(Nat), NEW f \in Nat, NEW g \in Nat, NEW w \in Nat, NEW q \in Nat,
         NEW e \in Nat, NEW c \in Nat \ {0}, NEW t \in Nat, Minute \in Nat \ {0},
         Fits(s, f, g, w, q, e, c, t)
  PROVE  Fits(s, f, g, w, q, e, c, t + 1) /\ (e < t => Fits(s, f, g, 0, 0, 0, c, t))
<1>1. Ordered(s, t) /\ Windows(s, f, g, c) /\ Counts(s, f, w, q, e, t) /\ Bursts(s, c)
  BY DEF Fits
<1>2. \A n \in 1..Len(s) : s[n] \in Nat
  BY Longer
<1>3. Len(s) \in Nat /\ (f > 0 => f \in 1..Len(s))
  BY <1>1 DEF Windows
<1>4. Ordered(s, t + 1)
  BY <1>1, <1>2 DEF Ordered
<1>5. f > 0 => s[f] \in Nat
  BY <1>2, <1>3
<1>6. Counts(s, f, w, q, e, t + 1)
  BY <1>1, <1>5 DEF Counts
<1>7. e < t => Counts(s, f, 0, 0, 0, t)
  BY <1>1, <1>5 DEF Counts
<1>8. QED
  BY <1>1, <1>4, <1>6, <1>7 DEF Fits

\* What one call leaves of its bucket.
LEMMA OneCall ==
  ASSUME LimitInv, NEW b \in Buckets, Consume(b)
  PROVE  /\ passed'[b] \in Passed /\ bucket'[b] \in Bucket
         /\ Fits(passed'[b].at, passed'[b].first, passed'[b].prev, bucket'[b].started,
                 bucket'[b].count, bucket'[b].expires, Capacity[b], now)
<1> DEFINE p == passed[b]
           r == bucket[b]
<1>0. /\ bucket \in [Buckets -> Bucket] /\ passed \in [Buckets -> Passed]
  BY DEF LimitInv, LimitTypeOK
<1>1. bucket'[b] = Counted(b) /\ passed'[b] = IF Allows(b) THEN Noted(b) ELSE p
  BY <1>0 DEF Consume
<1>2. /\ p.at \in Seq(Nat) /\ p.first \in Nat /\ p.prev \in Nat
      /\ r.started \in Nat /\ r.count \in Nat /\ r.expires \in Nat
      /\ Capacity[b] \in Nat \ {0} /\ now \in Nat /\ Minute \in Nat \ {0}
      /\ Fits(p.at, p.first, p.prev, r.started, r.count, r.expires, Capacity[b], now)
  BY EachFits
<1>3. Append(p.at, now) \in Seq(Nat) /\ Len(p.at) + 1 \in Nat
  BY <1>2, Longer
<1>4. CASE Restarts(b)
  <2>1. Counted(b) = [started |-> now, count |-> 1, expires |-> now + 2 * Minute]
    BY <1>4 DEF Counted
  <2>2. Allows(b)
    BY <1>2, <2>1 DEF Allows
  <2>3. Noted(b) = [at |-> Append(p.at, now), first |-> Len(p.at) + 1, prev |-> p.first]
    BY <1>4 DEF Noted
  <2>4. r.count = 0 \/ r.started <= now - Minute
    BY <1>4 DEF Restarts
  <2>5. Fits(Append(p.at, now), Len(p.at) + 1, p.first, now, 1, now + 2 * Minute,
             Capacity[b], now)
    BY <1>2, <2>4, PassesFirst
  <2>6. now + 2 * Minute \in Nat
    BY <1>2
  <2>7. QED
    BY <1>1, <1>2, <1>3, <2>1, <2>2, <2>3, <2>5, <2>6 DEF Passed, Bucket
<1>5. CASE ~Restarts(b)
  <2>1. Counted(b) = [started |-> r.started, count |-> r.count + 1, expires |-> now + 2 * Minute]
    BY <1>5 DEF Counted
  <2>2. r.count > 0
    BY <1>2, <1>5 DEF Restarts
  <2>3. now + 2 * Minute \in Nat /\ r.count + 1 \in Nat
    BY <1>2
  <2>4. CASE Allows(b)
    <3>1. r.count + 1 <= Capacity[b]
      BY <2>1, <2>4 DEF Allows
    <3>2. Noted(b) = [at |-> Append(p.at, now), first |-> p.first, prev |-> p.prev]
      BY <1>5 DEF Noted
    <3>3. Fits(Append(p.at, now), p.first, p.prev, r.started, r.count + 1, now + 2 * Minute,
               Capacity[b], now)
      BY <1>2, <2>2, <3>1, PassesNext
    <3>4. QED
      BY <1>1, <1>2, <1>3, <2>1, <2>3, <2>4, <3>2, <3>3 DEF Passed, Bucket
  <2>5. CASE ~Allows(b)
    <3>1. Fits(p.at, p.first, p.prev, r.started, r.count + 1, now + 2 * Minute, Capacity[b], now)
      BY <1>2, <2>2, TurnedAway
    <3>2. passed'[b] = p /\ p \in Passed
      BY <1>0, <1>1, <2>5
    <3>3. QED
      BY <1>1, <1>2, <2>1, <2>3, <3>1, <3>2 DEF Bucket
  <2>6. QED
    BY <2>4, <2>5
<1>6. QED
  BY <1>4, <1>5

\* A bucket nobody has used yet.
LEMMA FreshFits ==
  ASSUME NEW c \in Nat \ {0}, NEW t \in Nat, Minute \in Nat
  PROVE  /\ NoBucket \in Bucket /\ Unused \in Passed
         /\ Fits(Unused.at, Unused.first, Unused.prev, NoBucket.started, NoBucket.count,
                 NoBucket.expires, c, t)
<1>1. /\ NoBucket.started = 0 /\ NoBucket.count = 0 /\ NoBucket.expires = 0 /\ NoBucket \in Bucket
      /\ Unused.at = <<>> /\ Unused.first = 0 /\ Unused.prev = 0 /\ Unused \in Passed
  BY DEF NoBucket, Bucket, Unused, Passed
<1>2. Len(Unused.at) = 0
  BY <1>1
<1>3. 1..Len(Unused.at) = {}
  BY <1>2
<1>4. Ordered(Unused.at, t) /\ Bursts(Unused.at, c)
  BY <1>3 DEF Ordered, Bursts
<1>5. Windows(Unused.at, 0, 0, c)
  BY <1>2 DEF Windows
<1>6. Counts(Unused.at, 0, 0, 0, 0, t)
  BY DEF Counts
<1>7. QED
  BY <1>1, <1>4, <1>5, <1>6 DEF Fits

LEMMA LimitStep == LimitInv /\ [LimitNext]_limits => LimitInv'
<1> SUFFICES ASSUME LimitInv, [LimitNext]_limits PROVE LimitInv'
  OBVIOUS
<1>0. now \in Nat /\ bucket \in [Buckets -> Bucket] /\ passed \in [Buckets -> Passed]
  BY DEF LimitInv, LimitTypeOK
<1>1. ASSUME NEW b \in Buckets, Consume(b) PROVE LimitInv'
  <2>1. /\ now' = now /\ bucket' = [bucket EXCEPT ![b] = Counted(b)]
        /\ passed' = [passed EXCEPT ![b] = IF Allows(b) THEN Noted(b) ELSE @]
    BY <1>1 DEF Consume
  <2>2. passed'[b] \in Passed /\ bucket'[b] \in Bucket
    BY <1>1, OneCall
  <2>3. \A c \in Buckets : c # b => passed'[c] = passed[c] /\ bucket'[c] = bucket[c]
    BY <1>0, <2>1
  <2>4. bucket' \in [Buckets -> Bucket] /\ passed' \in [Buckets -> Passed]
    BY <1>0, <2>1, <2>2
  <2>5. \A c \in Buckets : Fits(passed'[c].at, passed'[c].first, passed'[c].prev,
          bucket'[c].started, bucket'[c].count, bucket'[c].expires, Capacity[c], now')
    <3>1. TAKE c \in Buckets
    <3>2. CASE c = b
      BY <1>1, <2>1, <3>2, OneCall
    <3>3. CASE c # b
      BY <2>1, <2>3, <3>3, EachFits
    <3>4. QED
      BY <3>2, <3>3
  <2>6. QED
    BY <1>0, <2>1, <2>4, <2>5, AllFit
<1>2. ASSUME PurgeBuckets PROVE LimitInv'
  <2>1. /\ now' = now /\ passed' = passed
        /\ bucket' = [b \in Buckets |-> IF bucket[b].expires < now THEN NoBucket ELSE bucket[b]]
    BY <1>2 DEF PurgeBuckets
  <2>2. NoBucket \in Bucket /\ NoBucket.started = 0 /\ NoBucket.count = 0 /\ NoBucket.expires = 0
    BY DEF NoBucket, Bucket
  <2>3. bucket' \in [Buckets -> Bucket]
    BY <1>0, <2>1, <2>2
  <2>4. \A b \in Buckets : Fits(passed'[b].at, passed'[b].first, passed'[b].prev,
          bucket'[b].started, bucket'[b].count, bucket'[b].expires, Capacity[b], now')
    <3>1. TAKE b \in Buckets
    <3>2. CASE bucket[b].expires < now
      <4>1. bucket'[b] = NoBucket
        BY <2>1, <3>2
      <4>2. Fits(passed[b].at, passed[b].first, passed[b].prev, 0, 0, 0, Capacity[b], now)
        BY <3>2, EachFits, Ages
      <4>3. QED
        BY <2>1, <2>2, <4>1, <4>2
    <3>3. CASE ~(bucket[b].expires < now)
      <4>1. bucket'[b] = bucket[b]
        BY <2>1, <3>3
      <4>2. QED
        BY <2>1, <4>1, EachFits
    <3>4. QED
      BY <3>2, <3>3
  <2>5. QED
    BY <1>0, <2>1, <2>3, <2>4, AllFit
<1>3. ASSUME Elapse PROVE LimitInv'
  <2>1. now' = now + 1 /\ bucket' = bucket /\ passed' = passed
    BY <1>3 DEF Elapse
  <2>2. \A b \in Buckets : Fits(passed[b].at, passed[b].first, passed[b].prev,
          bucket[b].started, bucket[b].count, bucket[b].expires, Capacity[b], now + 1)
    <3>1. TAKE b \in Buckets
    <3>2. QED
      BY EachFits, Ages
  <2>3. now' \in Nat
    BY <1>0, <2>1
  <2>4. QED
    BY <1>0, <2>1, <2>2, <2>3, AllFit
<1>4. ASSUME EraseBuckets PROVE LimitInv'
  <2>1. /\ now' = now /\ \A b \in Buckets : bucket'[b] = NoBucket /\ passed'[b] = Unused
        /\ bucket' \in [Buckets -> Bucket] /\ passed' \in [Buckets -> Passed]
    BY <1>0, <1>4, FreshFits, BucketAssumption, MinuteAssumption DEF EraseBuckets
  <2>2. QED
    BY <1>0, <2>1, AllFit, FreshFits, BucketAssumption, MinuteAssumption
<1>5. CASE UNCHANGED limits
  BY <1>5 DEF limits, LimitInv, LimitTypeOK, InOrder, WindowsFit, BucketCounts, BurstBound
<1>6. QED
  BY <1>1, <1>2, <1>3, <1>4, <1>5 DEF LimitNext

LEMMA LimitStart == LimitInit => LimitInv
<1> SUFFICES ASSUME LimitInit PROVE LimitInv
  OBVIOUS
<1>1. now = 0 /\ \A b \in Buckets : bucket[b] = NoBucket /\ passed[b] = Unused
  BY DEF LimitInit
<1>2. \A b \in Buckets : /\ bucket[b] \in Bucket /\ passed[b] \in Passed
        /\ Fits(passed[b].at, passed[b].first, passed[b].prev, bucket[b].started,
                bucket[b].count, bucket[b].expires, Capacity[b], now)
  BY <1>1, FreshFits, BucketAssumption, MinuteAssumption
<1>3. LimitTypeOK
  BY <1>1, <1>2 DEF LimitInit, LimitTypeOK
<1>4. ASSUME NEW b \in Buckets PROVE DOMAIN passed[b].at = 1..Len(passed[b].at)
  <2>1. passed[b].at \in Seq(Nat)
    BY <1>2 DEF Passed
  <2>2. QED
    BY <2>1
<1>5. InOrder /\ WindowsFit /\ BucketCounts /\ BurstBound
  BY <1>2, <1>4 DEF Fits, Ordered, Windows, Counts, Bursts, InOrder, WindowsFit, BucketCounts,
     BurstBound
<1>6. QED
  BY <1>3, <1>5 DEF LimitInv

\* A bucket never lets more than 2 * Capacity - 1 calls pass within a minute,
\* with the windows and counters that make it so.
THEOREM LimitSafety == LimitSpec => []LimitInv
  BY LimitStart, LimitStep, PTL DEF LimitSpec

\* The bound itself.
THEOREM BurstSafety == LimitSpec => []BurstBound
<1>1. LimitInv => BurstBound
  BY DEF LimitInv
<1>2. QED
  BY <1>1, LimitSafety, PTL

-----------------------------------------------------------------------------
\* A set of numbers has a least one.
LEMMA LessIsWellFounded == IsWellFoundedOn({ss \in Nat \X Nat : ss[1] < ss[2]}, Nat)
  BY NatLessThanWellFounded DEF OpToRel

LEMMA Least ==
  ASSUME NEW T, T \subseteq Nat, T # {}
  PROVE  \E n \in T : \A k \in T : n <= k
<1> DEFINE R == {ss \in Nat \X Nat : ss[1] < ss[2]}
<1>1. \E n \in T : \A k \in T : ~(<<k, n>> \in R)
  <2> HIDE DEF R
  <2>1. IsWellFoundedOn(R, Nat)
    BY LessIsWellFounded DEF R
  <2> QED BY <2>1, WFMin
<1>2. PICK n \in T : \A k \in T : ~(<<k, n>> \in R)
  BY <1>1
<1>3. ASSUME NEW k \in T PROVE n <= k
  <2>1. k \in Nat /\ n \in Nat
    OBVIOUS
  <2>2. k < n => <<k, n>> \in R
    BY <2>1
  <2> QED BY <2>1, <2>2, <1>2
<1> QED BY <1>3

\* A count that starts at 0 and grows by one, at members of K, meets every
\* number up to its last, at a member of K.
LEMMA Meets ==
  ASSUME NEW c \in [Nat -> Nat], NEW K, NEW n \in Nat, NEW k \in Nat \ {0},
         c[0] = 0, k <= c[n],
         \A i \in Nat : c[i + 1] = c[i] \/ (i + 1 \in K /\ c[i + 1] = c[i] + 1)
  PROVE  \E i \in K : c[i] = k
<1> DEFINE T == {i \in Nat : k <= c[i]}
<1>1. T \subseteq Nat /\ T # {}
  OBVIOUS
<1>2. PICK i \in T : \A j \in T : i <= j
  <2> HIDE DEF T
  <2> QED BY <1>1, Least
<1>3. i \in Nat /\ k <= c[i] /\ i # 0
  BY <1>2
<1>4. i - 1 \in Nat /\ i - 1 + 1 = i /\ ~(i <= i - 1)
  BY <1>3
<1>5. ~(k <= c[i - 1])
  BY <1>2, <1>4
<1>6. c[i] = c[i - 1] \/ (i \in K /\ c[i] = c[i - 1] + 1)
  BY <1>4
<1>7. c[i] \in Nat /\ c[i - 1] \in Nat
  BY <1>3, <1>4
<1> QED BY <1>3, <1>5, <1>6, <1>7

\* A set of n numbers has a k-th one, for every k up to n.
LEMMA HasNth ==
  ASSUME NEW n \in Nat, NEW K, K \subseteq 1..n
  PROVE  /\ Cardinality(K) \in Nat /\ Cardinality(K) <= n
         /\ \A k \in 1..Cardinality(K) : Nth(K, k) \in K
<1> DEFINE Upto(i) == {j \in K : j <= i}
           c == [i \in Nat |-> Cardinality(Upto(i))]
<1>1. IsFiniteSet(1..n) /\ Cardinality(1..n) = n
  BY FS_Interval
<1>2. IsFiniteSet(K) /\ Cardinality(K) <= n
  BY <1>1, FS_Subset
<1>3. Cardinality(K) \in Nat
  BY <1>2, FS_CardinalityType
<1>4. \A j \in K : j \in Nat /\ j <= n /\ ~(j <= 0)
  OBVIOUS
<1>5. ASSUME NEW i \in Nat PROVE IsFiniteSet(Upto(i)) /\ Cardinality(Upto(i)) \in Nat
  BY <1>2, FS_Subset, FS_CardinalityType
<1>6. c \in [Nat -> Nat]
  BY <1>5
<1>7. c[0] = 0
  <2>1. Upto(0) = {}
    BY <1>4
  <2> QED BY <2>1, FS_EmptySet
<1>8. c[n] = Cardinality(K)
  <2>1. Upto(n) = K
    BY <1>4
  <2> QED BY <2>1
<1>9. ASSUME NEW i \in Nat
      PROVE  c[i + 1] = c[i] \/ (i + 1 \in K /\ c[i + 1] = c[i] + 1)
  <2>1. \A j \in K : j <= i + 1 <=> j <= i \/ j = i + 1
    BY <1>4
  <2>2. c[i] = Cardinality(Upto(i)) /\ c[i + 1] = Cardinality(Upto(i + 1))
    OBVIOUS
  <2>3. CASE i + 1 \notin K
    <3>1. Upto(i + 1) = Upto(i)
      BY <2>1, <2>3
    <3> QED BY <3>1, <2>2
  <2>4. CASE i + 1 \in K
    <3>1. Upto(i + 1) = Upto(i) \cup {i + 1}
      BY <2>1, <2>4
    <3>2. i + 1 \notin Upto(i)
      OBVIOUS
    <3>3. IsFiniteSet(Upto(i))
      BY <1>5
    <3>4. Cardinality(Upto(i) \cup {i + 1}) = Cardinality(Upto(i)) + 1
      <4> HIDE DEF Upto
      <4> QED BY <3>2, <3>3, FS_AddElement
    <3> QED BY <3>1, <3>4, <2>2, <2>4
  <2> QED BY <2>3, <2>4
<1>10. ASSUME NEW k \in 1..Cardinality(K) PROVE \E i \in K : Cardinality(Upto(i)) = k
  <2>1. k \in Nat \ {0} /\ k <= c[n]
    BY <1>3, <1>8
  <2>2. \E i \in K : c[i] = k
    <3> HIDE DEF c
    <3>1. \A i \in Nat : c[i + 1] = c[i] \/ (i + 1 \in K /\ c[i + 1] = c[i] + 1)
      BY <1>9
    <3> QED BY <2>1, <1>6, <1>7, <3>1, Meets, ZenonT(60)
  <2> QED BY <2>2, <1>4
<1>11. \A k \in 1..Cardinality(K) : Nth(K, k) \in K
  BY <1>10 DEF Nth
<1> QED BY <1>2, <1>3, <1>11

Event == [id : Messages, wellFormed : BOOLEAN]

\* What the parser keeps is a list of messages, no longer than it may be.
LEMMA ParsedType ==
  ASSUME NEW events \in Seq(Event)
  PROVE  Parsed(events) \in Seq(Messages) /\ Len(Parsed(events)) <= MaxEvents
<1> DEFINE K == Kept(events)
<1>1. K \subseteq 1..MaxEvents /\ K \subseteq DOMAIN events /\ MaxEvents \in Nat
  BY IngressAssumption DEF Kept
<1>2. Cardinality(K) \in Nat /\ Cardinality(K) <= MaxEvents
      /\ \A k \in 1..Cardinality(K) : Nth(K, k) \in K
  <2> HIDE DEF K
  <2> QED BY <1>1, HasNth
<1>3. \A i \in DOMAIN events : events[i].id \in Messages
  <2>1. \A i \in DOMAIN events : events[i] \in Event
    OBVIOUS
  <2> QED BY <2>1 DEF Event
<1>4. Parsed(events) = [k \in 1..Cardinality(K) |-> events[Nth(K, k)].id]
  BY DEF Parsed
<1> HIDE DEF K
<1>5. Parsed(events) \in [1..Cardinality(K) -> Messages]
  BY <1>1, <1>2, <1>3, <1>4
<1>6. Parsed(events) \in Seq(Messages) /\ Len(Parsed(events)) = Cardinality(K)
  BY <1>5, <1>2
<1> QED BY <1>6, <1>2

-----------------------------------------------------------------------------
\* The steps of accept() that ask a limit, and where they lead.
Steps == {"global", "sender", "abuse", "lockout", "lockoutAudit", "audit"}

LEMMA Leads ==
  /\ DOMAIN IfAllowed = Steps
  /\ IfAllowed["global"] = "sender" /\ IfDenied["global"] = "done"
  /\ IfAllowed["sender"] = "user" /\ IfDenied["sender"] = "done"
  /\ IfAllowed["abuse"] = "audit" /\ IfDenied["abuse"] = "lockout"
  /\ IfAllowed["lockout"] = "lockoutAudit" /\ IfDenied["lockout"] = "done"
  /\ IfAllowed["lockoutAudit"] = "record" /\ IfDenied["lockoutAudit"] = "done"
  /\ IfAllowed["audit"] = "record" /\ IfDenied["audit"] = "done"
  BY DEF IfAllowed, IfDenied, Steps

Steppers == {"none", "done", "thrown", "global", "sender", "user", "abuse", "lockout",
             "lockoutAudit", "audit", "record", "select", "insert"}
Outcomes == {"none", "stale", "rate_limited", "unauthorized", "duplicate", "queued"}
Settlements == Outcomes \ {"none"}
Task == [pc : Steppers, result : Outcomes]
Post == [pc : {"none", "signed", "working", "ok", "unauthorized", "unavailable", "error"},
         events : Seq(Messages), begun : Nat]
Row == [status : {"none", "received", "failed", "processed"}, at : 0..MaxTime]

LEMMA Types ==
  ASSUME TypeOK
  PROVE  /\ LimitTypeOK
         /\ erased \in BOOLEAN /\ listed \subseteq Senders /\ activeKey \in [Posts -> Keys]
         /\ torn \subseteq Messages /\ sent \in [Messages -> 0..NotSent] /\ row \in [Messages \X Keys -> Row]
         /\ post \in [Posts -> Post] /\ task \in [Posts \X Places -> Task]
         /\ inserted \in [Messages -> Nat] /\ audited \in Nat /\ outages \in 0..MaxOutages
  BY DEF TypeOK, Task, Row, Post, Steppers, Outcomes

\* What the result of a task may be at each of its steps.
ResultFits(pc, result) ==
  /\ pc \in {"abuse", "lockout", "lockoutAudit"} => result = "unauthorized"
  /\ pc \in {"audit", "record"} => result \in {"stale", "unauthorized"}
  /\ pc = "done" => result \in Settlements
  /\ pc \notin {"done", "thrown"} => result \in {"none", "stale", "unauthorized"}

\* A request has begun a prefix of its messages, and each of them was sent before.
Requests ==
  /\ \A m \in Messages : sent[m] = NotSent \/ sent[m] <= now
  /\ \A p \in Posts :
       /\ Len(post[p].events) <= MaxEvents /\ post[p].begun <= Len(post[p].events)
       /\ post[p].pc = "none" => post[p].begun = 0
       /\ \A i \in 1..Len(post[p].events) : sent[post[p].events[i]] <= now
       /\ \A i \in Places : post[p].begun < i => task[<<p, i>>] = NoTask

Results == \A t \in Posts \X Places : ResultFits(task[t].pc, task[t].result)

\* A task that ends as queued or as a duplicate leaves a message that was stored.
Stored ==
  \A p \in Posts : \A i \in 1..Len(post[p].events) :
    task[<<p, i>>].pc = "done" /\ task[<<p, i>>].result \in {"duplicate", "queued"}
      => inserted[post[p].events[i]] > 0

\* A request that was answered 200 is through with all of its messages.
Through ==
  \A p \in Posts : post[p].pc = "ok" =>
    /\ post[p].begun = Len(post[p].events)
    /\ \A i \in 1..Len(post[p].events) : task[<<p, i>>].pc = "done"

\* A row was inserted, after its message was sent and before now.
Rows ==
  \A m \in Messages, k \in Keys : row[<<m, k>>].status # "none" =>
    inserted[m] > 0 /\ sent[m] <= row[<<m, k>>].at /\ row[<<m, k>>].at <= now

Base ==
  /\ LimitInv /\ TypeOK /\ now <= MaxTime
  /\ Requests /\ Results /\ Stored /\ Through /\ Rows /\ NothingAfterErasure

\* The message a task is about.
LEMMA TaskMessage ==
  ASSUME TypeOK, Requests, NEW p \in Posts, NEW i \in Places, task[<<p, i>>].pc # "none"
  PROVE  /\ i <= post[p].begun /\ i \in 1..Len(post[p].events)
         /\ post[p].events[i] \in Messages
         /\ sent[post[p].events[i]] \in Nat /\ sent[post[p].events[i]] <= now
         /\ task[<<p, i>>] \in Task
<1>1. post[p] \in Post /\ task[<<p, i>>] \in Task /\ i \in Nat
  BY Types DEF Places
<1>2. post[p].begun \in Nat /\ post[p].events \in Seq(Messages)
  BY <1>1 DEF Post
<1>3. task[<<p, i>>] # NoTask
  BY DEF NoTask
<1>4. ~(post[p].begun < i) /\ post[p].begun <= Len(post[p].events)
  BY <1>3 DEF Requests
<1>5. i >= 1 /\ Len(post[p].events) \in Nat
  BY <1>2 DEF Places
<1>6. i <= post[p].begun /\ i \in 1..Len(post[p].events)
  BY <1>1, <1>2, <1>4, <1>5
<1>7. post[p].events[i] \in Messages
  BY <1>6, <1>2
<1>8. sent[post[p].events[i]] \in 0..NotSent
  BY <1>7, Types
<1>9. sent[post[p].events[i]] <= now
  BY <1>6 DEF Requests
<1> QED BY <1>1, <1>6, <1>7, <1>8, <1>9

LEMMA Asks ==
  ASSUME TypeOK, NEW p \in Posts, NEW step \in Steps, NEW m \in Messages
  PROVE  Subject(p, step, m) \in Buckets
<1>1. From[m] \in Senders /\ activeKey[p] \in Keys
  BY IngressAssumption, Types
<1>2. \A x \in {"ingress-global", "security-audit", "lockout-audit"} :
        <<x, "global", activeKey[p]>> \in Buckets
  BY <1>1, IngressAssumption
<1>3. \A x \in {"ingress-sender", "abuse-sender", "lockout-notify"} :
        <<x, From[m], activeKey[p]>> \in Buckets
  BY <1>1, IngressAssumption
<1>4. CASE step = "global"
  BY <1>4, <1>2 DEF Subject
<1>5. CASE step = "sender"
  BY <1>5, <1>3 DEF Subject
<1>6. CASE step = "abuse"
  BY <1>6, <1>3 DEF Subject
<1>7. CASE step = "lockout"
  BY <1>7, <1>3 DEF Subject
<1>8. CASE step = "lockoutAudit"
  BY <1>8, <1>2 DEF Subject
<1>9. CASE step = "audit"
  BY <1>9, <1>2 DEF Subject
<1> QED BY <1>4, <1>5, <1>6, <1>7, <1>8, <1>9 DEF Steps

-----------------------------------------------------------------------------
\* Every step of the webhook is a step of the limits, or leaves them alone.
LEMMA StepOfLimits == TypeOK /\ Requests /\ [Next]_vars => [LimitNext]_limits
<1> SUFFICES ASSUME TypeOK, Requests, [Next]_vars PROVE LimitNext \/ limits' = limits
  BY DEF limits
<1>1. ASSUME NEW p \in Posts, Receive(p) \/ CheckService(p) \/ StartBatch(p) \/ Answer(p)
      PROVE  limits' = limits
  BY <1>1 DEF Receive, CheckService, StartBatch, Answer, limits
<1>2. ASSUME NEW p \in Posts, NEW i \in Places,
             FindUser(p, i) \/ RecordEvent(p, i) \/ SelectExisting(p, i) \/ Insert(p, i)
      PROVE  limits' = limits
  BY <1>2 DEF FindUser, RecordEvent, SelectExisting, Insert, limits
<1>3. ASSUME NEW p \in Posts, NEW i \in Places, ConsumeLimit(p, i)
      PROVE  LimitNext \/ limits' = limits
  <2> DEFINE b == Subject(p, task[<<p, i>>].pc, post[p].events[i])
  <2>1. task[<<p, i>>].pc \in Steps
    BY <1>3, Leads DEF ConsumeLimit
  <2>2. post[p].events[i] \in Messages
    BY <2>1, TaskMessage DEF Steps
  <2>3. b \in Buckets
    BY <2>1, <2>2, Asks
  <2>4. Consume(b) \/ UNCHANGED limits
    BY <1>3 DEF ConsumeLimit
  <2> HIDE DEF b
  <2> QED BY <2>3, <2>4 DEF LimitNext
<1>4. CASE Settle \/ Deactivate \/ (\E p \in Posts : Rotate(p)) \/ UNCHANGED vars
  BY <1>4 DEF Settle, Deactivate, Rotate, vars, limits
<1>5. CASE Lifecycle
  BY <1>5 DEF Lifecycle, PurgeUnused, LimitNext, limits
<1>6. CASE EraseClientData
  BY <1>6 DEF EraseClientData, LimitNext
<1>7. CASE Tick
  BY <1>7 DEF Tick, LimitNext
<1> QED BY <1>1, <1>2, <1>3, <1>4, <1>5, <1>6, <1>7 DEF Next

-----------------------------------------------------------------------------
LEMMA Moves ==
  ASSUME TypeOK, NEW p \in Posts, NEW i \in Places, NEW pc \in Steppers, NEW result \in Outcomes,
         Goto(p, i, pc, result)
  PROVE  /\ task' \in [Posts \X Places -> Task]
         /\ task'[<<p, i>>].pc = pc /\ task'[<<p, i>>].result = result
         /\ \A t \in Posts \X Places : t # <<p, i>> => task'[t] = task[t]
<1>1. task \in [Posts \X Places -> Task] /\ <<p, i>> \in Posts \X Places
  BY Types
<1>2. task[<<p, i>>] \in Task
  BY <1>1
<1> DEFINE r == [task[<<p, i>>] EXCEPT !.pc = pc, !.result = result]
<1>3. r \in Task /\ r.pc = pc /\ r.result = result
  BY <1>2 DEF Task
<1>4. task' = [task EXCEPT ![<<p, i>>] = r]
  BY <1>1, <1>2 DEF Goto, Task
<1> HIDE DEF r
<1> QED BY <1>1, <1>3, <1>4

\* A task that moves on, and nothing of the requests with it.
LEMMA TaskStep ==
  ASSUME Base, NEW p \in Posts, NEW i \in Places, NEW pc \in Steppers, NEW result \in Outcomes,
         Goto(p, i, pc, result), task[<<p, i>>].pc \notin {"none", "done"},
         pc # "none", ResultFits(pc, result),
         post' = post, sent' = sent, now' = now,
         inserted' \in [Messages -> Nat], \A m \in Messages : inserted[m] <= inserted'[m],
         pc = "done" /\ result \in {"duplicate", "queued"} => inserted'[post[p].events[i]] > 0
  PROVE  task' \in [Posts \X Places -> Task] /\ Requests' /\ Results' /\ Stored' /\ Through'
<1>1. /\ task' \in [Posts \X Places -> Task]
      /\ task'[<<p, i>>].pc = pc /\ task'[<<p, i>>].result = result
      /\ \A t \in Posts \X Places : t # <<p, i>> => task'[t] = task[t]
  BY Moves DEF Base
<1>2. i <= post[p].begun /\ i \in 1..Len(post[p].events) /\ i \in Nat /\ post[p].begun \in Nat
  BY TaskMessage, Types DEF Base, Post, Places
<1>3. \A q \in Posts, j \in Places : <<q, j>> = <<p, i>> \/ task'[<<q, j>>] = task[<<q, j>>]
  BY <1>1
<1>4. Requests'
  <2>1. ASSUME NEW q \in Posts, NEW j \in Places, post[q].begun < j
        PROVE  task'[<<q, j>>] = NoTask
    <3>1. <<q, j>> # <<p, i>>
      BY <2>1, <1>2
    <3> QED BY <3>1, <1>3, <2>1 DEF Base, Requests
  <2> QED BY <2>1 DEF Base, Requests
<1>5. Results'
  BY <1>1 DEF Base, Results
<1>6. \A q \in Posts : \A j \in 1..Len(post[q].events) : j \in Places /\ post[q].events[j] \in Messages
  <2> SUFFICES ASSUME NEW q \in Posts, NEW j \in 1..Len(post[q].events)
               PROVE  j \in Places /\ post[q].events[j] \in Messages
    OBVIOUS
  <2>1. post[q].events \in Seq(Messages) /\ Len(post[q].events) <= MaxEvents
    BY Types DEF Base, Post, Requests
  <2> QED BY <2>1, IngressAssumption DEF Places
<1>7. Stored'
  <2> SUFFICES ASSUME NEW q \in Posts, NEW j \in 1..Len(post[q].events),
                      task'[<<q, j>>].pc = "done", task'[<<q, j>>].result \in {"duplicate", "queued"}
               PROVE  inserted'[post[q].events[j]] > 0
    BY DEF Stored
  <2>1. CASE <<q, j>> = <<p, i>>
    BY <2>1, <1>1
  <2>2. CASE <<q, j>> # <<p, i>>
    <3>1. task'[<<q, j>>] = task[<<q, j>>]
      BY <2>2, <1>3, <1>6
    <3>2. inserted[post[q].events[j]] > 0
      BY <3>1 DEF Base, Stored
    <3>3. inserted[post[q].events[j]] <= inserted'[post[q].events[j]] /\ post[q].events[j] \in Messages
      BY <1>6
    <3>4. inserted[post[q].events[j]] \in Nat /\ inserted'[post[q].events[j]] \in Nat
      BY <3>3, Types DEF Base
    <3> QED BY <3>2, <3>3, <3>4
  <2> QED BY <2>1, <2>2
<1>8. Through'
  <2> SUFFICES ASSUME NEW q \in Posts, post[q].pc = "ok"
               PROVE  /\ post[q].begun = Len(post[q].events)
                      /\ \A j \in 1..Len(post[q].events) : task'[<<q, j>>].pc = "done"
    BY DEF Through
  <2>1. q # p
    BY <1>2 DEF Base, Through
  <2> QED BY <2>1, <1>3, <1>6 DEF Base, Through
<1> QED BY <1>1, <1>4, <1>5, <1>7, <1>8

\* What the rows owe to the messages stays when neither changes.
LEMMA RowsStay ==
  ASSUME Base, row' = row, sent' = sent, inserted' = inserted, now' = now
  PROVE  Rows'
  BY DEF Base, Rows

\* A limit is asked and answers, or cannot be asked: the task goes one of two ways.
LEMMA LimitedTask ==
  ASSUME NEW p \in Posts, NEW i \in Places, ConsumeLimit(p, i)
  PROVE  \E allowed \in BOOLEAN :
           Goto(p, i, IF allowed THEN IfAllowed[task[<<p, i>>].pc] ELSE IfDenied[task[<<p, i>>].pc],
                Limited(task[<<p, i>>].pc, task[<<p, i>>].result, allowed))
<1> DEFINE t == task[<<p, i>>]
           b == Subject(p, t.pc, post[p].events[i])
           Go(allowed) == Goto(p, i, IF allowed THEN IfAllowed[t.pc] ELSE IfDenied[t.pc],
                               Limited(t.pc, t.result, allowed))
<1>1. Go(Allows(b)) \/ Go(FALSE)
  BY DEF ConsumeLimit, AnswerWhenDown
<1>2. CASE Allows(b)
  <2>1. Go(Allows(b)) => Go(TRUE)
    BY <1>2 DEF Limited
  <2> QED BY <2>1, <1>1
<1>3. CASE ~Allows(b)
  <2>1. Go(Allows(b)) => Go(FALSE)
    BY <1>3 DEF Limited
  <2> QED BY <2>1, <1>1
<1> QED BY <1>2, <1>3

LEMMA ConsumeKeeps ==
  ASSUME Base, LimitInv', NEW p \in Posts, NEW i \in Places, ConsumeLimit(p, i)
  PROVE  Base'
<1> DEFINE t == task[<<p, i>>]
           e == post[p].events[i]
<1>1. t \in Task
  BY Types DEF Base
<1>2. t.pc \in Steps /\ t.pc \notin {"none", "done"} /\ t.result \in {"none", "stale", "unauthorized"}
  <2>1. t.pc \in Steps
    BY Leads DEF ConsumeLimit
  <2>2. ResultFits(t.pc, t.result)
    BY DEF Base, Results
  <2> QED BY <2>1, <2>2 DEF ResultFits, Steps
<1>3. \E allowed \in BOOLEAN :
        Goto(p, i, IF allowed THEN IfAllowed[t.pc] ELSE IfDenied[t.pc],
             Limited(t.pc, t.result, allowed))
  BY LimitedTask
<1>4. PICK allowed \in BOOLEAN :
        Goto(p, i, IF allowed THEN IfAllowed[t.pc] ELSE IfDenied[t.pc],
             Limited(t.pc, t.result, allowed))
  BY <1>3
<1> DEFINE pc == IF allowed THEN IfAllowed[t.pc] ELSE IfDenied[t.pc]
           result == Limited(t.pc, t.result, allowed)
<1>5. /\ pc \in Steppers /\ pc # "none" /\ result \in Outcomes
      /\ ResultFits(pc, result) /\ result \notin {"duplicate", "queued"}
  <2>1. ResultFits(t.pc, t.result)
    BY DEF Base, Results
  <2> HIDE DEF t
  <2>2. CASE t.pc = "global" \/ t.pc = "sender"
    BY <2>1, <2>2, <1>2, Leads DEF ResultFits, Limited, Steppers, Outcomes, Settlements
  <2>3. CASE t.pc = "abuse" \/ t.pc = "lockout" \/ t.pc = "lockoutAudit"
    BY <2>1, <2>3, <1>2, Leads DEF ResultFits, Limited, Steppers, Outcomes, Settlements
  <2>4. CASE t.pc = "audit"
    BY <2>1, <2>4, <1>2, Leads DEF ResultFits, Limited, Steppers, Outcomes, Settlements
  <2> QED BY <1>2, <2>2, <2>3, <2>4 DEF Steps
<1>6. post' = post /\ sent' = sent /\ now' = now /\ inserted' = inserted /\ row' = row
      /\ erased' = erased /\ listed' = listed /\ activeKey' = activeKey /\ torn' = torn /\ audited' = audited
  BY DEF ConsumeLimit, world, limits, Consume
<1>7. outages' \in 0..MaxOutages
  <2>1. outages \in 0..MaxOutages /\ MaxOutages \in Nat
    BY Types, IngressAssumption DEF Base
  <2>2. outages' = outages \/ (outages < MaxOutages /\ outages' = outages + 1)
    BY DEF ConsumeLimit
  <2> QED BY <2>1, <2>2
<1>8. inserted \in [Messages -> Nat]
  BY Types DEF Base
<1>9. task' \in [Posts \X Places -> Task] /\ Requests' /\ Results' /\ Stored' /\ Through'
  <2> HIDE DEF pc, result, t
  <2>1. \A m \in Messages : inserted[m] <= inserted'[m]
    BY <1>6, <1>8
  <2>2. inserted' \in [Messages -> Nat]
    BY <1>6, <1>8
  <2>3. Goto(p, i, pc, result)
    BY <1>4 DEF pc, result, t
  <2>4. task[<<p, i>>].pc \notin {"none", "done"}
    BY <1>2 DEF t
  <2> QED BY <1>5, <1>6, <2>1, <2>2, <2>3, <2>4, TaskStep
<1>10. Rows' /\ NothingAfterErasure'
  BY <1>6, RowsStay DEF Base, NothingAfterErasure
<1>11. TypeOK'
  BY <1>6, <1>7, <1>9 DEF Base, TypeOK, LimitInv, Task, Steppers, Outcomes
<1> QED BY <1>6, <1>9, <1>10, <1>11 DEF Base

LEMMA FindUserKeeps ==
  ASSUME Base, LimitInv', NEW p \in Posts, NEW i \in Places, FindUser(p, i)
  PROVE  Base'
<1>1. \/ Goto(p, i, "select", "none")
      \/ Goto(p, i, "abuse", "unauthorized")
  BY DEF FindUser
<1>2. /\ post' = post /\ sent' = sent /\ now' = now /\ inserted' = inserted /\ row' = row
      /\ erased' = erased /\ listed' = listed /\ activeKey' = activeKey /\ torn' = torn /\ audited' = audited
      /\ outages' = outages
  BY DEF FindUser, world, limits
<1>3. inserted \in [Messages -> Nat] /\ task[<<p, i>>].pc \notin {"none", "done"}
  BY Types DEF Base, FindUser
<1>4. \A m \in Messages : inserted[m] <= inserted'[m]
  BY <1>2, <1>3
<1>5. task' \in [Posts \X Places -> Task] /\ Requests' /\ Results' /\ Stored' /\ Through'
  <2>1. CASE Goto(p, i, "select", "none")
    <3>1. "select" \in Steppers /\ "none" \in Outcomes /\ ResultFits("select", "none")
      BY DEF Steppers, Outcomes, ResultFits
    <3> QED BY <2>1, <3>1, <1>2, <1>3, <1>4, TaskStep
  <2>2. CASE Goto(p, i, "abuse", "unauthorized")
    <3>1. "abuse" \in Steppers /\ "unauthorized" \in Outcomes /\ ResultFits("abuse", "unauthorized")
      BY DEF Steppers, Outcomes, ResultFits
    <3> QED BY <2>2, <3>1, <1>2, <1>3, <1>4, TaskStep
  <2> QED BY <1>1, <2>1, <2>2
<1>6. Rows' /\ NothingAfterErasure'
  BY <1>2, RowsStay DEF Base, NothingAfterErasure
<1>7. TypeOK'
  BY <1>2, <1>5 DEF Base, TypeOK, LimitInv, Task, Steppers, Outcomes
<1> QED BY <1>2, <1>5, <1>6, <1>7 DEF Base

LEMMA RecordEventKeeps ==
  ASSUME Base, LimitInv', NEW p \in Posts, NEW i \in Places, RecordEvent(p, i)
  PROVE  Base'
<1> DEFINE result == task[<<p, i>>].result
<1>1. Goto(p, i, "done", result) \/ Goto(p, i, "thrown", result)
  BY DEF RecordEvent
<1>2. /\ post' = post /\ sent' = sent /\ now' = now /\ inserted' = inserted /\ row' = row
      /\ erased' = erased /\ listed' = listed /\ activeKey' = activeKey /\ torn' = torn
      /\ outages' = outages
  BY DEF RecordEvent, world, limits
<1>3. audited' \in Nat
  BY Types DEF Base, RecordEvent
<1>4. inserted \in [Messages -> Nat] /\ task[<<p, i>>].pc = "record"
  BY Types DEF Base, RecordEvent
<1>5. result \in {"stale", "unauthorized"}
  <2>1. ResultFits("record", result)
    BY <1>4 DEF Base, Results
  <2> QED BY <2>1 DEF ResultFits
<1>6. \A m \in Messages : inserted[m] <= inserted'[m]
  BY <1>2, <1>4
<1>7. task' \in [Posts \X Places -> Task] /\ Requests' /\ Results' /\ Stored' /\ Through'
  <2> HIDE DEF result
  <2>1. /\ "done" \in Steppers /\ "thrown" \in Steppers /\ result \in Outcomes
        /\ ResultFits("done", result) /\ ResultFits("thrown", result)
    BY <1>5 DEF Steppers, Outcomes, Settlements, ResultFits
  <2>2. CASE Goto(p, i, "done", result)
    BY <2>1, <2>2, <1>2, <1>4, <1>5, <1>6, TaskStep
  <2>3. CASE Goto(p, i, "thrown", result)
    BY <2>1, <2>3, <1>2, <1>4, <1>5, <1>6, TaskStep
  <2> QED BY <1>1, <2>2, <2>3
<1>8. Rows' /\ NothingAfterErasure'
  BY <1>2, RowsStay DEF Base, NothingAfterErasure
<1>9. TypeOK'
  BY <1>2, <1>3, <1>7 DEF Base, TypeOK, LimitInv, Task, Steppers, Outcomes
<1> QED BY <1>2, <1>7, <1>8, <1>9 DEF Base

\* A row that is found is a message that was stored.
LEMMA FoundFits ==
  ASSUME NEW status
  PROVE  /\ Found(status) \in {"queued", "duplicate"} /\ Found(status) \in Outcomes
         /\ ResultFits("done", Found(status)) /\ "done" \in Steppers
  BY DEF Found, Outcomes, Settlements, ResultFits, Steppers

LEMMA SelectKeeps ==
  ASSUME Base, LimitInv', NEW p \in Posts, NEW i \in Places, SelectExisting(p, i)
  PROVE  Base'
<1> DEFINE m == post[p].events[i]
<1>1. /\ post' = post /\ sent' = sent /\ now' = now /\ inserted' = inserted /\ row' = row
      /\ erased' = erased /\ listed' = listed /\ activeKey' = activeKey /\ audited' = audited
      /\ outages' = outages
  BY DEF SelectExisting, world, limits
<1>2. inserted \in [Messages -> Nat] /\ task[<<p, i>>].pc = "select" /\ m \in Messages
  BY Types, TaskMessage DEF Base, SelectExisting
<1>3. \A x \in Messages : inserted[x] <= inserted'[x]
  BY <1>1, <1>2
<1>4. \/ Goto(p, i, "insert", "none")
      \/ \E status : inserted[m] > 0 /\ Goto(p, i, "done", Found(status))
  <2>1. CASE Candidates(p, m) = {}
    BY <2>1 DEF SelectExisting
  <2>2. CASE Candidates(p, m) # {}
    <3>1. PICK r \in Candidates(p, m) : Goto(p, i, "done", Found(row[r].status))
      BY <2>2 DEF SelectExisting
    <3>2. PICK k \in Keys : r = <<m, k>> /\ row[<<m, k>>].status # "none"
      BY <3>1, IngressAssumption DEF Candidates, Ring
    <3>3. inserted[m] > 0
      BY <3>2, <1>2 DEF Base, Rows
    <3> QED BY <3>1, <3>3
  <2> QED BY <2>1, <2>2
<1>5. task' \in [Posts \X Places -> Task] /\ Requests' /\ Results' /\ Stored' /\ Through'
  <2>1. CASE Goto(p, i, "insert", "none")
    <3>1. "insert" \in Steppers /\ "none" \in Outcomes /\ ResultFits("insert", "none")
      BY DEF Steppers, Outcomes, ResultFits
    <3> QED BY <2>1, <3>1, <1>1, <1>2, <1>3, TaskStep
  <2>2. ASSUME NEW status, inserted[m] > 0, Goto(p, i, "done", Found(status))
        PROVE  task' \in [Posts \X Places -> Task] /\ Requests' /\ Results' /\ Stored' /\ Through'
    <3>1. /\ Found(status) \in Outcomes /\ ResultFits("done", Found(status)) /\ "done" \in Steppers
      BY FoundFits
    <3>2. inserted'[m] > 0
      BY <2>2, <1>1
    <3> QED BY <2>2, <3>1, <3>2, <1>1, <1>2, <1>3, TaskStep
  <2> QED BY <1>4, <2>1, <2>2
<1>6. Rows' /\ NothingAfterErasure'
  BY <1>1, RowsStay DEF Base, NothingAfterErasure
<1>7. torn' \subseteq Messages
  BY <1>2, Types DEF Base, SelectExisting
<1>8. TypeOK'
  BY <1>1, <1>5, <1>7 DEF Base, TypeOK, LimitInv, Task, Steppers, Outcomes
<1> QED BY <1>1, <1>5, <1>6, <1>8 DEF Base

\* What an insert does to the tables: nothing, or one row where there was none.
LEMMA InsertCases ==
  ASSUME Base, NEW p \in Posts, NEW i \in Places, Insert(p, i),
         NEW m \in Messages, m = post[p].events[i]
  PROVE  \/ /\ erased /\ row' = row /\ inserted' = inserted
            /\ Goto(p, i, "thrown", "none")
         \/ /\ row[<<m, activeKey[p]>>].status # "none" /\ row' = row /\ inserted' = inserted
            /\ \E status : Goto(p, i, "done", Found(status))
         \/ /\ ~erased /\ row[<<m, activeKey[p]>>].status = "none"
            /\ row' = [row EXCEPT ![<<m, activeKey[p]>>] = [status |-> "received", at |-> now]]
            /\ inserted' = [inserted EXCEPT ![m] = inserted[m] + 1]
            /\ Goto(p, i, "done", "queued")
<1>1. CASE erased
  BY <1>1 DEF Insert, UserExists
<1>2. CASE ~erased /\ row[<<m, activeKey[p]>>].status # "none"
  BY <1>2 DEF Insert, UserExists
<1>3. CASE ~erased /\ row[<<m, activeKey[p]>>].status = "none"
  BY <1>3 DEF Insert, UserExists
<1> QED BY <1>1, <1>2, <1>3

LEMMA InsertKeeps ==
  ASSUME Base, LimitInv', NEW p \in Posts, NEW i \in Places, Insert(p, i)
  PROVE  Base'
<1>0. PICK m \in Messages : m = post[p].events[i]
  BY TaskMessage DEF Base, Insert
<1>1. /\ post' = post /\ sent' = sent /\ now' = now
      /\ erased' = erased /\ listed' = listed /\ activeKey' = activeKey /\ torn' = torn /\ audited' = audited
      /\ outages' = outages
  BY DEF Insert, world, limits
<1>2. /\ inserted \in [Messages -> Nat] /\ task[<<p, i>>].pc = "insert"
      /\ row \in [Messages \X Keys -> Row] /\ activeKey[p] \in Keys
      /\ now \in 0..MaxTime /\ sent[m] <= now /\ erased \in BOOLEAN
  <2>1. now \in Nat /\ now <= MaxTime /\ MaxTime \in Nat
    BY MinuteAssumption DEF Base, LimitInv, LimitTypeOK
  <2> QED BY <2>1, <1>0, Types, TaskMessage DEF Base, Insert
<1> DEFINE Good == /\ task' \in [Posts \X Places -> Task] /\ Requests' /\ Results' /\ Stored' /\ Through'
                   /\ row' \in [Messages \X Keys -> Row] /\ inserted' \in [Messages -> Nat]
                   /\ Rows' /\ NothingAfterErasure'
<1>3. ASSUME row' = row, inserted' = inserted, Goto(p, i, "thrown", "none")
      PROVE  Good
  <2>1. "thrown" \in Steppers /\ "none" \in Outcomes /\ ResultFits("thrown", "none")
    BY DEF Steppers, Outcomes, ResultFits
  <2>2. \A x \in Messages : inserted[x] <= inserted'[x]
    BY <1>3, <1>2
  <2>3. task' \in [Posts \X Places -> Task] /\ Requests' /\ Results' /\ Stored' /\ Through'
    BY <2>1, <2>2, <1>1, <1>2, <1>3, TaskStep
  <2>4. Rows' /\ NothingAfterErasure'
    BY <1>1, <1>3, RowsStay DEF Base, NothingAfterErasure
  <2> QED BY <2>3, <2>4, <1>2, <1>3
<1>4. ASSUME row[<<m, activeKey[p]>>].status # "none", row' = row, inserted' = inserted,
             NEW status, Goto(p, i, "done", Found(status))
      PROVE  Good
  <2>1. /\ Found(status) \in Outcomes /\ ResultFits("done", Found(status)) /\ "done" \in Steppers
    BY FoundFits
  <2>2. \A x \in Messages : inserted[x] <= inserted'[x]
    BY <1>4, <1>2
  <2>3. inserted'[m] > 0
    BY <1>4, <1>2 DEF Base, Rows
  <2>4. task' \in [Posts \X Places -> Task] /\ Requests' /\ Results' /\ Stored' /\ Through'
    BY <2>1, <2>2, <2>3, <1>0, <1>1, <1>2, <1>4, TaskStep
  <2>5. Rows' /\ NothingAfterErasure'
    BY <1>1, <1>4, RowsStay DEF Base, NothingAfterErasure
  <2> QED BY <2>4, <2>5, <1>2, <1>4
<1>5. ASSUME ~erased, row[<<m, activeKey[p]>>].status = "none",
             row' = [row EXCEPT ![<<m, activeKey[p]>>] = [status |-> "received", at |-> now]],
             inserted' = [inserted EXCEPT ![m] = inserted[m] + 1],
             Goto(p, i, "done", "queued")
      PROVE  Good
  <2>1. "done" \in Steppers /\ "queued" \in Outcomes /\ ResultFits("done", "queued")
    BY DEF Steppers, Outcomes, ResultFits, Settlements
  <2>2. \A x \in Messages : inserted[x] \in Nat
    BY <1>2
  <2>3. inserted' \in [Messages -> Nat] /\ inserted'[m] = inserted[m] + 1
        /\ \A x \in Messages : x # m => inserted'[x] = inserted[x]
    BY <2>2, <1>2, <1>5
  <2>4. inserted'[m] > 0 /\ \A x \in Messages : inserted[x] <= inserted'[x]
    BY <2>2, <2>3
  <2>5. task' \in [Posts \X Places -> Task] /\ Requests' /\ Results' /\ Stored' /\ Through'
    BY <2>1, <2>3, <2>4, <1>0, <1>1, <1>2, <1>5, TaskStep
  <2>6. [status |-> "received", at |-> now] \in Row
    BY <1>2 DEF Row
  <2>7. row' \in [Messages \X Keys -> Row]
        /\ row'[<<m, activeKey[p]>>] = [status |-> "received", at |-> now]
        /\ \A x \in Messages, k \in Keys :
             <<x, k>> # <<m, activeKey[p]>> => row'[<<x, k>>] = row[<<x, k>>]
    BY <2>6, <1>2, <1>5
  <2>8. Rows'
    <3> SUFFICES ASSUME NEW x \in Messages, NEW k \in Keys, row'[<<x, k>>].status # "none"
                 PROVE  inserted'[x] > 0 /\ sent[x] <= row'[<<x, k>>].at /\ row'[<<x, k>>].at <= now
      BY <1>1 DEF Rows
    <3>1. CASE <<x, k>> = <<m, activeKey[p]>>
      BY <3>1, <2>4, <2>7, <1>2
    <3>2. CASE <<x, k>> # <<m, activeKey[p]>>
      <4>1. row'[<<x, k>>] = row[<<x, k>>]
        BY <3>2, <2>7
      <4>2. inserted[x] > 0 /\ sent[x] <= row[<<x, k>>].at /\ row[<<x, k>>].at <= now
        BY <4>1 DEF Base, Rows
      <4>3. inserted'[x] > 0
        BY <4>2, <2>2, <2>3, <2>4
      <4> QED BY <4>1, <4>2, <4>3
    <3> QED BY <3>1, <3>2
  <2>9. NothingAfterErasure'
    BY <1>1, <1>5 DEF NothingAfterErasure
  <2> QED BY <2>3, <2>5, <2>7, <2>8, <2>9
<1>6. Good
  <2> HIDE DEF Good
  <2> QED BY <1>0, <1>3, <1>4, <1>5, InsertCases
<1>7. TypeOK'
  BY <1>1, <1>6 DEF Base, TypeOK, LimitInv, Task, Steppers, Outcomes, Row
<1> QED BY <1>1, <1>6, <1>7 DEF Base

\* A post that is replaced by another keeps the shape of the requests.
LEMMA PostType ==
  ASSUME TypeOK, NEW p \in Posts, NEW x \in Post, post' = [post EXCEPT ![p] = x]
  PROVE  /\ post' \in [Posts -> Post] /\ post'[p] = x
         /\ \A q \in Posts : q # p => post'[q] = post[q]
  BY Types

LEMMA PostMoves ==
  ASSUME TypeOK, NEW p \in Posts, NEW pc, post' = [post EXCEPT ![p].pc = pc],
         pc \in {"none", "signed", "working", "ok", "unauthorized", "unavailable", "error"}
  PROVE  /\ post' \in [Posts -> Post] /\ post'[p].pc = pc
         /\ \A q \in Posts : post'[q].events = post[q].events /\ post'[q].begun = post[q].begun
         /\ \A q \in Posts : q # p => post'[q].pc = post[q].pc
<1>1. post \in [Posts -> Post] /\ post[p] \in Post
  BY Types
<1> DEFINE x == [post[p] EXCEPT !.pc = pc]
<1>2. x \in Post /\ x.pc = pc /\ x.events = post[p].events /\ x.begun = post[p].begun
  BY <1>1 DEF Post
<1>3. post' = [post EXCEPT ![p] = x]
  BY <1>1 DEF Post
<1> HIDE DEF x
<1> QED BY <1>1, <1>2, <1>3

\* Only the state of a request moves, and it is not settled thereby.
LEMMA PostStep ==
  ASSUME Base, NEW p \in Posts, NEW pc, post' = [post EXCEPT ![p].pc = pc],
         pc \in {"signed", "working", "ok", "unauthorized", "unavailable", "error"},
         post[p].pc # "none",
         pc = "ok" => /\ post[p].begun = Len(post[p].events)
                      /\ \A i \in 1..Len(post[p].events) : task[<<p, i>>].pc = "done",
         sent' = sent, now' = now, inserted' = inserted, task' = task
  PROVE  post' \in [Posts -> Post] /\ Requests' /\ Results' /\ Stored' /\ Through'
<1>1. /\ post' \in [Posts -> Post] /\ post'[p].pc = pc
      /\ \A q \in Posts : post'[q].events = post[q].events /\ post'[q].begun = post[q].begun
      /\ \A q \in Posts : q # p => post'[q].pc = post[q].pc
  BY PostMoves DEF Base
<1>2. Requests'
  BY <1>1 DEF Base, Requests
<1>3. Results'
  BY DEF Base, Results
<1>4. Stored'
  BY <1>1 DEF Base, Stored
<1>5. Through'
  <2> SUFFICES ASSUME NEW q \in Posts, post'[q].pc = "ok"
               PROVE  /\ post[q].begun = Len(post[q].events)
                      /\ \A j \in 1..Len(post[q].events) : task[<<q, j>>].pc = "done"
    BY <1>1 DEF Through
  <2>1. CASE q = p
    BY <2>1, <1>1
  <2>2. CASE q # p
    BY <2>2, <1>1 DEF Base, Through
  <2> QED BY <2>1, <2>2
<1> QED BY <1>1, <1>2, <1>3, <1>4, <1>5

LEMMA CheckServiceKeeps ==
  ASSUME Base, LimitInv', NEW p \in Posts, CheckService(p)
  PROVE  Base'
<1>1. /\ sent' = sent /\ now' = now /\ inserted' = inserted /\ row' = row /\ task' = task
      /\ erased' = erased /\ listed' = listed /\ activeKey' = activeKey /\ torn' = torn /\ audited' = audited
      /\ outages' = outages
  BY DEF CheckService, world, limits
<1>2. post[p].pc = "signed"
  BY DEF CheckService
<1>3. PICK pc \in {"unavailable", "working"} : post' = [post EXCEPT ![p].pc = pc]
  BY DEF CheckService
<1>4. post' \in [Posts -> Post] /\ Requests' /\ Results' /\ Stored' /\ Through'
  BY <1>1, <1>2, <1>3, PostStep
<1>5. Rows' /\ NothingAfterErasure'
  BY <1>1, RowsStay DEF Base, NothingAfterErasure
<1>6. TypeOK'
  BY <1>1, <1>4 DEF Base, TypeOK, LimitInv, Post
<1> QED BY <1>1, <1>4, <1>5, <1>6 DEF Base

LEMMA AnswerKeeps ==
  ASSUME Base, LimitInv', NEW p \in Posts, Answer(p)
  PROVE  Base'
<1>1. /\ sent' = sent /\ now' = now /\ inserted' = inserted /\ row' = row /\ task' = task
      /\ erased' = erased /\ listed' = listed /\ activeKey' = activeKey /\ torn' = torn /\ audited' = audited
      /\ outages' = outages
  BY DEF Answer, world, limits
<1>2. post[p].pc = "working"
  BY DEF Answer
<1>3. CASE Settled(p) /\ post[p].begun = Len(post[p].events) /\ post' = [post EXCEPT ![p].pc = "ok"]
  <2>1. \A i \in 1..Len(post[p].events) : task[<<p, i>>].pc = "done"
    <3> SUFFICES ASSUME NEW i \in 1..Len(post[p].events) PROVE task[<<p, i>>].pc = "done"
      OBVIOUS
    <3>1. post[p].events \in Seq(Messages) /\ Len(post[p].events) <= MaxEvents
      BY Types DEF Base, Post, Requests
    <3>2. i \in Places /\ i <= post[p].begun
      BY <3>1, <1>3, IngressAssumption DEF Places
    <3> QED BY <3>2, <1>3 DEF Settled, Begun
  <2>2. "ok" \in {"signed", "working", "ok", "unauthorized", "unavailable", "error"}
    OBVIOUS
  <2> QED BY <1>1, <1>2, <1>3, <2>1, <2>2, PostStep, RowsStay
          DEF Base, TypeOK, LimitInv, Post, NothingAfterErasure
<1>4. CASE post' = [post EXCEPT ![p].pc = "error"]
  <2>1. post' \in [Posts -> Post] /\ Requests' /\ Results' /\ Stored' /\ Through'
    BY <1>1, <1>2, <1>4, PostStep
  <2>2. Rows' /\ NothingAfterErasure'
    BY <1>1, RowsStay DEF Base, NothingAfterErasure
  <2>3. TypeOK'
    BY <1>1, <2>1 DEF Base, TypeOK, LimitInv, Post
  <2> QED BY <1>1, <2>1, <2>2, <2>3 DEF Base
<1> QED BY <1>3, <1>4 DEF Answer

\* A request comes: only its own, unbegun list of messages is new.
LEMMA ReceiveKeeps ==
  ASSUME Base, LimitInv', NEW p \in Posts, Receive(p)
  PROVE  Base'
<1>1. /\ now' = now /\ inserted' = inserted /\ row' = row /\ task' = task
      /\ erased' = erased /\ listed' = listed /\ activeKey' = activeKey /\ torn' = torn /\ audited' = audited
      /\ outages' = outages
  BY DEF Receive, limits
<1>2. PICK payload \in Payloads[p], signed \in BOOLEAN :
        LET events == IF signed THEN Parsed(payload) ELSE <<>> IN
        /\ post' = [post EXCEPT ![p] = [pc |-> IF signed THEN "signed" ELSE "unauthorized",
                                        events |-> events, begun |-> 0]]
        /\ sent' = [m \in Messages |->
                     IF sent[m] = NotSent /\ \E i \in DOMAIN events : events[i] = m
                     THEN now ELSE sent[m]]
  BY DEF Receive
<1> DEFINE events == IF signed THEN Parsed(payload) ELSE <<>>
           pc == IF signed THEN "signed" ELSE "unauthorized"
           x == [pc |-> pc, events |-> events, begun |-> 0]
<1>3. events \in Seq(Messages) /\ Len(events) <= MaxEvents
  <2>1. payload \in Seq(Event)
    BY IngressAssumption DEF Event, Posts
  <2>2. Parsed(payload) \in Seq(Messages) /\ Len(Parsed(payload)) <= MaxEvents
    BY <2>1, ParsedType
  <2>3. <<>> \in Seq(Messages) /\ Len(<<>>) = 0 /\ 0 <= MaxEvents
    BY IngressAssumption
  <2> QED BY <2>2, <2>3
<1>4. pc \in {"signed", "unauthorized"}
  OBVIOUS
<1> HIDE DEF pc
<1>5. x \in Post /\ x.pc = pc /\ x.events = events /\ x.begun = 0
  <2> HIDE DEF events
  <2> QED BY <1>3, <1>4 DEF Post
<1>6. post' = [post EXCEPT ![p] = x]
  BY <1>2 DEF pc
<1>7. sent' = [m \in Messages |->
                 IF sent[m] = NotSent /\ \E i \in DOMAIN events : events[i] = m
                 THEN now ELSE sent[m]]
  BY <1>2
<1> HIDE DEF events, x
<1>8. /\ post' \in [Posts -> Post] /\ post'[p].pc = pc /\ post'[p].events = events
      /\ post'[p].begun = 0
      /\ \A q \in Posts : q # p => post'[q] = post[q]
  BY <1>5, <1>6, PostType DEF Base
<1>9. now \in Nat /\ now <= MaxTime /\ MaxTime \in Nat /\ now < NotSent /\ NotSent \in Nat
  <2>1. now \in Nat /\ now <= MaxTime /\ MaxTime \in Nat
    BY MinuteAssumption DEF Base, LimitInv, LimitTypeOK
  <2> QED BY <2>1 DEF NotSent
<1>10. sent \in [Messages -> 0..NotSent]
  BY Types DEF Base
<1>11. sent' \in [Messages -> 0..NotSent]
  BY <1>7, <1>9, <1>10
<1>12. \A m \in Messages : sent[m] <= now => sent'[m] = sent[m]
  BY <1>7, <1>9, <1>10
<1>13. \A m \in Messages : sent'[m] = sent[m] \/ (sent[m] = NotSent /\ sent'[m] = now)
  BY <1>7
<1>14. post[p].pc = "none" /\ post[p].begun = 0
  BY DEF Receive, Base, Requests
<1>15. \A i \in Places : task[<<p, i>>] = NoTask
  <2>1. \A i \in Places : 0 < i
    BY DEF Places
  <2> QED BY <2>1, <1>14 DEF Base, Requests
<1>16. \A q \in Posts : post[q] \in Post
  BY Types DEF Base
<1>17. \A m \in Messages : sent'[m] = NotSent \/ sent'[m] <= now
  BY <1>9, <1>13 DEF Base, Requests
<1>18. \A i \in 1..Len(events) : sent'[events[i]] <= now
  <2> SUFFICES ASSUME NEW i \in 1..Len(events) PROVE sent'[events[i]] <= now
    OBVIOUS
  <2>1. events[i] \in Messages /\ i \in DOMAIN events
    BY <1>3
  <2>2. PICK m \in Messages : m = events[i]
    BY <2>1
  <2>3. sent'[m] = IF sent[m] = NotSent THEN now ELSE sent[m]
    BY <1>7, <2>1, <2>2
  <2>4. sent'[m] # NotSent
    BY <2>3, <1>9
  <2> QED BY <2>2, <2>4, <1>17
<1>19. Requests'
  <2> SUFFICES ASSUME NEW q \in Posts
               PROVE  /\ Len(post'[q].events) <= MaxEvents /\ post'[q].begun <= Len(post'[q].events)
                      /\ post'[q].pc = "none" => post'[q].begun = 0
                      /\ \A i \in 1..Len(post'[q].events) : sent'[post'[q].events[i]] <= now
                      /\ \A i \in Places : post'[q].begun < i => task[<<q, i>>] = NoTask
    BY <1>1, <1>17 DEF Requests
  <2>1. CASE q = p
    <3>1. 0 <= Len(events)
      BY <1>3
    <3> QED BY <2>1, <3>1, <1>3, <1>8, <1>15, <1>18
  <2>2. CASE q # p
    <3>1. post'[q] = post[q]
      BY <2>2, <1>8
    <3>2. \A i \in 1..Len(post[q].events) : post[q].events[i] \in Messages
      BY <1>16 DEF Post
    <3>3. \A i \in 1..Len(post[q].events) : sent'[post[q].events[i]] <= now
      BY <3>2, <1>12 DEF Base, Requests
    <3> QED BY <3>1, <3>3 DEF Base, Requests
  <2> QED BY <2>1, <2>2
<1>20. Stored'
  <2> SUFFICES ASSUME NEW q \in Posts, NEW i \in 1..Len(post'[q].events),
                      task[<<q, i>>].pc = "done", task[<<q, i>>].result \in {"duplicate", "queued"}
               PROVE  inserted[post'[q].events[i]] > 0
    BY <1>1 DEF Stored
  <2>1. q # p
    <3> SUFFICES ASSUME q = p PROVE FALSE
      OBVIOUS
    <3>1. i \in Places
      BY <1>3, <1>8, IngressAssumption DEF Places
    <3> QED BY <3>1, <1>15 DEF NoTask
  <2> QED BY <2>1, <1>8 DEF Base, Stored
<1>21. Through'
  BY <1>1, <1>4, <1>8 DEF Base, Through
<1>22. Rows'
  <2> SUFFICES ASSUME NEW m \in Messages, NEW k \in Keys, row[<<m, k>>].status # "none"
               PROVE  inserted[m] > 0 /\ sent'[m] <= row[<<m, k>>].at /\ row[<<m, k>>].at <= now
    BY <1>1 DEF Rows
  <2>1. inserted[m] > 0 /\ sent[m] <= row[<<m, k>>].at /\ row[<<m, k>>].at <= now
    BY DEF Base, Rows
  <2>2. row[<<m, k>>] \in Row
    BY Types DEF Base
  <2>3. row[<<m, k>>].at \in Nat /\ sent[m] \in Nat
    BY <2>2, <1>9, <1>10 DEF Row
  <2>4. sent[m] <= now
    BY <2>1, <2>3, <1>9
  <2> QED BY <2>1, <2>4, <1>12
<1>23. NothingAfterErasure' /\ Results'
  BY <1>1 DEF Base, NothingAfterErasure, Results
<1>24. TypeOK'
  BY <1>1, <1>8, <1>11 DEF Base, TypeOK, LimitInv, Post
<1> QED BY <1>1, <1>19, <1>20, <1>21, <1>22, <1>23, <1>24 DEF Base

\* What a batch hands over: the next messages, and no other.
LEMMA BatchBegins ==
  ASSUME Base, NEW p \in Posts, StartBatch(p)
  PROVE  \E upTo \in Nat :
           /\ post[p].pc = "working" /\ Settled(p)
           /\ post[p].begun < upTo /\ upTo <= Len(post[p].events)
           /\ post' = [post EXCEPT ![p].begun = upTo]
           /\ task' = [t \in Posts \X Places |->
                IF t[1] # p \/ t[2] \notin (post[p].begun + 1)..upTo THEN task[t]
                ELSE IF IsFresh(post[p].events[t[2]])
                THEN [pc |-> "global", result |-> "none"]
                ELSE [pc |-> "audit", result |-> "stale"]]
<1> DEFINE upTo == IF post[p].begun + Batch < Len(post[p].events)
                   THEN post[p].begun + Batch ELSE Len(post[p].events)
<1>1. post[p].begun \in Nat /\ Len(post[p].events) \in Nat /\ Batch \in Nat
  <2>1. post[p] \in Post
    BY Types DEF Base
  <2> QED BY <2>1, IngressAssumption DEF Post
<1>2. upTo \in Nat /\ upTo <= Len(post[p].events)
  BY <1>1
<1>3. /\ post[p].pc = "working" /\ Settled(p) /\ post[p].begun < upTo
      /\ post' = [post EXCEPT ![p].begun = upTo]
      /\ task' = [t \in Posts \X Places |->
           IF t[1] # p \/ t[2] \notin (post[p].begun + 1)..upTo THEN task[t]
           ELSE IF IsFresh(post[p].events[t[2]])
           THEN [pc |-> "global", result |-> "none"]
           ELSE [pc |-> "audit", result |-> "stale"]]
  BY DEF StartBatch
<1> HIDE DEF upTo
<1> QED BY <1>2, <1>3

LEMMA StartBatchKeeps ==
  ASSUME Base, LimitInv', NEW p \in Posts, StartBatch(p)
  PROVE  Base'
<1>1. /\ sent' = sent /\ now' = now /\ inserted' = inserted /\ row' = row
      /\ erased' = erased /\ listed' = listed /\ activeKey' = activeKey /\ torn' = torn /\ audited' = audited
      /\ outages' = outages
  BY DEF StartBatch, world, limits
<1>2. PICK upTo \in Nat :
           /\ post[p].pc = "working" /\ Settled(p)
           /\ post[p].begun < upTo /\ upTo <= Len(post[p].events)
           /\ post' = [post EXCEPT ![p].begun = upTo]
           /\ task' = [t \in Posts \X Places |->
                IF t[1] # p \/ t[2] \notin (post[p].begun + 1)..upTo THEN task[t]
                ELSE IF IsFresh(post[p].events[t[2]])
                THEN [pc |-> "global", result |-> "none"]
                ELSE [pc |-> "audit", result |-> "stale"]]
  BY BatchBegins
<1>3. post \in [Posts -> Post] /\ post[p] \in Post /\ task \in [Posts \X Places -> Task]
  BY Types DEF Base
<1> DEFINE x == [post[p] EXCEPT !.begun = upTo]
<1>4. x \in Post /\ x.pc = "working" /\ x.events = post[p].events /\ x.begun = upTo
  BY <1>2, <1>3 DEF Post
<1>5. post' = [post EXCEPT ![p] = x]
  BY <1>2, <1>3 DEF Post
<1> HIDE DEF x
<1>6. /\ post' \in [Posts -> Post]
      /\ \A q \in Posts : post'[q].events = post[q].events /\ post'[q].pc = post[q].pc
      /\ \A q \in Posts : q # p => post'[q].begun = post[q].begun
      /\ post'[p].begun = upTo
  BY <1>2, <1>3, <1>4, <1>5
<1>7. \A q \in Posts, i \in Places :
        \/ task'[<<q, i>>] = task[<<q, i>>]
        \/ /\ q = p /\ post[p].begun < i /\ i <= upTo
           /\ \/ task'[<<q, i>>] = [pc |-> "global", result |-> "none"]
              \/ task'[<<q, i>>] = [pc |-> "audit", result |-> "stale"]
  <2> SUFFICES ASSUME NEW q \in Posts, NEW i \in Places
               PROVE  \/ task'[<<q, i>>] = task[<<q, i>>]
                      \/ /\ q = p /\ post[p].begun < i /\ i <= upTo
                         /\ \/ task'[<<q, i>>] = [pc |-> "global", result |-> "none"]
                            \/ task'[<<q, i>>] = [pc |-> "audit", result |-> "stale"]
    OBVIOUS
  <2>1. CASE q # p \/ i \notin (post[p].begun + 1)..upTo
    BY <2>1, <1>2
  <2>2. CASE q = p /\ i \in (post[p].begun + 1)..upTo
    <3>1. post[p].begun < i /\ i <= upTo
      BY <2>2, <1>3 DEF Post, Places
    <3>2. \/ task'[<<q, i>>] = [pc |-> "global", result |-> "none"]
          \/ task'[<<q, i>>] = [pc |-> "audit", result |-> "stale"]
      BY <2>2, <1>2
    <3> QED BY <2>2, <3>1, <3>2
  <2> QED BY <2>1, <2>2
<1>8. \A t \in Posts \X Places :
        \/ task'[t] = task[t]
        \/ task'[t] = [pc |-> "global", result |-> "none"]
        \/ task'[t] = [pc |-> "audit", result |-> "stale"]
  BY <1>7
<1>9. task' \in [Posts \X Places -> Task]
  <2>1. [pc |-> "global", result |-> "none"] \in Task /\ [pc |-> "audit", result |-> "stale"] \in Task
    BY DEF Task, Steppers, Outcomes
  <2>2. \A t \in Posts \X Places : task'[t] \in Task
    BY <2>1, <1>3, <1>8
  <2>3. DOMAIN task' = Posts \X Places /\ task' = [t \in DOMAIN task' |-> task'[t]]
    BY <1>2
  <2> QED BY <2>2, <2>3
<1>10. Requests'
  <2> SUFFICES ASSUME NEW q \in Posts
               PROVE  /\ Len(post'[q].events) <= MaxEvents /\ post'[q].begun <= Len(post'[q].events)
                      /\ post'[q].pc = "none" => post'[q].begun = 0
                      /\ \A i \in 1..Len(post'[q].events) : sent[post'[q].events[i]] <= now
                      /\ \A i \in Places : post'[q].begun < i => task'[<<q, i>>] = NoTask
    BY <1>1 DEF Base, Requests
  <2>1. CASE q # p
    BY <2>1, <1>6, <1>7 DEF Base, Requests
  <2>2. CASE q = p
    <3>1. ASSUME NEW i \in Places, upTo < i PROVE task'[<<p, i>>] = NoTask
      <4>1. i \in Nat /\ post[p].begun \in Nat
        BY <1>3 DEF Post, Places
      <4>2. post[p].begun < i /\ ~(i <= upTo)
        BY <4>1, <3>1, <1>2
      <4> QED BY <4>2, <1>7 DEF Base, Requests
    <3> QED BY <2>2, <3>1, <1>2, <1>6 DEF Base, Requests
  <2> QED BY <2>1, <2>2
<1>11. Results'
  <2>1. ResultFits("global", "none") /\ ResultFits("audit", "stale")
    BY DEF ResultFits
  <2> QED BY <2>1, <1>8 DEF Base, Results
<1>12. \A q \in Posts : \A i \in 1..Len(post[q].events) : i \in Places
  <2> SUFFICES ASSUME NEW q \in Posts, NEW i \in 1..Len(post[q].events) PROVE i \in Places
    OBVIOUS
  <2>1. post[q] \in Post /\ Len(post[q].events) <= MaxEvents
    BY Types DEF Base, Requests
  <2> QED BY <2>1, IngressAssumption DEF Places, Post
<1>13. Stored'
  <2> SUFFICES ASSUME NEW q \in Posts, NEW i \in 1..Len(post[q].events),
                      task'[<<q, i>>].pc = "done", task'[<<q, i>>].result \in {"duplicate", "queued"}
               PROVE  inserted[post[q].events[i]] > 0
    BY <1>1, <1>6 DEF Stored
  <2>1. task'[<<q, i>>] = task[<<q, i>>]
    BY <1>7, <1>12
  <2> QED BY <2>1 DEF Base, Stored
<1>14. Through'
  <2> SUFFICES ASSUME NEW q \in Posts, post[q].pc = "ok"
               PROVE  /\ post'[q].begun = Len(post[q].events)
                      /\ \A j \in 1..Len(post[q].events) : task'[<<q, j>>].pc = "done"
    BY <1>6 DEF Through
  <2>1. q # p
    BY <1>2
  <2> QED BY <2>1, <1>6, <1>7, <1>12 DEF Base, Through
<1>15. Rows' /\ NothingAfterErasure'
  BY <1>1, RowsStay DEF Base, NothingAfterErasure
<1>16. TypeOK'
  BY <1>1, <1>6, <1>9 DEF Base, TypeOK, LimitInv, Task, Steppers, Outcomes, Post
<1> QED BY <1>1, <1>10, <1>11, <1>13, <1>14, <1>15, <1>16 DEF Base

-----------------------------------------------------------------------------
\* What goes on around the webhook leaves its requests and tasks as they are,
\* and puts no row where there was none.
LEMMA AroundKeeps ==
  ASSUME Base, LimitInv', post' = post, task' = task, sent' = sent, inserted' = inserted,
         audited' = audited, outages' = outages, now' \in Nat, now <= now', now' <= MaxTime,
         erased' \in BOOLEAN, listed' \subseteq Senders, activeKey' \in [Posts -> Keys], torn' = torn,
         row' \in [Messages \X Keys -> Row],
         \A m \in Messages, k \in Keys : row'[<<m, k>>].status # "none" =>
           ~erased' /\ row[<<m, k>>].status # "none" /\ row'[<<m, k>>].at = row[<<m, k>>].at
  PROVE  Base'
<1>1. now \in Nat /\ MaxTime \in Nat
  BY MinuteAssumption DEF Base, LimitInv, LimitTypeOK
<1>2. \A m \in Messages : sent[m] \in Nat
  BY <1>1, Types DEF Base, NotSent
<1>3. \A m \in Messages : sent[m] <= now => sent[m] <= now'
  BY <1>1, <1>2
<1>4. \A p \in Posts : \A i \in 1..Len(post[p].events) : post[p].events[i] \in Messages
  BY Types DEF Base, Post
<1>5. \A p \in Posts : \A i \in 1..Len(post[p].events) : sent[post[p].events[i]] <= now'
  BY <1>3, <1>4 DEF Base, Requests
<1>6. Requests'
  BY <1>3, <1>5 DEF Base, Requests, NotSent
<1>7. Results' /\ Stored' /\ Through'
  BY DEF Base, Results, Stored, Through
<1>8. Rows'
  <2> SUFFICES ASSUME NEW m \in Messages, NEW k \in Keys, row'[<<m, k>>].status # "none"
               PROVE  inserted[m] > 0 /\ sent[m] <= row'[<<m, k>>].at /\ row'[<<m, k>>].at <= now'
    BY DEF Rows
  <2>1. inserted[m] > 0 /\ sent[m] <= row[<<m, k>>].at /\ row[<<m, k>>].at <= now
    BY DEF Base, Rows
  <2>2. row'[<<m, k>>].at = row[<<m, k>>].at /\ row'[<<m, k>>] \in Row
    OBVIOUS
  <2>3. row'[<<m, k>>].at \in Nat
    BY <2>2, <1>1 DEF Row
  <2> QED BY <2>1, <2>2, <2>3, <1>1
<1>9. NothingAfterErasure'
  <2> SUFFICES ASSUME erased', NEW r \in DOMAIN row' PROVE row'[r].status = "none"
    BY DEF NothingAfterErasure
  <2>1. PICK m \in Messages, k \in Keys : r = <<m, k>>
    OBVIOUS
  <2> QED BY <2>1
<1>10. TypeOK'
  BY Types DEF Base, TypeOK, LimitInv, Task, Steppers, Outcomes, Post, Row
<1> QED BY <1>6, <1>7, <1>8, <1>9, <1>10 DEF Base

LEMMA Clock ==
  ASSUME Base
  PROVE  now \in Nat /\ now <= MaxTime /\ MaxTime \in Nat /\ now <= now
  BY MinuteAssumption DEF Base, LimitInv, LimitTypeOK

LEMMA SettleKeeps ==
  ASSUME Base, LimitInv', Settle
  PROVE  Base'
<1>1. PICK r \in Messages \X Keys : \E status \in {"processed", "failed"} :
        /\ row[r].status = "received" \/ (row[r].status = "failed" /\ status = "processed")
        /\ row' = [row EXCEPT ![r].status = status]
  BY Types DEF Base, Settle
<1>2. PICK status \in {"processed", "failed"} :
        row[r].status \in {"received", "failed"} /\ row' = [row EXCEPT ![r].status = status]
  BY <1>1
<1>3. row \in [Messages \X Keys -> Row] /\ row[r] \in Row
  BY Types DEF Base
<1> DEFINE x == [row[r] EXCEPT !.status = status]
<1>4. x \in Row /\ x.at = row[r].at
  BY <1>3 DEF Row
<1>5. row' = [row EXCEPT ![r] = x]
  BY <1>2, <1>3 DEF Row
<1> HIDE DEF x
<1>6. row' \in [Messages \X Keys -> Row] /\ row'[r].at = row[r].at
      /\ \A s \in Messages \X Keys : s # r => row'[s] = row[s]
  BY <1>3, <1>4, <1>5
<1>7. row[r].status # "none"
  BY <1>2
<1>8. PICK m \in Messages, k \in Keys : r = <<m, k>>
  OBVIOUS
<1>9. ~erased
  BY <1>3, <1>7 DEF Base, NothingAfterErasure
<1>10. \A a \in Messages, k2 \in Keys : row'[<<a, k2>>].status # "none" =>
           ~erased /\ row[<<a, k2>>].status # "none" /\ row'[<<a, k2>>].at = row[<<a, k2>>].at
  BY <1>6, <1>7, <1>9
<1>11. /\ post' = post /\ task' = task /\ sent' = sent /\ inserted' = inserted /\ now' = now
       /\ audited' = audited /\ outages' = outages
       /\ erased' = erased /\ listed' = listed /\ activeKey' = activeKey /\ torn' = torn
  BY DEF Settle, world, limits
<1>12. erased \in BOOLEAN /\ listed \subseteq Senders /\ activeKey \in [Posts -> Keys]
  BY Types DEF Base
<1> QED BY <1>6, <1>10, <1>11, <1>12, Clock, AroundKeeps

\* Rows are only taken away.
LEMMA LifecycleKeeps ==
  ASSUME Base, LimitInv', Lifecycle
  PROVE  Base'
<1>1. row' = [r \in Messages \X Keys |-> IF Outdated(r) THEN NoRow ELSE row[r]]
  BY Types DEF Base, Lifecycle
<1>2. row \in [Messages \X Keys -> Row] /\ NoRow \in Row
  BY Types, Clock DEF NoRow, Row, Base
<1>3. row' \in [Messages \X Keys -> Row]
  BY <1>1, <1>2
<1>4. \A r \in Messages \X Keys : row'[r].status # "none" => row'[r] = row[r]
  BY <1>1 DEF NoRow
<1>5. /\ post' = post /\ task' = task /\ sent' = sent /\ inserted' = inserted /\ now' = now
      /\ audited' = audited /\ outages' = outages /\ ~erased
      /\ erased' = erased /\ listed' = listed /\ activeKey' = activeKey /\ torn' = torn
  BY DEF Lifecycle, PurgeUnused, PurgeBuckets, world, limits
<1>6. \A m \in Messages, k \in Keys : row'[<<m, k>>].status # "none" =>
           ~erased /\ row[<<m, k>>].status # "none" /\ row'[<<m, k>>].at = row[<<m, k>>].at
  BY <1>4, <1>5
<1>7. erased \in BOOLEAN /\ listed \subseteq Senders /\ activeKey \in [Posts -> Keys]
  BY Types DEF Base
<1> QED BY <1>3, <1>5, <1>6, <1>7, Clock, AroundKeeps

LEMMA EraseKeeps ==
  ASSUME Base, LimitInv', EraseClientData
  PROVE  Base'
<1>1. row' = [r \in Messages \X Keys |-> NoRow]
  BY Types DEF Base, EraseClientData
<1>2. NoRow \in Row
  BY Clock DEF NoRow, Row
<1>3. row' \in [Messages \X Keys -> Row] /\ \A r \in Messages \X Keys : row'[r].status = "none"
  BY <1>1, <1>2 DEF NoRow
<1>4. /\ post' = post /\ task' = task /\ sent' = sent /\ inserted' = inserted /\ now' = now
      /\ audited' = audited /\ outages' = outages
      /\ erased' = TRUE /\ listed' = {} /\ activeKey' = activeKey /\ torn' = torn
  BY DEF EraseClientData, EraseBuckets, world
<1>5. activeKey \in [Posts -> Keys]
  BY Types DEF Base
<1>6. \A m \in Messages, k \in Keys : row'[<<m, k>>].status = "none"
  BY <1>3
<1> QED BY <1>3, <1>4, <1>5, <1>6, Clock, AroundKeeps

\* The rows stay as they are.
LEMMA QuietKeeps ==
  ASSUME Base, LimitInv', Deactivate \/ (\E p \in Posts : Rotate(p)) \/ Tick \/ UNCHANGED vars
  PROVE  Base'
<1>1. /\ post' = post /\ task' = task /\ sent' = sent /\ inserted' = inserted /\ row' = row
      /\ audited' = audited /\ torn' = torn /\ outages' = outages /\ erased' = erased
  BY DEF Deactivate, Rotate, Tick, vars, world, limits
<1>2. erased \in BOOLEAN /\ listed \subseteq Senders /\ activeKey \in [Posts -> Keys]
      /\ row \in [Messages \X Keys -> Row]
  BY Types DEF Base
<1>3. listed' \subseteq Senders /\ activeKey' \in [Posts -> Keys]
  BY <1>2 DEF Deactivate, Rotate, Tick, vars, world
<1>4. now' = now \/ (now < MaxTime /\ now' = now + 1)
  BY DEF Deactivate, Rotate, Tick, Elapse, vars, limits
<1>5. now' \in Nat /\ now <= now' /\ now' <= MaxTime
  BY <1>4, Clock
<1>6. \A m \in Messages, k \in Keys : row[<<m, k>>].status # "none" => ~erased
  BY <1>2 DEF Base, NothingAfterErasure
<1> QED BY <1>1, <1>2, <1>3, <1>5, <1>6, AroundKeeps

-----------------------------------------------------------------------------
LEMMA BaseStart == Init => Base
<1> SUFFICES ASSUME Init PROVE Base
  OBVIOUS
<1>1. LimitInv
  BY LimitStart DEF Init
<1>2. now = 0 /\ MaxTime \in Nat /\ MaxOutages \in Nat /\ NotSent \in Nat /\ 0 \in 0..MaxTime
      /\ NotSent \in 0..NotSent /\ MaxEvents \in Nat /\ 0 \in 0..MaxOutages
  BY MinuteAssumption, IngressAssumption DEF Init, LimitInit, NotSent
<1>3. NoRow \in Row /\ NoRow.status = "none" /\ NoTask \in Task /\ NoTask.pc = "none"
      /\ NoTask.result = "none"
  BY <1>2 DEF NoRow, Row, NoTask, Task, Steppers, Outcomes
<1>4. NoPost \in Post /\ NoPost.pc = "none" /\ NoPost.begun = 0 /\ NoPost.events = <<>>
  <2>1. <<>> \in Seq(Messages)
    OBVIOUS
  <2> QED BY <2>1 DEF NoPost, Post
<1>5. /\ post \in [Posts -> Post] /\ task \in [Posts \X Places -> Task]
      /\ row \in [Messages \X Keys -> Row] /\ sent \in [Messages -> 0..NotSent]
      /\ inserted \in [Messages -> Nat]
      /\ erased \in BOOLEAN /\ listed \subseteq Senders /\ activeKey \in [Posts -> Keys]
      /\ torn \subseteq Messages /\ audited \in Nat /\ outages \in 0..MaxOutages
  BY <1>2, <1>3, <1>4, IngressAssumption DEF Init
<1>6. TypeOK
  BY <1>1, <1>5 DEF TypeOK, LimitInv, Task, Steppers, Outcomes, Post, Row
<1>7. /\ \A p \in Posts : post[p] = NoPost
      /\ \A t \in Posts \X Places : task[t] = NoTask
      /\ \A m \in Messages : sent[m] = NotSent
      /\ \A r \in Messages \X Keys : row[r] = NoRow
      /\ DOMAIN row = Messages \X Keys
  BY DEF Init
<1>8. Len(<<>>) = 0 /\ 0 <= MaxEvents /\ 1..0 = {}
  BY <1>2
<1>9. Requests
  BY <1>4, <1>7, <1>8 DEF Requests
<1>10. Results
  <2>1. ResultFits("none", "none")
    BY DEF ResultFits
  <2> QED BY <2>1, <1>3, <1>7 DEF Results
<1>11. Stored /\ Through
  BY <1>4, <1>7, <1>8 DEF Stored, Through
<1>12. Rows /\ NothingAfterErasure
  BY <1>3, <1>7 DEF Rows, NothingAfterErasure
<1>13. now <= MaxTime
  BY <1>2
<1> QED BY <1>1, <1>6, <1>9, <1>10, <1>11, <1>12, <1>13 DEF Base

LEMMA BaseNext == Base /\ [Next]_vars => Base'
<1> SUFFICES ASSUME Base, [Next]_vars PROVE Base'
  OBVIOUS
<1>1. LimitInv'
  <2>1. [LimitNext]_limits
    BY StepOfLimits DEF Base
  <2> QED BY <2>1, LimitStep DEF Base
<1>2. CASE \E p \in Posts : Receive(p)
  BY <1>1, <1>2, ReceiveKeeps
<1>3. CASE \E p \in Posts : CheckService(p)
  BY <1>1, <1>3, CheckServiceKeeps
<1>4. CASE \E p \in Posts : StartBatch(p)
  BY <1>1, <1>4, StartBatchKeeps
<1>5. CASE \E p \in Posts : Answer(p)
  BY <1>1, <1>5, AnswerKeeps
<1>6. CASE \E p \in Posts, i \in Places : ConsumeLimit(p, i)
  BY <1>1, <1>6, ConsumeKeeps
<1>7. CASE \E p \in Posts, i \in Places : FindUser(p, i)
  BY <1>1, <1>7, FindUserKeeps
<1>8. CASE \E p \in Posts, i \in Places : RecordEvent(p, i)
  BY <1>1, <1>8, RecordEventKeeps
<1>9. CASE \E p \in Posts, i \in Places : SelectExisting(p, i)
  BY <1>1, <1>9, SelectKeeps
<1>10. CASE \E p \in Posts, i \in Places : Insert(p, i)
  BY <1>1, <1>10, InsertKeeps
<1>11. CASE Settle
  BY <1>1, <1>11, SettleKeeps
<1>12. CASE Lifecycle
  BY <1>1, <1>12, LifecycleKeeps
<1>13. CASE EraseClientData
  BY <1>1, <1>13, EraseKeeps
<1>14. CASE Deactivate \/ (\E p \in Posts : Rotate(p)) \/ Tick \/ UNCHANGED vars
  BY <1>1, <1>14, QuietKeeps
<1> QED BY <1>2, <1>3, <1>4, <1>5, <1>6, <1>7, <1>8, <1>9, <1>10, <1>11, <1>12, <1>13, <1>14 DEF Next

-----------------------------------------------------------------------------
\* The freshness test is on, and does not outlast a record: env.ts gives the window
\* a day at most and the record a day at least (env.ts:134, 143).
FreshEnvironment == Freshness # 0 /\ Freshness <= Retention

\* The steps of a message that was within the window when its batch began.
FreshSteps == {"global", "sender", "user", "select", "insert"}

\* Such a message still is: time does not pass over a task.
InTime ==
  \A p \in Posts, i \in Places : task[<<p, i>>].pc \in FreshSteps =>
    now <= sent[post[p].events[i]] + Freshness

\* A message about to be inserted has no row but one that its own insert meets, and
\* no other is about to put one where it does not look.
AloneAt(m, p) ==
  /\ \A k \in Keys : k # activeKey[p] => row[<<m, k>>].status = "none"
  /\ \A q \in Posts, j \in Places :
       task[<<q, j>>].pc = "insert" /\ post[q].events[j] = m => activeKey[q] = activeKey[p]

Alone ==
  \A p \in Posts, i \in Places :
    task[<<p, i>>].pc = "insert" /\ post[p].events[i] \notin torn => AloneAt(post[p].events[i], p)

\* A stored message is on record until nobody can bring it again.
Remembered ==
  \A m \in Messages : inserted[m] > 0 /\ ~erased =>
    \/ \E k \in Keys : row[<<m, k>>].status # "none"
    \/ sent[m] + Freshness < now

History == InTime /\ Alone /\ Remembered /\ NoReplay

\* A task moves on and the tables stay.
LEMMA MoveKeeps ==
  ASSUME Base, History, NEW p \in Posts, NEW i \in Places, NEW pc \in Steppers,
         NEW result \in Outcomes, Goto(p, i, pc, result), task[<<p, i>>].pc # "none",
         post' = post, sent' = sent, now' = now, inserted' = inserted, row' = row,
         activeKey' = activeKey, erased' = erased, torn \subseteq torn',
         pc \in FreshSteps => task[<<p, i>>].pc \in FreshSteps,
         pc = "insert" => post[p].events[i] \in torn' \/ AloneAt(post[p].events[i], p)
  PROVE  History'
<1>1. /\ task'[<<p, i>>].pc = pc
      /\ \A q \in Posts, j \in Places : <<q, j>> = <<p, i>> \/ task'[<<q, j>>] = task[<<q, j>>]
  BY Moves DEF Base
<1>2. InTime'
  BY <1>1 DEF History, InTime
<1>3. Alone'
  <2> SUFFICES ASSUME NEW q \in Posts, NEW j \in Places, task'[<<q, j>>].pc = "insert",
                      post[q].events[j] \notin torn'
               PROVE  AloneAt(post[q].events[j], q)'
    BY DEF Alone
  <2> DEFINE m == post[q].events[j]
  <2>1. CASE <<q, j>> = <<p, i>>
    <3>1. AloneAt(m, q)
      BY <2>1, <1>1
    <3>2. \A u \in Posts, v \in Places :
            task'[<<u, v>>].pc = "insert" /\ post[u].events[v] = m => activeKey[u] = activeKey[q]
      BY <3>1, <2>1, <1>1 DEF AloneAt
    <3> QED BY <3>1, <3>2 DEF AloneAt
  <2>2. CASE <<q, j>> # <<p, i>>
    <3>1. task[<<q, j>>].pc = "insert" /\ m \notin torn
      BY <2>2, <1>1
    <3>2. AloneAt(m, q)
      BY <3>1 DEF History, Alone
    <3>3. pc = "insert" /\ post[p].events[i] = m => activeKey[p] = activeKey[q]
      BY <3>1 DEF AloneAt
    <3>4. \A u \in Posts, v \in Places :
            task'[<<u, v>>].pc = "insert" /\ post[u].events[v] = m => activeKey[u] = activeKey[q]
      BY <3>2, <3>3, <1>1 DEF AloneAt
    <3> QED BY <3>2, <3>4 DEF AloneAt
  <2> QED BY <2>1, <2>2
<1>4. Remembered' /\ NoReplay'
  BY DEF History, Remembered, NoReplay
<1> QED BY <1>2, <1>3, <1>4 DEF History

\* Where no task comes to its insert, and no row where there was none, the others
\* stay alone.
LEMMA StillAlone ==
  ASSUME Base, History, torn' = torn,
         \A q \in Posts, i \in Places : task'[<<q, i>>].pc = "insert" =>
           /\ task[<<q, i>>].pc = "insert" /\ post'[q].events[i] = post[q].events[i]
           /\ activeKey'[q] = activeKey[q],
         \A m \in Messages, k \in Keys : row[<<m, k>>].status = "none" => row'[<<m, k>>].status = "none"
  PROVE  Alone'
<1>1. \A q \in Posts, i \in Places : task'[<<q, i>>].pc = "insert" => post[q].events[i] \in Messages
  BY TaskMessage DEF Base
<1> SUFFICES ASSUME NEW q \in Posts, NEW i \in Places, NEW m \in Messages,
                    task'[<<q, i>>].pc = "insert", m = post[q].events[i], m \notin torn
             PROVE  AloneAt(m, q)'
  BY <1>1 DEF Alone
<1>2. task[<<q, i>>].pc = "insert" /\ activeKey'[q] = activeKey[q]
  OBVIOUS
<1>3. AloneAt(m, q)
  BY <1>2 DEF History, Alone
<1> QED BY <1>2, <1>3 DEF AloneAt

\* A message that is not found and not torn is nowhere in the way of its insert.
LEMMA NotAtOdds ==
  ASSUME NEW p \in Posts, NEW m \in Messages, Candidates(p, m) = {}, ~Odds(p, m)
  PROVE  AloneAt(m, p)
<1>1. \A k \in Ring(p) : row[<<m, k>>].status = "none"
  BY DEF Candidates
<1> QED BY <1>1 DEF Odds, AloneAt

LEMMA AcceptKeepsHistory ==
  ASSUME Base, History, NEW p \in Posts, NEW i \in Places,
         \/ ConsumeLimit(p, i) \/ FindUser(p, i) \/ RecordEvent(p, i) \/ SelectExisting(p, i)
  PROVE  History'
<1> DEFINE t == task[<<p, i>>]
<1>1. /\ post' = post /\ sent' = sent /\ now' = now /\ inserted' = inserted /\ row' = row
      /\ erased' = erased /\ activeKey' = activeKey /\ torn \subseteq torn'
  BY DEF ConsumeLimit, Consume, FindUser, RecordEvent, SelectExisting, world, limits
<1>2. ResultFits(t.pc, t.result) /\ t \in Task
  BY Types DEF Base, Results
<1>3. CASE ConsumeLimit(p, i)
  <2>1. t.pc \in Steps /\ t.result \in Outcomes
    BY <1>2, <1>3, Leads DEF ConsumeLimit, Task
  <2>2. \E allowed \in BOOLEAN :
          Goto(p, i, IF allowed THEN IfAllowed[t.pc] ELSE IfDenied[t.pc],
               Limited(t.pc, t.result, allowed))
    BY <1>3, LimitedTask
  <2>3. PICK allowed \in BOOLEAN :
          Goto(p, i, IF allowed THEN IfAllowed[t.pc] ELSE IfDenied[t.pc],
               Limited(t.pc, t.result, allowed))
    BY <2>2
  <2> DEFINE pc == IF allowed THEN IfAllowed[t.pc] ELSE IfDenied[t.pc]
             result == Limited(t.pc, t.result, allowed)
  <2>4. pc \in Steppers /\ pc # "insert" /\ (pc \in FreshSteps => t.pc \in FreshSteps)
    <3> HIDE DEF t
    <3> QED BY <2>1, Leads DEF Steps, Steppers, FreshSteps
  <2>5. result \in Outcomes
    BY <2>1 DEF Limited, Outcomes
  <2>6. t.pc # "none"
    BY <2>1 DEF Steps
  <2>7. Goto(p, i, pc, result)
    BY <2>3
  <2> HIDE DEF pc, result
  <2> QED BY <1>1, <2>4, <2>5, <2>6, <2>7, MoveKeeps
<1>4. CASE FindUser(p, i)
  <2>1. Goto(p, i, "select", "none") \/ Goto(p, i, "abuse", "unauthorized")
    BY <1>4 DEF FindUser
  <2>2. /\ "select" \in Steppers /\ "none" \in Outcomes /\ "abuse" \in Steppers
        /\ "unauthorized" \in Outcomes /\ t.pc = "user" /\ t.pc \in FreshSteps /\ "abuse" \notin FreshSteps
    BY <1>4 DEF Steppers, Outcomes, FindUser, FreshSteps
  <2>3. CASE Goto(p, i, "select", "none")
    BY <2>2, <2>3, <1>1, MoveKeeps
  <2>4. CASE Goto(p, i, "abuse", "unauthorized")
    BY <2>2, <2>4, <1>1, MoveKeeps
  <2> QED BY <2>1, <2>3, <2>4
<1>5. CASE RecordEvent(p, i)
  <2>1. Goto(p, i, "done", t.result) \/ Goto(p, i, "thrown", t.result)
    BY <1>5 DEF RecordEvent
  <2>2. /\ "done" \in Steppers /\ "thrown" \in Steppers /\ t.result \in Outcomes
        /\ t.pc = "record" /\ "done" \notin FreshSteps /\ "thrown" \notin FreshSteps
    BY <1>2, <1>5 DEF Steppers, RecordEvent, FreshSteps, Task
  <2>3. CASE Goto(p, i, "done", t.result)
    BY <2>2, <2>3, <1>1, MoveKeeps
  <2>4. CASE Goto(p, i, "thrown", t.result)
    BY <2>2, <2>4, <1>1, MoveKeeps
  <2> QED BY <2>1, <2>3, <2>4
<1>6. CASE SelectExisting(p, i)
  <2>1. t.pc = "select" /\ t.pc \in FreshSteps /\ "done" \in Steppers /\ "done" \notin FreshSteps
        /\ "insert" \in Steppers /\ "none" \in Outcomes
    BY <1>6 DEF SelectExisting, FreshSteps, Steppers, Outcomes
  <2>2. CASE Candidates(p, post[p].events[i]) = {}
    <3>1. /\ Goto(p, i, "insert", "none")
          /\ Odds(p, post[p].events[i]) => post[p].events[i] \in torn'
      BY <1>6, <2>2 DEF SelectExisting
    <3>2. ~Odds(p, post[p].events[i]) => AloneAt(post[p].events[i], p)
      <4>1. post[p].events[i] \in Messages
        BY <2>1, TaskMessage DEF Base
      <4> QED BY <4>1, <2>2, NotAtOdds
    <3> QED BY <3>1, <3>2, <2>1, <1>1, MoveKeeps
  <2>3. CASE Candidates(p, post[p].events[i]) # {}
    <3>1. PICK status : Goto(p, i, "done", Found(status))
      BY <1>6, <2>3 DEF SelectExisting
    <3> QED BY <3>1, <2>1, <1>1, FoundFits, MoveKeeps
  <2> QED BY <2>2, <2>3
<1> QED BY <1>3, <1>4, <1>5, <1>6

\* The one step that stores a message stores it for the first time.
LEMMA InsertKeepsHistory ==
  ASSUME FreshEnvironment, Base, History, NEW p \in Posts, NEW i \in Places, Insert(p, i)
  PROVE  History'
<1>1. PICK m \in Messages : m = post[p].events[i]
  BY TaskMessage DEF Base, Insert
<1>2. /\ post' = post /\ sent' = sent /\ now' = now /\ erased' = erased /\ activeKey' = activeKey
      /\ torn' = torn
  BY DEF Insert, world, limits
<1>3. /\ inserted \in [Messages -> Nat] /\ row \in [Messages \X Keys -> Row]
      /\ activeKey[p] \in Keys /\ task[<<p, i>>].pc = "insert"
  BY Types DEF Base, Insert
<1>4. "thrown" \in Steppers /\ "done" \in Steppers /\ "none" \in Outcomes /\ "queued" \in Outcomes
      /\ "thrown" \notin FreshSteps /\ "done" \notin FreshSteps
  BY DEF Steppers, Outcomes, FreshSteps
<1>5. ASSUME row' = row, inserted' = inserted, Goto(p, i, "thrown", "none") PROVE History'
  BY <1>2, <1>3, <1>4, <1>5, MoveKeeps
<1>6. ASSUME row' = row, inserted' = inserted, NEW status, Goto(p, i, "done", Found(status))
      PROVE  History'
  BY <1>2, <1>3, <1>4, <1>6, FoundFits, MoveKeeps
<1>7. ASSUME ~erased, row[<<m, activeKey[p]>>].status = "none",
             row' = [row EXCEPT ![<<m, activeKey[p]>>] = [status |-> "received", at |-> now]],
             inserted' = [inserted EXCEPT ![m] = inserted[m] + 1],
             Goto(p, i, "done", "queued")
      PROVE  History'
  <2>1. now <= sent[m] + Freshness
    BY <1>1, <1>3 DEF History, InTime, FreshSteps
  <2>2. sent[m] \in Nat /\ now \in Nat /\ Freshness \in Nat
    BY <1>1, <1>3, TaskMessage, Clock, IngressAssumption DEF Base
  <2>3. ASSUME m \notin torn PROVE inserted[m] = 0
    <3>1. AloneAt(m, p)
      BY <1>1, <1>3, <2>3 DEF History, Alone
    <3>2. \A k \in Keys : row[<<m, k>>].status = "none"
      BY <1>7, <3>1 DEF AloneAt
    <3>3. inserted[m] > 0 => sent[m] + Freshness < now
      BY <1>7, <3>2 DEF History, Remembered
    <3>4. ~(sent[m] + Freshness < now)
      BY <2>1, <2>2
    <3> QED BY <3>3, <3>4, <1>3
  <2>4. \A x \in Messages : inserted[x] \in Nat
    BY <1>3
  <2>5. /\ \A x \in Messages : x # m => inserted'[x] = inserted[x]
        /\ inserted'[m] = inserted[m] + 1
    BY <1>3, <1>7
  <2>6. NoReplay'
    <3> SUFFICES ASSUME NEW x \in Messages, inserted'[x] > 1, x \notin torn PROVE FALSE
      BY <1>2 DEF NoReplay
    <3>1. CASE x = m
      BY <3>1, <2>3, <2>5
    <3>2. CASE x # m
      BY <3>2, <2>5 DEF History, NoReplay
    <3> QED BY <3>1, <3>2
  <2>7. row'[<<m, activeKey[p]>>].status = "received"
        /\ \A x \in Messages, k \in Keys :
             <<x, k>> # <<m, activeKey[p]>> => row'[<<x, k>>] = row[<<x, k>>]
    BY <1>3, <1>7
  <2>8. Remembered'
    <3> SUFFICES ASSUME NEW x \in Messages, inserted'[x] > 0, ~erased
                 PROVE  \/ \E k \in Keys : row'[<<x, k>>].status # "none"
                        \/ sent[x] + Freshness < now
      BY <1>2 DEF Remembered
    <3>1. CASE x = m
      BY <3>1, <2>7, <1>3
    <3>2. CASE x # m
      <4>1. inserted[x] > 0
        BY <3>2, <2>5
      <4>2. \A k \in Keys : row'[<<x, k>>] = row[<<x, k>>]
        BY <3>2, <2>7
      <4> QED BY <4>1, <4>2, <1>7 DEF History, Remembered
    <3> QED BY <3>1, <3>2
  <2>9. /\ task'[<<p, i>>].pc = "done"
        /\ \A q \in Posts, j \in Places : <<q, j>> = <<p, i>> \/ task'[<<q, j>>] = task[<<q, j>>]
    BY <1>4, <1>7, Moves DEF Base
  <2>10. InTime'
    BY <1>2, <1>4, <2>9 DEF History, InTime
  <2>11. Alone'
    <3> SUFFICES ASSUME NEW q \in Posts, NEW j \in Places, task'[<<q, j>>].pc = "insert",
                        post[q].events[j] \notin torn
                 PROVE  AloneAt(post[q].events[j], q)'
      BY <1>2 DEF Alone
    <3>1. task[<<q, j>>].pc = "insert"
      BY <2>9
    <3>2. PICK x \in Messages : x = post[q].events[j]
      BY <3>1, TaskMessage DEF Base
    <3>3. AloneAt(x, q)
      BY <3>1, <3>2 DEF History, Alone
    <3>4. x = m => activeKey[p] = activeKey[q]
      BY <3>3, <1>1, <1>3 DEF AloneAt
    <3>5. \A k \in Keys : k # activeKey[q] => row'[<<x, k>>].status = "none"
      BY <3>3, <3>4, <2>7 DEF AloneAt
    <3>6. \A u \in Posts, v \in Places :
            task'[<<u, v>>].pc = "insert" /\ post[u].events[v] = x => activeKey[u] = activeKey[q]
      BY <3>3, <2>9 DEF AloneAt
    <3> QED BY <3>2, <3>5, <3>6, <1>2 DEF AloneAt
  <2> QED BY <2>6, <2>8, <2>10, <2>11 DEF History
<1> QED BY <1>1, <1>5, <1>6, <1>7, InsertCases

\* A request that comes, is let in or is answered moves no task.
LEMMA PostsKeepHistory ==
  ASSUME Base, Base', History, NEW p \in Posts, Receive(p) \/ CheckService(p) \/ Answer(p)
  PROVE  History'
<1>1. /\ task' = task /\ now' = now /\ inserted' = inserted /\ row' = row /\ erased' = erased
      /\ activeKey' = activeKey /\ torn' = torn
  BY DEF Receive, CheckService, Answer, world, limits
<1>2. \A m \in Messages : sent'[m] = sent[m] \/ sent[m] = NotSent
  BY DEF Receive, CheckService, Answer, world
<1>3. \A q \in Posts, i \in Places : task[<<q, i>>].pc # "none" => post'[q].events[i] = post[q].events[i]
  <2> SUFFICES ASSUME NEW q \in Posts, NEW i \in Places, task[<<q, i>>].pc # "none"
               PROVE  post'[q].events[i] = post[q].events[i]
    OBVIOUS
  <2>1. CASE Receive(p)
    <3>1. q # p
      <4> SUFFICES ASSUME q = p PROVE FALSE
        OBVIOUS
      <4>1. post[p].begun = 0 /\ i > 0 /\ i \in Nat
        BY <2>1 DEF Receive, Base, Requests, Places
      <4>2. i <= post[p].begun
        BY TaskMessage DEF Base
      <4> QED BY <4>1, <4>2
    <3>2. \E x : post' = [post EXCEPT ![p] = x]
      BY <2>1 DEF Receive
    <3>3. post'[q] = post[q]
      BY <3>1, <3>2, Types DEF Base
    <3> QED BY <3>3
  <2>2. CASE CheckService(p) \/ Answer(p)
    <3>1. PICK pc \in {"unavailable", "working", "ok", "error"} : post' = [post EXCEPT ![p].pc = pc]
      BY <2>2 DEF CheckService, Answer
    <3> QED BY <3>1, PostMoves DEF Base
  <2> QED BY <2>1, <2>2
<1>4. InTime'
  <2> SUFFICES ASSUME NEW q \in Posts, NEW i \in Places, task[<<q, i>>].pc \in FreshSteps
               PROVE  now <= sent'[post'[q].events[i]] + Freshness
    BY <1>1 DEF InTime
  <2>1. task[<<q, i>>].pc # "none"
    BY DEF FreshSteps
  <2>2. PICK m \in Messages : m = post[q].events[i]
    BY <2>1, TaskMessage DEF Base
  <2>3. sent[m] <= now /\ sent[m] \in Nat /\ now < NotSent
    BY <2>1, <2>2, TaskMessage, Clock DEF Base, NotSent
  <2>4. sent[m] # NotSent
    BY <2>3, Clock
  <2>5. sent'[m] = sent[m] /\ post'[q].events[i] = m
    BY <2>1, <2>2, <2>4, <1>2, <1>3
  <2> QED BY <2>2, <2>5 DEF History, InTime
<1>5. Alone'
  <2>1. \A q \in Posts, i \in Places : task[<<q, i>>].pc = "insert" =>
          post'[q].events[i] = post[q].events[i]
    BY <1>3
  <2> QED BY <1>1, <2>1, StillAlone
<1>6. Remembered'
  <2> SUFFICES ASSUME NEW m \in Messages, inserted[m] > 0, ~erased,
                      ~\E k \in Keys : row[<<m, k>>].status # "none"
               PROVE  sent'[m] + Freshness < now
    BY <1>1 DEF Remembered
  <2>1. sent[m] + Freshness < now
    BY DEF History, Remembered
  <2>2. sent[m] # NotSent
    BY <2>1, Clock, Types, IngressAssumption DEF Base, NotSent
  <2> QED BY <2>1, <2>2, <1>2
<1>7. NoReplay'
  BY <1>1 DEF History, NoReplay
<1> QED BY <1>4, <1>5, <1>6, <1>7 DEF History

\* A batch takes what is within the window, and lets the rest be reported.
LEMMA BatchKeepsHistory ==
  ASSUME FreshEnvironment, Base, History, NEW p \in Posts, StartBatch(p)
  PROVE  History'
<1>1. /\ sent' = sent /\ now' = now /\ inserted' = inserted /\ row' = row
      /\ erased' = erased /\ activeKey' = activeKey /\ torn' = torn
  BY DEF StartBatch, world, limits
<1>2. PICK upTo \in Nat :
           /\ post[p].begun < upTo /\ upTo <= Len(post[p].events)
           /\ post' = [post EXCEPT ![p].begun = upTo]
           /\ task' = [t \in Posts \X Places |->
                IF t[1] # p \/ t[2] \notin (post[p].begun + 1)..upTo THEN task[t]
                ELSE IF IsFresh(post[p].events[t[2]])
                THEN [pc |-> "global", result |-> "none"]
                ELSE [pc |-> "audit", result |-> "stale"]]
  BY BatchBegins
<1>3. \A q \in Posts : post'[q].events = post[q].events
  BY <1>2, Types DEF Base, Post
<1>4. \A q \in Posts, i \in Places :
        \/ task'[<<q, i>>] = task[<<q, i>>]
        \/ /\ q = p /\ i \in (post[p].begun + 1)..upTo
           /\ \/ IsFresh(post[p].events[i]) /\ task'[<<q, i>>].pc = "global"
              \/ task'[<<q, i>>].pc = "audit"
  BY <1>2
<1>5. InTime'
  <2> SUFFICES ASSUME NEW q \in Posts, NEW i \in Places, task'[<<q, i>>].pc \in FreshSteps
               PROVE  now <= sent[post[q].events[i]] + Freshness
    BY <1>1, <1>3 DEF InTime
  <2>1. CASE task'[<<q, i>>] = task[<<q, i>>]
    BY <2>1 DEF History, InTime
  <2>2. CASE task'[<<q, i>>] # task[<<q, i>>]
    <3>1. q = p /\ i \in (post[p].begun + 1)..upTo /\ IsFresh(post[p].events[i])
      BY <2>2, <1>4 DEF FreshSteps
    <3>2. i \in 1..Len(post[p].events) /\ post[p].events \in Seq(Messages)
      <4>1. post[p].events \in Seq(Messages) /\ post[p].begun \in Nat
        BY Types DEF Base, Post
      <4> QED BY <4>1, <3>1, <1>2
    <3>3. PICK m \in Messages : m = post[p].events[i]
      BY <3>2
    <3>4. sent[m] \in Nat /\ now \in Nat /\ Freshness \in Nat
      BY Clock, Types, IngressAssumption DEF Base, NotSent
    <3>5. now - sent[m] <= Freshness
      BY <3>1, <3>3 DEF IsFresh, FreshEnvironment
    <3> QED BY <3>1, <3>3, <3>4, <3>5
  <2> QED BY <2>1, <2>2
<1>6. \A q \in Posts, i \in Places : task'[<<q, i>>].pc = "insert" => task[<<q, i>>].pc = "insert"
  BY <1>4
<1>7. Alone'
  <2>1. \A m \in Messages, k \in Keys : row[<<m, k>>].status = "none" => row'[<<m, k>>].status = "none"
    BY <1>1
  <2> QED BY <1>1, <1>3, <1>6, <2>1, StillAlone
<1>8. Remembered' /\ NoReplay'
  BY <1>1 DEF History, Remembered, NoReplay
<1> QED BY <1>5, <1>7, <1>8 DEF History

\* Nothing is in flight when time passes.
LEMMA TickKeepsHistory ==
  ASSUME Base, History, Tick
  PROVE  History'
<1>1. /\ task' = task /\ sent' = sent /\ inserted' = inserted /\ row' = row /\ erased' = erased
      /\ post' = post /\ torn' = torn
  BY DEF Tick, world
<1>2. \A q \in Posts, i \in Places : ~Inside(task[<<q, i>>])
  <2>1. DOMAIN task = Posts \X Places /\ ~InFlight
    BY Types DEF Base, Tick
  <2> QED BY <2>1 DEF InFlight
<1>3. \A q \in Posts, i \in Places :
        task[<<q, i>>].pc \notin FreshSteps /\ task[<<q, i>>].pc # "insert"
  BY <1>2 DEF Inside, FreshSteps
<1>4. InTime' /\ Alone'
  BY <1>1, <1>3 DEF InTime, Alone
<1>5. now' \in Nat /\ now <= now'
  BY Clock DEF Tick, Elapse
<1>6. Remembered'
  <2> SUFFICES ASSUME NEW m \in Messages, inserted[m] > 0, ~erased,
                      ~\E k \in Keys : row[<<m, k>>].status # "none"
               PROVE  sent[m] + Freshness < now'
    BY <1>1 DEF Remembered
  <2>1. sent[m] + Freshness < now
    BY DEF History, Remembered
  <2>2. sent[m] \in Nat /\ Freshness \in Nat
    BY Types, Clock, IngressAssumption DEF Base, NotSent
  <2> QED BY <2>1, <2>2, <1>5, Clock
<1>7. NoReplay'
  BY <1>1 DEF History, NoReplay
<1> QED BY <1>4, <1>6, <1>7 DEF History

\* A replica that comes up with the new key has no request yet.
LEMMA RotateKeepsHistory ==
  ASSUME Base, History, NEW p \in Posts, Rotate(p)
  PROVE  History'
<1>1. /\ task' = task /\ sent' = sent /\ inserted' = inserted /\ row' = row /\ erased' = erased
      /\ post' = post /\ torn' = torn /\ now' = now
  BY DEF Rotate, limits
<1>2. \A q \in Posts : q # p => activeKey'[q] = activeKey[q]
  BY Types DEF Base, Rotate
<1>3. \A i \in Places : task[<<p, i>>].pc # "insert"
  <2> SUFFICES ASSUME NEW i \in Places, task[<<p, i>>].pc = "insert" PROVE FALSE
    OBVIOUS
  <2>1. i <= post[p].begun /\ post[p].begun = 0
    BY TaskMessage DEF Base, Requests, Rotate
  <2> QED BY <2>1 DEF Places
<1>4. Alone'
  <2>1. \A q \in Posts, i \in Places : task'[<<q, i>>].pc = "insert" =>
          /\ task[<<q, i>>].pc = "insert" /\ post'[q].events[i] = post[q].events[i]
          /\ activeKey'[q] = activeKey[q]
    BY <1>1, <1>2, <1>3
  <2> QED BY <1>1, <2>1, StillAlone
<1>5. InTime' /\ Remembered' /\ NoReplay'
  BY <1>1 DEF History, InTime, Remembered, NoReplay
<1> QED BY <1>4, <1>5 DEF History

\* What goes on around moves no task; a row that goes is too old to come again.
LEMMA AroundKeepsHistory ==
  ASSUME FreshEnvironment, Base, History,
         Settle \/ Lifecycle \/ Deactivate \/ EraseClientData \/ UNCHANGED vars
  PROVE  History'
<1>1. /\ task' = task /\ sent' = sent /\ inserted' = inserted /\ post' = post
      /\ now' = now /\ activeKey' = activeKey /\ torn' = torn
  BY DEF Settle, Lifecycle, PurgeUnused, PurgeBuckets, Deactivate, EraseClientData, EraseBuckets,
         vars, world, limits
<1>2. InTime' /\ NoReplay'
  BY <1>1 DEF History, InTime, NoReplay
<1>3. row \in [Messages \X Keys -> Row] /\ DOMAIN row = Messages \X Keys
  BY Types DEF Base
<1>4. \A m \in Messages, k \in Keys : row[<<m, k>>].status = "none" => row'[<<m, k>>].status = "none"
  <2>1. CASE Settle
    <3>1. PICK r \in Messages \X Keys : \E status \in {"processed", "failed"} :
        /\ row[r].status = "received" \/ (row[r].status = "failed" /\ status = "processed")
        /\ row' = [row EXCEPT ![r].status = status]
      BY <2>1, <1>3 DEF Settle
    <3>2. row[r].status # "none" /\ \A s \in Messages \X Keys : s # r => row'[s] = row[s]
      BY <3>1, <1>3
    <3> QED BY <3>2
  <2>2. CASE Lifecycle \/ EraseClientData
    BY <2>2, <1>3 DEF Lifecycle, EraseClientData, NoRow
  <2>3. CASE Deactivate \/ UNCHANGED vars
    BY <2>3 DEF Deactivate, vars
  <2> QED BY <2>1, <2>2, <2>3
<1>5. Alone'
  BY <1>1, <1>4, StillAlone
<1>6. Remembered'
  <2> SUFFICES ASSUME NEW m \in Messages, inserted[m] > 0, ~erased'
               PROVE  \/ \E k \in Keys : row'[<<m, k>>].status # "none"
                      \/ sent[m] + Freshness < now
    BY <1>1 DEF Remembered
  <2>1. ~erased /\ ~EraseClientData
    BY DEF Settle, Lifecycle, Deactivate, EraseClientData, vars, world
  <2>2. \/ \E k \in Keys : row[<<m, k>>].status # "none"
        \/ sent[m] + Freshness < now
    BY <2>1 DEF History, Remembered
  <2>3. ASSUME NEW k \in Keys, row[<<m, k>>].status # "none", row'[<<m, k>>].status = "none"
        PROVE  sent[m] + Freshness < now
    <3>1. Lifecycle
      <4>1. ~Settle
        <5> SUFFICES ASSUME Settle PROVE FALSE
          OBVIOUS
        <5>1. PICK r \in Messages \X Keys, status \in {"processed", "failed"} :
                row' = [row EXCEPT ![r].status = status]
          BY <1>3 DEF Settle
        <5>2. row[r] \in Row /\ \A s \in Messages \X Keys : s # r => row'[s] = row[s]
          BY <5>1, <1>3
        <5>3. row'[r].status = status
          BY <5>1, <5>2, <1>3 DEF Row
        <5> QED BY <5>2, <5>3, <2>3
      <4>2. row' # row
        BY <2>3
      <4> QED BY <4>1, <4>2, <2>1 DEF Deactivate, vars
    <3>2. Outdated(<<m, k>>)
      BY <3>1, <1>3, <2>3 DEF Lifecycle
    <3>3. row[<<m, k>>].at < now - Retention
      BY <3>2 DEF Outdated
    <3>4. row[<<m, k>>] \in Row /\ sent[m] <= row[<<m, k>>].at
      BY <1>3, <2>3 DEF Base, Rows
    <3>5. row[<<m, k>>].at \in Nat /\ sent[m] \in Nat
      BY <3>4, Types, Clock DEF Row, Base, NotSent
    <3>6. Freshness \in Nat /\ Retention \in Nat /\ Freshness <= Retention
      BY IngressAssumption DEF FreshEnvironment
    <3> QED BY <3>3, <3>4, <3>5, <3>6, Clock
  <2> QED BY <2>2, <2>3
<1> QED BY <1>2, <1>5, <1>6 DEF History

LEMMA HistoryStart == Init => History
<1> SUFFICES ASSUME Init PROVE History
  OBVIOUS
<1>1. \A q \in Posts, i \in Places : task[<<q, i>>].pc = "none"
  BY DEF Init, NoTask
<1>2. InTime /\ Alone
  BY <1>1 DEF InTime, Alone, FreshSteps
<1>3. \A m \in Messages : inserted[m] = 0
  BY DEF Init
<1>4. Remembered /\ NoReplay
  BY <1>3 DEF Remembered, NoReplay
<1> QED BY <1>2, <1>4 DEF History

LEMMA HistoryNext ==
  ASSUME FreshEnvironment
  PROVE  Base /\ Base' /\ History /\ [Next]_vars => History'
<1> SUFFICES ASSUME Base, Base', History, [Next]_vars PROVE History'
  OBVIOUS
<1>1. CASE \E p \in Posts : Receive(p) \/ CheckService(p) \/ Answer(p)
  BY <1>1, PostsKeepHistory
<1>2. CASE \E p \in Posts : StartBatch(p)
  BY <1>2, BatchKeepsHistory
<1>3. CASE \E p \in Posts, i \in Places :
        ConsumeLimit(p, i) \/ FindUser(p, i) \/ RecordEvent(p, i) \/ SelectExisting(p, i)
  BY <1>3, AcceptKeepsHistory
<1>4. CASE \E p \in Posts, i \in Places : Insert(p, i)
  BY <1>4, InsertKeepsHistory
<1>5. CASE Tick \/ \E p \in Posts : Rotate(p)
  BY <1>5, TickKeepsHistory, RotateKeepsHistory
<1>6. CASE Settle \/ Lifecycle \/ Deactivate \/ EraseClientData \/ UNCHANGED vars
  BY <1>6, AroundKeepsHistory
<1> QED BY <1>1, <1>2, <1>3, <1>4, <1>5, <1>6 DEF Next

-----------------------------------------------------------------------------
LEMMA BaseSafety == Spec => []Base
<1>1. Spec => []Base
  BY BaseStart, BaseNext, PTL DEF Spec
<1> QED BY <1>1

\* The webhook uses the limits as RateLimits has them, for any parameters and
\* whatever fails: it asks, ages, purges and erases buckets and does nothing
\* else to them (message-processor.ts:702, data-lifecycle.ts).
LEMMA LimitRefinement == Spec => LimitSpec
<1>1. Init => LimitInit
  BY DEF Init
<1>2. Base /\ [Next]_vars => [LimitNext]_limits
  BY StepOfLimits DEF Base
<1> QED BY <1>1, <1>2, BaseSafety, PTL DEF Spec, LimitSpec

\* So a bucket lets at most 2 * Capacity - 1 of the webhook's calls pass in a minute.
THEOREM IngressBurstSafety == Spec => []BurstBound
<1>1. Spec => LimitSpec
  BY LimitRefinement
<1> QED BY <1>1, BurstSafety, PTL

\* Nothing is stored of an erased client, whatever was in flight.
THEOREM ErasureSafety == Spec => []NothingAfterErasure
<1>1. Base => NothingAfterErasure
  BY DEF Base
<1> QED BY <1>1, BaseSafety, PTL

\* No request answered 200 leaves a message behind that nobody refused.
LEMMA AcksAreKept == Base => AckedKept
<1> SUFFICES ASSUME Base, NEW p \in Posts, post[p].pc = "ok", NEW i \in DOMAIN post[p].events
             PROVE  /\ task[<<p, i>>].result \in {"stale", "rate_limited", "unauthorized", "duplicate", "queued"}
                    /\ task[<<p, i>>].result \in {"duplicate", "queued"} => inserted[post[p].events[i]] > 0
  BY DEF AckedKept
<1>1. post[p] \in Post /\ Len(post[p].events) <= MaxEvents
  BY Types DEF Base, Requests
<1>2. i \in 1..Len(post[p].events) /\ i \in Places
  BY <1>1, IngressAssumption DEF Post, Places
<1>3. task[<<p, i>>].pc = "done"
  BY <1>2 DEF Base, Through
<1>4. task[<<p, i>>].result \in Settlements
  BY <1>2, <1>3 DEF Base, Results, ResultFits
<1>5. task[<<p, i>>].result \in {"duplicate", "queued"} => inserted[post[p].events[i]] > 0
  BY <1>2, <1>3 DEF Base, Stored
<1> QED BY <1>4, <1>5 DEF Settlements, Outcomes

\* Types and acknowledgements, for any parameters.
THEOREM AckSafety == Spec => [](TypeOK /\ AckedKept)
<1>1. Base => TypeOK /\ AckedKept
  BY AcksAreKept DEF Base
<1> QED BY <1>1, BaseSafety, PTL

\* Where the freshness window is on and fits the retention, no message is stored
\* twice either, whatever is posted, deleted or erased around it, but one that is torn
\* between replicas with the old key and the new.
THEOREM IngressSafety ==
  ASSUME FreshEnvironment
  PROVE  Spec => []IngressInv
<1>1. Base /\ Base' /\ History /\ [Next]_vars => History'
  BY HistoryNext
<1>2. Base /\ History => IngressInv
  BY AcksAreKept DEF Base, History, IngressInv
<1> QED BY <1>1, <1>2, HistoryStart, BaseSafety, PTL DEF Spec

-----------------------------------------------------------------------------
\* A call that passed for each message on its way to the table or stored, and one
\* for each report that is written or about to be.
MessageOf(t) == post[t[1]].events[t[2]]
Cleared(t) == task[t].pc \in {"user", "select", "insert"} \/ task[t].result = "queued"
ClearedOf(s) == {t \in Posts \X Places : Cleared(t) /\ From[MessageOf(t)] = s}
Reporting == {t \in Posts \X Places : task[t].pc = "record"}

\* The calls B let pass are finitely many, and n and the tasks in C are no more.
Paid(n, C, B) == IsFiniteSet(Passes(B)) /\ n + Cardinality(C) <= Cardinality(Passes(B))

AllPaid ==
  ~erased => /\ \A s \in Senders : Paid(0, ClearedOf(s), SenderBuckets(s))
             /\ Paid(audited, Reporting, ReportBuckets)

\* A stored message was brought by a request that queued it.
Brought ==
  \A m \in Messages : inserted[m] > 0 =>
    \E t \in Posts \X Places : task[t].result = "queued" /\ MessageOf(t) = m

LEMMA TasksFinite ==
  ASSUME NEW C \in SUBSET (Posts \X Places)
  PROVE  IsFiniteSet(C) /\ Cardinality(C) \in Nat
<1>1. IsFiniteSet(Posts) /\ IsFiniteSet(Places)
  BY IngressAssumption, FS_Interval DEF Posts, Places
<1>2. IsFiniteSet(Posts \X Places)
  BY <1>1, FS_Product
<1> QED BY <1>2, FS_Subset, FS_CardinalityType

\* Nothing is gained, or one task for one call that passed.
OneMore(C, D, P, Q) ==
  \/ D \subseteq C /\ Q = P
  \/ \E t, x : D \subseteq C \cup {t} /\ x \notin P /\ Q = P \cup {x}

LEMMA StaysPaid ==
  ASSUME NEW n \in Nat, NEW C, NEW D, NEW P, NEW Q, IsFiniteSet(C), IsFiniteSet(P),
         n + Cardinality(C) <= Cardinality(P), OneMore(C, D, P, Q)
  PROVE  IsFiniteSet(Q) /\ n + Cardinality(D) <= Cardinality(Q)
<1>1. Cardinality(C) \in Nat /\ Cardinality(P) \in Nat
  BY FS_CardinalityType
<1>2. CASE D \subseteq C /\ Q = P
  <2>1. IsFiniteSet(D) /\ Cardinality(D) <= Cardinality(C)
    BY <1>2, FS_Subset
  <2>2. Cardinality(D) \in Nat
    BY <2>1, FS_CardinalityType
  <2> QED BY <1>1, <1>2, <2>1, <2>2
<1>3. ASSUME NEW t, NEW x, D \subseteq C \cup {t}, x \notin P, Q = P \cup {x}
      PROVE  IsFiniteSet(Q) /\ n + Cardinality(D) <= Cardinality(Q)
  <2>1. IsFiniteSet(Q) /\ Cardinality(Q) = Cardinality(P) + 1
    BY <1>3, FS_AddElement
  <2>2. IsFiniteSet(C \cup {t}) /\ Cardinality(C \cup {t}) <= Cardinality(C) + 1
    <3>1. IsFiniteSet(C \cup {t}) /\ Cardinality(C \cup {t}) =
            IF t \in C THEN Cardinality(C) ELSE Cardinality(C) + 1
      BY FS_AddElement
    <3> QED BY <3>1, <1>1
  <2>3. IsFiniteSet(D) /\ Cardinality(D) <= Cardinality(C \cup {t})
    BY <1>3, <2>2, FS_Subset
  <2>4. Cardinality(D) \in Nat /\ Cardinality(C \cup {t}) \in Nat
    BY <2>2, <2>3, FS_CardinalityType
  <2> QED BY <1>1, <2>1, <2>2, <2>3, <2>4
<1> QED BY <1>2, <1>3 DEF OneMore

\* A call adds itself to the buckets it passed, and to no others.
LEMMA CallPasses ==
  ASSUME LimitTypeOK, NEW b \in Buckets, Consume(b), NEW B \in SUBSET Buckets
  PROVE  IF Allows(b) /\ b \in B
         THEN \E x : x \notin Passes(B) /\ Passes(B)' = Passes(B) \cup {x}
         ELSE Passes(B)' = Passes(B)
<1>1. passed \in [Buckets -> Passed] /\ now \in Nat
  BY DEF LimitTypeOK
<1>2. /\ passed' = [passed EXCEPT ![b] = IF Allows(b) THEN Noted(b) ELSE passed[b]]
  BY <1>1 DEF Consume
<1>3. CASE ~Allows(b)
  <2>1. passed' = passed
    BY <1>1, <1>2, <1>3
  <2> QED BY <1>3, <2>1 DEF Passes
<1>4. CASE Allows(b)
  <2>1. passed'[b] = Noted(b) /\ \A c \in Buckets : c # b => passed'[c] = passed[c]
    BY <1>1, <1>2, <1>4
  <2>2. passed[b].at \in Seq(Nat) /\ Noted(b).at = Append(passed[b].at, now)
    BY <1>1 DEF Noted, Passed
  <2>3. DOMAIN passed[b].at = 1..Len(passed[b].at) /\ Len(passed[b].at) \in Nat
        /\ DOMAIN passed'[b].at = 1..(Len(passed[b].at) + 1)
    BY <1>1, <2>1, <2>2, Longer
  <2> DEFINE x == <<b, Len(passed[b].at) + 1>>
  <2>4. DOMAIN passed'[b].at = DOMAIN passed[b].at \cup {Len(passed[b].at) + 1}
        /\ Len(passed[b].at) + 1 \notin DOMAIN passed[b].at
    BY <2>3
  <2>5. \A y : y \in Passes(B) <=> \E c \in B : \E n \in DOMAIN passed[c].at : y = <<c, n>>
    BY DEF Passes
  <2>6. \A y : y \in Passes(B)' <=> \E c \in B : \E n \in DOMAIN passed'[c].at : y = <<c, n>>
    BY DEF Passes
  <2>7. x \notin Passes(B)
    BY <2>4, <2>5
  <2>8. CASE b \in B
    <3>1. \A y : y \in Passes(B)' => y \in Passes(B) \cup {x}
      BY <2>1, <2>4, <2>5, <2>6
    <3>2. \A y : y \in Passes(B) \cup {x} => y \in Passes(B)'
      BY <2>1, <2>4, <2>5, <2>6, <2>8
    <3>3. Passes(B)' = Passes(B) \cup {x}
      BY <3>1, <3>2
    <3> QED BY <1>4, <2>7, <2>8, <3>3
  <2>9. CASE b \notin B
    <3>1. \A c \in B : passed'[c] = passed[c]
      BY <2>1, <2>9
    <3>2. \A y : y \in Passes(B)' <=> y \in Passes(B)
      BY <2>5, <2>6, <3>1
    <3> QED BY <2>9, <3>2
  <2> QED BY <2>8, <2>9
<1> QED BY <1>3, <1>4

LEMMA OneMoreKeeps ==
  ASSUME Base, AllPaid, ~erased' => ~erased, audited' = audited,
         \A s \in Senders : OneMore(ClearedOf(s), ClearedOf(s)', Passes(SenderBuckets(s)),
                                    Passes(SenderBuckets(s))'),
         OneMore(Reporting, Reporting', Passes(ReportBuckets), Passes(ReportBuckets)')
  PROVE  AllPaid'
<1> SUFFICES ASSUME ~erased'
             PROVE  /\ \A s \in Senders : Paid(0, ClearedOf(s), SenderBuckets(s))'
                    /\ Paid(audited, Reporting, ReportBuckets)'
  BY DEF AllPaid
<1>1. /\ \A s \in Senders : Paid(0, ClearedOf(s), SenderBuckets(s))
      /\ Paid(audited, Reporting, ReportBuckets)
  BY DEF AllPaid
<1>2. ASSUME NEW s \in Senders PROVE Paid(0, ClearedOf(s), SenderBuckets(s))'
  <2>1. IsFiniteSet(ClearedOf(s))
    BY TasksFinite DEF ClearedOf
  <2>2. /\ IsFiniteSet(Passes(SenderBuckets(s)))
        /\ 0 + Cardinality(ClearedOf(s)) <= Cardinality(Passes(SenderBuckets(s)))
    BY <1>1 DEF Paid
  <2>3. OneMore(ClearedOf(s), ClearedOf(s)', Passes(SenderBuckets(s)), Passes(SenderBuckets(s))')
    OBVIOUS
  <2>4. IsFiniteSet(Passes(SenderBuckets(s))')
        /\ 0 + Cardinality(ClearedOf(s)') <= Cardinality(Passes(SenderBuckets(s))')
    BY <2>1, <2>2, <2>3, StaysPaid
  <2> QED BY <2>4 DEF Paid
<1>3. Paid(audited, Reporting, ReportBuckets)'
  <2>1. IsFiniteSet(Reporting)
    BY TasksFinite DEF Reporting
  <2>2. /\ IsFiniteSet(Passes(ReportBuckets)) /\ audited \in Nat
        /\ audited + Cardinality(Reporting) <= Cardinality(Passes(ReportBuckets))
    BY <1>1, Types DEF Paid, Base
  <2>3. IsFiniteSet(Passes(ReportBuckets)')
        /\ audited + Cardinality(Reporting') <= Cardinality(Passes(ReportBuckets)')
    BY <2>1, <2>2, StaysPaid
  <2> QED BY <2>3 DEF Paid
<1> QED BY <1>2, <1>3

\* No task is cleared and none is to report that was not before.
NoNewcomer ==
  \A t \in Posts \X Places :
    /\ Cleared(t)' => Cleared(t) /\ MessageOf(t)' = MessageOf(t)
    /\ task'[t].pc = "record" => task[t].pc = "record"

LEMMA NoNewcomerShrinks ==
  ASSUME NoNewcomer
  PROVE  /\ \A s \in Senders : ClearedOf(s)' \subseteq ClearedOf(s)
         /\ Reporting' \subseteq Reporting
  BY DEF ClearedOf, Reporting, NoNewcomer

LEMMA NoNewcomerKeeps ==
  ASSUME Base, AllPaid, ~erased' => ~erased, NoNewcomer, passed' = passed, audited' = audited
  PROVE  AllPaid'
<1>1. /\ \A s \in Senders : Passes(SenderBuckets(s))' = Passes(SenderBuckets(s))
      /\ Passes(ReportBuckets)' = Passes(ReportBuckets)
  BY DEF Passes, SenderBuckets, ReportBuckets
<1>2. /\ \A s \in Senders : OneMore(ClearedOf(s), ClearedOf(s)', Passes(SenderBuckets(s)),
                                    Passes(SenderBuckets(s))')
      /\ OneMore(Reporting, Reporting', Passes(ReportBuckets), Passes(ReportBuckets)')
  BY <1>1, NoNewcomerShrinks DEF OneMore
<1> QED BY <1>2, OneMoreKeeps

\* One task moves, and only that one may become cleared or have to report.
LEMMA OneMoves ==
  ASSUME Base, NEW p \in Posts, NEW i \in Places, NEW pc \in Steppers, NEW result \in Outcomes,
         Goto(p, i, pc, result), post' = post
  PROVE  /\ \A t \in Posts \X Places : MessageOf(t)' = MessageOf(t)
         /\ \A t \in Posts \X Places : t # <<p, i>> =>
              (Cleared(t)' <=> Cleared(t)) /\ task'[t].pc = task[t].pc
         /\ Cleared(<<p, i>>)' <=> pc \in {"user", "select", "insert"} \/ result = "queued"
         /\ task'[<<p, i>>].pc = pc /\ task'[<<p, i>>].result = result
<1>1. /\ task'[<<p, i>>].pc = pc /\ task'[<<p, i>>].result = result
      /\ \A t \in Posts \X Places : t # <<p, i>> => task'[t] = task[t]
  BY Moves DEF Base
<1> QED BY <1>1 DEF Cleared, MessageOf

LEMMA ConsumePaid ==
  ASSUME Base, AllPaid, NEW p \in Posts, NEW i \in Places, ConsumeLimit(p, i)
  PROVE  AllPaid'
<1> DEFINE t == <<p, i>>
           step == task[t].pc
           m == post[p].events[i]
           b == Subject(p, step, m)
           denied == Limited(step, task[t].result, FALSE)
           allowed == Limited(step, task[t].result, TRUE)
<1>1. step \in Steps /\ task[t] \in Task /\ m \in Messages /\ t \in Posts \X Places
  <2>1. step \in Steps
    BY Leads DEF ConsumeLimit
  <2> QED BY <2>1, TaskMessage DEF Base, Steps
<1>2. b \in Buckets
  BY <1>1, Asks DEF Base
<1>3. post' = post /\ erased' = erased /\ audited' = audited
  BY DEF ConsumeLimit, world
<1>4. task[t].result \in Outcomes /\ task[t].result # "queued"
  <2>1. task[t].result \in Outcomes /\ ResultFits(step, task[t].result)
    BY <1>1 DEF Base, Results, Task
  <2> QED BY <2>1, <1>1 DEF ResultFits, Steps
<1>5. /\ denied \in Outcomes /\ denied # "queued" /\ allowed \in Outcomes /\ allowed # "queued"
      /\ IfAllowed[step] \in Steppers /\ IfDenied[step] \in Steppers
      /\ IfDenied[step] \notin {"user", "select", "insert", "record"}
      /\ IfAllowed[step] \in {"user", "select", "insert"} => step = "sender"
      /\ IfAllowed[step] = "record" => step \in {"lockoutAudit", "audit"}
  BY <1>1, <1>4, Leads DEF Limited, Steps, Steppers, Outcomes
<1>6. \/ /\ passed' = passed /\ Goto(p, i, IfDenied[step], denied)
      \/ /\ Consume(b) /\ ~Allows(b) /\ Goto(p, i, IfDenied[step], denied)
      \/ /\ Consume(b) /\ Allows(b) /\ Goto(p, i, IfAllowed[step], allowed)
  BY DEF ConsumeLimit, AnswerWhenDown, limits, Limited
<1> HIDE DEF t, step, m, b, denied, allowed
<1>7. CASE Goto(p, i, IfDenied[step], denied) /\ passed' = passed
  <2>1. NoNewcomer
    BY <1>1, <1>3, <1>5, <1>7, OneMoves DEF NoNewcomer, t
  <2> QED BY <1>3, <1>7, <2>1, NoNewcomerKeeps
<1>8. CASE Consume(b) /\ ~Allows(b) /\ Goto(p, i, IfDenied[step], denied)
  <2>1. NoNewcomer
    BY <1>1, <1>3, <1>5, <1>8, OneMoves DEF NoNewcomer, t
  <2>2. passed' = passed
    BY <1>8, <1>2 DEF Consume, Base, LimitInv, LimitTypeOK
  <2> QED BY <1>3, <2>1, <2>2, NoNewcomerKeeps
<1>9. CASE Consume(b) /\ Allows(b) /\ Goto(p, i, IfAllowed[step], allowed)
  <2>1. /\ \A u \in Posts \X Places : MessageOf(u)' = MessageOf(u)
        /\ \A u \in Posts \X Places : u # t =>
             (Cleared(u)' <=> Cleared(u)) /\ task'[u].pc = task[u].pc
        /\ Cleared(t)' => step = "sender"
        /\ task'[t].pc = "record" => step \in {"lockoutAudit", "audit"}
    BY <1>3, <1>5, <1>9, OneMoves DEF t
  <2>2. MessageOf(t) = m
    BY DEF MessageOf, t, m
  <2>3. ASSUME NEW s \in Senders
        PROVE  OneMore(ClearedOf(s), ClearedOf(s)', Passes(SenderBuckets(s)),
                       Passes(SenderBuckets(s))')
    <3>1. ClearedOf(s)' \subseteq ClearedOf(s) \cup {t}
      BY <2>1 DEF ClearedOf
    <3>2. SenderBuckets(s) \in SUBSET Buckets
      BY DEF SenderBuckets
    <3>3. CASE b \in SenderBuckets(s)
      <4>1. \E x : x \notin Passes(SenderBuckets(s))
                   /\ Passes(SenderBuckets(s))' = Passes(SenderBuckets(s)) \cup {x}
        BY <1>2, <1>9, <3>2, <3>3, CallPasses DEF Base, LimitInv
      <4> QED BY <3>1, <4>1 DEF OneMore
    <3>4. CASE b \notin SenderBuckets(s)
      <4>1. Passes(SenderBuckets(s))' = Passes(SenderBuckets(s))
        BY <1>2, <1>9, <3>2, <3>4, CallPasses DEF Base, LimitInv
      <4>2. step = "sender" => From[m] # s
        BY <1>2, <3>4 DEF b, Subject, SenderBuckets
      <4>3. t \notin ClearedOf(s)'
        BY <2>1, <2>2, <4>2, <1>1 DEF ClearedOf
      <4> QED BY <3>1, <4>1, <4>3 DEF OneMore
    <3> QED BY <3>3, <3>4
  <2>4. OneMore(Reporting, Reporting', Passes(ReportBuckets), Passes(ReportBuckets)')
    <3>1. Reporting' \subseteq Reporting \cup {t}
      BY <2>1 DEF Reporting
    <3>2. ReportBuckets \in SUBSET Buckets
      BY DEF ReportBuckets
    <3>3. CASE b \in ReportBuckets
      <4>1. \E x : x \notin Passes(ReportBuckets)
                   /\ Passes(ReportBuckets)' = Passes(ReportBuckets) \cup {x}
        BY <1>2, <1>9, <3>2, <3>3, CallPasses DEF Base, LimitInv
      <4> QED BY <3>1, <4>1 DEF OneMore
    <3>4. CASE b \notin ReportBuckets
      <4>1. Passes(ReportBuckets)' = Passes(ReportBuckets)
        BY <1>2, <1>9, <3>2, <3>4, CallPasses DEF Base, LimitInv
      <4>2. step \notin {"lockoutAudit", "audit"}
        BY <1>2, <3>4 DEF b, Subject, ReportBuckets
      <4>3. t \notin Reporting'
        BY <2>1, <4>2 DEF Reporting
      <4> QED BY <3>1, <4>1, <4>3 DEF OneMore
    <3> QED BY <3>3, <3>4
  <2> QED BY <1>3, <2>3, <2>4, OneMoreKeeps
<1> QED BY <1>6, <1>7, <1>8, <1>9

\* The report is written, or the request fails.
LEMMA RecordPaid ==
  ASSUME Base, AllPaid, NEW p \in Posts, NEW i \in Places, RecordEvent(p, i)
  PROVE  AllPaid'
<1> DEFINE t == <<p, i>>
<1>1. /\ post' = post /\ erased' = erased /\ passed' = passed /\ task[t].pc = "record"
      /\ t \in Posts \X Places
  BY DEF RecordEvent, world, limits
<1>2. task[t].result \in Outcomes /\ task[t].result # "queued"
  <2>1. task[t] \in Task /\ ResultFits(task[t].pc, task[t].result)
    BY <1>1, Types DEF Base, Results
  <2> QED BY <2>1, <1>1 DEF ResultFits, Task
<1>3. \/ Goto(p, i, "done", task[t].result) /\ audited' = audited + 1
      \/ Goto(p, i, "thrown", task[t].result) /\ audited' = audited
  BY DEF RecordEvent
<1>4. /\ \A u \in Posts \X Places : MessageOf(u)' = MessageOf(u)
      /\ \A u \in Posts \X Places : u # t =>
           (Cleared(u)' <=> Cleared(u)) /\ task'[u].pc = task[u].pc
      /\ ~Cleared(t)' /\ task'[t].pc # "record"
  <2>1. CASE Goto(p, i, "done", task[t].result)
    <3>1. "done" \in Steppers
      BY DEF Steppers
    <3> QED BY <1>1, <1>2, <2>1, <3>1, OneMoves
  <2>2. CASE Goto(p, i, "thrown", task[t].result)
    <3>1. "thrown" \in Steppers
      BY DEF Steppers
    <3> QED BY <1>1, <1>2, <2>2, <3>1, OneMoves
  <2> QED BY <1>3, <2>1, <2>2
<1>5. NoNewcomer
  BY <1>4 DEF NoNewcomer
<1>6. CASE audited' = audited
  BY <1>1, <1>5, <1>6, NoNewcomerKeeps
<1>7. CASE audited' = audited + 1
  <2> SUFFICES ASSUME ~erased PROVE /\ \A s \in Senders : Paid(0, ClearedOf(s), SenderBuckets(s))'
                                    /\ Paid(audited, Reporting, ReportBuckets)'
    BY <1>1 DEF AllPaid
  <2>1. /\ \A s \in Senders : Paid(0, ClearedOf(s), SenderBuckets(s))
        /\ Paid(audited, Reporting, ReportBuckets)
    BY DEF AllPaid
  <2>2. ASSUME NEW s \in Senders PROVE Paid(0, ClearedOf(s), SenderBuckets(s))'
    <3>1. ClearedOf(s)' \subseteq ClearedOf(s) /\ IsFiniteSet(ClearedOf(s))
      BY <1>5, NoNewcomerShrinks, TasksFinite DEF ClearedOf
    <3>2. Passes(SenderBuckets(s))' = Passes(SenderBuckets(s))
      BY <1>1 DEF Passes, SenderBuckets
    <3>3. IsFiniteSet(Passes(SenderBuckets(s))')
          /\ 0 + Cardinality(ClearedOf(s)') <= Cardinality(Passes(SenderBuckets(s))')
      BY <2>1, <3>1, <3>2, StaysPaid DEF Paid, OneMore
    <3> QED BY <3>3 DEF Paid
  <2>3. Reporting' = Reporting \ {t} /\ t \in Reporting /\ IsFiniteSet(Reporting)
        /\ Cardinality(Reporting) \in Nat
    <3>1. Reporting' = Reporting \ {t} /\ t \in Reporting
      BY <1>1, <1>4 DEF Reporting
    <3> QED BY <3>1, TasksFinite DEF Reporting
  <2>4. Cardinality(Reporting') = Cardinality(Reporting) - 1
    BY <2>3, FS_RemoveElement
  <2>5. Passes(ReportBuckets)' = Passes(ReportBuckets)
    BY <1>1 DEF Passes, ReportBuckets
  <2>6. audited \in Nat /\ IsFiniteSet(Passes(ReportBuckets))
        /\ audited + Cardinality(Reporting) <= Cardinality(Passes(ReportBuckets))
    BY <2>1, Types DEF Paid, Base
  <2>7. audited' + Cardinality(Reporting') = audited + Cardinality(Reporting)
    BY <1>7, <2>3, <2>4, <2>6
  <2>8. Paid(audited, Reporting, ReportBuckets)'
    BY <2>5, <2>6, <2>7 DEF Paid
  <2> QED BY <2>2, <2>8
<1> QED BY <1>3, <1>6, <1>7

\* The user is looked up, then the row: a task goes on with what it has paid.
LEMMA HandledPaid ==
  ASSUME Base, AllPaid, NEW p \in Posts, NEW i \in Places,
         FindUser(p, i) \/ SelectExisting(p, i) \/ Insert(p, i)
  PROVE  AllPaid'
<1> DEFINE t == <<p, i>>
<1>1. /\ post' = post /\ erased' = erased /\ passed' = passed /\ audited' = audited
      /\ t \in Posts \X Places /\ task[t].pc \in {"user", "select", "insert"}
  BY DEF FindUser, SelectExisting, Insert, world, limits
<1>2. \E pc \in Steppers \ {"record"}, result \in Outcomes : Goto(p, i, pc, result)
  <2>1. \A status : Found(status) \in Outcomes
    BY DEF Found, Outcomes
  <2>2. /\ {"select", "abuse", "insert", "done", "thrown"} \subseteq Steppers \ {"record"}
        /\ {"none", "unauthorized", "queued"} \subseteq Outcomes
    BY DEF Steppers, Outcomes
  <2>3. CASE FindUser(p, i)
    BY <2>2, <2>3 DEF FindUser
  <2>4. CASE SelectExisting(p, i)
    <3> DEFINE m == post[p].events[i]
    <3>1. Goto(p, i, "insert", "none") \/ \E r \in Candidates(p, m) : Goto(p, i, "done", Found(row[r].status))
      BY <2>4 DEF SelectExisting
    <3> QED BY <2>1, <2>2, <3>1
  <2>5. CASE Insert(p, i)
    <3>1. PICK m \in Messages : m = post[p].events[i]
      BY <2>5, TaskMessage DEF Base, Insert
    <3>2. \/ Goto(p, i, "thrown", "none") \/ Goto(p, i, "done", "queued")
          \/ \E status : Goto(p, i, "done", Found(status))
      BY <2>5, <3>1, InsertCases
    <3> QED BY <2>1, <2>2, <3>2
  <2> QED BY <2>3, <2>4, <2>5, <1>1
<1>3. PICK pc \in Steppers \ {"record"}, result \in Outcomes : Goto(p, i, pc, result)
  BY <1>2
<1>4. /\ \A u \in Posts \X Places : MessageOf(u)' = MessageOf(u)
      /\ \A u \in Posts \X Places : u # t =>
           (Cleared(u)' <=> Cleared(u)) /\ task'[u].pc = task[u].pc
      /\ task'[t].pc = pc
  BY <1>1, <1>3, OneMoves
<1>5. Cleared(t)
  BY <1>1 DEF Cleared
<1>6. NoNewcomer
  BY <1>3, <1>4, <1>5 DEF NoNewcomer
<1> QED BY <1>1, <1>6, NoNewcomerKeeps

\* A task under way belongs to a request that came.
LEMMA Came ==
  ASSUME Base, NEW t \in Posts \X Places, task[t] # NoTask
  PROVE  post[t[1]].pc # "none"
<1>1. PICK p \in Posts, i \in Places : t = <<p, i>>
  OBVIOUS
<1>2. post[p].begun \in Nat /\ i \in Nat /\ i > 0
  BY Types DEF Base, Post, Places
<1>3. ~(post[p].begun < i)
  BY <1>1 DEF Base, Requests
<1>4. post[p].begun # 0
  BY <1>2, <1>3
<1> QED BY <1>1, <1>4 DEF Base, Requests

\* What a request brings stays the message of its tasks.
LEMMA SameMessage ==
  ASSUME Base, [Next]_vars, NEW t \in Posts \X Places, task[t] # NoTask
  PROVE  MessageOf(t)' = MessageOf(t)
<1>1. t[1] \in Posts /\ post[t[1]].pc # "none" /\ post \in [Posts -> Post]
  BY Came, Types DEF Base
<1>2. CASE post' = post
  BY <1>2 DEF MessageOf
<1>3. ASSUME NEW p \in Posts, Receive(p) PROVE MessageOf(t)' = MessageOf(t)
  <2>1. post[p].pc = "none" /\ \E x : post' = [post EXCEPT ![p] = x]
    BY <1>3 DEF Receive
  <2>2. post'[t[1]] = post[t[1]]
    BY <1>1, <2>1
  <2> QED BY <2>2 DEF MessageOf
<1>4. ASSUME NEW p \in Posts, CheckService(p) \/ Answer(p) PROVE MessageOf(t)' = MessageOf(t)
  <2>1. \E pc \in {"unavailable", "working", "ok", "error"} : post' = [post EXCEPT ![p].pc = pc]
    BY <1>4 DEF CheckService, Answer
  <2>2. \A q \in Posts : post'[q].events = post[q].events
    BY <2>1, PostMoves DEF Base
  <2> QED BY <1>1, <2>2 DEF MessageOf
<1>5. ASSUME NEW p \in Posts, StartBatch(p) PROVE MessageOf(t)' = MessageOf(t)
  <2>1. PICK upTo \in Nat : post' = [post EXCEPT ![p].begun = upTo]
    BY <1>5, BatchBegins
  <2>2. \A q \in Posts : post'[q].events = post[q].events
    BY <1>1, <2>1 DEF Post
  <2> QED BY <1>1, <2>2 DEF MessageOf
<1>6. ASSUME NEW p \in Posts, NEW i \in Places,
             \/ ConsumeLimit(p, i) \/ FindUser(p, i) \/ RecordEvent(p, i)
             \/ SelectExisting(p, i) \/ Insert(p, i)
      PROVE  post' = post
  BY <1>6 DEF ConsumeLimit, FindUser, RecordEvent, SelectExisting, Insert
<1>7. Settle \/ Lifecycle \/ Deactivate \/ (\E p \in Posts : Rotate(p)) \/ EraseClientData \/ Tick \/ UNCHANGED vars
        => post' = post
  BY DEF Settle, Lifecycle, Deactivate, Rotate, EraseClientData, Tick, vars
<1> QED BY <1>2, <1>3, <1>4, <1>5, <1>6, <1>7 DEF Next

\* The next messages of a request begin with the limits before them.
LEMMA BatchPaid ==
  ASSUME Base, AllPaid, NEW p \in Posts, StartBatch(p)
  PROVE  AllPaid'
<1>1. erased' = erased /\ passed' = passed /\ audited' = audited /\ [Next]_vars
  BY DEF StartBatch, world, limits, Next
<1>2. PICK upTo \in Nat :
           /\ task' = [t \in Posts \X Places |->
                IF t[1] # p \/ t[2] \notin (post[p].begun + 1)..upTo THEN task[t]
                ELSE IF IsFresh(post[p].events[t[2]])
                THEN [pc |-> "global", result |-> "none"]
                ELSE [pc |-> "audit", result |-> "stale"]]
  BY BatchBegins
<1>3. \A t \in Posts \X Places :
        \/ task'[t] = task[t]
        \/ task'[t] = [pc |-> "global", result |-> "none"]
        \/ task'[t] = [pc |-> "audit", result |-> "stale"]
  BY <1>2
<1>4. ASSUME NEW t \in Posts \X Places
      PROVE  /\ Cleared(t)' => Cleared(t) /\ MessageOf(t)' = MessageOf(t)
             /\ task'[t].pc = "record" => task[t].pc = "record"
  <2>1. CASE task'[t] = task[t]
    <3>1. Cleared(t) => task[t] # NoTask
      BY DEF Cleared, NoTask
    <3> QED BY <1>1, <2>1, <3>1, SameMessage DEF Cleared
  <2>2. CASE task'[t] = [pc |-> "global", result |-> "none"]
    BY <2>2 DEF Cleared
  <2>3. CASE task'[t] = [pc |-> "audit", result |-> "stale"]
    BY <2>3 DEF Cleared
  <2> QED BY <1>3, <2>1, <2>2, <2>3
<1>5. NoNewcomer
  BY <1>4 DEF NoNewcomer
<1> QED BY <1>1, <1>5, NoNewcomerKeeps

LEMMA RestPaid ==
  ASSUME Base, AllPaid, [Next]_vars, task' = task, passed' = passed, audited' = audited,
         ~erased' => ~erased
  PROVE  AllPaid'
<1>1. \A t \in Posts \X Places : Cleared(t)' => Cleared(t) /\ task[t] # NoTask
  BY DEF Cleared, NoTask
<1>2. NoNewcomer
  BY <1>1, SameMessage DEF NoNewcomer
<1> QED BY <1>2, NoNewcomerKeeps

LEMMA PaidNext == Base /\ AllPaid /\ [Next]_vars => AllPaid'
<1> SUFFICES ASSUME Base, AllPaid, [Next]_vars PROVE AllPaid'
  OBVIOUS
<1>1. CASE \E p \in Posts : StartBatch(p)
  BY <1>1, BatchPaid
<1>2. CASE \E p \in Posts, i \in Places : ConsumeLimit(p, i)
  BY <1>2, ConsumePaid
<1>3. CASE \E p \in Posts, i \in Places : RecordEvent(p, i)
  BY <1>3, RecordPaid
<1>4. CASE \E p \in Posts, i \in Places : FindUser(p, i) \/ SelectExisting(p, i) \/ Insert(p, i)
  BY <1>4, HandledPaid
<1>5. CASE \E p \in Posts : Receive(p) \/ CheckService(p) \/ Answer(p)
  <2>1. task' = task /\ passed' = passed /\ audited' = audited /\ erased' = erased
    BY <1>5 DEF Receive, CheckService, Answer, world, limits
  <2> QED BY <2>1, RestPaid
<1>6. CASE Settle \/ Lifecycle \/ Deactivate \/ (\E p \in Posts : Rotate(p)) \/ Tick \/ UNCHANGED vars
  <2>1. task' = task /\ audited' = audited /\ erased' = erased
    BY <1>6 DEF Settle, Lifecycle, Deactivate, Rotate, Tick, vars, world
  <2>2. passed' = passed
    BY <1>6 DEF Settle, Lifecycle, PurgeUnused, PurgeBuckets, Deactivate, Rotate, Tick, Elapse,
                vars, limits
  <2> QED BY <2>1, <2>2, RestPaid
<1>7. CASE EraseClientData
  BY <1>7 DEF EraseClientData, AllPaid
<1> QED BY <1>1, <1>2, <1>3, <1>4, <1>5, <1>6, <1>7 DEF Next

LEMMA PaidStart == Init => AllPaid
<1> SUFFICES ASSUME Init PROVE AllPaid
  OBVIOUS
<1>1. \A t \in Posts \X Places : ~Cleared(t) /\ task[t].pc # "record"
  BY DEF Init, NoTask, Cleared
<1>2. Reporting = {} /\ \A s \in Senders : ClearedOf(s) = {}
  BY <1>1 DEF Reporting, ClearedOf
<1>3. \A b \in Buckets : DOMAIN passed[b].at = {}
  <2>1. \A b \in Buckets : passed[b].at = <<>>
    BY DEF Init, LimitInit, Unused
  <2>2. DOMAIN <<>> = {}
    OBVIOUS
  <2> QED BY <2>1, <2>2
<1>4. ASSUME NEW B \in SUBSET Buckets PROVE Passes(B) = {}
  <2>1. \A y : y \in Passes(B) <=> \E c \in B : \E n \in DOMAIN passed[c].at : y = <<c, n>>
    BY DEF Passes
  <2> QED BY <1>3, <2>1
<1>5. ReportBuckets \in SUBSET Buckets /\ \A s \in Senders : SenderBuckets(s) \in SUBSET Buckets
  BY DEF ReportBuckets, SenderBuckets
<1>6. audited = 0
  BY DEF Init
<1> QED BY <1>2, <1>4, <1>5, <1>6, FS_EmptySet DEF AllPaid, Paid

\* A task that has queued its message is over.
LEMMA QueuedForGood ==
  ASSUME Base, [Next]_vars, NEW t \in Posts \X Places, task[t].result = "queued"
  PROVE  task'[t].result = "queued"
<1>1. task[t] \in Task /\ task[t] # NoTask /\ ResultFits(task[t].pc, task[t].result)
  BY Types DEF Base, Results, NoTask
<1>2. task[t].pc \in {"done", "thrown"}
  BY <1>1 DEF ResultFits
<1>3. CASE task' = task
  BY <1>3
<1>4. ASSUME NEW p \in Posts, NEW i \in Places, NEW pc, NEW result,
             task[<<p, i>>].pc \notin {"done", "thrown"}, Goto(p, i, pc, result)
      PROVE  task'[t].result = "queued"
  <2>1. task \in [Posts \X Places -> Task] /\ t # <<p, i>>
    BY <1>2, <1>4, Types DEF Base
  <2>2. task'[t] = task[t]
    BY <1>4, <2>1 DEF Goto
  <2> QED BY <2>2
<1>5. ASSUME NEW p \in Posts, NEW i \in Places,
             \/ ConsumeLimit(p, i) \/ FindUser(p, i) \/ RecordEvent(p, i)
             \/ SelectExisting(p, i) \/ Insert(p, i)
      PROVE  /\ task[<<p, i>>].pc \notin {"done", "thrown"}
             /\ \E pc, result : Goto(p, i, pc, result)
  <2>1. CASE ConsumeLimit(p, i)
    BY <2>1, LimitedTask, Leads DEF ConsumeLimit, Steps
  <2>2. CASE FindUser(p, i) \/ RecordEvent(p, i)
    BY <2>2 DEF FindUser, RecordEvent
  <2>3. CASE SelectExisting(p, i)
    BY <2>3 DEF SelectExisting
  <2>4. CASE Insert(p, i)
    BY <2>4 DEF Insert
  <2> QED BY <1>5, <2>1, <2>2, <2>3, <2>4
<1>6. ASSUME NEW p \in Posts, StartBatch(p) PROVE task'[t].result = "queued"
  <2>1. PICK q \in Posts, i \in Places : t = <<q, i>>
    OBVIOUS
  <2>2. post[q].begun \in Nat /\ i \in Nat /\ i <= post[q].begun
    <3>1. post[q].begun \in Nat /\ i \in Nat
      BY Types DEF Base, Post, Places
    <3> QED BY <3>1, <2>1, <1>1 DEF Base, Requests
  <2>3. q # p \/ i \notin (post[p].begun + 1)..Len(post[p].events)
    BY <2>2
  <2>4. PICK upTo \in Nat :
           /\ task' = [u \in Posts \X Places |->
                IF u[1] # p \/ u[2] \notin (post[p].begun + 1)..upTo THEN task[u]
                ELSE IF IsFresh(post[p].events[u[2]])
                THEN [pc |-> "global", result |-> "none"]
                ELSE [pc |-> "audit", result |-> "stale"]]
    BY <1>6, BatchBegins
  <2>5. q # p \/ i \notin (post[p].begun + 1)..upTo
    BY <2>2
  <2>6. task'[t] = task[t]
    BY <2>1, <2>4, <2>5
  <2> QED BY <2>6
<1>7. (\E p \in Posts : Receive(p) \/ CheckService(p) \/ Answer(p)) => task' = task
  BY DEF Receive, CheckService, Answer
<1>8. Settle \/ Lifecycle \/ Deactivate \/ (\E p \in Posts : Rotate(p)) \/ EraseClientData \/ Tick \/ UNCHANGED vars
        => task' = task
  BY DEF Settle, Lifecycle, Deactivate, Rotate, EraseClientData, Tick, vars
<1> QED BY <1>3, <1>4, <1>5, <1>6, <1>7, <1>8 DEF Next

LEMMA BroughtNext == Base /\ Brought /\ [Next]_vars => Brought'
<1> SUFFICES ASSUME Base, Brought, [Next]_vars, NEW m \in Messages, inserted'[m] > 0
             PROVE  \E t \in Posts \X Places : task'[t].result = "queued" /\ MessageOf(t)' = m
  BY DEF Brought
<1>1. CASE inserted[m] > 0
  <2>1. PICK t \in Posts \X Places : task[t].result = "queued" /\ MessageOf(t) = m
    BY <1>1 DEF Brought
  <2>2. task[t] # NoTask
    BY <2>1 DEF NoTask
  <2> QED BY <2>1, <2>2, QueuedForGood, SameMessage
<1>2. CASE ~(inserted[m] > 0)
  <2>1. inserted' # inserted
    BY <1>2
  <2>2. PICK p \in Posts, i \in Places : Insert(p, i)
    BY <2>1 DEF Next, Receive, CheckService, StartBatch, Answer, ConsumeLimit, FindUser,
                RecordEvent, SelectExisting, Settle, Lifecycle, Deactivate, Rotate,
                EraseClientData, Tick, vars
  <2>3. PICK x \in Messages : x = post[p].events[i]
    BY <2>2, TaskMessage DEF Base, Insert
  <2>4. /\ inserted' = [inserted EXCEPT ![x] = inserted[x] + 1] /\ Goto(p, i, "done", "queued")
        /\ post' = post
    BY <2>1, <2>2, <2>3, InsertCases DEF Insert
  <2>5. m = x
    BY <1>2, <2>4, Types DEF Base
  <2>6. "done" \in Steppers /\ "queued" \in Outcomes
    BY DEF Steppers, Outcomes
  <2>7. task'[<<p, i>>].result = "queued" /\ <<p, i>> \in Posts \X Places
    BY <2>4, <2>6, OneMoves
  <2>8. MessageOf(<<p, i>>)' = m
    BY <2>3, <2>4, <2>5 DEF MessageOf
  <2> QED BY <2>7, <2>8
<1> QED BY <1>1, <1>2

\* Every stored message of a sender has a cleared task of its own.
LEMMA PaidFailsClosed == Base /\ AllPaid /\ Brought => FailsClosed
<1> SUFFICES ASSUME Base, AllPaid, Brought, ~erased
             PROVE  /\ \A s \in Senders :
                         Cardinality({m \in Messages : From[m] = s /\ inserted[m] > 0})
                           <= Cardinality(Passes(SenderBuckets(s)))
                    /\ audited <= Cardinality(Passes(ReportBuckets))
  BY DEF FailsClosed
<1>1. /\ \A s \in Senders : Paid(0, ClearedOf(s), SenderBuckets(s))
      /\ Paid(audited, Reporting, ReportBuckets)
  BY DEF AllPaid
<1>2. ASSUME NEW s \in Senders
      PROVE  Cardinality({m \in Messages : From[m] = s /\ inserted[m] > 0})
               <= Cardinality(Passes(SenderBuckets(s)))
  <2> DEFINE S == {m \in Messages : From[m] = s /\ inserted[m] > 0}
             T == {t \in ClearedOf(s) : MessageOf(t) \in S}
             f == [t \in T |-> MessageOf(t)]
  <2>1. \A m \in S : \E t \in T : MessageOf(t) = m
    BY DEF Brought, ClearedOf, Cleared
  <2>2. f \in Surjection(T, S)
    BY <2>1 DEF Surjection
  <2>3. IsFiniteSet(ClearedOf(s)) /\ Cardinality(ClearedOf(s)) \in Nat
    BY TasksFinite DEF ClearedOf
  <2>4. T \in SUBSET ClearedOf(s)
    OBVIOUS
  <2> HIDE DEF f, T, S
  <2>5. IsFiniteSet(T) /\ Cardinality(T) <= Cardinality(ClearedOf(s)) /\ Cardinality(T) \in Nat
    BY <2>3, <2>4, FS_Subset, FS_CardinalityType
  <2>6. IsFiniteSet(S) /\ Cardinality(S) <= Cardinality(T)
    BY <2>2, <2>5, FS_Surjection
  <2>7. Cardinality(S) \in Nat
    BY <2>6, FS_CardinalityType
  <2>8. IsFiniteSet(Passes(SenderBuckets(s)))
        /\ 0 + Cardinality(ClearedOf(s)) <= Cardinality(Passes(SenderBuckets(s)))
    BY <1>1 DEF Paid
  <2>9. Cardinality(Passes(SenderBuckets(s))) \in Nat
    BY <2>8, FS_CardinalityType
  <2>10. Cardinality(S) <= Cardinality(Passes(SenderBuckets(s)))
    BY <2>3, <2>5, <2>6, <2>7, <2>8, <2>9
  <2> QED BY <2>10 DEF S
<1>3. audited <= Cardinality(Passes(ReportBuckets))
  <2>1. Cardinality(Reporting) \in Nat /\ audited \in Nat
    BY TasksFinite, Types DEF Base, Reporting
  <2>2. IsFiniteSet(Passes(ReportBuckets))
        /\ audited + Cardinality(Reporting) <= Cardinality(Passes(ReportBuckets))
    BY <1>1 DEF Paid
  <2>3. Cardinality(Passes(ReportBuckets)) \in Nat
    BY <2>2, FS_CardinalityType
  <2> QED BY <2>1, <2>2, <2>3
<1> QED BY <1>2, <1>3

\* Nothing passes while the limiter cannot be asked: of each sender at most as many
\* messages are stored as that sender's limit let through, and at most as many
\* reports written as theirs did, whatever fails and however the requests
\* interleave (message-processor.ts:702).
THEOREM FailsClosedSafety == Spec => []FailsClosed
<1>1. Init => Brought
  BY DEF Init, Brought
<1>2. Spec => []Base
  BY BaseSafety
<1>3. Spec => []Brought
  BY <1>1, <1>2, BroughtNext, PTL DEF Spec
<1>4. Spec => []AllPaid
  BY <1>2, PaidStart, PaidNext, PTL DEF Spec
<1> QED BY <1>2, <1>3, <1>4, PaidFailsClosed, PTL
=============================================================================
