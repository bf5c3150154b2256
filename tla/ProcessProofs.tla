---------------------------- MODULE ProcessProofs -----------------------------
(***************************************************************************)
(* What one process keeps in memory and must not lose: its queue and workers *)
(* while it shuts down, for every set of messages, every number of workers   *)
(* and every size of the queue; the slots of its semaphores, its cached      *)
(* readiness answer and the pages of its discoveries, for every set of       *)
(* callers, every manifest, every capacity and both times to live.           *)
(***************************************************************************)
EXTENDS Reports, Shutdown, FiniteSetTheorems, SequenceTheorems, NaturalsInduction,
        WellFoundedInduction, TLAPS

(***************************************************************************)
(* The end of a process: a shutdown that did not give up wipes the keys and *)
(* ends the pools of a process in which nothing is left to run              *)
(***************************************************************************)

\* The jobs on a worker and in the queue, wherever f says each is.
OnWorker(f) == {j \in Jobs : f[j] \in {"working", "writing"}}
InQueue(f) == {j \in Jobs : f[j] \in {"queued"}}
InFlight(f) == {j \in Jobs : f[j] \in {"accepting"}}
Orphans(f) == {j \in Jobs : f[j] \in {"orphan"}}

Sized(f) ==
  /\ f \in [Jobs -> Where]
  /\ Cardinality(OnWorker(f)) <= Concurrency
  /\ Cardinality(OnWorker(f)) + Cardinality(InQueue(f)) <= MaxBuffered

\* What may start work again is gone once the shutdown has waited for it: the
\* requests, the recovery and its interval, the interval of retention.
Gone ==
  /\ stage \notin {"up", "closing"} => InFlight(job) = {}
  /\ ~orphaned => Orphans(job) = {}
  /\ stage \notin {"up", "closing", "notifier"} => "recovery" \notin timers
  /\ RecoveryOver => ~recovery
  /\ IdleOver => "retention" \notin timers

Quiet == OnWorker(job) = {} /\ InQueue(job) = {} /\ ~pump

ShutdownIInv == ShutdownInv /\ Gone
Stages == {"up", "closing", "notifier", "recovery", "idle", "retention", "wiped", "ended", "down"}

\* The types that say nothing about where the jobs are.
Plain ==
  /\ stage \in Stages /\ timedOut \in BOOLEAN /\ orphaned \in BOOLEAN
  /\ pump \in BOOLEAN /\ timers \subseteq {"recovery", "retention"}
  /\ recovery \in BOOLEAN /\ retention \in BOOLEAN
  /\ notices \subseteq Jobs /\ awaited \subseteq Jobs /\ wrote \subseteq Jobs

QuietAtLast == IdleOver /\ ~timedOut /\ ~orphaned => Quiet

-----------------------------------------------------------------------------
LEMMA Parts == ShutdownIInv <=> Plain /\ Sized(job) /\ CleanShutdown /\ Quiesced /\ QuietAtLast /\ Gone
<1>1. Active = OnWorker(job) /\ Pending = InQueue(job)
  BY DEF Active, Pending, In, OnWorker, InQueue
<1>2. ShutdownTypeOK <=> Plain /\ Sized(job)
  BY <1>1 DEF ShutdownTypeOK, Plain, Stages, Sized
<1>3. QuietAfterIdle <=> QuietAtLast
  BY <1>1 DEF QuietAfterIdle, QuietAtLast, Quiet
<1> QED BY <1>2, <1>3 DEF ShutdownIInv, ShutdownInv

LEMMA Scale == IsFiniteSet(Jobs) /\ Concurrency \in Nat \ {0} /\ MaxBuffered \in Nat \ {0}
  BY ShutdownAssumption

LEMMA Some ==
  ASSUME NEW S, S \subseteq Jobs
  PROVE  IsFiniteSet(S) /\ Cardinality(S) \in Nat
  BY Scale, FS_Subset, FS_CardinalityType

LEMMA PlacedJobs ==
  ASSUME NEW f
  PROVE  /\ OnWorker(f) \subseteq Jobs /\ InQueue(f) \subseteq Jobs
         /\ OnWorker(f) \cap InQueue(f) = {}
         /\ Cardinality(OnWorker(f)) \in Nat /\ Cardinality(InQueue(f)) \in Nat
         /\ IsFiniteSet(OnWorker(f)) /\ IsFiniteSet(InQueue(f))
<1>1. /\ OnWorker(f) \subseteq Jobs /\ InQueue(f) \subseteq Jobs
      /\ OnWorker(f) \cap InQueue(f) = {}
  BY DEF OnWorker, InQueue
<1> QED BY <1>1, Some

\* Fewer jobs on workers and in the queue.
LEMMA Shrinks ==
  ASSUME NEW f, Sized(f), NEW g \in [Jobs -> Where],
         OnWorker(g) \subseteq OnWorker(f), InQueue(g) \subseteq InQueue(f)
  PROVE  Sized(g)
<1>1. Cardinality(OnWorker(g)) <= Cardinality(OnWorker(f))
  BY PlacedJobs, FS_Subset
<1>2. Cardinality(InQueue(g)) <= Cardinality(InQueue(f))
  BY PlacedJobs, FS_Subset
<1>3. PICK a, b, c, d : /\ a = Cardinality(OnWorker(g)) /\ b = Cardinality(OnWorker(f))
                        /\ c = Cardinality(InQueue(g)) /\ d = Cardinality(InQueue(f))
  OBVIOUS
<1>4. a \in Nat /\ b \in Nat /\ c \in Nat /\ d \in Nat
  BY <1>3, PlacedJobs
<1>5. b <= Concurrency /\ b + d <= MaxBuffered
  BY <1>3 DEF Sized
<1>6. a <= Concurrency /\ a + c <= MaxBuffered
  BY <1>1, <1>2, <1>3, <1>4, <1>5, Scale
<1> QED BY <1>3, <1>6 DEF Sized

\* One job goes from where it is to x.
Goes(f, j, x, g) == f \in [Jobs -> Where] /\ j \in Jobs /\ x \in Where /\ g = [f EXCEPT ![j] = x]

Moved(f, j, x, g) ==
  /\ g \in [Jobs -> Where]
  /\ OnWorker(g) = IF x \in {"working", "writing"} THEN OnWorker(f) \cup {j} ELSE OnWorker(f) \ {j}
  /\ InQueue(g) = IF x = "queued" THEN InQueue(f) \cup {j} ELSE InQueue(f) \ {j}
  /\ InFlight(g) = IF x = "accepting" THEN InFlight(f) \cup {j} ELSE InFlight(f) \ {j}
  /\ Orphans(g) = IF x = "orphan" THEN Orphans(f) \cup {j} ELSE Orphans(f) \ {j}

LEMMA OneJobMoves ==
  ASSUME NEW f, NEW j, NEW x, NEW g, Goes(f, j, x, g)
  PROVE  Moved(f, j, x, g)
<1>0. f \in [Jobs -> Where] /\ j \in Jobs /\ x \in Where /\ g = [f EXCEPT ![j] = x]
  BY DEF Goes
<1>1. g \in [Jobs -> Where] /\ g[j] = x /\ \A i \in Jobs \ {j} : g[i] = f[i]
  BY <1>0
<1>2. OnWorker(g) = IF x \in {"working", "writing"} THEN OnWorker(f) \cup {j} ELSE OnWorker(f) \ {j}
  BY <1>0, <1>1 DEF OnWorker
<1>3. InQueue(g) = IF x = "queued" THEN InQueue(f) \cup {j} ELSE InQueue(f) \ {j}
  BY <1>0, <1>1 DEF InQueue
<1>4. InFlight(g) = IF x = "accepting" THEN InFlight(f) \cup {j} ELSE InFlight(f) \ {j}
  BY <1>0, <1>1 DEF InFlight
<1>5. Orphans(g) = IF x = "orphan" THEN Orphans(f) \cup {j} ELSE Orphans(f) \ {j}
  BY <1>0, <1>1 DEF Orphans
<1> QED BY <1>1, <1>2, <1>3, <1>4, <1>5 DEF Moved

\* It leaves the worker or the queue, or was at neither, and goes to neither.
LEMMA OneLeaves ==
  ASSUME NEW f, Sized(f), NEW j \in Jobs, NEW x \in Where \ {"queued", "working", "writing"},
         NEW g, g = [f EXCEPT ![j] = x]
  PROVE  Sized(g)
<1>1. f \in [Jobs -> Where] /\ x \in Where
  BY DEF Sized
<1>2. x \notin {"working", "writing"} /\ x # "queued"
  OBVIOUS
<1>3. Moved(f, j, x, g)
  BY <1>1, OneJobMoves DEF Goes
<1>4. /\ g \in [Jobs -> Where]
      /\ OnWorker(g) \subseteq OnWorker(f) /\ InQueue(g) \subseteq InQueue(f)
  BY <1>2, <1>3 DEF Moved
<1> QED BY <1>4, Shrinks

LEMMA OneQueues ==
  ASSUME NEW f, Sized(f), NEW j \in Jobs, NEW g, g = [f EXCEPT ![j] = "queued"],
         Cardinality(OnWorker(f)) + Cardinality(InQueue(f)) < MaxBuffered
  PROVE  Sized(g)
<1>0. PICK x : x = "queued"
  OBVIOUS
<1>1. f \in [Jobs -> Where] /\ x \in Where /\ g = [f EXCEPT ![j] = x]
  BY <1>0 DEF Sized, Where
<1>m. Moved(f, j, x, g)
  BY <1>1, OneJobMoves DEF Goes
<1>2. g \in [Jobs -> Where] /\ OnWorker(g) = OnWorker(f) \ {j} /\ InQueue(g) = InQueue(f) \cup {j}
  BY <1>0, <1>m DEF Moved
<1>3. Cardinality(OnWorker(g)) <= Cardinality(OnWorker(f))
  BY <1>2, PlacedJobs, FS_Subset
<1>4. Cardinality(InQueue(g)) <= Cardinality(InQueue(f)) + 1
  <2>0. PICK S : S = InQueue(f)
    OBVIOUS
  <2>1. IsFiniteSet(S) /\ Cardinality(S) \in Nat
    BY <2>0, PlacedJobs
  <2>2. Cardinality(S \cup {j}) = IF j \in S THEN Cardinality(S) ELSE Cardinality(S) + 1
    BY <2>1, FS_AddElement
  <2>3. Cardinality(S \cup {j}) <= Cardinality(S) + 1
    BY <2>1, <2>2
  <2> QED BY <1>2, <2>0, <2>3
<1>5. PICK a, b, c, d : /\ a = Cardinality(OnWorker(g)) /\ b = Cardinality(OnWorker(f))
                        /\ c = Cardinality(InQueue(g)) /\ d = Cardinality(InQueue(f))
  OBVIOUS
<1>6. a \in Nat /\ b \in Nat /\ c \in Nat /\ d \in Nat
  BY <1>5, PlacedJobs
<1>7. b <= Concurrency /\ b + d < MaxBuffered
  BY <1>5 DEF Sized
<1>8. a <= Concurrency /\ a + c <= MaxBuffered
  BY <1>3, <1>4, <1>5, <1>6, <1>7, Scale
<1> QED BY <1>2, <1>5, <1>8 DEF Sized

\* Workers take what is queued, and never more than there are workers.
LEMMA FillKeeps ==
  ASSUME NEW f, Sized(f), NEW g \in Fill(f)
  PROVE  /\ Sized(g) /\ InFlight(g) = InFlight(f) /\ Orphans(g) = Orphans(f)
         /\ OnWorker(f) \subseteq OnWorker(g) /\ InQueue(g) \subseteq InQueue(f)
         /\ OnWorker(g) \cup InQueue(g) = OnWorker(f) \cup InQueue(f)
<1>1. PICK free : free = Concurrency - Cardinality(OnWorker(f))
  OBVIOUS
<1>2. PICK taken : /\ taken \in SUBSET InQueue(f)
                   /\ Cardinality(taken) = IF Cardinality(InQueue(f)) < free
                                             THEN Cardinality(InQueue(f)) ELSE free
                   /\ g = [j \in Jobs |-> IF j \in taken THEN "working" ELSE f[j]]
  BY <1>1 DEF Fill, OnWorker, InQueue
<1>3. f \in [Jobs -> Where] /\ \A j \in taken : f[j] = "queued" /\ j \in Jobs
  BY <1>2 DEF Sized, InQueue
<1>4. /\ g \in [Jobs -> Where] /\ \A j \in taken : g[j] = "working"
      /\ \A j \in Jobs \ taken : g[j] = f[j]
  BY <1>2, <1>3 DEF Where
<1>5. OnWorker(g) = OnWorker(f) \cup taken
  BY <1>2, <1>3, <1>4 DEF OnWorker
<1>6. InQueue(g) = InQueue(f) \ taken
  BY <1>2, <1>3, <1>4 DEF InQueue
<1>7. InFlight(g) = InFlight(f) /\ Orphans(g) = Orphans(f)
  BY <1>3, <1>4 DEF InFlight, Orphans
<1>8. taken \subseteq Jobs /\ OnWorker(f) \cap taken = {} /\ InQueue(f) \cap taken = taken
  BY <1>2, <1>3 DEF OnWorker
<1>9. IsFiniteSet(taken) /\ Cardinality(taken) \in Nat
  BY <1>8, Some
<1>10. Cardinality(OnWorker(g)) = Cardinality(OnWorker(f)) + Cardinality(taken)
  <2>1. PICK A : A = OnWorker(f)
    OBVIOUS
  <2>2. IsFiniteSet(A) /\ A \cap taken = {} /\ Cardinality(A) \in Nat
    BY <1>8, <2>1, PlacedJobs
  <2>3. Cardinality(A \cup taken) = Cardinality(A) + Cardinality(taken) - Cardinality(A \cap taken)
    BY <1>9, <2>2, FS_Union
  <2>4. Cardinality({}) = 0
    BY FS_EmptySet
  <2>5. OnWorker(g) = A \cup taken /\ Cardinality(A \cap taken) = 0
    BY <1>5, <2>1, <2>2, <2>4
  <2>6. Cardinality(A \cup taken) = Cardinality(A) + Cardinality(taken)
    <3>1. PICK a, k : a = Cardinality(A) /\ k = Cardinality(taken)
      OBVIOUS
    <3>2. a \in Nat /\ k \in Nat /\ Cardinality(A \cup taken) = a + k - 0
      BY <1>9, <2>2, <2>3, <2>5, <3>1
    <3> QED BY <3>1, <3>2
  <2> QED BY <2>1, <2>5, <2>6
<1>11. Cardinality(InQueue(g)) = Cardinality(InQueue(f)) - Cardinality(taken)
  BY <1>6, <1>8, PlacedJobs, FS_Difference
<1>12. PICK a, b, c, d, k : /\ a = Cardinality(OnWorker(g)) /\ b = Cardinality(OnWorker(f))
                            /\ c = Cardinality(InQueue(g)) /\ d = Cardinality(InQueue(f))
                            /\ k = Cardinality(taken)
  OBVIOUS
<1>13. /\ a \in Nat /\ b \in Nat /\ c \in Nat /\ d \in Nat /\ k \in Nat
       /\ a = b + k /\ c = d - k /\ b <= Concurrency /\ b + d <= MaxBuffered
       /\ k = IF d < free THEN d ELSE free
  BY <1>2, <1>9, <1>10, <1>11, <1>12, PlacedJobs DEF Sized
<1>14. free = Concurrency - b
  BY <1>1, <1>12
<1>15. a <= Concurrency /\ a + c <= MaxBuffered
  BY <1>13, <1>14, Scale
<1>16. Sized(g)
  BY <1>4, <1>12, <1>15 DEF Sized
<1> QED BY <1>2, <1>5, <1>6, <1>7, <1>16

-----------------------------------------------------------------------------
LEMMA PartsNext ==
  ShutdownIInv' <=> Plain' /\ Sized(job') /\ CleanShutdown' /\ Quiesced' /\ QuietAtLast' /\ Gone'
<1>1. Active' = OnWorker(job') /\ Pending' = InQueue(job')
  BY DEF Active, Pending, In, OnWorker, InQueue
<1>2. ShutdownTypeOK' <=> Plain' /\ Sized(job')
  BY <1>1 DEF ShutdownTypeOK, Plain, Stages, Sized
<1>3. QuietAfterIdle' <=> QuietAtLast'
  BY <1>1 DEF QuietAfterIdle, QuietAtLast, Quiet
<1> QED BY <1>2, <1>3 DEF ShutdownIInv, ShutdownInv

\* The sets the actions speak of.
LEMMA Shapes ==
  /\ Active = OnWorker(job) /\ Pending = InQueue(job) /\ In({"accepting"}) = InFlight(job)
  /\ HasRoom <=> Cardinality(OnWorker(job)) + Cardinality(InQueue(job)) < MaxBuffered
  BY DEF Active, Pending, In, HasRoom, OnWorker, InQueue, InFlight

\* A step at which jobs are moved by whoever may move them still: it leaves the
\* shutdown where it is, and happens after the wait for idle only when that gave
\* up or a request has left a message behind.
LEMMA JobsMove ==
  ASSUME ShutdownIInv, Sized(job'), UNCHANGED <<stage, timedOut, orphaned, timers, retention>>,
         InFlight(job') \subseteq InFlight(job), Orphans(job') \subseteq Orphans(job),
         pump' \in BOOLEAN, recovery' \in BOOLEAN, recovery' => recovery,
         notices' \subseteq Jobs, awaited' \subseteq Jobs, wrote' \subseteq Jobs,
         IdleOver => timedOut \/ orphaned,
         wrote' # wrote => KeysWiped
  PROVE  ShutdownIInv'
<1>1. /\ Plain /\ Sized(job) /\ CleanShutdown /\ Quiesced /\ QuietAtLast /\ Gone
  BY Parts
<1>2. Plain'
  BY <1>1 DEF Plain
<1>3. CleanShutdown'
  BY <1>1 DEF CleanShutdown, IdleOver
<1>4. Quiesced'
  BY <1>1 DEF Quiesced, KeysWiped, PoolsEnded
<1>5. QuietAtLast'
  BY DEF QuietAtLast, IdleOver, KeysWiped, PoolsEnded
<1>6. Gone'
  BY <1>1 DEF Gone, RecoveryOver, IdleOver, KeysWiped, PoolsEnded
<1> QED BY <1>2, <1>3, <1>4, <1>5, <1>6, PartsNext

\* Whoever is on a worker after the wait for idle, or would be pumped onto one,
\* was given up or left behind.
LEMMA NotQuiet ==
  ASSUME ShutdownIInv, OnWorker(job) # {} \/ InQueue(job) # {} \/ pump = TRUE \/ Orphans(job) # {} \/ InFlight(job) # {}
  PROVE  IdleOver => timedOut \/ orphaned
<1>1. QuietAtLast /\ Gone
  BY Parts
<1>2. stage \in {"up", "closing"} => ~IdleOver
  BY DEF IdleOver, KeysWiped, PoolsEnded
<1> QED BY <1>1, <1>2 DEF QuietAtLast, Quiet, Gone

-----------------------------------------------------------------------------
LEMMA ArriveKeeps ==
  ASSUME ShutdownIInv, NEW j \in Jobs, Arrive(j)
  PROVE  ShutdownIInv'
<1>1. Plain /\ Sized(job) /\ CleanShutdown /\ Quiesced /\ QuietAtLast /\ Gone
  BY Parts
<1>2. /\ stage = "up" /\ job' = [job EXCEPT ![j] = "accepting"]
      /\ UNCHANGED <<stage, timedOut, orphaned, pump, timers, recovery, retention, notices, awaited, wrote>>
  BY DEF Arrive
<1>3. PICK x : x = "accepting"
  OBVIOUS
<1>4. x \in Where \ {"queued", "working", "writing"} /\ job' = [job EXCEPT ![j] = x]
  BY <1>2, <1>3 DEF Where
<1>5. Sized(job')
  BY <1>1, <1>4, OneLeaves
<1>6. Moved(job, j, x, job')
  BY <1>1, <1>4, OneJobMoves DEF Goes, Sized
<1>7. Orphans(job') \subseteq Orphans(job)
  BY <1>3, <1>6 DEF Moved
<1>8. Plain' /\ CleanShutdown'
  BY <1>1, <1>2 DEF Plain, CleanShutdown
<1>9. Quiesced' /\ QuietAtLast'
  BY <1>2 DEF Quiesced, QuietAtLast, IdleOver, KeysWiped, PoolsEnded
<1>10. Gone'
  BY <1>1, <1>2, <1>7 DEF Gone, RecoveryOver, IdleOver, KeysWiped, PoolsEnded
<1> QED BY <1>5, <1>8, <1>9, <1>10, PartsNext

LEMMA AbandonKeeps ==
  ASSUME ShutdownIInv, NEW j \in Jobs, Abandon(j)
  PROVE  ShutdownIInv'
<1>1. Plain /\ Sized(job) /\ CleanShutdown /\ Quiesced /\ QuietAtLast /\ Gone
  BY Parts
<1>2. /\ job[j] = "accepting" /\ job' = [job EXCEPT ![j] = "orphan"] /\ orphaned' = TRUE
      /\ UNCHANGED <<stage, timedOut, pump, timers, recovery, retention, notices, awaited, wrote>>
  BY DEF Abandon
<1>3. stage \in {"up", "closing"}
  BY <1>1, <1>2 DEF Gone, InFlight
<1>4. PICK x : x = "orphan"
  OBVIOUS
<1>5. x \in Where \ {"queued", "working", "writing"} /\ job' = [job EXCEPT ![j] = x]
  BY <1>2, <1>4 DEF Where
<1>6. Sized(job')
  BY <1>1, <1>5, OneLeaves
<1>7. Plain' /\ CleanShutdown'
  BY <1>1, <1>2 DEF Plain, CleanShutdown
<1>8. Quiesced' /\ QuietAtLast'
  BY <1>2, <1>3 DEF Quiesced, QuietAtLast, IdleOver, KeysWiped, PoolsEnded
<1>9. Gone'
  BY <1>1, <1>2, <1>3 DEF Gone, RecoveryOver, IdleOver, KeysWiped, PoolsEnded
<1> QED BY <1>6, <1>7, <1>8, <1>9, PartsNext

LEMMA AcceptKeeps ==
  ASSUME ShutdownIInv, NEW j \in Jobs, Accept(j)
  PROVE  ShutdownIInv'
<1>1. Plain /\ Sized(job) /\ CleanShutdown /\ Quiesced /\ QuietAtLast /\ Gone
  BY Parts
<1>2. /\ job[j] \in {"accepting", "orphan"}
      /\ UNCHANGED <<stage, timedOut, orphaned, timers, recovery, retention, notices, awaited>>
      /\ \/ /\ job' = [job EXCEPT ![j] = "lost"] /\ UNCHANGED <<pump, wrote>>
         \/ /\ job' = [job EXCEPT ![j] = IF HasRoom THEN "queued" ELSE "waiting"]
            /\ pump' = (pump \/ HasRoom)
            /\ wrote' = IF KeysWiped THEN wrote \cup {j} ELSE wrote
  BY DEF Accept
<1>3. PICK x : /\ x \in {"lost", "waiting", "queued"} /\ (x = "queued" => HasRoom)
               /\ job' = [job EXCEPT ![j] = x]
  BY <1>2
<1>4. x \in Where /\ Moved(job, j, x, job')
  <2>1. Goes(job, j, x, job')
    BY <1>1, <1>3 DEF Goes, Sized, Where
  <2> QED BY <2>1, OneJobMoves DEF Goes
<1>5. InFlight(job') \subseteq InFlight(job) /\ Orphans(job') \subseteq Orphans(job)
  BY <1>3, <1>4 DEF Moved
<1>6. Sized(job')
  <2>1. CASE x = "queued"
    <3>1. Cardinality(OnWorker(job)) + Cardinality(InQueue(job)) < MaxBuffered
      BY <1>3, <2>1, Shapes
    <3>2. job' = [job EXCEPT ![j] = "queued"]
      BY <1>3, <2>1
    <3> QED BY <1>1, <3>1, <3>2, OneQueues
  <2>2. CASE x # "queued"
    <3>1. x \in Where \ {"queued", "working", "writing"}
      BY <1>3, <1>4, <2>2
    <3> QED BY <1>1, <1>3, <3>1, OneLeaves
  <2> QED BY <2>1, <2>2
<1>7. InFlight(job) # {} \/ Orphans(job) # {}
  BY <1>2 DEF InFlight, Orphans
<1>8. IdleOver => timedOut \/ orphaned
  BY <1>7, NotQuiet
<1>9. pump' \in BOOLEAN
  <2>1. HasRoom \in BOOLEAN
    BY DEF HasRoom
  <2> QED BY <1>1, <1>2, <2>1 DEF Plain
<1>10. wrote' \subseteq Jobs /\ (wrote' # wrote => KeysWiped)
  BY <1>1, <1>2 DEF Plain
<1>11. /\ recovery' \in BOOLEAN /\ (recovery' => recovery)
       /\ notices' \subseteq Jobs /\ awaited' \subseteq Jobs
  BY <1>1, <1>2 DEF Plain
<1> QED BY <1>2, <1>5, <1>6, <1>8, <1>9, <1>10, <1>11, JobsMove

LEMMA PumpKeeps ==
  ASSUME ShutdownIInv, Pump
  PROVE  ShutdownIInv'
<1>1. Plain /\ Sized(job) /\ CleanShutdown /\ Quiesced /\ QuietAtLast /\ Gone
  BY Parts
<1>2. /\ pump = TRUE /\ pump' = FALSE /\ job' \in Fill(job)
      /\ UNCHANGED <<stage, timedOut, orphaned, timers, recovery, retention, notices, awaited, wrote>>
  BY <1>1 DEF Pump, Plain
<1>3. Sized(job') /\ InFlight(job') = InFlight(job) /\ Orphans(job') = Orphans(job)
  BY <1>1, <1>2, FillKeeps
<1>4. IdleOver => timedOut \/ orphaned
  BY <1>2, NotQuiet
<1>5. /\ pump' \in BOOLEAN /\ recovery' \in BOOLEAN /\ (recovery' => recovery)
      /\ notices' \subseteq Jobs /\ awaited' \subseteq Jobs /\ wrote' \subseteq Jobs
  BY <1>1, <1>2 DEF Plain
<1> QED BY <1>2, <1>3, <1>4, <1>5, JobsMove

\* A job on a worker ends, and the workers take what is queued.
LEMMA SettledKeeps ==
  ASSUME Sized(job), NEW j \in Jobs, NEW x \in {"lost", "done"},
         NEW g \in Settled([job EXCEPT ![j] = x])
  PROVE  Sized(g) /\ InFlight(g) \subseteq InFlight(job) /\ Orphans(g) \subseteq Orphans(job)
<1>1. PICK f : f = [job EXCEPT ![j] = x]
  OBVIOUS
<1>2. x \in Where \ {"queued", "working", "writing"} /\ x \in Where
  BY DEF Where
<1>3. Sized(f)
  BY <1>1, <1>2, OneLeaves
<1>4. Moved(job, j, x, f)
  BY <1>1, <1>2, OneJobMoves DEF Goes, Sized
<1>5. InFlight(f) \subseteq InFlight(job) /\ Orphans(f) \subseteq Orphans(job)
  BY <1>4 DEF Moved
<1>6. g \in Fill(f)
  BY <1>1 DEF Settled
<1>7. Sized(g) /\ InFlight(g) = InFlight(f) /\ Orphans(g) = Orphans(f)
  BY <1>3, <1>6, FillKeeps
<1> QED BY <1>5, <1>7

\* It stays on its worker, and gets or gives back its client of the pool.
LEMMA StaysOn ==
  ASSUME Sized(job), NEW j \in Jobs, job[j] \in {"working", "writing"}, NEW x \in {"working", "writing"},
         job' = [job EXCEPT ![j] = x]
  PROVE  Sized(job') /\ InFlight(job') \subseteq InFlight(job) /\ Orphans(job') \subseteq Orphans(job)
<1>1. Moved(job, j, x, job')
  BY OneJobMoves DEF Goes, Sized, Where
<1>2. j \in OnWorker(job) /\ x # "queued" /\ x # "accepting" /\ x # "orphan"
  BY DEF OnWorker
<1>3. /\ job' \in [Jobs -> Where] /\ OnWorker(job') \subseteq OnWorker(job)
      /\ InQueue(job') \subseteq InQueue(job)
      /\ InFlight(job') \subseteq InFlight(job) /\ Orphans(job') \subseteq Orphans(job)
  BY <1>1, <1>2 DEF Moved
<1>4. Sized(job')
  BY <1>3, Shrinks
<1> QED BY <1>3, <1>4

LEMMA BeginKeeps ==
  ASSUME ShutdownIInv, NEW j \in Jobs, Begin(j)
  PROVE  ShutdownIInv'
<1>1. Plain /\ Sized(job) /\ CleanShutdown /\ Quiesced /\ QuietAtLast /\ Gone
  BY Parts
<1>2. /\ job[j] = "working"
      /\ \/ job' \in Settled([job EXCEPT ![j] = "lost"])
         \/ job' = [job EXCEPT ![j] = "writing"]
      /\ UNCHANGED <<stage, timedOut, orphaned, pump, timers, recovery, retention, notices, awaited, wrote>>
  BY DEF Begin
<1>3. Sized(job') /\ InFlight(job') \subseteq InFlight(job) /\ Orphans(job') \subseteq Orphans(job)
  <2>1. CASE job' \in Settled([job EXCEPT ![j] = "lost"])
    BY <1>1, <2>1, SettledKeeps
  <2>2. CASE job' = [job EXCEPT ![j] = "writing"]
    BY <1>1, <1>2, <2>2, StaysOn
  <2> QED BY <1>2, <2>1, <2>2
<1>4. OnWorker(job) # {}
  BY <1>2 DEF OnWorker
<1>5. IdleOver => timedOut \/ orphaned
  BY <1>4, NotQuiet
<1>6. /\ pump' \in BOOLEAN /\ recovery' \in BOOLEAN /\ (recovery' => recovery)
      /\ notices' \subseteq Jobs /\ awaited' \subseteq Jobs /\ wrote' \subseteq Jobs
  BY <1>1, <1>2 DEF Plain
<1> QED BY <1>2, <1>3, <1>5, <1>6, JobsMove

LEMMA WriteKeeps ==
  ASSUME ShutdownIInv, NEW j \in Jobs, Write(j)
  PROVE  ShutdownIInv'
<1>1. Plain /\ Sized(job) /\ CleanShutdown /\ Quiesced /\ QuietAtLast /\ Gone
  BY Parts
<1>2. /\ job[j] = "writing"
      /\ wrote' = IF KeysWiped THEN wrote \cup {j} ELSE wrote
      /\ \/ job' = [job EXCEPT ![j] = "working"]
         \/ job' \in Settled([job EXCEPT ![j] = "done"])
      /\ notices' \in {notices, notices \cup {j}}
      /\ UNCHANGED <<stage, timedOut, orphaned, pump, timers, recovery, retention, awaited>>
  BY DEF Write
<1>3. Sized(job') /\ InFlight(job') \subseteq InFlight(job) /\ Orphans(job') \subseteq Orphans(job)
  <2>1. CASE job' \in Settled([job EXCEPT ![j] = "done"])
    BY <1>1, <2>1, SettledKeeps
  <2>2. CASE job' = [job EXCEPT ![j] = "working"]
    BY <1>1, <1>2, <2>2, StaysOn
  <2> QED BY <1>2, <2>1, <2>2
<1>4. OnWorker(job) # {}
  BY <1>2 DEF OnWorker
<1>5. IdleOver => timedOut \/ orphaned
  BY <1>4, NotQuiet
<1>6. wrote' \subseteq Jobs /\ (wrote' # wrote => KeysWiped)
  BY <1>1, <1>2 DEF Plain
<1>7. /\ pump' \in BOOLEAN /\ recovery' \in BOOLEAN /\ (recovery' => recovery)
      /\ notices' \subseteq Jobs /\ awaited' \subseteq Jobs
  BY <1>1, <1>2 DEF Plain
<1> QED BY <1>2, <1>3, <1>5, <1>6, <1>7, JobsMove

LEMMA RecoverKeeps ==
  ASSUME ShutdownIInv, Recover
  PROVE  ShutdownIInv'
<1>1. Plain /\ Sized(job) /\ CleanShutdown /\ Quiesced /\ QuietAtLast /\ Gone
  BY Parts
<1>2. /\ recovery
      /\ UNCHANGED <<stage, timedOut, orphaned, timers, retention, notices, awaited, wrote>>
  BY DEF Recover
<1>3. /\ Sized(job') /\ InFlight(job') \subseteq InFlight(job) /\ Orphans(job') \subseteq Orphans(job)
      /\ pump' \in BOOLEAN /\ recovery' \in BOOLEAN
  <2>1. CASE recovery' = FALSE /\ UNCHANGED <<job, pump>>
    BY <1>1, <2>1 DEF Plain
  <2>2. CASE \E j \in In({"waiting"}) :
               HasRoom /\ job' = [job EXCEPT ![j] = "queued"] /\ pump' = TRUE /\ UNCHANGED recovery
    <3>1. PICK j \in Jobs : HasRoom /\ job' = [job EXCEPT ![j] = "queued"] /\ pump' = TRUE /\ UNCHANGED recovery
      BY <2>2 DEF In
    <3>2. Cardinality(OnWorker(job)) + Cardinality(InQueue(job)) < MaxBuffered
      BY <3>1, Shapes
    <3>3. Sized(job')
      BY <1>1, <3>1, <3>2, OneQueues
    <3>4. PICK x : x = "queued"
      OBVIOUS
    <3>5. Goes(job, j, x, job')
      BY <1>1, <3>1, <3>4 DEF Goes, Sized, Where
    <3>6. Moved(job, j, x, job')
      BY <3>5, OneJobMoves
    <3>7. InFlight(job') \subseteq InFlight(job) /\ Orphans(job') \subseteq Orphans(job)
      BY <3>4, <3>6 DEF Moved
    <3> QED BY <1>1, <3>1, <3>3, <3>7 DEF Plain
  <2> QED BY <2>1, <2>2 DEF Recover
<1>4. ~IdleOver
  BY <1>1, <1>2 DEF Gone, RecoveryOver
<1>5. /\ (recovery' => recovery) /\ notices' \subseteq Jobs /\ awaited' \subseteq Jobs /\ wrote' \subseteq Jobs
  BY <1>1, <1>2 DEF Plain
<1> QED BY <1>2, <1>3, <1>4, <1>5, JobsMove

-----------------------------------------------------------------------------
\* The steps that move no job: deliveries, the intervals, and the shutdown itself.
LEMMA BesidesKeeps ==
  ASSUME ShutdownIInv, (\E j \in Jobs : Delivered(j)) \/ StartRecovery \/ StartRetention \/ EndRetention
  PROVE  ShutdownIInv'
<1>1. Plain /\ Sized(job) /\ CleanShutdown /\ Quiesced /\ QuietAtLast /\ Gone
  BY Parts
<1>2. UNCHANGED <<stage, timedOut, orphaned, job, pump, timers, wrote>>
  BY DEF Delivered, StartRecovery, StartRetention, EndRetention
<1>3. Plain'
  BY <1>1 DEF Plain, Delivered, StartRecovery, StartRetention, EndRetention
<1>4. Sized(job') /\ CleanShutdown' /\ QuietAtLast'
  BY <1>1, <1>2 DEF CleanShutdown, QuietAtLast, Quiet, IdleOver, KeysWiped, PoolsEnded
<1>5. recovery' # recovery => "recovery" \in timers /\ recovery' = TRUE
  BY <1>1 DEF Delivered, StartRecovery, StartRetention, EndRetention
<1>6. retention' # retention => retention' = FALSE \/ "retention" \in timers
  BY DEF Delivered, StartRecovery, StartRetention, EndRetention
<1>7. Quiesced'
  BY <1>1, <1>2, <1>5, <1>6 DEF Quiesced, Plain, Gone, RecoveryOver, IdleOver, KeysWiped, PoolsEnded
<1>8. Gone'
  BY <1>1, <1>2, <1>5 DEF Gone, RecoveryOver, IdleOver, KeysWiped, PoolsEnded
<1> QED BY <1>3, <1>4, <1>7, <1>8, PartsNext

StageSteps == Signal \/ CloseServer \/ StopRecovery \/ AwaitRecovery \/ WaitForIdle \/ GiveUp \/ Wipe \/ EndPools \/ PoolsDown

LEMMA StageMoves ==
  ASSUME ShutdownIInv, StageSteps
  PROVE  ShutdownIInv'
<1>1. Plain /\ Sized(job) /\ CleanShutdown /\ Quiesced /\ QuietAtLast /\ Gone
  BY Parts
<1>2. UNCHANGED <<orphaned, job, pump, recovery, retention, notices, wrote>>
  BY DEF StageSteps, Signal, CloseServer, StopRecovery, AwaitRecovery, WaitForIdle, GiveUp, Wipe, EndPools, PoolsDown
<1>3. timers' \subseteq timers /\ (timedOut => timedOut')
  BY DEF StageSteps, Signal, CloseServer, StopRecovery, AwaitRecovery, WaitForIdle, GiveUp, Wipe, EndPools, PoolsDown
<1>4. Plain' /\ Sized(job') /\ CleanShutdown'
  <2>1. stage' \in Stages /\ timedOut' \in BOOLEAN /\ awaited' \subseteq Jobs
    BY <1>1 DEF Plain, Stages, StageSteps, Signal, CloseServer, StopRecovery, AwaitRecovery, WaitForIdle, GiveUp, Wipe, EndPools, PoolsDown
  <2> QED BY <1>1, <1>2, <1>3, <2>1 DEF Plain, CleanShutdown
<1>5. Quiesced'
  BY <1>1, <1>2 DEF Quiesced, Gone, RecoveryOver, IdleOver, KeysWiped, PoolsEnded, RetentionOver,
    StageSteps, Signal, CloseServer, StopRecovery, AwaitRecovery, WaitForIdle, GiveUp, Wipe, EndPools, PoolsDown
<1>6. QuietAtLast'
  <2>1. CASE WaitForIdle
    BY <1>2, <2>1, Shapes DEF WaitForIdle, AllIdle, QuietAtLast, Quiet
  <2>2. CASE GiveUp
    BY <2>2 DEF GiveUp, QuietAtLast
  <2>3. CASE Signal \/ CloseServer \/ StopRecovery \/ AwaitRecovery \/ Wipe \/ EndPools \/ PoolsDown
    <3>1. IdleOver' => IdleOver
      BY <2>3 DEF IdleOver, KeysWiped, PoolsEnded, Signal, CloseServer, StopRecovery, AwaitRecovery, Wipe, EndPools, PoolsDown
    <3> QED BY <1>1, <1>2, <1>3, <3>1 DEF QuietAtLast, Quiet
  <2> QED BY <2>1, <2>2, <2>3 DEF StageSteps
<1>7. Gone'
  <2>1. InFlight(job') = InFlight(job) /\ Orphans(job') = Orphans(job) /\ orphaned' = orphaned
    BY <1>2
  <2>2. CASE Signal
    BY <1>1, <2>1, <2>2 DEF Signal, Gone, RecoveryOver, IdleOver, KeysWiped, PoolsEnded
  <2>3. CASE CloseServer
    <3>1. stage = "closing" /\ stage' = "notifier" /\ InFlight(job) = {}
      BY <2>3, Shapes DEF CloseServer
    <3> QED BY <1>1, <2>1, <3>1 DEF Gone, RecoveryOver, IdleOver, KeysWiped, PoolsEnded
  <2>4. CASE StopRecovery
    <3>1. stage = "notifier" /\ stage' = "recovery" /\ "recovery" \notin timers'
      BY <2>4 DEF StopRecovery
    <3> QED BY <1>1, <2>1, <3>1 DEF Gone, RecoveryOver, IdleOver, KeysWiped, PoolsEnded
  <2>5. CASE AwaitRecovery
    <3>1. stage = "recovery" /\ stage' = "idle" /\ timers' = timers /\ ~recovery /\ recovery' = recovery
      BY <2>5 DEF AwaitRecovery
    <3> QED BY <1>1, <2>1, <3>1 DEF Gone, RecoveryOver, IdleOver, KeysWiped, PoolsEnded
  <2>6. CASE WaitForIdle \/ GiveUp
    <3>1. /\ stage = "idle" /\ stage' = "retention" /\ timers' = timers \ {"retention"}
          /\ recovery' = recovery
      BY <2>6 DEF WaitForIdle, GiveUp, Deadline
    <3> QED BY <1>1, <2>1, <3>1 DEF Gone, RecoveryOver, IdleOver, KeysWiped, PoolsEnded
  <2>7. CASE Wipe \/ EndPools \/ PoolsDown
    <3>1. /\ stage \in {"retention", "wiped", "ended"} /\ stage' \in {"wiped", "ended", "down"}
          /\ timers' = timers /\ recovery' = recovery
      BY <2>7 DEF Wipe, EndPools, PoolsDown
    <3> QED BY <1>1, <2>1, <3>1 DEF Gone, RecoveryOver, IdleOver, KeysWiped, PoolsEnded
  <2> QED BY <2>2, <2>3, <2>4, <2>5, <2>6, <2>7 DEF StageSteps
<1> QED BY <1>4, <1>5, <1>6, <1>7, PartsNext

-----------------------------------------------------------------------------
LEMMA ShutdownStarts == ShutdownInit => ShutdownIInv
<1> SUFFICES ASSUME ShutdownInit PROVE ShutdownIInv
  OBVIOUS
<1>1. job \in [Jobs -> Where]
  BY DEF ShutdownInit, Where
<1>2. OnWorker(job) = {} /\ InQueue(job) = {} /\ InFlight(job) = {} /\ Orphans(job) = {}
  BY DEF ShutdownInit, OnWorker, InQueue, InFlight, Orphans
<1>3. Sized(job)
  BY <1>1, <1>2, Scale, FS_EmptySet DEF Sized
<1>4. Plain /\ CleanShutdown /\ Quiesced /\ QuietAtLast /\ Gone
  BY <1>2 DEF ShutdownInit, Plain, Stages, CleanShutdown, Quiesced, QuietAtLast, Gone, RecoveryOver, IdleOver, KeysWiped, PoolsEnded
<1> QED BY <1>3, <1>4, Parts

LEMMA ShutdownKeeps == ShutdownIInv /\ [ShutdownNext]_processVars => ShutdownIInv'
<1> SUFFICES ASSUME ShutdownIInv, [ShutdownNext]_processVars PROVE ShutdownIInv'
  OBVIOUS
<1>1. CASE UNCHANGED processVars
  <2>1. Plain /\ Sized(job) /\ CleanShutdown /\ Quiesced /\ QuietAtLast /\ Gone
    BY Parts
  <2>2. Plain' /\ Sized(job') /\ CleanShutdown' /\ Quiesced' /\ QuietAtLast' /\ Gone'
    BY <1>1, <2>1 DEF processVars, Plain, CleanShutdown, Quiesced, QuietAtLast, Quiet, Gone, RecoveryOver, IdleOver, KeysWiped, PoolsEnded
  <2> QED BY <2>2, PartsNext
<1>2. CASE \E j \in Jobs : Arrive(j)
  BY <1>2, ArriveKeeps
<1>3. CASE \E j \in Jobs : Abandon(j)
  BY <1>3, AbandonKeeps
<1>4. CASE \E j \in Jobs : Accept(j)
  BY <1>4, AcceptKeeps
<1>5. CASE Pump
  BY <1>5, PumpKeeps
<1>6. CASE \E j \in Jobs : Begin(j)
  BY <1>6, BeginKeeps
<1>7. CASE \E j \in Jobs : Write(j)
  BY <1>7, WriteKeeps
<1>8. CASE Recover
  BY <1>8, RecoverKeeps
<1>9. CASE (\E j \in Jobs : Delivered(j)) \/ StartRecovery \/ StartRetention \/ EndRetention
  BY <1>9, BesidesKeeps
<1>10. CASE StageSteps
  BY <1>10, StageMoves
<1> QED BY <1>1, <1>2, <1>3, <1>4, <1>5, <1>6, <1>7, <1>8, <1>9, <1>10 DEF ShutdownNext, StageSteps

\* A process that closes never wipes its keys or ends its pools (app.ts:480-487,
\* the tasks of app.ts:369-376 and 467 before them) with a row of recovery or a
\* deletion of retention under way, and writes under wiped keys only when
\* waitForIdle gave up (message-processor.ts:164) or a failed request had left a
\* message behind; no more jobs are ever on workers or held than the process is
\* configured for.
THEOREM ShutdownSafety == ShutdownSpec => []ShutdownInv
<1>1. ShutdownIInv => ShutdownInv
  BY DEF ShutdownIInv
<1> QED BY <1>1, ShutdownStarts, ShutdownKeeps, PTL DEF ShutdownSpec

(***************************************************************************)
(* The reporting providers: the slots of the semaphores belong to the queries*)
(* that run, and the readiness answer is as fresh as it claims              *)
(***************************************************************************)

Fields == {"op", "st", "allowed", "query", "found", "at", "cursor", "seen", "twice", "lists", "calls",
           "invalid", "asked", "owner", "tables", "pg", "mongo"}

\* What a caller does, in terms of its operation.
SqlQuery(n) == Queries[n].relation \in PgRels
Admitted(n) ==
  IF SqlQuery(n) THEN Bounded(Queries[n].query, Policies[Queries[n].relation])
  ELSE MongoAccepts(Queries[n].query, Policies[Queries[n].relation])
Valid(n) == SqlQuery(n) => SqlAccepts(Queries[n].query, Policies[Queries[n].relation].types)

Placed(t) ==
  /\ DOMAIN t = Fields
  /\ t.op \in {"none", "discover", "query", "ready"}
  /\ t.op = "none" => t.st = "idle"
  /\ t.op = "discover" => t.st \in {"catalog", "load", "paused"}
  /\ t.op = "ready" => t.st \in {"tables", "join", "catalog", "load", "select", "pg"}
  /\ t.op = "query" =>
       /\ t.st \in {"queued", "catalog", "load", "exec", "leave"}
       /\ t.st \in {"catalog", "load"} => SqlQuery(t.query)
       /\ Admitted(t.query)
       /\ t.st = "exec" => Valid(t.query)

\* u is t at another place, and nothing else a query or a probe goes by.
Kept(t, u) ==
  /\ DOMAIN u = Fields /\ u.op = t.op /\ u.query = t.query
  /\ u.asked = t.asked /\ u.owner = t.owner

Evidence(t, u) == u.tables = t.tables /\ u.pg = t.pg /\ u.mongo = t.mongo

-----------------------------------------------------------------------------
LEMMA IdleIs == DOMAIN Idle = Fields /\ Idle.op = "none" /\ Idle.st = "idle"
  BY DEF Idle, Fields

LEMMA Steps ==
  ASSUME NEW t, DOMAIN t = Fields, NEW x, NEW u, u = [t EXCEPT !.st = x]
  PROVE  Kept(t, u) /\ Evidence(t, u) /\ u.st = x
  BY DEF Fields, Kept, Evidence

SetPg(t, x, y) == [t EXCEPT !.st = x, !.pg = y]
SetTables(t, x, y) == [t EXCEPT !.st = x, !.tables = y]
SetMongo(t, y) == [t EXCEPT !.mongo = y]
SetOwner(t, o) == [t EXCEPT !.st = "join", !.owner = o]

LEMMA StepsWithPg ==
  ASSUME NEW t, DOMAIN t = Fields, NEW x, NEW y, NEW u, u = SetPg(t, x, y)
  PROVE  Kept(t, u) /\ u.st = x /\ u.pg = y /\ u.tables = t.tables /\ u.mongo = t.mongo
  BY DEF Fields, Kept, SetPg

LEMMA StepsWithTables ==
  ASSUME NEW t, DOMAIN t = Fields, NEW x, NEW y, NEW u, u = SetTables(t, x, y)
  PROVE  Kept(t, u) /\ u.st = x /\ u.tables = y /\ u.pg = t.pg /\ u.mongo = t.mongo
  BY DEF Fields, Kept, SetTables

LEMMA Pinged ==
  ASSUME NEW t, DOMAIN t = Fields, NEW y, NEW u, u = SetMongo(t, y)
  PROVE  Kept(t, u) /\ u.st = t.st /\ u.mongo = y /\ u.tables = t.tables /\ u.pg = t.pg
  BY DEF Fields, Kept, SetMongo

LEMMA Begins ==
  ASSUME NEW n, NEW a, NEW k
  PROVE  /\ LET t == [Idle EXCEPT !.op = "discover", !.st = "catalog", !.allowed = a, !.calls = 1] IN
            DOMAIN t = Fields /\ t.op = "discover" /\ t.st = "catalog"
         /\ LET t == [Idle EXCEPT !.op = "query", !.query = n] IN
            DOMAIN t = Fields /\ t.op = "query" /\ t.query = n
         /\ LET t == [Idle EXCEPT !.op = "ready", !.asked = k] IN
            /\ DOMAIN t = Fields /\ t.op = "ready" /\ t.asked = k
            /\ t.mongo = "asked" /\ t.pg = "asked" /\ t.tables = FALSE
  BY DEF Fields, Idle

LEMMA Joined ==
  ASSUME NEW t, DOMAIN t = Fields, NEW o, NEW u, u = SetOwner(t, o)
  PROVE  DOMAIN u = Fields /\ u.op = t.op /\ u.st = "join" /\ u.owner = o /\ u.asked = t.asked
  BY DEF Fields, SetOwner

LEMMA Updated ==
  ASSUME NEW f, DOMAIN f = Callers, NEW c \in Callers, NEW u
  PROVE  LET g == [f EXCEPT ![c] = u] IN
         DOMAIN g = Callers /\ g[c] = u /\ \A d \in Callers \ {c} : g[d] = f[d]
  OBVIOUS

\* A discovery goes on discovering.
Discovers(u) == DOMAIN u = Fields /\ u.op = "discover" /\ u.st \in {"catalog", "load", "paused"}

LEMMA InvalidIs ==
  ASSUME NEW t, DOMAIN t = Fields, t.op = "discover"
  PROVE  Discovers(Invalid(t))
<1> DEFINE u == [t EXCEPT !.st = "paused", !.cursor = None, !.invalid = TRUE]
<1>1. DOMAIN u = Fields /\ u.op = "discover" /\ u.st = "paused"
  BY DEF Fields
<1> QED BY <1>1 DEF Invalid, Discovers

LEMMA MergedIs ==
  ASSUME NEW t, DOMAIN t = Fields, t.op = "discover"
  PROVE  Discovers(Merged(t))
<1> DEFINE list == t.found \cup (MongoRels \cap t.allowed)
           rest == After(list, t.cursor)
           page == Prefix(rest, Size)
           u == [t EXCEPT !.found = {}, !.at = None, !.allowed = {}]
           v == [u EXCEPT !.st = "paused", !.seen = @ \cup page,
                          !.twice = @ \/ page \cap t.seen # {},
                          !.cursor = IF More(rest) THEN Max(page) ELSE None]
<1>1. Merged(t) = IF (t.cursor # None /\ t.cursor \notin list) \/ TooLarge(rest) THEN Invalid(u) ELSE v
  BY DEF Merged
<1>2. DOMAIN u = Fields /\ u.op = "discover"
  BY DEF Fields
<1> HIDE DEF u
<1>3. Discovers(Invalid(u))
  BY <1>2, InvalidIs
<1>4. DOMAIN v = Fields /\ v.op = "discover" /\ v.st = "paused"
  BY <1>2 DEF Fields
<1> HIDE DEF v
<1>5. Discovers(v)
  BY <1>4 DEF Discovers
<1> QED BY <1>1, <1>3, <1>5

LEMMA WalkedIs ==
  ASSUME NEW t, DOMAIN t = Fields, t.op = "discover", NEW value
  PROVE  Discovers(Walked(t, value))
<1> DEFINE list == value \cap t.allowed
           rest == After(list, t.at)
           u == [t EXCEPT !.lists = Append(@, list \cup (MongoRels \cap t.allowed)),
                          !.found = @ \cup Prefix(rest, Size)]
           next == Max(Prefix(rest, Size))
           v == [u EXCEPT !.st = "catalog", !.at = next]
<1>1. Walked(t, value) = IF (t.at # None /\ t.at \notin list) \/ TooLarge(rest) THEN Invalid(u)
                         ELSE IF ~More(rest) THEN Merged(u)
                         ELSE IF next = t.at THEN Invalid(u) ELSE v
  BY DEF Walked
<1>2. DOMAIN u = Fields /\ u.op = "discover"
  BY DEF Fields
<1> HIDE DEF u
<1>3. Discovers(Invalid(u)) /\ Discovers(Merged(u))
  BY <1>2, InvalidIs, MergedIs
<1>4. DOMAIN v = Fields /\ v.op = "discover" /\ v.st = "catalog"
  BY <1>2 DEF Fields
<1> HIDE DEF v
<1>5. Discovers(v)
  BY <1>4 DEF Discovers
<1> QED BY <1>1, <1>3, <1>5

-----------------------------------------------------------------------------
\* The slot a caller has, and the one it waits for.
HoldsAt(t, s) ==
  /\ t.op = "query" /\ Source(Queries[t.query].relation) = s
  /\ t.st \in {"catalog", "load", "exec", "leave"}
WaitsAt(t, s) == t.st = "queued" /\ Source(Queries[t.query].relation) = s
Alike(t, u) == \A s \in Sources : (HoldsAt(t, s) <=> HoldsAt(u, s)) /\ (WaitsAt(t, s) <=> WaitsAt(u, s))

\* A readiness request that asks by itself, and one that waits for another's answer.
Probing(t) == t.op = "ready" /\ t.st # "join"
Joining(t) == t.op = "ready" /\ t.st = "join"
Quietly(t, u) ==
  \/ t.op # "ready" /\ u.op # "ready"
  \/ Probing(t) /\ Probing(u) /\ u.asked = t.asked

\* What a probe has learned at n is true after it was asked: w and b say when
\* each source last was complete, and when not.
ProbeAt(t, n, w, b) ==
  /\ t.asked \in Nat /\ t.asked <= n
  /\ t.mongo \in {"asked", "ok", "bad"} /\ t.pg \in {"asked", "ok", "bad"} /\ t.tables \in BOOLEAN
  /\ t.mongo = "ok" => w["mongo"] >= t.asked
  /\ t.mongo = "bad" => b["mongo"] >= t.asked
  /\ t.pg = "ok" => w["pg"] >= t.asked
  /\ t.pg = "bad" => b["pg"] >= t.asked - CatalogTtl
  /\ t.st = "pg" => t.pg # "asked"
  /\ t.tables = FALSE /\ t.st # "tables" => b["pg"] >= t.asked

\* A catalog that is not complete was read while one of its views was not.
CatalogAt(k, n, b) ==
  k.expires > n /\ k.value # PgRels => b["pg"] >= k.expires - CatalogTtl

LEMMA PlacedIs ==
  ASSUME NEW t, Placed(t)
  PROVE  /\ DOMAIN t = Fields
         /\ t.st = "queued" => t.op = "query"
         /\ t.st \in {"catalog", "load"} => t.op \in {"discover", "query", "ready"}
         /\ t.st \in {"exec", "leave"} => t.op = "query"
         /\ t.st \in {"tables", "join", "select", "pg"} => t.op = "ready"
         /\ t.st = "paused" => t.op = "discover"
  BY DEF Placed

LEMMA Discovering ==
  ASSUME NEW t, NEW u, Discovers(t), Discovers(u)
  PROVE  Placed(u) /\ Alike(t, u) /\ Quietly(t, u)
  BY DEF Discovers, Placed, Alike, HoldsAt, WaitsAt, Quietly

LEMMA ValidatedIs ==
  ASSUME NEW t, Placed(t), t.op = "query", t.st \in {"catalog", "load"}, NEW value
  PROVE  LET u == Validated(t, value) IN Placed(u) /\ Alike(t, u) /\ Quietly(t, u)
<1> DEFINE u == Validated(t, value)
<1>1. PICK x : /\ u = [t EXCEPT !.st = x] /\ x \in {"exec", "leave"}
               /\ x = "exec" => Valid(t.query)
  BY DEF Validated, Valid
<1>2. DOMAIN t = Fields /\ Admitted(t.query)
  BY DEF Placed
<1> HIDE DEF u
<1>3. Kept(t, u) /\ u.st = x
  BY <1>1, <1>2, Steps
<1>4. Placed(u)
  BY <1>1, <1>2, <1>3 DEF Placed, Kept
<1>5. Alike(t, u) /\ Quietly(t, u)
  BY <1>1, <1>3 DEF Alike, HoldsAt, WaitsAt, Quietly, Kept
<1> QED BY <1>4, <1>5 DEF u

\* What a catalog at hand says to a probe.
LEMMA JudgedIs ==
  ASSUME NEW t, Placed(t), t.op = "ready", t.st \in {"catalog", "load"}, NEW value
  PROVE  LET u == Judged(t, value) IN
         /\ Placed(u) /\ Alike(t, u) /\ Quietly(t, u)
         /\ \A n, w, b : /\ ProbeAt(t, n, w, b)
                         /\ value # PgRels => b["pg"] >= t.asked - CatalogTtl
                         => ProbeAt(u, n, w, b)
<1> DEFINE u == Judged(t, value)
<1>1. DOMAIN t = Fields
  BY DEF Placed
<1>2. CASE value = PgRels
  <2>1. u = [t EXCEPT !.st = "select"]
    BY <1>2 DEF Judged
  <2> HIDE DEF u
  <2>2. Kept(t, u) /\ Evidence(t, u) /\ u.st = "select"
    BY <1>1, <2>1, Steps
  <2>3. Placed(u)
    BY <2>2 DEF Placed, Kept
  <2>4. Alike(t, u) /\ Quietly(t, u)
    BY <2>2 DEF Alike, HoldsAt, WaitsAt, Quietly, Kept, Probing
  <2>5. ASSUME NEW n, NEW w, NEW b, ProbeAt(t, n, w, b) PROVE ProbeAt(u, n, w, b)
    BY <2>2, <2>5 DEF ProbeAt, Kept, Evidence
  <2> QED BY <2>3, <2>4, <2>5 DEF u
<1>3. CASE value # PgRels
  <2>1. u = [t EXCEPT !.st = "pg", !.pg = "bad"]
    BY <1>3 DEF Judged
  <2> HIDE DEF u
  <2>2. Kept(t, u) /\ u.st = "pg" /\ u.pg = "bad" /\ u.tables = t.tables /\ u.mongo = t.mongo
    <3>1. u = SetPg(t, "pg", "bad")
      BY <2>1 DEF SetPg
    <3> QED BY <1>1, <3>1, StepsWithPg
  <2>3. Placed(u)
    BY <2>2 DEF Placed, Kept
  <2>4. Alike(t, u) /\ Quietly(t, u)
    BY <2>2 DEF Alike, HoldsAt, WaitsAt, Quietly, Kept, Probing
  <2>5. ASSUME NEW n, NEW w, NEW b, ProbeAt(t, n, w, b), b["pg"] >= t.asked - CatalogTtl
        PROVE  ProbeAt(u, n, w, b)
    BY <2>2, <2>5 DEF ProbeAt, Kept
  <2> QED BY <1>3, <2>3, <2>4, <2>5 DEF u
<1> QED BY <1>2, <1>3

LEMMA ProceedIs ==
  ASSUME NEW t, Placed(t), t.st \in {"catalog", "load"}, NEW value
  PROVE  LET u == Proceed(t, value) IN
         /\ Placed(u) /\ Alike(t, u) /\ Quietly(t, u)
         /\ \A n, w, b : /\ ProbeAt(t, n, w, b) /\ Probing(t)
                         /\ value # PgRels => b["pg"] >= t.asked - CatalogTtl
                         => ProbeAt(u, n, w, b)
<1>1. DOMAIN t = Fields /\ t.op \in {"discover", "query", "ready"}
  BY PlacedIs
<1>2. CASE t.op = "discover"
  <2>1. Proceed(t, value) = Walked(t, value)
    BY <1>2 DEF Proceed
  <2>2. Discovers(t) /\ Discovers(Walked(t, value))
    BY <1>1, <1>2, WalkedIs DEF Discovers
  <2>3. Placed(Walked(t, value)) /\ Alike(t, Walked(t, value)) /\ Quietly(t, Walked(t, value))
    BY <2>2, Discovering
  <2> QED BY <1>2, <2>1, <2>3 DEF Probing
<1>3. CASE t.op = "query"
  <2>1. Proceed(t, value) = Validated(t, value)
    BY <1>3 DEF Proceed
  <2> QED BY <1>3, <2>1, ValidatedIs DEF Probing
<1>4. CASE t.op = "ready"
  <2>1. Proceed(t, value) = Judged(t, value)
    BY <1>4 DEF Proceed
  <2> QED BY <1>4, <2>1, JudgedIs
<1> QED BY <1>1, <1>2, <1>3, <1>4

\* What a load that failed says: the source is not whole.
LEMMA ThrewIs ==
  ASSUME NEW t, Placed(t), t.st = "load"
  PROVE  LET u == Threw(t) IN
         /\ Placed(u) /\ Alike(t, u) /\ Quietly(t, u)
         /\ \A n, w, b : ProbeAt(t, n, w, b) /\ Probing(t) /\ b["pg"] >= t.asked - CatalogTtl
                         => ProbeAt(u, n, w, b)
<1>1. DOMAIN t = Fields /\ t.op \in {"discover", "query", "ready"}
  BY PlacedIs
<1>2. CASE t.op = "discover"
  <2>1. Threw(t) = Idle
    BY <1>2 DEF Threw
  <2>2. Placed(Idle) /\ Quietly(t, Idle)
    BY <1>2, IdleIs DEF Placed, Quietly
  <2>3. Alike(t, Idle)
    BY <1>2, IdleIs DEF Alike, HoldsAt, WaitsAt
  <2> QED BY <1>2, <2>1, <2>2, <2>3 DEF Probing
<1>3. CASE t.op = "query"
  <2> DEFINE u == [t EXCEPT !.st = "leave"]
  <2>1. Threw(t) = u
    BY <1>3 DEF Threw
  <2>2. Kept(t, u) /\ u.st = "leave"
    BY <1>1, Steps
  <2> HIDE DEF u
  <2>3. Placed(u)
    BY <1>3, <2>2 DEF Placed, Kept
  <2>4. Alike(t, u) /\ Quietly(t, u)
    BY <1>3, <2>2 DEF Alike, HoldsAt, WaitsAt, Quietly, Kept
  <2> QED BY <1>3, <2>1, <2>3, <2>4 DEF Probing
<1>4. CASE t.op = "ready"
  <2> DEFINE u == [t EXCEPT !.st = "pg", !.pg = "bad"]
  <2>1. Threw(t) = u /\ u = [t EXCEPT !.st = "pg", !.pg = "bad"]
    BY <1>4 DEF Threw
  <2> HIDE DEF u
  <2>2. Kept(t, u) /\ u.st = "pg" /\ u.pg = "bad" /\ u.tables = t.tables /\ u.mongo = t.mongo
    <3>1. u = SetPg(t, "pg", "bad")
      BY <2>1 DEF SetPg
    <3> QED BY <1>1, <3>1, StepsWithPg
  <2>3. Placed(u)
    BY <1>4, <2>2 DEF Placed, Kept
  <2>4. Alike(t, u) /\ Quietly(t, u)
    BY <1>4, <2>2 DEF Alike, HoldsAt, WaitsAt, Quietly, Kept, Probing
  <2>5. ASSUME NEW n, NEW w, NEW b, ProbeAt(t, n, w, b), b["pg"] >= t.asked - CatalogTtl
        PROVE  ProbeAt(u, n, w, b)
    BY <2>2, <2>5 DEF ProbeAt, Kept
  <2> QED BY <2>1, <2>3, <2>4, <2>5
<1> QED BY <1>1, <1>2, <1>3, <1>4

-----------------------------------------------------------------------------
\* A queue: who stands in it, and each once.
Line(q) == {q[i] : i \in DOMAIN q}
Distinct(q) == \A i, j \in DOMAIN q : q[i] = q[j] => i = j

Shortened(S, q, i, r) ==
  /\ q \in Seq(S) /\ Distinct(q) /\ i \in 1..Len(q) /\ r \in Seq(S) /\ Len(r) = Len(q) - 1
  /\ \A k \in 1..Len(r) : r[k] = IF k < i THEN q[k] ELSE q[k + 1]

LEMMA Drops ==
  ASSUME NEW S, NEW q, NEW i, NEW r, Shortened(S, q, i, r)
  PROVE  Distinct(r) /\ Line(r) = Line(q) \ {q[i]}
<1>0. /\ q \in Seq(S) /\ Distinct(q) /\ i \in 1..Len(q) /\ r \in Seq(S) /\ Len(r) = Len(q) - 1
      /\ \A k \in 1..Len(r) : r[k] = IF k < i THEN q[k] ELSE q[k + 1]
  BY DEF Shortened
<1>1. DOMAIN q = 1..Len(q) /\ DOMAIN r = 1..Len(r) /\ Len(q) \in Nat /\ Len(r) \in Nat
  BY <1>0
<1>2. Distinct(r)
  <2>1. ASSUME NEW k \in 1..Len(r), NEW l \in 1..Len(r), r[k] = r[l] PROVE k = l
    <3> DEFINE kk == IF k < i THEN k ELSE k + 1
               ll == IF l < i THEN l ELSE l + 1
    <3>1. kk \in 1..Len(q) /\ ll \in 1..Len(q) /\ (kk = ll => k = l)
      BY <1>0, <1>1
    <3>2. r[k] = q[kk] /\ r[l] = q[ll]
      BY <1>0
    <3> HIDE DEF kk, ll
    <3>3. kk = ll
      BY <1>0, <1>1, <2>1, <3>1, <3>2 DEF Distinct
    <3> QED BY <3>1, <3>3
  <2> QED BY <1>0, <1>1, <2>1 DEF Distinct
<1>3. Line(r) \subseteq Line(q) \ {q[i]}
  <2>1. ASSUME NEW k \in 1..Len(r) PROVE r[k] \in Line(q) /\ r[k] # q[i]
    <3> DEFINE kk == IF k < i THEN k ELSE k + 1
    <3>1. kk \in 1..Len(q) /\ kk # i
      BY <1>0, <1>1
    <3>2. r[k] = q[kk]
      BY <1>0
    <3> HIDE DEF kk
    <3> QED BY <1>0, <1>1, <3>1, <3>2 DEF Line, Distinct
  <2> QED BY <1>0, <1>1, <2>1 DEF Line
<1>4. Line(q) \ {q[i]} \subseteq Line(r)
  <2>1. ASSUME NEW k \in 1..Len(q), q[k] # q[i] PROVE q[k] \in Line(r)
    <3> DEFINE kk == IF k < i THEN k ELSE k - 1
    <3>1. kk \in 1..Len(r) /\ k = IF kk < i THEN kk ELSE kk + 1
      BY <1>0, <1>1, <2>1
    <3> HIDE DEF kk
    <3>2. r[kk] = q[k]
      BY <1>0, <3>1
    <3> QED BY <1>1, <3>1, <3>2 DEF Line
  <2> QED BY <1>0, <1>1, <2>1 DEF Line
<1> QED BY <1>2, <1>3, <1>4

LEMMA Removed ==
  ASSUME NEW S, NEW q \in Seq(S), Distinct(q), NEW i \in DOMAIN q, NEW r, r = RemoveAt(q, i)
  PROVE  r \in Seq(S) /\ Len(r) = Len(q) - 1 /\ Distinct(r) /\ Line(r) = Line(q) \ {q[i]}
<1>1. DOMAIN q = 1..Len(q) /\ Len(q) \in Nat /\ i \in 1..Len(q) /\ i \in Nat
  OBVIOUS
<1>2. PICK a, b : a = SubSeq(q, 1, i - 1) /\ b = SubSeq(q, i + 1, Len(q)) /\ r = a \o b
  BY DEF RemoveAt
<1>3. a \in Seq(S) /\ Len(a) = i - 1 /\ \A k \in 1..(i - 1) : a[k] = q[k]
  <2>1. PICK n, m : m = 1 /\ n = i - 1
    OBVIOUS
  <2>2. m \in Int /\ n \in Int /\ \A k \in m..n : q[k] \in S
    BY <1>1, <2>1
  <2>3. /\ SubSeq(q, m, n) \in Seq(S)
        /\ Len(SubSeq(q, m, n)) = IF m <= n THEN n - m + 1 ELSE 0
        /\ \A k \in 1..(n - m + 1) : SubSeq(q, m, n)[k] = q[m + k - 1]
    BY <2>2, SubSeqProperties
  <2>4. SubSeq(q, m, n) = a
    BY <1>2, <2>1
  <2>5. a \in Seq(S) /\ Len(a) = IF m <= n THEN n - m + 1 ELSE 0
    BY <2>3, <2>4
  <2>6. \A k \in 1..(n - m + 1) : a[k] = q[m + k - 1]
    BY <2>3, <2>4
  <2>7. n - m + 1 = i - 1 /\ (~(m <= n) => i - 1 = 0) /\ \A k \in Nat : m + k - 1 = k
    BY <1>1, <2>1
  <2> QED BY <2>1, <2>5, <2>6, <2>7
<1>4. b \in Seq(S) /\ Len(b) = Len(q) - i /\ \A k \in 1..(Len(q) - i) : b[k] = q[i + k]
  <2>1. PICK n, m : m = i + 1 /\ n = Len(q)
    OBVIOUS
  <2>2. m \in Int /\ n \in Int /\ \A k \in m..n : q[k] \in S
    BY <1>1, <2>1
  <2>3. /\ SubSeq(q, m, n) \in Seq(S)
        /\ Len(SubSeq(q, m, n)) = IF m <= n THEN n - m + 1 ELSE 0
        /\ \A k \in 1..(n - m + 1) : SubSeq(q, m, n)[k] = q[m + k - 1]
    BY <2>2, SubSeqProperties
  <2>4. SubSeq(q, m, n) = b
    BY <1>2, <2>1
  <2>5. b \in Seq(S) /\ Len(b) = IF m <= n THEN n - m + 1 ELSE 0
    BY <2>3, <2>4
  <2>6. \A k \in 1..(n - m + 1) : b[k] = q[m + k - 1]
    BY <2>3, <2>4
  <2>7. n - m + 1 = n - i /\ (~(m <= n) => n - i = 0) /\ \A k \in Nat : m + k - 1 = i + k
    BY <1>1, <2>1
  <2>8. Len(b) = n - i
    BY <1>1, <2>1, <2>5, <2>7
  <2>9. \A k \in 1..(n - i) : b[k] = q[i + k]
    <3>1. ASSUME NEW k \in 1..(n - i) PROVE b[k] = q[i + k]
      <4>1. n \in Nat /\ n - m + 1 = n - i /\ m + k - 1 = i + k
        BY <1>1, <2>1
      <4>2. b[k] = q[m + k - 1]
        BY <2>6, <4>1
      <4> QED BY <4>1, <4>2
    <3> QED BY <3>1
  <2> QED BY <2>1, <2>5, <2>8, <2>9
<1>5. /\ r \in Seq(S) /\ Len(r) = Len(q) - 1
      /\ \A k \in 1..Len(r) : r[k] = IF k <= Len(a) THEN a[k] ELSE b[k - Len(a)]
  <2>1. /\ a \o b \in Seq(S) /\ Len(a \o b) = Len(a) + Len(b)
        /\ \A k \in 1..(Len(a) + Len(b)) : (a \o b)[k] = IF k <= Len(a) THEN a[k] ELSE b[k - Len(a)]
    BY <1>3, <1>4, ConcatProperties
  <2>2. Len(a) + Len(b) = Len(q) - 1
    BY <1>1, <1>3, <1>4
  <2> QED BY <1>2, <2>1, <2>2
<1>6. \A k \in 1..Len(r) : r[k] = IF k < i THEN q[k] ELSE q[k + 1]
  <2>1. TAKE k \in 1..Len(r)
  <2>2. CASE k < i
    <3>1. k \in 1..(i - 1) /\ k <= Len(a)
      BY <1>1, <1>3, <1>5, <2>2
    <3> QED BY <1>3, <1>5, <2>2, <3>1
  <2>3. CASE ~(k < i)
    <3>1. k - (i - 1) \in 1..(Len(q) - i) /\ i + (k - (i - 1)) = k + 1
      BY <1>1, <1>5, <2>3
    <3>2. r[k] = b[k - (i - 1)]
      BY <1>1, <1>3, <1>5, <2>3
    <3> QED BY <1>4, <2>3, <3>1, <3>2
  <2> QED BY <2>2, <2>3
<1>7. i \in 1..Len(q) /\ r \in Seq(S) /\ Len(r) = Len(q) - 1
  BY <1>1, <1>5
<1>8. Distinct(r) /\ Line(r) = Line(q) \ {q[i]}
  <2>1. Shortened(S, q, i, r)
    BY <1>6, <1>7 DEF Shortened
  <2> QED BY <2>1, Drops
<1> QED BY <1>7, <1>8

LEMMA Tailed ==
  ASSUME NEW S, NEW q \in Seq(S), Distinct(q), q # <<>>
  PROVE  /\ Tail(q) \in Seq(S) /\ Len(Tail(q)) = Len(q) - 1 /\ Distinct(Tail(q))
         /\ Line(Tail(q)) = Line(q) \ {Head(q)} /\ Head(q) \in Line(q)
<1>1. Len(q) \in Nat \ {0} /\ 1 \in 1..Len(q) /\ Head(q) = q[1] /\ DOMAIN q = 1..Len(q)
  OBVIOUS
<1>2. PICK r : r = Tail(q)
  OBVIOUS
<1>3. r \in Seq(S) /\ Len(r) = Len(q) - 1 /\ \A k \in 1..Len(r) : r[k] = IF k < 1 THEN q[k] ELSE q[k + 1]
  BY <1>1, <1>2
<1>4. Distinct(r) /\ Line(r) = Line(q) \ {q[1]}
  <2>1. PICK i : i = 1
    OBVIOUS
  <2>2. Distinct(r) /\ Line(r) = Line(q) \ {q[i]}
    <3>1. Shortened(S, q, i, r)
      BY <1>1, <1>3, <2>1 DEF Shortened
    <3> QED BY <3>1, Drops
  <2> QED BY <2>1, <2>2
<1>5. Head(q) \in Line(q)
  BY <1>1 DEF Line
<1> QED BY <1>1, <1>2, <1>3, <1>4, <1>5

LEMMA Queued ==
  ASSUME NEW S, NEW q \in Seq(S), Distinct(q), NEW c \in S, c \notin Line(q)
  PROVE  /\ Append(q, c) \in Seq(S) /\ Len(Append(q, c)) = Len(q) + 1
         /\ Distinct(Append(q, c)) /\ Line(Append(q, c)) = Line(q) \cup {c}
<1>0. PICK r : r = Append(q, c)
  OBVIOUS
<1>1. /\ r \in Seq(S) /\ Len(r) = Len(q) + 1 /\ r[Len(q) + 1] = c
      /\ Len(q) \in Nat /\ DOMAIN q = 1..Len(q) /\ DOMAIN r = 1..(Len(q) + 1)
      /\ \A k \in 1..Len(q) : r[k] = q[k] /\ q[k] # c
  BY <1>0 DEF Line
<1>2. \A k \in 1..(Len(q) + 1) : k \in 1..Len(q) \/ k = Len(q) + 1
  BY <1>1
<1>3. Distinct(r)
  BY <1>1, <1>2 DEF Distinct
<1>4. Line(r) = Line(q) \cup {c}
  BY <1>1, <1>2 DEF Line
<1> QED BY <1>0, <1>1, <1>3, <1>4

-----------------------------------------------------------------------------
\* One semaphore: n slots taken by the callers of h, and the queue q of those of w.
SlotAt(n, q, h, w) ==
  /\ h \subseteq Callers /\ n = Cardinality(h) /\ n <= Capacity
  /\ q \in Seq(Callers) /\ Distinct(q) /\ Line(q) = w /\ Len(q) <= MaxQueued
  /\ q # <<>> => n = Capacity

LEMMA Limits == Capacity \in Nat \ {0} /\ ReadyTtl \in Nat \ {0} /\ CatalogTtl \in Nat /\ MaxQueued \in Nat
                /\ IsFiniteSet(Callers) /\ NoCaller \notin Callers
  BY Scaled

LEMMA Counted ==
  ASSUME NEW h, h \subseteq Callers
  PROVE  IsFiniteSet(h) /\ Cardinality(h) \in Nat
  BY Limits, FS_Subset, FS_CardinalityType

LEMMA Took ==
  ASSUME NEW n, NEW q, NEW h, NEW w, SlotAt(n, q, h, w), n < Capacity, NEW c \in Callers, c \notin h
  PROVE  SlotAt(n + 1, q, h \cup {c}, w)
<1>1. h \subseteq Callers /\ n = Cardinality(h) /\ q = <<>>
  BY Limits, Counted DEF SlotAt
<1>2. IsFiniteSet(h) /\ n \in Nat
  BY <1>1, Counted
<1>3. Cardinality(h \cup {c}) = n + 1
  BY <1>1, <1>2, FS_AddElement
<1>4. n + 1 <= Capacity
  BY <1>2, Limits
<1> QED BY <1>1, <1>3, <1>4 DEF SlotAt

LEMMA Waited ==
  ASSUME NEW n, NEW q, NEW h, NEW w, SlotAt(n, q, h, w), n >= Capacity, Len(q) < MaxQueued,
         NEW c \in Callers, c \notin w
  PROVE  SlotAt(n, Append(q, c), h, w \cup {c})
<1>1. h \subseteq Callers /\ n = Cardinality(h) /\ n <= Capacity /\ q \in Seq(Callers) /\ Distinct(q) /\ Line(q) = w
  BY DEF SlotAt
<1>2. n = Capacity
  BY <1>1, Limits, Counted
<1>3. PICK r : r = Append(q, c)
  OBVIOUS
<1>4. r \in Seq(Callers) /\ Len(r) = Len(q) + 1 /\ Distinct(r) /\ Line(r) = w \cup {c}
  <2>1. q \in Seq(Callers) /\ Distinct(q) /\ c \notin Line(q)
    BY <1>1
  <2>2. /\ Append(q, c) \in Seq(Callers) /\ Len(Append(q, c)) = Len(q) + 1
        /\ Distinct(Append(q, c)) /\ Line(Append(q, c)) = Line(q) \cup {c}
    BY <2>1, Queued
  <2> QED BY <1>1, <1>3, <2>2
<1>5. Len(r) <= MaxQueued
  BY <1>1, <1>4, Limits
<1>6. SlotAt(n, r, h, w \cup {c})
  BY <1>1, <1>2, <1>4, <1>5 DEF SlotAt
<1> QED BY <1>3, <1>6

LEMMA GaveUp ==
  ASSUME NEW n, NEW q, NEW h, NEW w, SlotAt(n, q, h, w), NEW i \in DOMAIN q
  PROVE  SlotAt(n, RemoveAt(q, i), h, w \ {q[i]})
<1>1. /\ h \subseteq Callers /\ n = Cardinality(h) /\ n <= Capacity /\ q \in Seq(Callers) /\ Distinct(q)
      /\ Line(q) = w /\ Len(q) <= MaxQueued /\ (q # <<>> => n = Capacity)
  BY DEF SlotAt
<1>2. PICK r : r = RemoveAt(q, i)
  OBVIOUS
<1>3. r \in Seq(Callers) /\ Len(r) = Len(q) - 1 /\ Distinct(r) /\ Line(r) = w \ {q[i]}
  BY <1>1, <1>2, Removed
<1>4. Len(r) <= MaxQueued /\ q # <<>>
  BY <1>1, <1>3, Limits
<1>5. SlotAt(n, r, h, w \ {q[i]})
  BY <1>1, <1>3, <1>4 DEF SlotAt
<1> QED BY <1>2, <1>5

LEMMA HandedOver ==
  ASSUME NEW n, NEW q, NEW h, NEW w, SlotAt(n, q, h, w), q # <<>>, h \cap w = {}, NEW c \in h
  PROVE  /\ Head(q) \in w /\ Head(q) \in Callers
         /\ SlotAt(n, Tail(q), (h \ {c}) \cup {Head(q)}, w \ {Head(q)})
<1>1. /\ h \subseteq Callers /\ n = Cardinality(h) /\ n <= Capacity /\ q \in Seq(Callers) /\ Distinct(q)
      /\ Line(q) = w /\ Len(q) <= MaxQueued /\ n = Capacity
  BY DEF SlotAt
<1>2. PICK r, d : r = Tail(q) /\ d = Head(q)
  OBVIOUS
<1>3. /\ r \in Seq(Callers) /\ Len(r) = Len(q) - 1 /\ Distinct(r) /\ Line(r) = w \ {d} /\ d \in w
      /\ d \in Callers
  <2>1. /\ Tail(q) \in Seq(Callers) /\ Len(Tail(q)) = Len(q) - 1 /\ Distinct(Tail(q))
        /\ Line(Tail(q)) = Line(q) \ {Head(q)} /\ Head(q) \in Line(q)
    BY <1>1, Tailed
  <2>2. Line(q) \subseteq Callers
    BY <1>1 DEF Line
  <2> QED BY <1>1, <1>2, <2>1, <2>2
<1>4. PICK k : k = h \ {c}
  OBVIOUS
<1>5. k \subseteq Callers /\ d \notin k /\ IsFiniteSet(h) /\ n \in Nat
  BY <1>1, <1>3, <1>4, Counted
<1>6. Cardinality(k) = n - 1 /\ IsFiniteSet(k)
  BY <1>1, <1>4, <1>5, Counted, FS_RemoveElement
<1>7. Cardinality(k \cup {d}) = n
  <2>1. Cardinality(k \cup {d}) = Cardinality(k) + 1
    BY <1>5, <1>6, FS_AddElement
  <2> QED BY <1>5, <1>6, <2>1
<1>8. Len(r) <= MaxQueued
  BY <1>1, <1>3, Limits
<1>9. SlotAt(n, r, k \cup {d}, w \ {d})
  BY <1>1, <1>3, <1>5, <1>7, <1>8 DEF SlotAt
<1> QED BY <1>2, <1>3, <1>4, <1>9

LEMMA GivenBack ==
  ASSUME NEW n, NEW q, NEW h, NEW w, SlotAt(n, q, h, w), q = <<>>, NEW c \in h
  PROVE  SlotAt(n - 1, q, h \ {c}, w)
<1>1. /\ h \subseteq Callers /\ n = Cardinality(h) /\ n <= Capacity
  BY DEF SlotAt
<1>2. IsFiniteSet(h) /\ n \in Nat
  BY <1>1, Counted
<1>3. Cardinality(h \ {c}) = n - 1
  BY <1>1, <1>2, FS_RemoveElement
<1>4. n - 1 <= Capacity
  BY <1>1, <1>2, Limits
<1> QED BY <1>1, <1>3, <1>4 DEF SlotAt

-----------------------------------------------------------------------------
\* The callers of f that hold a slot of s, and those that wait for one.
Holders(f, s) == {c \in Callers : HoldsAt(f[c], s)}
Waiters(f, s) == {c \in Callers : WaitsAt(f[c], s)}

\* When each source last was complete, and when not.
Ws == [s \in Sources |-> LastWhole(s)]
Bs == [s \in Sources |-> LastBroken(s)]

\* Whoever waits for an answer waits for a probe that is under way, and joined
\* it while its answer was to be kept.
JoinAt(f, c) ==
  /\ f[c].owner \in Callers /\ Probing(f[f[c].owner])
  /\ f[c].asked \in Nat /\ f[c].asked < f[f[c].owner].asked + ReadyTtl

\* The answer kept, and the probe that is to give it.
EntryAt(e, f, w, b) ==
  /\ e.by \in Callers =>
       e.value = "pending" /\ Probing(f[e.by]) /\ e.expires = f[e.by].asked + ReadyTtl
  /\ e.value = "pending" => e.by \in Callers
  /\ e.value = "ready" => \A s \in Sources : w[s] >= e.expires - ReadyTtl
  /\ e.value = "unready" => \E s \in Sources : b[s] >= e.expires - ReadyTtl - CatalogTtl

HeardAt(x, w, b) ==
  /\ x[1] = "ready" => \A s \in Sources : w[s] > x[2] - ReadyTtl
  /\ x[1] = "unready" => \E s \in Sources : b[s] > x[2] - ReadyTtl - CatalogTtl

Answers(f, n, w, b) ==
  /\ \A c \in Callers : Probing(f[c]) => ProbeAt(f[c], n, w, b)
  /\ \A c \in Callers : Joining(f[c]) => JoinAt(f, c)

Health(f, e, h, k, n, w, b) ==
  /\ Answers(f, n, w, b) /\ EntryAt(e, f, w, b) /\ CatalogAt(k, n, b)
  /\ \A x \in h : HeardAt(x, w, b)

World ==
  /\ now \in 0..MaxTime /\ changes \in 0..MaxChanges
  /\ views \subseteq PgRels /\ up \in [Sources -> BOOLEAN] /\ grants \subseteq Rels
  /\ wholeAt \in [Sources -> Int] /\ brokenAt \in [Sources -> Int]
  /\ \A s \in Sources : wholeAt[s] <= now /\ brokenAt[s] <= now

Kinds ==
  /\ ops \in 0..MaxOps
  /\ catalog \in [value : SUBSET PgRels, expires : Int]
  /\ entry \in [by : Callers \cup {NoCaller}, expires : Int,
                value : {"none", "pending", "ready", "unready"}]

Calls == DOMAIN call = Callers /\ \A c \in Callers : Placed(call[c])

Slots ==
  /\ active \in [Sources -> 0..Capacity] /\ queue \in [Sources -> Seq(Callers)]
  /\ \A s \in Sources : SlotAt(active[s], queue[s], Holders(call, s), Waiters(call, s))

IInv == World /\ Kinds /\ Calls /\ Slots /\ Health(call, entry, heard, catalog, now, Ws, Bs)

-----------------------------------------------------------------------------
LEMMA TimesAre ==
  ASSUME World
  PROVE  /\ now \in Nat /\ Ws \in [Sources -> Int] /\ Bs \in [Sources -> Int]
         /\ \A s \in Sources : Ws[s] = LastWhole(s) /\ Bs[s] = LastBroken(s)
<1>1. now \in Nat
  BY Scaled DEF World
<1>2. \A s \in Sources : LastWhole(s) \in Int /\ LastBroken(s) \in Int
  BY <1>1 DEF World, LastWhole, LastBroken
<1> QED BY <1>1, <1>2 DEF Ws, Bs

\* Nobody moves, and time goes on.
LEMMA HealthLater ==
  ASSUME NEW f, NEW e, NEW h, NEW k, NEW n \in Nat, NEW w \in [Sources -> Int], NEW b \in [Sources -> Int],
         Health(f, e, h, k, n, w, b), e.expires \in Int, k.expires \in Int,
         NEW m \in Nat, NEW v \in [Sources -> Int], NEW d \in [Sources -> Int],
         n <= m, \A s \in Sources : w[s] <= v[s] /\ b[s] <= d[s]
  PROVE  Health(f, e, {}, k, m, v, d)
<1>0. "pg" \in Sources /\ "mongo" \in Sources
  BY DEF Sources
<1>1. ASSUME NEW c \in Callers, Probing(f[c]) PROVE ProbeAt(f[c], m, v, d)
  <2>1. ProbeAt(f[c], n, w, b)
    BY <1>1 DEF Health, Answers
  <2>2. w["pg"] <= v["pg"] /\ b["pg"] <= d["pg"] /\ w["mongo"] <= v["mongo"] /\ b["mongo"] <= d["mongo"]
    BY <1>0
  <2> QED BY <1>0, <2>1, <2>2, Limits DEF ProbeAt
<1>2. Answers(f, m, v, d)
  BY <1>1 DEF Health, Answers
<1>3. EntryAt(e, f, v, d)
  <2>1. EntryAt(e, f, w, b)
    BY DEF Health
  <2>2. e.value = "ready" => \A s \in Sources : v[s] >= e.expires - ReadyTtl
    BY <2>1, Limits DEF EntryAt
  <2>3. e.value = "unready" => \E s \in Sources : d[s] >= e.expires - ReadyTtl - CatalogTtl
    BY <2>1, Limits DEF EntryAt
  <2> QED BY <2>1, <2>2, <2>3 DEF EntryAt
<1>4. CatalogAt(k, m, d)
  BY <1>0, Limits DEF Health, CatalogAt
<1> QED BY <1>2, <1>3, <1>4 DEF Health

\* Some move: whoever probes goes on probing, and has learned what holds.
LEMMA HealthMoves ==
  ASSUME NEW f, NEW e, NEW h, NEW k, NEW n, NEW w, NEW b, Health(f, e, h, k, n, w, b),
         NEW g, NEW l, CatalogAt(l, n, b),
         \A c \in Callers : \/ g[c] = f[c]
                            \/ /\ Quietly(f[c], g[c])
                               /\ Probing(f[c]) => ProbeAt(g[c], n, w, b)
  PROVE  Health(g, e, {}, l, n, w, b)
<1>1. \A c \in Callers : Probing(g[c]) => Probing(f[c]) /\ ProbeAt(g[c], n, w, b)
  BY DEF Health, Answers, Quietly, Probing
<1>2. \A c \in Callers : Probing(f[c]) => Probing(g[c]) /\ g[c].asked = f[c].asked
  BY DEF Quietly, Probing
<1>3. ASSUME NEW c \in Callers, Joining(g[c]) PROVE JoinAt(g, c)
  <2>1. g[c] = f[c]
    BY <1>3 DEF Quietly, Probing, Joining
  <2>2. JoinAt(f, c)
    BY <1>3, <2>1 DEF Health, Answers
  <2> QED BY <1>2, <2>1, <2>2 DEF JoinAt
<1>4. Answers(g, n, w, b)
  BY <1>1, <1>3 DEF Answers
<1>5. EntryAt(e, g, w, b)
  <2>1. EntryAt(e, f, w, b)
    BY DEF Health
  <2> QED BY <1>2, <2>1 DEF EntryAt
<1> QED BY <1>4, <1>5 DEF Health

\* What is promised follows.
LEMMA Promised == IInv => TypeOK /\ SlotsExact /\ HealthFresh
<1> SUFFICES ASSUME IInv PROVE TypeOK /\ SlotsExact /\ HealthFresh
  OBVIOUS
<1> USE DEF IInv
<1>1. TypeOK
  <2>1. catalog.value \subseteq PgRels /\ entry.value \in {"none", "pending", "ready", "unready"}
    BY DEF Kinds
  <2>2. \A s \in Sources : Len(queue[s]) <= MaxQueued
    BY DEF Slots, SlotAt
  <2>3. entry.value = "pending" => entry.by \in Callers /\ call[entry.by].op = "ready"
    BY DEF Health, EntryAt, Probing
  <2> QED BY <2>1, <2>2, <2>3 DEF TypeOK, World, Kinds, Slots
<1>2. HealthFresh
  <2>1. \A x \in heard : HeardAt(x, Ws, Bs)
    BY DEF Health
  <2>2. \A s \in Sources : Ws[s] = LastWhole(s) /\ Bs[s] = LastBroken(s)
    BY TimesAre
  <2> QED BY <2>1, <2>2 DEF HeardAt, HealthFresh
<1>3. ASSUME NEW s \in Sources
      PROVE  /\ active[s] = Cardinality({c \in Callers : HoldsSlot(c, s)})
             /\ active[s] <= Capacity /\ (queue[s] # <<>> => active[s] = Capacity)
             /\ {queue[s][i] : i \in DOMAIN queue[s]} =
                  {c \in Callers : call[c].st = "queued" /\ Source(Queries[call[c].query].relation) = s}
  <2>1. SlotAt(active[s], queue[s], Holders(call, s), Waiters(call, s))
    BY DEF Slots
  <2>2. Holders(call, s) = {c \in Callers : HoldsSlot(c, s)}
    BY DEF Holders, HoldsAt, HoldsSlot
  <2>3. Waiters(call, s) = {c \in Callers : call[c].st = "queued"
                                            /\ Source(Queries[call[c].query].relation) = s}
    BY DEF Waiters, WaitsAt
  <2> QED BY <2>1, <2>2, <2>3 DEF SlotAt, Line
<1>4. ASSUME NEW c \in Callers, call[c].st = "exec"
      PROVE  LET n == Queries[call[c].query]
                 p == Policies[n.relation]
             IN  /\ Reads(n.query) \subseteq DOMAIN p.types
                 /\ p.allowUnfiltered \/ \E f \in n.query.filters :
                      f.column \in p.filterColumns /\ f.operator \notin NullTests \cup {"ne", "contains"}
  <2>1. Placed(call[c])
    BY DEF Calls
  <2>2. PICK m, n, p : m = call[c].query /\ n = Queries[m] /\ p = Policies[n.relation]
    OBVIOUS
  <2>3. Admitted(m) /\ Valid(m)
    BY <1>4, <2>1, <2>2 DEF Placed
  <2>4. Reads(n.query) \subseteq DOMAIN p.types
    <3>1. CASE SqlQuery(m)
      <4>1. SqlAccepts(n.query, p.types)
        BY <2>2, <2>3, <3>1 DEF Valid
      <4>2. \A f \in n.query.filters : f.column \in DOMAIN p.types
        BY <4>1 DEF SqlAccepts, SqlFilter
      <4>3. \A i \in DOMAIN n.query.aggregates : LET a == n.query.aggregates[i] IN
              a.column = "none" \/ a.column \in DOMAIN p.types
        BY <4>1 DEF SqlAccepts, SqlAggregate
      <4>4. Named(n.query) \subseteq DOMAIN p.types
        BY <4>1 DEF SqlAccepts
      <4> QED BY <4>2, <4>3, <4>4 DEF Reads
    <3>2. CASE ~SqlQuery(m)
      <4>1. MongoAccepts(n.query, p)
        BY <2>2, <2>3, <3>2 DEF Admitted
      <4>2. Named(n.query) \cup {f.column : f \in n.query.filters} \subseteq DOMAIN p.types
        BY <4>1 DEF MongoAccepts
      <4>3. \A i \in DOMAIN n.query.aggregates : LET a == n.query.aggregates[i] IN
              a.column = "none" \/ a.column \in DOMAIN p.types
        BY <4>1 DEF MongoAccepts
      <4> QED BY <4>2, <4>3 DEF Reads
    <3> QED BY <3>1, <3>2
  <2>5. Bounded(n.query, p)
    BY <2>2, <2>3 DEF Admitted, MongoAccepts
  <2>6. p.allowUnfiltered \/ \E f \in n.query.filters :
          f.column \in p.filterColumns /\ f.operator \notin NullTests \cup {"ne", "contains"}
    BY <2>5 DEF Bounded, Selective, Comparisons, NullTests
  <2> QED BY <2>2, <2>4, <2>6
<1> QED BY <1>1, <1>2, <1>3, <1>4 DEF SlotsExact

-----------------------------------------------------------------------------
LEMMA WorldStays ==
  ASSUME World, UNCHANGED <<now, world>>
  PROVE  World' /\ Ws' = Ws /\ Bs' = Bs
<1>1. UNCHANGED <<now, views, up, wholeAt, brokenAt, grants, changes>>
  BY DEF world
<1>2. \A s \in Sources : LastWhole(s)' = LastWhole(s) /\ LastBroken(s)' = LastBroken(s)
  BY <1>1 DEF LastWhole, LastBroken, Whole
<1>3. World'
  BY <1>1 DEF World
<1> QED BY <1>2, <1>3 DEF Ws, Bs

LEMMA SlotsStay ==
  ASSUME Slots, UNCHANGED <<active, queue>>, \A c \in Callers : Alike(call[c], call'[c])
  PROVE  Slots'
<1>1. \A s \in Sources : Holders(call', s) = Holders(call, s) /\ Waiters(call', s) = Waiters(call, s)
  BY DEF Holders, Waiters, Alike
<1> QED BY <1>1 DEF Slots

\* One of the semaphores changes.
LEMMA SlotsChange ==
  ASSUME Slots, NEW s \in Sources, NEW a, NEW q,
         active' = [active EXCEPT ![s] = a], queue' = [queue EXCEPT ![s] = q],
         \A r \in Sources \ {s} :
           Holders(call', r) = Holders(call, r) /\ Waiters(call', r) = Waiters(call, r),
         SlotAt(a, q, Holders(call', s), Waiters(call', s))
  PROVE  Slots'
<1>1. a \in 0..Capacity /\ q \in Seq(Callers)
  <2>1. a = Cardinality(Holders(call', s)) /\ a <= Capacity /\ q \in Seq(Callers) /\ Holders(call', s) \subseteq Callers
    BY DEF SlotAt
  <2>2. a \in Nat
    BY <2>1, Counted
  <2> QED BY <2>1, <2>2, Limits
<1>2. active' \in [Sources -> 0..Capacity] /\ queue' \in [Sources -> Seq(Callers)]
  BY <1>1 DEF Slots
<1>3. active'[s] = a /\ queue'[s] = q
  BY DEF Slots
<1>4. \A r \in Sources \ {s} : active'[r] = active[r] /\ queue'[r] = queue[r]
  BY DEF Slots
<1>5. ASSUME NEW r \in Sources PROVE SlotAt(active'[r], queue'[r], Holders(call', r), Waiters(call', r))
  BY <1>3, <1>4 DEF Slots
<1> QED BY <1>2, <1>5 DEF Slots

Becomes(f, c, u, g) == DOMAIN f = Callers /\ c \in Callers /\ g = [f EXCEPT ![c] = u]

LEMMA OneCaller ==
  ASSUME NEW f, NEW c, NEW u, NEW g, Becomes(f, c, u, g), NEW s
  PROVE  /\ Holders(g, s) = IF HoldsAt(u, s) THEN Holders(f, s) \cup {c} ELSE Holders(f, s) \ {c}
         /\ Waiters(g, s) = IF WaitsAt(u, s) THEN Waiters(f, s) \cup {c} ELSE Waiters(f, s) \ {c}
<1>1. c \in Callers /\ DOMAIN g = Callers /\ g[c] = u /\ \A d \in Callers \ {c} : g[d] = f[d]
  BY Updated DEF Becomes
<1>2. \A d \in Callers : HoldsAt(g[d], s) <=> IF d = c THEN HoldsAt(u, s) ELSE HoldsAt(f[d], s)
  BY <1>1
<1>3. \A d \in Callers : WaitsAt(g[d], s) <=> IF d = c THEN WaitsAt(u, s) ELSE WaitsAt(f[d], s)
  BY <1>1
<1> QED BY <1>1, <1>2, <1>3 DEF Holders, Waiters

\* Nothing but callers move, and each keeps its slot or its place in the queue.
LEMMA CallersMove ==
  ASSUME IInv, UNCHANGED <<now, world, active, queue, entry>>, heard' = {}, ops' \in 0..MaxOps,
         DOMAIN call' = Callers, catalog' \in [value : SUBSET PgRels, expires : Int],
         CatalogAt(catalog', now, Bs),
         \A c \in Callers :
           \/ call'[c] = call[c]
           \/ /\ Placed(call'[c]) /\ Alike(call[c], call'[c]) /\ Quietly(call[c], call'[c])
              /\ Probing(call[c]) => ProbeAt(call'[c], now, Ws, Bs)
  PROVE  IInv'
<1>1. World' /\ Ws' = Ws /\ Bs' = Bs
  BY WorldStays DEF IInv
<1>2. Kinds'
  BY DEF IInv, Kinds
<1>3. Calls'
  BY DEF IInv, Calls
<1>4. Slots'
  <2>1. \A c \in Callers : Alike(call[c], call'[c])
    BY DEF Alike
  <2> QED BY <2>1, SlotsStay DEF IInv
<1>5. Health(call', entry, {}, catalog', now, Ws, Bs)
  BY HealthMoves DEF IInv
<1> QED BY <1>1, <1>2, <1>3, <1>4, <1>5 DEF IInv

\* One caller moves, and has the slot or the place it had.
LEMMA OneMoves ==
  ASSUME IInv, UNCHANGED <<now, world, catalog, active, queue, entry>>, heard' = {}, ops' \in 0..MaxOps,
         NEW c \in Callers, NEW u, call' = [call EXCEPT ![c] = u],
         Placed(u), Alike(call[c], u), Quietly(call[c], u),
         Probing(call[c]) => ProbeAt(u, now, Ws, Bs)
  PROVE  IInv'
<1>1. DOMAIN call' = Callers /\ call'[c] = u /\ \A d \in Callers \ {c} : call'[d] = call[d]
  BY Updated DEF IInv, Calls
<1>2. catalog' \in [value : SUBSET PgRels, expires : Int] /\ CatalogAt(catalog', now, Bs)
  BY DEF IInv, Kinds, Health
<1>3. \A d \in Callers :
        \/ call'[d] = call[d]
        \/ /\ Placed(call'[d]) /\ Alike(call[d], call'[d]) /\ Quietly(call[d], call'[d])
           /\ Probing(call[d]) => ProbeAt(call'[d], now, Ws, Bs)
  BY <1>1
<1> QED BY <1>1, <1>2, <1>3, CallersMove

LEMMA OpsCount == ASSUME IInv, MayStart(CHOOSE c \in Callers : TRUE) \/ ops < MaxOps PROVE ops + 1 \in 0..MaxOps
  BY Scaled DEF IInv, Kinds, MayStart

LEMMA AtRest ==
  ASSUME NEW t, Placed(t), t.op = "none"
  PROVE  \A s : ~HoldsAt(t, s) /\ ~WaitsAt(t, s)
  BY DEF Placed, HoldsAt, WaitsAt

LEMMA IdleRests == Placed(Idle) /\ \A s : ~HoldsAt(Idle, s) /\ ~WaitsAt(Idle, s)
<1>1. Placed(Idle)
  BY IdleIs DEF Placed
<1> QED BY <1>1, IdleIs, AtRest

LEMMA DiscoverKeeps ==
  ASSUME IInv, NEW c \in Callers, Discover(c)
  PROVE  IInv'
<1> DEFINE u == [Idle EXCEPT !.op = "discover", !.st = "catalog", !.allowed = grants, !.calls = 1]
<1>1. /\ call[c].op = "none" /\ ops < MaxOps /\ ops' = ops + 1
      /\ call' = [call EXCEPT ![c] = u] /\ heard' = {}
      /\ UNCHANGED <<now, world, catalog, active, queue, entry>>
  BY DEF Discover, Start, MayStart
<1>2. DOMAIN u = Fields /\ u.op = "discover" /\ u.st = "catalog"
  BY Begins
<1> HIDE DEF u
<1>3. Placed(u) /\ \A s : ~HoldsAt(u, s) /\ ~WaitsAt(u, s)
  BY <1>2 DEF Placed, HoldsAt, WaitsAt
<1>4. Placed(call[c])
  BY DEF IInv, Calls
<1>5. Alike(call[c], u) /\ Quietly(call[c], u) /\ ~Probing(call[c])
  BY <1>1, <1>2, <1>3, <1>4, AtRest DEF Alike, Quietly, Probing
<1>6. ops' \in 0..MaxOps
  BY <1>1, OpsCount
<1> QED BY <1>1, <1>3, <1>5, <1>6, OneMoves

LEMMA NextPageKeeps ==
  ASSUME IInv, NEW c \in Callers, NextPage(c)
  PROVE  IInv'
<1> DEFINE t == call[c]
           u == [t EXCEPT !.st = "catalog", !.allowed = grants, !.calls = t.calls + 1, !.found = {}, !.at = None]
<1>0. call' = [call EXCEPT ![c] = u]
  BY DEF NextPage
<1>r. /\ t.op = "discover" /\ t.st = "paused" /\ heard' = {}
      /\ UNCHANGED <<now, ops, world, catalog, active, queue, entry>>
  BY DEF NextPage
<1> HIDE DEF u
<1>1. /\ t.op = "discover" /\ t.st = "paused" /\ heard' = {} /\ call' = [call EXCEPT ![c] = u]
      /\ UNCHANGED <<now, ops, world, catalog, active, queue, entry>>
  BY <1>0, <1>r
<1>2. Placed(t) /\ DOMAIN t = Fields /\ ops' \in 0..MaxOps
  BY <1>1 DEF IInv, Calls, Placed, Kinds
<1> HIDE DEF t
<1>3. DOMAIN u = Fields /\ u.op = t.op /\ u.st = "catalog"
  BY <1>2 DEF Fields, u
<1>4. Discovers(t) /\ Discovers(u)
  BY <1>1, <1>2, <1>3 DEF Discovers
<1>5. Placed(u) /\ Alike(t, u) /\ Quietly(t, u) /\ ~Probing(t)
  BY <1>1, <1>4, Discovering DEF Probing
<1>6. Alike(call[c], u) /\ Quietly(call[c], u) /\ ~Probing(call[c])
  BY <1>5 DEF t
<1> QED BY <1>1, <1>2, <1>5, <1>6, OneMoves

LEMMA EndDiscoveryKeeps ==
  ASSUME IInv, NEW c \in Callers, EndDiscovery(c)
  PROVE  IInv'
<1>1. /\ call[c].op = "discover" /\ call[c].st = "paused" /\ heard' = {} /\ call' = [call EXCEPT ![c] = Idle]
      /\ UNCHANGED <<now, ops, world, catalog, active, queue, entry>>
  BY DEF EndDiscovery
<1>2. \A s : ~HoldsAt(call[c], s) /\ ~WaitsAt(call[c], s)
  BY <1>1 DEF HoldsAt, WaitsAt
<1>3. Alike(call[c], Idle) /\ Quietly(call[c], Idle) /\ ~Probing(call[c])
  BY <1>1, <1>2, IdleIs, IdleRests DEF Alike, Quietly, Probing
<1>4. ops' \in 0..MaxOps
  BY <1>1 DEF IInv, Kinds
<1> QED BY <1>1, <1>3, <1>4, IdleRests, OneMoves

LEMMA RefuseKeeps ==
  ASSUME IInv, NEW c \in Callers, call[c].op = "none", ops < MaxOps, Start(c, Idle), heard' = {},
         UNCHANGED <<now, world, catalog, active, queue, entry>>
  PROVE  IInv'
<1>1. ops' = ops + 1 /\ call' = [call EXCEPT ![c] = Idle]
  BY DEF Start
<1>2. Placed(call[c])
  BY DEF IInv, Calls
<1>3. Alike(call[c], Idle) /\ Quietly(call[c], Idle) /\ ~Probing(call[c])
  BY <1>2, AtRest, IdleIs, IdleRests DEF Alike, Quietly, Probing
<1>4. ops' \in 0..MaxOps
  BY <1>1, OpsCount
<1> QED BY <1>1, <1>3, <1>4, IdleRests, OneMoves

-----------------------------------------------------------------------------
\* Queries.
LEMMA SourceIs == \A n : Source(Queries[n].relation) = "pg" <=> SqlQuery(n)
  BY DEF Source, SqlQuery

LEMMA SourceIn == \A r : Source(r) \in Sources
  BY DEF Source, Sources

LEMMA EnterIs ==
  ASSUME NEW t, DOMAIN t = Fields, t.op = "query", Admitted(t.query), NEW u, u = Enter(t)
  PROVE  /\ Placed(u) /\ u.op = "query" /\ \A s : ~WaitsAt(u, s)
         /\ \A s : HoldsAt(u, s) <=> s = Source(Queries[t.query].relation)
<1>1. PICK x : /\ x = IF SqlQuery(t.query) THEN "catalog" ELSE "exec"
               /\ u = [t EXCEPT !.st = x]
  BY SourceIs DEF Enter
<1>2. Kept(t, u) /\ u.st = x
  BY <1>1, Steps
<1>3. Placed(u)
  BY <1>1, <1>2 DEF Placed, Kept, Valid
<1>4. \A s : ~WaitsAt(u, s) /\ (HoldsAt(u, s) <=> s = Source(Queries[t.query].relation))
  BY <1>1, <1>2 DEF WaitsAt, HoldsAt, Kept
<1> QED BY <1>2, <1>3, <1>4 DEF Kept

\* Whoever asks is in no semaphore.
LEMMA Others ==
  ASSUME IInv, NEW c \in Callers, NEW u, call' = [call EXCEPT ![c] = u], NEW s,
         \A r \in Sources \ {s} : ~HoldsAt(u, r) /\ ~WaitsAt(u, r)
                                  /\ ~HoldsAt(call[c], r) /\ ~WaitsAt(call[c], r)
  PROVE  \A r \in Sources \ {s} : Holders(call', r) = Holders(call, r) /\ Waiters(call', r) = Waiters(call, r)
<1>1. DOMAIN call = Callers
  BY DEF IInv, Calls
<1>2. ASSUME NEW r \in Sources \ {s}
      PROVE  Holders(call', r) = Holders(call, r) /\ Waiters(call', r) = Waiters(call, r)
  <2>1. c \notin Holders(call, r) /\ c \notin Waiters(call, r)
    BY DEF Holders, Waiters
  <2>2. /\ Holders(call', r) = Holders(call, r) \ {c}
        /\ Waiters(call', r) = Waiters(call, r) \ {c}
    <3>1. PICK f, g : f = call /\ g = call'
      OBVIOUS
    <3>2. ~HoldsAt(u, r) /\ ~WaitsAt(u, r) /\ Becomes(f, c, u, g)
      BY <1>1, <3>1 DEF Becomes
    <3>3. /\ Holders(g, r) = IF HoldsAt(u, r) THEN Holders(f, r) \cup {c} ELSE Holders(f, r) \ {c}
          /\ Waiters(g, r) = IF WaitsAt(u, r) THEN Waiters(f, r) \cup {c} ELSE Waiters(f, r) \ {c}
      BY <3>2, OneCaller
    <3> QED BY <3>1, <3>2, <3>3
  <2> QED BY <2>1, <2>2
<1> QED BY <1>2

\* A query of c comes, waits, gives up or goes: besides its semaphore nothing changes.
LEMMA SemaphoreMoves ==
  ASSUME IInv, UNCHANGED <<now, world, catalog, entry>>, heard' = {}, ops' \in 0..MaxOps, Slots',
         DOMAIN call' = Callers,
         \A c \in Callers : \/ call'[c] = call[c]
                            \/ call[c].op # "ready" /\ call'[c].op # "ready" /\ Placed(call'[c])
  PROVE  IInv'
<1>1. World' /\ Ws' = Ws /\ Bs' = Bs
  BY WorldStays DEF IInv
<1>2. Kinds'
  BY DEF IInv, Kinds
<1>3. Calls'
  BY DEF IInv, Calls
<1>4. \A c \in Callers : \/ call'[c] = call[c]
                         \/ /\ Quietly(call[c], call'[c])
                            /\ Probing(call[c]) => ProbeAt(call'[c], now, Ws, Bs)
  BY DEF Quietly, Probing
<1>5. Health(call, entry, heard, catalog, now, Ws, Bs) /\ CatalogAt(catalog, now, Bs)
  BY DEF IInv, Health
<1>6. Health(call', entry, {}, catalog, now, Ws, Bs)
  BY <1>4, <1>5, HealthMoves
<1> QED BY <1>1, <1>2, <1>3, <1>6 DEF IInv

LEMMA QueryKeeps ==
  ASSUME IInv, NEW c \in Callers, NEW n, Query(c, n)
  PROVE  IInv'
<1> DEFINE s == Source(Queries[n].relation)
           t == [Idle EXCEPT !.op = "query", !.query = n]
           u == Enter(t)
           v == [t EXCEPT !.st = "queued"]
<1>1. /\ call[c].op = "none" /\ ops < MaxOps /\ Admits(n) /\ heard' = {}
      /\ UNCHANGED <<now, world, catalog, entry>>
      /\ \/ /\ active[s] < Capacity /\ Start(c, u)
            /\ active' = [active EXCEPT ![s] = @ + 1] /\ queue' = queue
         \/ /\ active[s] >= Capacity /\ Len(queue[s]) < MaxQueued /\ Start(c, v)
            /\ queue' = [queue EXCEPT ![s] = Append(@, c)] /\ active' = active
         \/ /\ Start(c, Idle) /\ UNCHANGED <<active, queue>>
  BY DEF Query, MayStart
<1>2. DOMAIN t = Fields /\ t.op = "query" /\ t.query = n
  BY Begins
<1> HIDE DEF t
<1>3. Admitted(n)
  BY <1>1 DEF Admits, Admitted, SqlQuery
<1>4. /\ Placed(u) /\ u.op = "query" /\ \A r : ~WaitsAt(u, r)
      /\ \A r : HoldsAt(u, r) <=> r = s
  BY <1>2, <1>3, EnterIs
<1>5. /\ Placed(v) /\ v.op = "query" /\ \A r : ~HoldsAt(v, r)
      /\ \A r : WaitsAt(v, r) <=> r = s
  <2>1. Kept(t, v) /\ v.st = "queued"
    BY <1>2, Steps
  <2> HIDE DEF v
  <2>2. Placed(v)
    BY <1>2, <1>3, <2>1 DEF Placed, Kept
  <2> QED BY <1>2, <2>1, <2>2 DEF HoldsAt, WaitsAt, Kept
<1> HIDE DEF u, v
<1>6. Slots /\ DOMAIN call = Callers /\ Placed(call[c])
  BY DEF IInv, Calls
<1>7. \A r : ~HoldsAt(call[c], r) /\ ~WaitsAt(call[c], r)
  BY <1>1, <1>6, AtRest
<1>8. s \in Sources
  BY SourceIn
<1> HIDE DEF s
<1>9. SlotAt(active[s], queue[s], Holders(call, s), Waiters(call, s))
  BY <1>6, <1>8 DEF Slots
<1>10. c \notin Holders(call, s) /\ c \notin Waiters(call, s)
  BY <1>7 DEF Holders, Waiters
<1>11. ASSUME NEW x, Start(c, x), x = u \/ x = v, Slots' PROVE IInv'
  <2>1. ops' = ops + 1 /\ call' = [call EXCEPT ![c] = x]
    BY <1>11 DEF Start
  <2>2. ops' \in 0..MaxOps
    BY <1>1, <2>1, OpsCount
  <2>3. Placed(x) /\ x.op # "ready"
    BY <1>4, <1>5, <1>11
  <2>4. DOMAIN call' = Callers /\ call'[c] = x /\ \A d \in Callers \ {c} : call'[d] = call[d]
    BY <1>6, <2>1, Updated
  <2>5. \A d \in Callers : \/ call'[d] = call[d]
                           \/ call[d].op # "ready" /\ call'[d].op # "ready" /\ Placed(call'[d])
    BY <1>1, <2>3, <2>4
  <2> QED BY <1>1, <1>11, <2>2, <2>4, <2>5, SemaphoreMoves
<1>12. ASSUME NEW x, Start(c, x), x = u \/ x = v
       PROVE  /\ \A r \in Sources \ {s} :
                   Holders(call', r) = Holders(call, r) /\ Waiters(call', r) = Waiters(call, r)
              /\ Holders(call', s) = IF x = u THEN Holders(call, s) \cup {c} ELSE Holders(call, s)
              /\ Waiters(call', s) = IF x = u THEN Waiters(call, s) ELSE Waiters(call, s) \cup {c}
  <2>1. call' = [call EXCEPT ![c] = x]
    BY <1>12 DEF Start
  <2>2. \A r \in Sources \ {s} : ~HoldsAt(x, r) /\ ~WaitsAt(x, r)
    BY <1>4, <1>5, <1>12
  <2>3. \A r \in Sources \ {s} :
          Holders(call', r) = Holders(call, r) /\ Waiters(call', r) = Waiters(call, r)
    BY <1>7, <2>1, <2>2, Others
  <2>4. PICK f, g : f = call /\ g = call'
    OBVIOUS
  <2>5. Becomes(f, c, x, g)
    BY <1>6, <2>1, <2>4 DEF Becomes
  <2>6. /\ Holders(g, s) = IF HoldsAt(x, s) THEN Holders(f, s) \cup {c} ELSE Holders(f, s) \ {c}
        /\ Waiters(g, s) = IF WaitsAt(x, s) THEN Waiters(f, s) \cup {c} ELSE Waiters(f, s) \ {c}
    BY <2>5, OneCaller
  <2>7. x = u <=> HoldsAt(x, s)
    BY <1>4, <1>5, <1>12
  <2>8. x = u <=> ~WaitsAt(x, s)
    BY <1>4, <1>5, <1>12
  <2> QED BY <1>10, <2>3, <2>4, <2>6, <2>7, <2>8
<1>13. CASE active[s] < Capacity /\ Start(c, u) /\ active' = [active EXCEPT ![s] = @ + 1] /\ queue' = queue
  <2>1. /\ \A r \in Sources \ {s} :
             Holders(call', r) = Holders(call, r) /\ Waiters(call', r) = Waiters(call, r)
        /\ Holders(call', s) = Holders(call, s) \cup {c} /\ Waiters(call', s) = Waiters(call, s)
    BY <1>12, <1>13
  <2>2. SlotAt(active[s] + 1, queue[s], Holders(call, s) \cup {c}, Waiters(call, s))
    BY <1>9, <1>10, <1>13, Took
  <2>3. PICK a, q : a = active[s] + 1 /\ q = queue[s]
    OBVIOUS
  <2>4. active' = [active EXCEPT ![s] = a] /\ queue' = [queue EXCEPT ![s] = q]
    BY <1>6, <1>13, <2>3 DEF Slots
  <2>5. SlotAt(a, q, Holders(call', s), Waiters(call', s))
    BY <2>1, <2>2, <2>3
  <2>6. Slots'
    BY <1>6, <1>8, <2>1, <2>4, <2>5, SlotsChange
  <2> QED BY <1>11, <1>13, <2>6
<1>14. CASE /\ active[s] >= Capacity /\ Len(queue[s]) < MaxQueued /\ Start(c, v)
            /\ queue' = [queue EXCEPT ![s] = Append(@, c)] /\ active' = active
  <2>0. u # v
    BY <1>4, <1>5
  <2>1. /\ \A r \in Sources \ {s} :
             Holders(call', r) = Holders(call, r) /\ Waiters(call', r) = Waiters(call, r)
        /\ Holders(call', s) = Holders(call, s) /\ Waiters(call', s) = Waiters(call, s) \cup {c}
    BY <1>12, <1>14, <2>0
  <2>2. SlotAt(active[s], Append(queue[s], c), Holders(call, s), Waiters(call, s) \cup {c})
    BY <1>9, <1>10, <1>14, Waited
  <2>3. PICK a, q : a = active[s] /\ q = Append(queue[s], c)
    OBVIOUS
  <2>4. active' = [active EXCEPT ![s] = a] /\ queue' = [queue EXCEPT ![s] = q]
    BY <1>6, <1>14, <2>3 DEF Slots
  <2>5. SlotAt(a, q, Holders(call', s), Waiters(call', s))
    BY <2>1, <2>2, <2>3
  <2>6. Slots'
    BY <1>6, <1>8, <2>1, <2>4, <2>5, SlotsChange
  <2> QED BY <1>11, <1>14, <2>6
<1>15. CASE Start(c, Idle) /\ UNCHANGED <<active, queue>>
  BY <1>1, <1>15, RefuseKeeps
<1> QED BY <1>1, <1>13, <1>14, <1>15

LEMMA QueueTimeoutKeeps ==
  ASSUME IInv, NEW c \in Callers, QueueTimeout(c)
  PROVE  IInv'
<1>1. PICK s : s = Source(Queries[call[c].query].relation)
  OBVIOUS
<1>2. PICK i \in DOMAIN queue[s] : queue[s][i] = c /\ queue' = [queue EXCEPT ![s] = RemoveAt(@, i)]
  BY <1>1 DEF QueueTimeout
<1>3. /\ call[c].st = "queued" /\ call' = [call EXCEPT ![c] = Idle] /\ heard' = {}
      /\ UNCHANGED <<now, ops, world, catalog, active, entry>>
  BY DEF QueueTimeout
<1>4. Slots /\ DOMAIN call = Callers /\ Placed(call[c]) /\ s \in Sources /\ ops' \in 0..MaxOps
  BY <1>1, <1>3, SourceIn DEF IInv, Calls, Kinds
<1>5. call[c].op = "query"
  BY <1>3, <1>4, PlacedIs
<1>6. \A r \in Sources : ~HoldsAt(call[c], r) /\ (WaitsAt(call[c], r) <=> r = s)
  BY <1>1, <1>3 DEF HoldsAt, WaitsAt
<1>7. \A r \in Sources \ {s} :
        Holders(call', r) = Holders(call, r) /\ Waiters(call', r) = Waiters(call, r)
  BY <1>3, <1>6, IdleRests, Others
<1>8. Holders(call', s) = Holders(call, s) /\ Waiters(call', s) = Waiters(call, s) \ {c}
  <2>1. PICK f, g, x : f = call /\ g = call' /\ x = Idle
    OBVIOUS
  <2>2. Becomes(f, c, x, g)
    BY <1>3, <1>4, <2>1 DEF Becomes
  <2>3. /\ Holders(g, s) = IF HoldsAt(x, s) THEN Holders(f, s) \cup {c} ELSE Holders(f, s) \ {c}
        /\ Waiters(g, s) = IF WaitsAt(x, s) THEN Waiters(f, s) \cup {c} ELSE Waiters(f, s) \ {c}
    BY <2>2, OneCaller
  <2>4. c \notin Holders(call, s)
    BY <1>4, <1>6 DEF Holders
  <2> QED BY <2>1, <2>3, <2>4, IdleRests
<1>9. SlotAt(active[s], RemoveAt(queue[s], i), Holders(call, s), Waiters(call, s) \ {c})
  <2>1. SlotAt(active[s], queue[s], Holders(call, s), Waiters(call, s))
    BY <1>4 DEF Slots
  <2>2. SlotAt(active[s], RemoveAt(queue[s], i), Holders(call, s), Waiters(call, s) \ {queue[s][i]})
    BY <2>1, GaveUp
  <2> QED BY <1>2, <2>2
<1>10. Slots'
  <2>1. PICK a, q : a = active[s] /\ q = RemoveAt(queue[s], i)
    OBVIOUS
  <2>2. active' = [active EXCEPT ![s] = a] /\ queue' = [queue EXCEPT ![s] = q]
    BY <1>2, <1>3, <1>4, <2>1 DEF Slots
  <2>3. SlotAt(a, q, Holders(call', s), Waiters(call', s))
    BY <1>8, <1>9, <2>1
  <2> QED BY <1>4, <1>7, <2>2, <2>3, SlotsChange
<1>11. DOMAIN call' = Callers /\ call'[c] = Idle /\ \A d \in Callers \ {c} : call'[d] = call[d]
  BY <1>3, <1>4, Updated
<1>12. \A d \in Callers : \/ call'[d] = call[d]
                          \/ call[d].op # "ready" /\ call'[d].op # "ready" /\ Placed(call'[d])
  BY <1>5, <1>11, IdleIs, IdleRests
<1> QED BY <1>3, <1>4, <1>10, <1>11, <1>12, SemaphoreMoves

LEMMA LeaveKeeps ==
  ASSUME IInv, NEW c \in Callers, Leave(c)
  PROVE  IInv'
<1>1. PICK s : s = Source(Queries[call[c].query].relation)
  OBVIOUS
<1>2. /\ call[c].st \in {"exec", "leave"} /\ heard' = {}
      /\ UNCHANGED <<now, ops, world, catalog, entry>>
      /\ \/ /\ queue[s] # <<>>
            /\ queue' = [queue EXCEPT ![s] = Tail(@)] /\ active' = active
            /\ call' = [call EXCEPT ![c] = Idle, ![Head(queue[s])] = Enter(@)]
         \/ /\ queue[s] = <<>>
            /\ active' = [active EXCEPT ![s] = @ - 1] /\ queue' = queue
            /\ call' = [call EXCEPT ![c] = Idle]
  BY <1>1 DEF Leave, HandsOver
<1>3. Slots /\ DOMAIN call = Callers /\ Placed(call[c]) /\ s \in Sources /\ ops' \in 0..MaxOps
  BY <1>1, <1>2, SourceIn DEF IInv, Calls, Kinds
<1>4. call[c].op = "query"
  BY <1>2, <1>3, PlacedIs
<1>5. \A r \in Sources : ~WaitsAt(call[c], r) /\ (HoldsAt(call[c], r) <=> r = s)
  BY <1>1, <1>2, <1>4 DEF HoldsAt, WaitsAt
<1>6. SlotAt(active[s], queue[s], Holders(call, s), Waiters(call, s)) /\ c \in Holders(call, s)
      /\ c \notin Waiters(call, s)
  BY <1>3, <1>5 DEF Slots, Holders, Waiters
<1>7. PICK f : f = [call EXCEPT ![c] = Idle]
  OBVIOUS
<1>8. DOMAIN f = Callers /\ f[c] = Idle /\ \A d \in Callers \ {c} : f[d] = call[d]
  BY <1>3, <1>7, Updated
<1>9. \A r : /\ Holders(f, r) = Holders(call, r) \ {c}
             /\ Waiters(f, r) = Waiters(call, r) \ {c}
  <2>1. PICK e, x : e = call /\ x = Idle
    OBVIOUS
  <2>2. Becomes(e, c, x, f)
    BY <1>3, <1>7, <2>1 DEF Becomes
  <2>3. \A r :
          /\ Holders(f, r) = IF HoldsAt(x, r) THEN Holders(e, r) \cup {c} ELSE Holders(e, r) \ {c}
          /\ Waiters(f, r) = IF WaitsAt(x, r) THEN Waiters(e, r) \cup {c} ELSE Waiters(e, r) \ {c}
    BY <2>2, OneCaller
  <2> QED BY <2>1, <2>3, IdleRests
<1>10. \A r \in Sources \ {s} : Holders(f, r) = Holders(call, r) /\ Waiters(f, r) = Waiters(call, r)
  <2>1. \A r \in Sources \ {s} : c \notin Holders(call, r) /\ c \notin Waiters(call, r)
    BY <1>5 DEF Holders, Waiters
  <2> QED BY <1>9, <2>1
<1>11. Holders(f, s) = Holders(call, s) \ {c} /\ Waiters(f, s) = Waiters(call, s)
  BY <1>6, <1>9
<1>12. CASE /\ queue[s] = <<>>
            /\ active' = [active EXCEPT ![s] = @ - 1] /\ queue' = queue
            /\ call' = [call EXCEPT ![c] = Idle]
  <2>1. SlotAt(active[s] - 1, queue[s], Holders(call, s) \ {c}, Waiters(call, s))
    BY <1>6, <1>12, GivenBack
  <2>2. PICK a, q : a = active[s] - 1 /\ q = queue[s]
    OBVIOUS
  <2>3. active' = [active EXCEPT ![s] = a] /\ queue' = [queue EXCEPT ![s] = q] /\ call' = f
    BY <1>3, <1>7, <1>12, <2>2 DEF Slots
  <2>4. SlotAt(a, q, Holders(call', s), Waiters(call', s))
    BY <1>11, <2>1, <2>2, <2>3
  <2>5. \A r \in Sources \ {s} :
          Holders(call', r) = Holders(call, r) /\ Waiters(call', r) = Waiters(call, r)
    BY <1>10, <2>3
  <2>6. Slots'
    BY <1>3, <2>3, <2>4, <2>5, SlotsChange
  <2>7. DOMAIN call' = Callers
        /\ \A d \in Callers : \/ call'[d] = call[d]
                              \/ call[d].op # "ready" /\ call'[d].op # "ready" /\ Placed(call'[d])
    BY <1>4, <1>8, <2>3, IdleIs, IdleRests
  <2> QED BY <1>2, <1>3, <2>6, <2>7, SemaphoreMoves
<1>13. CASE /\ queue[s] # <<>>
            /\ queue' = [queue EXCEPT ![s] = Tail(@)] /\ active' = active
            /\ call' = [call EXCEPT ![c] = Idle, ![Head(queue[s])] = Enter(@)]
  <2>1. Holders(call, s) \cap Waiters(call, s) = {}
    BY DEF Holders, Waiters, HoldsAt, WaitsAt
  <2>2. /\ Head(queue[s]) \in Waiters(call, s) /\ Head(queue[s]) \in Callers
        /\ SlotAt(active[s], Tail(queue[s]), (Holders(call, s) \ {c}) \cup {Head(queue[s])},
                  Waiters(call, s) \ {Head(queue[s])})
    BY <1>6, <1>13, <2>1, HandedOver
  <2>3. PICK a, q, d : a = active[s] /\ q = Tail(queue[s]) /\ d = Head(queue[s])
    OBVIOUS
  <2>4. d \in Callers /\ d # c /\ f[d] = call[d] /\ WaitsAt(call[d], s)
    BY <1>6, <1>8, <2>2, <2>3 DEF Waiters
  <2>5. PICK u : u = Enter(call[d])
    OBVIOUS
  <2>6. call' = [f EXCEPT ![d] = u]
    BY <1>7, <1>13, <2>3, <2>4, <2>5
  <2>7. Placed(call[d]) /\ call[d].op = "query" /\ Admitted(call[d].query) /\ DOMAIN call[d] = Fields
    <3>1. Placed(call[d])
      BY <2>4 DEF IInv, Calls
    <3>2. call[d].op = "query"
      BY <2>4, <3>1, PlacedIs DEF WaitsAt
    <3> QED BY <3>1, <3>2 DEF Placed
  <2>8. PICK t : t = call[d]
    OBVIOUS
  <2>9. /\ Placed(u) /\ u.op = "query" /\ \A r : ~WaitsAt(u, r)
        /\ \A r : HoldsAt(u, r) <=> r = s
    <3>1. DOMAIN t = Fields /\ t.op = "query" /\ Admitted(t.query) /\ u = Enter(t)
      BY <2>5, <2>7, <2>8
    <3>2. /\ Placed(u) /\ u.op = "query" /\ \A r : ~WaitsAt(u, r)
          /\ \A r : HoldsAt(u, r) <=> r = Source(Queries[t.query].relation)
      BY <3>1, EnterIs
    <3>3. Source(Queries[t.query].relation) = s
      BY <2>4, <2>8 DEF WaitsAt
    <3> QED BY <3>2, <3>3
  <2>10. \A r :
           /\ Holders(call', r) = IF HoldsAt(u, r) THEN Holders(f, r) \cup {d} ELSE Holders(f, r) \ {d}
           /\ Waiters(call', r) = IF WaitsAt(u, r) THEN Waiters(f, r) \cup {d} ELSE Waiters(f, r) \ {d}
    <3>1. PICK g : g = call'
      OBVIOUS
    <3>2. Becomes(f, d, u, g)
      BY <1>8, <2>4, <2>6, <3>1 DEF Becomes
    <3>3. \A r :
           /\ Holders(g, r) = IF HoldsAt(u, r) THEN Holders(f, r) \cup {d} ELSE Holders(f, r) \ {d}
           /\ Waiters(g, r) = IF WaitsAt(u, r) THEN Waiters(f, r) \cup {d} ELSE Waiters(f, r) \ {d}
      BY <3>2, OneCaller
    <3> QED BY <3>1, <3>3
  <2>11. \A r \in Sources \ {s} : d \notin Holders(call, r) /\ d \notin Waiters(call, r)
    BY <2>4 DEF Holders, Waiters, WaitsAt, HoldsAt
  <2>12. \A r \in Sources \ {s} :
           Holders(call', r) = Holders(call, r) /\ Waiters(call', r) = Waiters(call, r)
    BY <1>10, <2>9, <2>10, <2>11
  <2>13. /\ Holders(call', s) = (Holders(call, s) \ {c}) \cup {d}
         /\ Waiters(call', s) = Waiters(call, s) \ {d}
    BY <1>11, <2>9, <2>10
  <2>14. SlotAt(a, q, Holders(call', s), Waiters(call', s))
    BY <2>2, <2>3, <2>13
  <2>15. active' = [active EXCEPT ![s] = a] /\ queue' = [queue EXCEPT ![s] = q]
    BY <1>3, <1>13, <2>3 DEF Slots
  <2>16. Slots'
    BY <1>3, <2>12, <2>14, <2>15, SlotsChange
  <2>17. DOMAIN call' = Callers /\ call'[d] = u /\ \A e \in Callers \ {d} : call'[e] = f[e]
    BY <1>8, <2>4, <2>6, Updated
  <2>18. \A e \in Callers : \/ call'[e] = call[e]
                            \/ call[e].op # "ready" /\ call'[e].op # "ready" /\ Placed(call'[e])
    BY <1>4, <1>8, <2>7, <2>9, <2>17, IdleIs, IdleRests
  <2> QED BY <1>2, <1>3, <2>16, <2>17, <2>18, SemaphoreMoves
<1> QED BY <1>2, <1>12, <1>13

-----------------------------------------------------------------------------
\* Readiness.
LEMMA ReadyMoves ==
  ASSUME IInv, UNCHANGED <<now, world, catalog, active, queue>>, ops' \in 0..MaxOps,
         DOMAIN call' = Callers,
         entry' \in [by : Callers \cup {NoCaller}, expires : Int,
                     value : {"none", "pending", "ready", "unready"}],
         \A c \in Callers : call'[c] = call[c] \/ (Placed(call'[c]) /\ Alike(call[c], call'[c])),
         Health(call', entry', heard', catalog, now, Ws, Bs)
  PROVE  IInv'
<1>1. World' /\ Ws' = Ws /\ Bs' = Bs
  BY WorldStays DEF IInv
<1>2. Kinds'
  BY DEF IInv, Kinds
<1>3. Calls'
  BY DEF IInv, Calls
<1>4. Slots'
  <2>1. \A c \in Callers : Alike(call[c], call'[c])
    BY DEF Alike
  <2> QED BY <2>1, SlotsStay DEF IInv
<1> QED BY <1>1, <1>2, <1>3, <1>4 DEF IInv

\* A newcomer: whoever probes or waits goes on.
LEMMA Newcomer ==
  ASSUME NEW f, NEW n, NEW w, NEW b, Answers(f, n, w, b), NEW c \in Callers, f[c].op = "none", NEW g,
         \A d \in Callers \ {c} : g[d] = f[d],
         Probing(g[c]) => ProbeAt(g[c], n, w, b), Joining(g[c]) => JoinAt(g, c)
  PROVE  Answers(g, n, w, b)
<1>1. ASSUME NEW d \in Callers, Joining(g[d]), d # c PROVE JoinAt(g, d)
  <2>1. g[d] = f[d]
    BY <1>1
  <2>2. JoinAt(f, d)
    BY <1>1, <2>1 DEF Answers
  <2>3. f[d].owner \in Callers \ {c}
    BY <2>2 DEF JoinAt, Probing
  <2> QED BY <2>1, <2>2, <2>3 DEF JoinAt
<1>2. ASSUME NEW d \in Callers, Probing(g[d]) PROVE ProbeAt(g[d], n, w, b)
  BY <1>2 DEF Answers
<1> QED BY <1>1, <1>2 DEF Answers

LEMMA AskReadyKeeps ==
  ASSUME IInv, NEW c \in Callers, AskReady(c)
  PROVE  IInv'
<1> DEFINE t == [Idle EXCEPT !.op = "ready", !.asked = now]
           u == IF ~Fresh THEN [t EXCEPT !.st = "tables"]
                ELSE IF entry.value = "pending" THEN [t EXCEPT !.st = "join", !.owner = entry.by]
                ELSE Idle
<1>1. /\ call[c].op = "none" /\ ops < MaxOps /\ ops' = ops + 1 /\ call' = [call EXCEPT ![c] = u]
      /\ heard' = (IF Fresh /\ entry.value # "pending" THEN {<<entry.value, now>>} ELSE {})
      /\ entry' = (IF Fresh THEN entry ELSE [by |-> c, expires |-> now + ReadyTtl, value |-> "pending"])
      /\ UNCHANGED <<now, world, catalog, active, queue>>
  BY DEF AskReady, Start, MayStart
<1>2. /\ DOMAIN t = Fields /\ t.op = "ready" /\ t.asked = now
      /\ t.mongo = "asked" /\ t.pg = "asked" /\ t.tables = FALSE
  BY Begins
<1>3. ~Fresh => u = [t EXCEPT !.st = "tables"]
  OBVIOUS
<1>4. Fresh /\ entry.value = "pending" => u = SetOwner(t, entry.by)
  BY DEF SetOwner
<1>5. Fresh /\ entry.value # "pending" => u = Idle
  OBVIOUS
<1> HIDE DEF t, u
<1>6. DOMAIN call' = Callers /\ call'[c] = u /\ \A d \in Callers \ {c} : call'[d] = call[d]
  BY <1>1, Updated DEF IInv, Calls
<1>7. ops' \in 0..MaxOps
  BY <1>1, OpsCount
<1>8. /\ World /\ Kinds /\ now \in Nat /\ Placed(call[c])
      /\ Answers(call, now, Ws, Bs) /\ EntryAt(entry, call, Ws, Bs) /\ CatalogAt(catalog, now, Bs)
  BY TimesAre DEF IInv, Health, Calls
<1>9. \A s : ~HoldsAt(call[c], s) /\ ~WaitsAt(call[c], s)
  BY <1>1, <1>8, AtRest
<1>10. entry.by # c
  BY <1>1, <1>8 DEF EntryAt, Probing
<1>11. CASE ~Fresh
  <2>1. /\ Kept(t, u) /\ Evidence(t, u) /\ u.st = "tables"
    BY <1>2, <1>3, <1>11, Steps
  <2>2. Placed(u) /\ \A s : ~HoldsAt(u, s) /\ ~WaitsAt(u, s)
    BY <1>2, <2>1 DEF Placed, Kept, HoldsAt, WaitsAt
  <2>3. Probing(u) /\ ProbeAt(u, now, Ws, Bs) /\ ~Joining(u)
    <3>1. /\ u.op = "ready" /\ u.st = "tables" /\ u.asked = now
          /\ u.mongo = "asked" /\ u.pg = "asked" /\ u.tables = FALSE
      BY <1>2, <2>1 DEF Kept, Evidence
    <3>2. u.asked \in Nat /\ u.asked <= now
      BY <1>8, <3>1
    <3>3. ProbeAt(u, now, Ws, Bs)
      BY <3>1, <3>2 DEF ProbeAt
    <3> QED BY <3>1, <3>3 DEF Probing, Joining
  <2>4. Answers(call', now, Ws, Bs)
    BY <1>1, <1>6, <1>8, <2>3, Newcomer
  <2>5. /\ entry' = [by |-> c, expires |-> now + ReadyTtl, value |-> "pending"] /\ heard' = {}
        /\ u.asked = now
    BY <1>1, <1>2, <1>11, <2>1 DEF Kept
  <2>6. EntryAt(entry', call', Ws, Bs)
    BY <1>6, <2>3, <2>5 DEF EntryAt
  <2>7. Health(call', entry', heard', catalog, now, Ws, Bs)
    BY <1>8, <2>4, <2>5, <2>6 DEF Health
  <2>8. \A d \in Callers : call'[d] = call[d] \/ (Placed(call'[d]) /\ Alike(call[d], call'[d]))
    BY <1>6, <1>9, <2>2 DEF Alike
  <2>9. entry' \in [by : Callers \cup {NoCaller}, expires : Int,
                    value : {"none", "pending", "ready", "unready"}]
    BY <1>8, <2>5, Limits
  <2> QED BY <1>1, <1>6, <1>7, <2>7, <2>8, <2>9, ReadyMoves
<1>12. CASE Fresh /\ entry.value = "pending"
  <2>1. DOMAIN u = Fields /\ u.op = "ready" /\ u.st = "join" /\ u.owner = entry.by /\ u.asked = now
    BY <1>2, <1>4, <1>12, Joined
  <2>2. Placed(u) /\ \A s : ~HoldsAt(u, s) /\ ~WaitsAt(u, s)
    BY <2>1 DEF Placed, HoldsAt, WaitsAt
  <2>3. entry' = entry /\ heard' = {} /\ entry.expires > now
    BY <1>1, <1>12 DEF Fresh
  <2>4. /\ entry.by \in Callers \ {c} /\ Probing(call[entry.by])
        /\ entry.expires = call[entry.by].asked + ReadyTtl
    BY <1>8, <1>10, <1>12 DEF EntryAt
  <2>5. JoinAt(call', c) /\ ~Probing(u)
    BY <1>6, <1>8, <2>1, <2>3, <2>4 DEF JoinAt, Probing
  <2>6. Answers(call', now, Ws, Bs)
    BY <1>1, <1>6, <1>8, <2>5, Newcomer
  <2>7. EntryAt(entry', call', Ws, Bs)
    BY <1>6, <1>8, <2>3, <2>4 DEF EntryAt
  <2>8. Health(call', entry', heard', catalog, now, Ws, Bs)
    BY <1>8, <2>3, <2>6, <2>7 DEF Health
  <2>9. \A d \in Callers : call'[d] = call[d] \/ (Placed(call'[d]) /\ Alike(call[d], call'[d]))
    BY <1>6, <1>9, <2>2 DEF Alike
  <2>10. entry' \in [by : Callers \cup {NoCaller}, expires : Int,
                     value : {"none", "pending", "ready", "unready"}]
    BY <1>8, <2>3 DEF Kinds
  <2> QED BY <1>1, <1>6, <1>7, <2>8, <2>9, <2>10, ReadyMoves
<1>13. CASE Fresh /\ entry.value # "pending"
  <2>1. u = Idle /\ entry' = entry /\ heard' = {<<entry.value, now>>} /\ entry.expires > now
    BY <1>1, <1>5, <1>13 DEF Fresh
  <2>2. ~Probing(u) /\ ~Joining(u)
    BY <2>1, IdleIs DEF Probing, Joining
  <2>3. Answers(call', now, Ws, Bs)
    BY <1>1, <1>6, <1>8, <2>2, Newcomer
  <2>4. EntryAt(entry', call', Ws, Bs)
    BY <1>6, <1>8, <1>10, <2>1 DEF EntryAt
  <2>5. ASSUME NEW x \in heard' PROVE HeardAt(x, Ws, Bs)
    <3>1. PICK k, e : k = now /\ e = entry.expires
      OBVIOUS
    <3>2. k \in Int /\ e \in Int /\ e > k /\ x[1] = entry.value /\ x[2] = k
      BY <1>8, <2>1, <2>5, <3>1 DEF Kinds
    <3>3. Ws \in [Sources -> Int] /\ Bs \in [Sources -> Int]
      BY <1>8, TimesAre
    <3>4. entry.value = "ready" => \A s \in Sources : Ws[s] > k - ReadyTtl
      BY <1>8, <3>1, <3>2, <3>3, Limits DEF EntryAt
    <3>5. entry.value = "unready" => \E s \in Sources : Bs[s] > k - ReadyTtl - CatalogTtl
      BY <1>8, <3>1, <3>2, <3>3, Limits DEF EntryAt
    <3> QED BY <3>2, <3>4, <3>5 DEF HeardAt
  <2>6. Health(call', entry', heard', catalog, now, Ws, Bs)
    BY <1>8, <2>3, <2>4, <2>5 DEF Health
  <2>7. \A d \in Callers : call'[d] = call[d] \/ (Placed(call'[d]) /\ Alike(call[d], call'[d]))
    BY <1>6, <1>9, <2>1, IdleRests DEF Alike
  <2>8. entry' \in [by : Callers \cup {NoCaller}, expires : Int,
                    value : {"none", "pending", "ready", "unready"}]
    BY <1>8, <2>1 DEF Kinds
  <2> QED BY <1>1, <1>6, <1>7, <2>6, <2>7, <2>8, ReadyMoves
<1> QED BY <1>11, <1>12, <1>13

\* The answer of c is given: what it and those that joined it hear holds.
LEMMA SettleKeeps ==
  ASSUME IInv, NEW c \in Callers, Probing(call[c]), NEW v, NEW e, Settle(c, v, e),
         UNCHANGED <<now, ops, world, catalog, active, queue>>,
         v = "ready" => \A s \in Sources : Ws[s] >= call[c].asked,
         v = "unready" => \E s \in Sources : Bs[s] >= call[c].asked - CatalogTtl,
         entry.by = c => /\ e \in [by : {NoCaller}, expires : Int, value : {"none", "ready", "unready"}]
                         /\ e.value = "none" \/ (e.value = v /\ e.expires = entry.expires)
  PROVE  IInv'
<1> DEFINE told == {d \in Callers : d = c \/ (call[d].st = "join" /\ call[d].owner = c)}
<1>1. /\ call' = [d \in Callers |-> IF d \in told THEN Idle ELSE call[d]]
      /\ heard' = {<<v, call[d].asked>> : d \in told}
      /\ entry' = IF entry.by = c THEN e ELSE entry
  BY DEF Settle
<1>2. /\ World /\ Kinds /\ now \in Nat /\ Ws \in [Sources -> Int] /\ Bs \in [Sources -> Int]
      /\ Answers(call, now, Ws, Bs) /\ EntryAt(entry, call, Ws, Bs) /\ CatalogAt(catalog, now, Bs)
      /\ \A d \in Callers : Placed(call[d])
  BY TimesAre DEF IInv, Health, Calls
<1>3. ProbeAt(call[c], now, Ws, Bs)
  BY <1>2 DEF Answers
<1>4. call[c].asked \in Nat
  BY <1>3 DEF ProbeAt
<1>5. \A d \in Callers : call[d].st = "join" => Joining(call[d]) /\ JoinAt(call, d)
  <2>1. \A d \in Callers : call[d].st = "join" => call[d].op = "ready"
    BY <1>2, PlacedIs
  <2> QED BY <1>2, <2>1 DEF Joining, Answers
<1>6. \A d \in told : call[d].asked \in Nat /\ call[d].asked < call[c].asked + ReadyTtl
  <2>1. call[c].asked < call[c].asked + ReadyTtl
    BY <1>4, Limits
  <2>2. ASSUME NEW d \in told, d # c PROVE JoinAt(call, d) /\ call[d].owner = c
    <3>1. d \in Callers /\ call[d].st = "join" /\ call[d].owner = c
      BY <2>2
    <3> QED BY <1>5, <3>1
  <2> QED BY <1>4, <2>1, <2>2 DEF JoinAt
<1>7. \A d \in told : call[d].op = "ready"
  BY <1>5 DEF Probing, Joining
<1>8. \A d \in Callers : Probing(call[d]) /\ d # c => d \notin told
  BY DEF Probing
<1>9. \A d \in Callers : Joining(call[d]) /\ d \notin told => call[d].owner # c
  BY DEF Joining
<1>10. DOMAIN call' = Callers /\ \A d \in Callers : call'[d] = IF d \in told THEN Idle ELSE call[d]
  BY <1>1
<1>11. \A x \in heard' : \E d \in told : x = <<v, call[d].asked>>
  BY <1>1
<1> HIDE DEF told
<1>12. Answers(call', now, Ws, Bs)
  <2>1. ASSUME NEW d \in Callers, Probing(call'[d]) PROVE ProbeAt(call'[d], now, Ws, Bs)
    <3>1. call'[d] = call[d]
      BY <1>10, <2>1, IdleIs DEF Probing
    <3> QED BY <1>2, <2>1, <3>1 DEF Answers
  <2>2. ASSUME NEW d \in Callers, Joining(call'[d]) PROVE JoinAt(call', d)
    <3>1. call'[d] = call[d] /\ d \notin told
      BY <1>10, <2>2, IdleIs DEF Joining
    <3>2. JoinAt(call, d) /\ call[d].owner # c
      BY <1>2, <1>9, <2>2, <3>1 DEF Answers
    <3>3. call[d].owner \in Callers /\ call[d].owner \notin told
      BY <1>8, <3>2 DEF JoinAt
    <3>4. call'[call[d].owner] = call[call[d].owner]
      BY <1>10, <3>3
    <3> QED BY <3>1, <3>2, <3>4 DEF JoinAt
  <2> QED BY <2>1, <2>2 DEF Answers
<1>13. EntryAt(entry', call', Ws, Bs)
  <2>1. CASE entry.by = c
    <3>1. /\ entry' = e /\ e.by = NoCaller /\ e.value \in {"none", "ready", "unready"}
          /\ e.value = "none" \/ (e.value = v /\ e.expires = entry.expires)
      BY <1>1, <2>1
    <3>2. entry.expires = call[c].asked + ReadyTtl
      BY <1>2, <2>1 DEF EntryAt
    <3>3. e.value # "none" => e.expires - ReadyTtl = call[c].asked
      BY <1>4, <3>1, <3>2, Limits
    <3>4. e.value = "ready" => \A s \in Sources : Ws[s] >= e.expires - ReadyTtl
      BY <3>1, <3>3
    <3>5. e.value = "unready" => \E s \in Sources : Bs[s] >= e.expires - ReadyTtl - CatalogTtl
      BY <3>1, <3>3
    <3> QED BY <3>1, <3>4, <3>5, Limits DEF EntryAt
  <2>2. CASE entry.by # c
    <3>1. entry' = entry
      BY <1>1, <2>2
    <3>2. entry.by \in Callers => call'[entry.by] = call[entry.by]
      BY <1>2, <1>8, <1>10, <2>2 DEF EntryAt
    <3> QED BY <1>2, <3>1, <3>2 DEF EntryAt
  <2> QED BY <2>1, <2>2
<1>14. ASSUME NEW x \in heard' PROVE HeardAt(x, Ws, Bs)
  <2>1. PICK d \in told : x = <<v, call[d].asked>>
    BY <1>11, <1>14
  <2>2. PICK k, a : k = call[d].asked /\ a = call[c].asked
    OBVIOUS
  <2>3. k \in Nat /\ a \in Nat /\ k < a + ReadyTtl /\ x[1] = v /\ x[2] = k
    BY <1>4, <1>6, <2>1, <2>2
  <2>4. v = "ready" => \A s \in Sources : Ws[s] > k - ReadyTtl
    BY <1>2, <2>2, <2>3, Limits
  <2>5. v = "unready" => \E s \in Sources : Bs[s] > k - ReadyTtl - CatalogTtl
    BY <1>2, <2>2, <2>3, Limits
  <2> QED BY <2>3, <2>4, <2>5 DEF HeardAt
<1>15. Health(call', entry', heard', catalog, now, Ws, Bs)
  BY <1>2, <1>12, <1>13, <1>14 DEF Health
<1>16. entry' \in [by : Callers \cup {NoCaller}, expires : Int,
                   value : {"none", "pending", "ready", "unready"}]
  <2>1. CASE entry.by = c
    <3>1. entry' = e /\ e \in [by : {NoCaller}, expires : Int, value : {"none", "ready", "unready"}]
      BY <1>1, <2>1
    <3> QED BY <3>1
  <2>2. CASE entry.by # c
    BY <1>1, <1>2, <2>2 DEF Kinds
  <2> QED BY <2>1, <2>2
<1>17. ASSUME NEW d \in Callers
       PROVE  call'[d] = call[d] \/ (Placed(call'[d]) /\ Alike(call[d], call'[d]))
  <2>1. CASE d \in told
    <3>1. call'[d] = Idle /\ call[d].op = "ready" /\ Placed(call[d])
      BY <1>2, <1>7, <1>10, <2>1
    <3>2. \A s : ~HoldsAt(call[d], s) /\ ~WaitsAt(call[d], s)
      BY <3>1, PlacedIs DEF HoldsAt, WaitsAt
    <3> QED BY <3>1, <3>2, IdleRests DEF Alike
  <2> QED BY <1>10, <2>1
<1>18. ops' \in 0..MaxOps
  BY <1>2 DEF Kinds
<1> QED BY <1>10, <1>15, <1>16, <1>17, <1>18, ReadyMoves

LEMMA CheckTablesKeeps ==
  ASSUME IInv, NEW c \in Callers, CheckTables(c)
  PROVE  IInv'
<1>1. /\ call[c].st = "tables" /\ UNCHANGED <<now, ops, world, catalog, active, queue>>
  BY DEF CheckTables
<1>2. Placed(call[c]) /\ World /\ Answers(call, now, Ws, Bs) /\ ops \in 0..MaxOps
  BY DEF IInv, Calls, Health, Kinds
<1>3. call[c].op = "ready" /\ DOMAIN call[c] = Fields
  BY <1>1, <1>2, PlacedIs
<1>4. Probing(call[c]) /\ ProbeAt(call[c], now, Ws, Bs)
  <2>1. Probing(call[c])
    BY <1>1, <1>3 DEF Probing
  <2> QED BY <1>2, <2>1 DEF Answers
<1>5. CASE up["pg"]
  <2>1. PICK ok \in BOOLEAN :
          /\ Whole("pg") => ok
          /\ call' = [call EXCEPT ![c] = SetTables(call[c], "catalog", ok)]
          /\ entry' = entry /\ heard' = {}
    BY <1>5 DEF CheckTables, SetTables
  <2>2. PICK t, u : t = call[c] /\ u = SetTables(t, "catalog", ok)
    OBVIOUS
  <2>3. Kept(t, u) /\ u.st = "catalog" /\ u.tables = ok /\ u.pg = t.pg /\ u.mongo = t.mongo
    BY <1>3, <2>2, StepsWithTables
  <2>4. t.op = "ready" /\ t.st = "tables" /\ Placed(t) /\ ProbeAt(t, now, Ws, Bs)
    BY <1>1, <1>2, <1>3, <1>4, <2>2
  <2>5. Placed(u)
    BY <2>3, <2>4 DEF Placed, Kept
  <2>6. Alike(t, u) /\ Quietly(t, u)
    BY <2>3, <2>4 DEF Alike, HoldsAt, WaitsAt, Quietly, Kept, Probing
  <2>7. ~ok => Bs["pg"] = now
    BY <1>2, <2>1, TimesAre DEF Sources, LastBroken
  <2>8. ProbeAt(u, now, Ws, Bs)
    BY <2>1, <2>3, <2>4, <2>7 DEF ProbeAt, Kept
  <2>9. call' = [call EXCEPT ![c] = u]
    BY <2>1, <2>2
  <2> QED BY <1>1, <1>2, <2>1, <2>2, <2>5, <2>6, <2>8, <2>9, OneMoves
<1>6. CASE ~up["pg"]
  <2>1. PICK e : e = [by |-> NoCaller, expires |-> 0, value |-> "none"]
    OBVIOUS
  <2>2. Settle(c, "error", e)
    BY <1>6, <2>1 DEF CheckTables
  <2>3. e \in [by : {NoCaller}, expires : Int, value : {"none", "ready", "unready"}] /\ e.value = "none"
    BY <2>1
  <2> QED BY <1>1, <1>4, <2>2, <2>3, SettleKeeps
<1> QED BY <1>5, <1>6

LEMMA PingMongoKeeps ==
  ASSUME IInv, NEW c \in Callers, PingMongo(c)
  PROVE  IInv'
<1>1. PICK y : y = IF Whole("mongo") THEN "ok" ELSE "bad"
  OBVIOUS
<1>2. /\ call[c].op = "ready" /\ call[c].st \in {"catalog", "load", "select", "pg"} /\ heard' = {}
      /\ UNCHANGED <<now, ops, world, catalog, active, queue, entry>>
      /\ call' = [call EXCEPT ![c] = SetMongo(call[c], y)]
  BY <1>1 DEF PingMongo, SetMongo
<1>3. Placed(call[c]) /\ World /\ Answers(call, now, Ws, Bs) /\ ops \in 0..MaxOps
  BY DEF IInv, Calls, Health, Kinds
<1>4. PICK t, u : t = call[c] /\ u = SetMongo(t, y)
  OBVIOUS
<1>5. Placed(t) /\ DOMAIN t = Fields /\ t.op = "ready" /\ t.st \in {"catalog", "load", "select", "pg"} /\ Probing(t)
  BY <1>2, <1>3, <1>4, PlacedIs DEF Probing
<1>6. ProbeAt(t, now, Ws, Bs)
  BY <1>3, <1>4, <1>5 DEF Answers
<1>7. Kept(t, u) /\ u.st = t.st /\ u.mongo = y /\ u.tables = t.tables /\ u.pg = t.pg
  BY <1>4, <1>5, Pinged
<1>8. Placed(u)
  BY <1>5, <1>7 DEF Placed, Kept
<1>9. Alike(t, u) /\ Quietly(t, u)
  BY <1>5, <1>7 DEF Alike, HoldsAt, WaitsAt, Quietly, Kept, Probing
<1>10. y \in {"ok", "bad"} /\ (y = "ok" => Ws["mongo"] = now) /\ (y = "bad" => Bs["mongo"] = now)
  BY <1>1, <1>3, TimesAre DEF Sources, LastWhole, LastBroken
<1>11. ProbeAt(u, now, Ws, Bs)
  BY <1>6, <1>7, <1>10 DEF ProbeAt, Kept
<1> QED BY <1>2, <1>3, <1>4, <1>8, <1>9, <1>11, OneMoves

LEMMA SelectNothingKeeps ==
  ASSUME IInv, NEW c \in Callers, SelectNothing(c)
  PROVE  IInv'
<1>1. PICK y : y = IF Whole("pg") THEN "ok" ELSE "bad"
  OBVIOUS
<1>2. /\ call[c].st = "select" /\ heard' = {}
      /\ UNCHANGED <<now, ops, world, catalog, active, queue, entry>>
      /\ call' = [call EXCEPT ![c] = SetPg(call[c], "pg", y)]
  BY <1>1 DEF SelectNothing, SetPg
<1>3. Placed(call[c]) /\ World /\ Answers(call, now, Ws, Bs) /\ ops \in 0..MaxOps
  BY DEF IInv, Calls, Health, Kinds
<1>4. PICK t, u : t = call[c] /\ u = SetPg(t, "pg", y)
  OBVIOUS
<1>5. Placed(t) /\ DOMAIN t = Fields /\ t.op = "ready" /\ t.st = "select" /\ Probing(t)
  BY <1>2, <1>3, <1>4, PlacedIs DEF Probing
<1>6. ProbeAt(t, now, Ws, Bs)
  BY <1>3, <1>4, <1>5 DEF Answers
<1>7. Kept(t, u) /\ u.st = "pg" /\ u.pg = y /\ u.tables = t.tables /\ u.mongo = t.mongo
  BY <1>4, <1>5, StepsWithPg
<1>8. Placed(u)
  BY <1>5, <1>7 DEF Placed, Kept
<1>9. Alike(t, u) /\ Quietly(t, u)
  BY <1>5, <1>7 DEF Alike, HoldsAt, WaitsAt, Quietly, Kept, Probing
<1>10. y \in {"ok", "bad"} /\ (y = "ok" => Ws["pg"] = now) /\ (y = "bad" => Bs["pg"] = now)
  BY <1>1, <1>3, TimesAre DEF Sources, LastWhole, LastBroken
<1>11. ProbeAt(u, now, Ws, Bs)
  <2>1. now >= t.asked - CatalogTtl
    BY <1>3, <1>6, TimesAre, Limits DEF ProbeAt
  <2> QED BY <1>5, <1>6, <1>7, <1>10, <2>1 DEF ProbeAt, Kept
<1> QED BY <1>2, <1>3, <1>4, <1>8, <1>9, <1>11, OneMoves

LEMMA AnswerReadyKeeps ==
  ASSUME IInv, NEW c \in Callers, AnswerReady(c)
  PROVE  IInv'
<1>1. PICK t, v, e : /\ t = call[c]
                     /\ v = IF t.tables /\ t.pg = "ok" /\ t.mongo = "ok" THEN "ready" ELSE "unready"
                     /\ e = [entry EXCEPT !.by = NoCaller, !.value = v]
  OBVIOUS
<1>2. t.st = "pg" /\ t.mongo # "asked" /\ Settle(c, v, e) /\ UNCHANGED <<now, ops, world, catalog, active, queue>>
  BY <1>1 DEF AnswerReady
<1>3. Placed(t) /\ World /\ Kinds /\ Answers(call, now, Ws, Bs)
  BY <1>1 DEF IInv, Calls, Health
<1>4. t.op = "ready" /\ Probing(t)
  BY <1>2, <1>3, PlacedIs DEF Probing
<1>5. ProbeAt(t, now, Ws, Bs)
  BY <1>1, <1>3, <1>4 DEF Answers
<1>6. /\ t.asked \in Nat /\ Ws \in [Sources -> Int] /\ Bs \in [Sources -> Int]
      /\ t.pg \in {"ok", "bad"} /\ t.mongo \in {"ok", "bad"} /\ t.tables \in BOOLEAN
      /\ t.mongo = "ok" => Ws["mongo"] >= t.asked
      /\ t.mongo = "bad" => Bs["mongo"] >= t.asked
      /\ t.pg = "ok" => Ws["pg"] >= t.asked
      /\ t.pg = "bad" => Bs["pg"] >= t.asked - CatalogTtl
      /\ t.tables = FALSE => Bs["pg"] >= t.asked
  BY <1>2, <1>3, <1>5, TimesAre DEF ProbeAt
<1>7. v = "ready" => \A s \in Sources : Ws[s] >= t.asked
  BY <1>1, <1>6 DEF Sources
<1>8. v = "unready" => \E s \in Sources : Bs[s] >= t.asked - CatalogTtl
  <2>1. Bs["pg"] >= t.asked => Bs["pg"] >= t.asked - CatalogTtl
    BY <1>6, Limits DEF Sources
  <2>2. Bs["mongo"] >= t.asked => Bs["mongo"] >= t.asked - CatalogTtl
    BY <1>6, Limits DEF Sources
  <2> QED BY <1>1, <1>6, <2>1, <2>2 DEF Sources
<1>9. v \in {"ready", "unready"}
  BY <1>1
<1>10. /\ e \in [by : {NoCaller}, expires : Int, value : {"none", "ready", "unready"}]
       /\ e.value = v /\ e.expires = entry.expires
  BY <1>1, <1>3, <1>9 DEF Kinds
<1>11. /\ Probing(call[c]) /\ (v = "ready" => \A s \in Sources : Ws[s] >= call[c].asked)
       /\ v = "unready" => \E s \in Sources : Bs[s] >= call[c].asked - CatalogTtl
  BY <1>1, <1>4, <1>7, <1>8
<1> QED BY <1>2, <1>10, <1>11, SettleKeeps

-----------------------------------------------------------------------------
\* The catalog.
LEMMA AskCatalogKeeps ==
  ASSUME IInv, NEW c \in Callers, AskCatalog(c)
  PROVE  IInv'
<1>1. PICK t, u : /\ t = call[c]
                  /\ u = IF catalog.expires > now THEN Proceed(t, catalog.value) ELSE [t EXCEPT !.st = "load"]
  OBVIOUS
<1>2. /\ t.st = "catalog" /\ heard' = {} /\ call' = [call EXCEPT ![c] = u]
      /\ UNCHANGED <<now, ops, world, catalog, active, queue, entry>>
  BY <1>1 DEF AskCatalog
<1>3. /\ Placed(t) /\ World /\ Kinds /\ Answers(call, now, Ws, Bs) /\ CatalogAt(catalog, now, Bs)
      /\ DOMAIN call = Callers
  BY <1>1 DEF IInv, Calls, Health
<1>4. Probing(t) => ProbeAt(t, now, Ws, Bs)
  BY <1>1, <1>3 DEF Answers
<1>5. Placed(u) /\ Alike(t, u) /\ Quietly(t, u) /\ (Probing(t) => ProbeAt(u, now, Ws, Bs))
  <2>1. CASE catalog.expires > now
    <3>1. PICK value : value = catalog.value /\ u = Proceed(t, value)
      BY <1>1, <2>1
    <3>2. /\ Placed(u) /\ Alike(t, u) /\ Quietly(t, u)
          /\ \A n, w, b : /\ ProbeAt(t, n, w, b) /\ Probing(t)
                          /\ value # PgRels => b["pg"] >= t.asked - CatalogTtl
                          => ProbeAt(u, n, w, b)
      BY <1>2, <1>3, <3>1, ProceedIs
    <3>3. ASSUME Probing(t), value # PgRels PROVE Bs["pg"] >= t.asked - CatalogTtl
      <4>1. Bs["pg"] >= catalog.expires - CatalogTtl
        BY <1>3, <2>1, <3>1, <3>3 DEF CatalogAt
      <4>2. t.asked \in Nat /\ t.asked <= now
        BY <1>4, <3>3 DEF ProbeAt
      <4>3. catalog.expires \in Int /\ Bs["pg"] \in Int /\ now \in Nat
        BY <1>3, TimesAre DEF Kinds, Sources
      <4> QED BY <2>1, <4>1, <4>2, <4>3, Limits
    <3> QED BY <1>4, <3>2, <3>3
  <2>2. CASE ~(catalog.expires > now)
    <3>1. DOMAIN t = Fields /\ t.op \in {"discover", "query", "ready"}
      BY <1>2, <1>3, PlacedIs
    <3>2. Kept(t, u) /\ Evidence(t, u) /\ u.st = "load"
      BY <1>1, <2>2, <3>1, Steps
    <3>3. Placed(u)
      BY <1>2, <1>3, <3>1, <3>2 DEF Placed, Kept
    <3>4. Alike(t, u) /\ Quietly(t, u)
      BY <1>2, <3>2 DEF Alike, HoldsAt, WaitsAt, Quietly, Kept, Probing
    <3>5. Probing(t) => ProbeAt(u, now, Ws, Bs)
      BY <1>2, <1>4, <3>2 DEF ProbeAt, Kept, Evidence
    <3> QED BY <3>3, <3>4, <3>5
  <2> QED BY <2>1, <2>2
<1>6. ops' \in 0..MaxOps
  BY <1>2, <1>3 DEF Kinds
<1> QED BY <1>1, <1>2, <1>5, <1>6, OneMoves

LEMMA LoadCatalogKeeps ==
  ASSUME IInv, LoadCatalog
  PROVE  IInv'
<1>1. /\ call' = [c \in Callers |->
                    IF call[c].st # "load" THEN call[c]
                    ELSE IF up["pg"] THEN Proceed(call[c], views) ELSE Threw(call[c])]
      /\ catalog' = IF up["pg"] THEN [value |-> views, expires |-> now + CatalogTtl] ELSE catalog
      /\ heard' = {} /\ UNCHANGED <<now, ops, world, active, queue, entry>>
  BY DEF LoadCatalog
<1>2. /\ World /\ Kinds /\ Answers(call, now, Ws, Bs) /\ CatalogAt(catalog, now, Bs)
      /\ \A c \in Callers : Placed(call[c])
  BY DEF IInv, Calls, Health
<1>3. now \in Nat /\ Ws \in [Sources -> Int] /\ Bs \in [Sources -> Int] /\ "pg" \in Sources
  BY <1>2, TimesAre DEF Sources
<1>4. ~up["pg"] \/ views # PgRels => Bs["pg"] = now
  BY <1>2, TimesAre DEF Sources, LastBroken, Whole
<1>5. catalog' \in [value : SUBSET PgRels, expires : Int] /\ CatalogAt(catalog', now, Bs)
  <2>1. CASE up["pg"]
    <3>1. catalog' = [value |-> views, expires |-> now + CatalogTtl]
      BY <1>1, <2>1
    <3>2. catalog'.value = views /\ catalog'.expires = now + CatalogTtl
      BY <3>1
    <3>3. (now + CatalogTtl) \in Int /\ (now + CatalogTtl) - CatalogTtl = now /\ now >= now
      BY <1>3, Limits
    <3>4. CatalogAt(catalog', now, Bs)
      BY <1>4, <3>2, <3>3 DEF CatalogAt
    <3>5. catalog' \in [value : SUBSET PgRels, expires : Int]
      BY <1>2, <3>1, <3>3 DEF World
    <3> QED BY <3>4, <3>5
  <2>2. CASE ~up["pg"]
    BY <1>1, <1>2, <2>2 DEF Kinds
  <2> QED BY <2>1, <2>2
<1>6. ASSUME NEW c \in Callers
      PROVE  \/ call'[c] = call[c]
             \/ /\ Placed(call'[c]) /\ Alike(call[c], call'[c]) /\ Quietly(call[c], call'[c])
                /\ Probing(call[c]) => ProbeAt(call'[c], now, Ws, Bs)
  <2>1. PICK t, u : t = call[c] /\ u = call'[c]
    OBVIOUS
  <2>2. Placed(t) /\ (Probing(t) => ProbeAt(t, now, Ws, Bs))
    BY <1>2, <2>1 DEF Answers
  <2>3. ASSUME Probing(t), Bs["pg"] = now PROVE Bs["pg"] >= t.asked - CatalogTtl
    <3>1. t.asked \in Nat /\ t.asked <= now
      BY <2>2, <2>3 DEF ProbeAt
    <3> QED BY <1>3, <2>3, <3>1, Limits
  <2>4. CASE t.st = "load" /\ up["pg"]
    <3>1. PICK value : value = views /\ u = Proceed(t, value)
      BY <1>1, <2>1, <2>4
    <3>2. /\ Placed(u) /\ Alike(t, u) /\ Quietly(t, u)
          /\ \A n, w, b : /\ ProbeAt(t, n, w, b) /\ Probing(t)
                          /\ value # PgRels => b["pg"] >= t.asked - CatalogTtl
                          => ProbeAt(u, n, w, b)
      BY <2>2, <2>4, <3>1, ProceedIs
    <3>3. Probing(t) => ProbeAt(u, now, Ws, Bs)
      BY <1>4, <2>2, <2>3, <3>1, <3>2
    <3> QED BY <2>1, <3>2, <3>3
  <2>5. CASE t.st = "load" /\ ~up["pg"]
    <3>1. u = Threw(t)
      BY <1>1, <2>1, <2>5
    <3>2. /\ Placed(u) /\ Alike(t, u) /\ Quietly(t, u)
          /\ \A n, w, b : ProbeAt(t, n, w, b) /\ Probing(t) /\ b["pg"] >= t.asked - CatalogTtl
                          => ProbeAt(u, n, w, b)
      BY <2>2, <2>5, <3>1, ThrewIs
    <3>3. Probing(t) => ProbeAt(u, now, Ws, Bs)
      BY <1>4, <2>2, <2>3, <2>5, <3>2
    <3> QED BY <2>1, <3>2, <3>3
  <2>6. CASE t.st # "load"
    BY <1>1, <2>1, <2>6
  <2> QED BY <2>4, <2>5, <2>6
<1>7. DOMAIN call' = Callers /\ ops' \in 0..MaxOps
  BY <1>1, <1>2 DEF Kinds
<1> QED BY <1>1, <1>5, <1>6, <1>7, CallersMove

-----------------------------------------------------------------------------
\* The environment: what was complete, or was not, stays in the past.
LEMMA Watched ==
  ASSUME World, Watch, now' \in 0..MaxTime, now <= now', up' \in [Sources -> BOOLEAN],
         changes' \in 0..MaxChanges, views' \subseteq PgRels, grants' \subseteq Rels
  PROVE  World' /\ \A s \in Sources : Ws[s] <= Ws'[s] /\ Bs[s] <= Bs'[s]
<1>1. now \in Nat /\ now' \in Nat
  BY TimesAre, Scaled
<1>2. ASSUME NEW s \in Sources
      PROVE  /\ wholeAt'[s] = Ws[s] /\ brokenAt'[s] = Bs[s] /\ Ws[s] \in Int /\ Bs[s] \in Int
             /\ Ws[s] <= now /\ Bs[s] <= now
  <2>1. wholeAt'[s] = Ws[s] /\ brokenAt'[s] = Bs[s]
    BY TimesAre DEF Watch, LastWhole, LastBroken
  <2>2. Ws[s] \in Int /\ Bs[s] \in Int
    BY TimesAre
  <2>3. Ws[s] <= now /\ Bs[s] <= now
    BY <1>1, TimesAre DEF World, LastWhole, LastBroken
  <2> QED BY <2>1, <2>2, <2>3
<1>3. World'
  <2>1. wholeAt' \in [Sources -> Int] /\ brokenAt' \in [Sources -> Int]
    <3>1. DOMAIN wholeAt' = Sources /\ DOMAIN brokenAt' = Sources
      BY DEF Watch
    <3>2. wholeAt' = [s \in Sources |-> wholeAt'[s]] /\ brokenAt' = [s \in Sources |-> brokenAt'[s]]
      BY DEF Watch
    <3> QED BY <1>2, <3>1, <3>2
  <2>2. \A s \in Sources : wholeAt'[s] <= now' /\ brokenAt'[s] <= now'
    BY <1>1, <1>2
  <2> QED BY <2>1, <2>2 DEF World
<1>4. ASSUME NEW s \in Sources PROVE Ws[s] <= Ws'[s] /\ Bs[s] <= Bs'[s]
  <2>1. Ws'[s] = (IF Whole(s)' THEN now' ELSE wholeAt'[s]) /\ Bs'[s] = (IF Whole(s)' THEN brokenAt'[s] ELSE now')
    BY DEF Ws, Bs, LastWhole, LastBroken
  <2> QED BY <1>1, <1>2, <2>1
<1> QED BY <1>3, <1>4

LEMMA WatchKeeps ==
  ASSUME IInv, Watch, UNCHANGED <<ops, catalog, call, active, queue, entry>>, heard' = {},
         now' \in 0..MaxTime, now <= now', up' \in [Sources -> BOOLEAN],
         changes' \in 0..MaxChanges, views' \subseteq PgRels, grants' \subseteq Rels
  PROVE  IInv'
<1>1. World' /\ \A s \in Sources : Ws[s] <= Ws'[s] /\ Bs[s] <= Bs'[s]
  BY Watched DEF IInv
<1>2. /\ now' \in Nat /\ Ws' \in [Sources -> Int] /\ Bs' \in [Sources -> Int]
  <2>1. now' \in Nat
    BY Scaled
  <2>2. \A s \in Sources : LastWhole(s)' \in Int /\ LastBroken(s)' \in Int
    BY <1>1, <2>1 DEF World, LastWhole, LastBroken
  <2> QED BY <2>1, <2>2 DEF Ws, Bs
<1>3. now \in Nat /\ Ws \in [Sources -> Int] /\ Bs \in [Sources -> Int]
  BY TimesAre DEF IInv
<1>4. entry.expires \in Int /\ catalog.expires \in Int
  BY DEF IInv, Kinds
<1>5. PICK v, d, m : v = Ws' /\ d = Bs' /\ m = now'
  OBVIOUS
<1>6. Health(call, entry, {}, catalog, m, v, d)
  BY <1>1, <1>2, <1>3, <1>4, <1>5, HealthLater DEF IInv
<1>7. Health(call', entry', heard', catalog', now', Ws', Bs')
  BY <1>5, <1>6
<1>8. Kinds' /\ Calls' /\ Slots'
  BY DEF IInv, Kinds, Calls, Slots, Holders, Waiters
<1> QED BY <1>1, <1>7, <1>8 DEF IInv

LEMMA ChangeKeeps ==
  ASSUME IInv, Change
  PROVE  IInv'
<1>1. /\ changes < MaxChanges /\ changes' = changes + 1 /\ Watch
      /\ heard' = {} /\ UNCHANGED <<now, ops, catalog, call, active, queue, entry>>
  BY DEF Change
<1>2. World
  BY DEF IInv
<1>3. changes' \in 0..MaxChanges /\ now' \in 0..MaxTime /\ now <= now'
  BY <1>1, <1>2, Scaled DEF World
<1>4. views' \subseteq PgRels /\ grants' \subseteq Rels /\ up' \in [Sources -> BOOLEAN]
  <2>1. CASE /\ \E r \in PgRels : views' = IF r \in views THEN views \ {r} ELSE views \cup {r}
             /\ UNCHANGED <<up, grants>>
    BY <1>2, <2>1 DEF World
  <2>2. CASE /\ \E s \in Sources : up' = [up EXCEPT ![s] = ~@]
             /\ UNCHANGED <<views, grants>>
    <3>1. PICK s \in Sources : up' = [up EXCEPT ![s] = ~@]
      BY <2>2
    <3>2. up' \in [Sources -> BOOLEAN]
      BY <1>2, <3>1 DEF World
    <3> QED BY <1>2, <2>2, <3>2 DEF World
  <2>3. CASE /\ \E r \in Rels : grants' = IF r \in grants THEN grants \ {r} ELSE grants \cup {r}
             /\ UNCHANGED <<views, up>>
    BY <1>2, <2>3 DEF World
  <2> QED BY <2>1, <2>2, <2>3 DEF Change
<1> QED BY <1>1, <1>3, <1>4, WatchKeeps

LEMMA TickKeeps ==
  ASSUME IInv, Tick
  PROVE  IInv'
<1>1. /\ now < MaxTime /\ now' = now + 1 /\ Watch /\ heard' = {}
      /\ UNCHANGED <<ops, changes, views, up, grants, catalog, call, active, queue, entry>>
  BY DEF Tick
<1>2. World
  BY DEF IInv
<1>3. now' \in 0..MaxTime /\ now <= now'
  BY <1>1, <1>2, Scaled DEF World
<1>4. /\ views' \subseteq PgRels /\ grants' \subseteq Rels /\ up' \in [Sources -> BOOLEAN]
      /\ changes' \in 0..MaxChanges
  BY <1>1, <1>2 DEF World
<1> QED BY <1>1, <1>3, <1>4, WatchKeeps

-----------------------------------------------------------------------------
LEMMA Starts == Init => IInv
<1> SUFFICES ASSUME Init PROVE IInv
  OBVIOUS
<1>1. /\ now = 0 /\ ops = 0 /\ changes = 0
      /\ views = PgRels /\ up = [s \in Sources |-> TRUE]
      /\ wholeAt = [s \in Sources |-> 0] /\ brokenAt = [s \in Sources |-> -(ReadyTtl + CatalogTtl)]
      /\ grants \in Granted /\ catalog = [value |-> {}, expires |-> 0]
      /\ call = [c \in Callers |-> Idle]
      /\ active = [s \in Sources |-> 0] /\ queue = [s \in Sources |-> <<>>]
      /\ entry = [by |-> NoCaller, expires |-> 0, value |-> "none"] /\ heard = {}
  BY DEF Init
<1>2. World
  <2>1. -(ReadyTtl + CatalogTtl) \in Int /\ -(ReadyTtl + CatalogTtl) <= 0
    BY Limits
  <2> QED BY <1>1, <2>1, Scaled DEF World
<1>3. Kinds
  BY <1>1, Scaled DEF Kinds
<1>4. Calls
  BY <1>1, IdleRests DEF Calls
<1>5. Slots
  <2>1. \A s \in Sources : Holders(call, s) = {} /\ Waiters(call, s) = {}
    BY <1>1, IdleRests DEF Holders, Waiters
  <2>2. active \in [Sources -> 0..Capacity] /\ queue \in [Sources -> Seq(Callers)]
    BY <1>1, Limits
  <2>3. SlotAt(0, <<>>, {}, {})
    BY Limits, FS_EmptySet DEF SlotAt, Distinct, Line
  <2>4. \A s \in Sources : SlotAt(active[s], queue[s], Holders(call, s), Waiters(call, s))
    <3>1. \A s \in Sources : active[s] = 0 /\ queue[s] = <<>>
      BY <1>1
    <3> QED BY <2>1, <2>3, <3>1
  <2> QED BY <2>2, <2>4 DEF Slots
<1>6. Health(call, entry, heard, catalog, now, Ws, Bs)
  <2>1. \A c \in Callers : ~Probing(call[c]) /\ ~Joining(call[c])
    BY <1>1, IdleIs DEF Probing, Joining
  <2>2. Answers(call, now, Ws, Bs)
    BY <2>1 DEF Answers
  <2>3. EntryAt(entry, call, Ws, Bs)
    BY <1>1, Limits DEF EntryAt
  <2>4. CatalogAt(catalog, now, Bs)
    BY <1>1 DEF CatalogAt
  <2> QED BY <1>1, <2>2, <2>3, <2>4 DEF Health
<1> QED BY <1>2, <1>3, <1>4, <1>5, <1>6 DEF IInv

LEMMA StepKeeps == IInv /\ [Next]_vars => IInv'
<1> SUFFICES ASSUME IInv, [Next]_vars PROVE IInv'
  OBVIOUS
<1>1. ASSUME NEW c \in Callers,
             Discover(c) \/ NextPage(c) \/ EndDiscovery(c) \/ QueueTimeout(c) \/ Leave(c)
             \/ \E n \in DOMAIN Queries : Refuse(c, n) \/ Query(c, n)
      PROVE  IInv'
  <2>1. ASSUME NEW n \in DOMAIN Queries, Refuse(c, n) PROVE IInv'
    BY <2>1, RefuseKeeps DEF Refuse, MayStart
  <2>2. ASSUME NEW n \in DOMAIN Queries, Query(c, n) PROVE IInv'
    BY <2>2, QueryKeeps
  <2> QED BY <1>1, <2>1, <2>2, DiscoverKeeps, NextPageKeeps, EndDiscoveryKeeps, QueueTimeoutKeeps, LeaveKeeps
<1>2. ASSUME NEW c \in Callers,
             AskReady(c) \/ CheckTables(c) \/ PingMongo(c) \/ SelectNothing(c) \/ AnswerReady(c) \/ AskCatalog(c)
      PROVE  IInv'
  BY <1>2, AskReadyKeeps, CheckTablesKeeps, PingMongoKeeps, SelectNothingKeeps, AnswerReadyKeeps, AskCatalogKeeps
<1>3. CASE LoadCatalog \/ Change \/ Tick
  BY <1>3, LoadCatalogKeeps, ChangeKeeps, TickKeeps
<1>4. CASE UNCHANGED vars
  <2>1. /\ UNCHANGED <<now, world, ops, catalog, call, active, queue, entry, heard>>
    BY <1>4 DEF vars, world
  <2>2. World' /\ Ws' = Ws /\ Bs' = Bs
    BY <2>1, WorldStays DEF IInv
  <2>3. Kinds' /\ Calls' /\ Slots'
    BY <2>1 DEF IInv, Kinds, Calls, Slots, Holders, Waiters
  <2> QED BY <2>1, <2>2, <2>3 DEF IInv
<1> QED BY <1>1, <1>2, <1>3, <1>4 DEF Next

(* Each slot of a source belongs to one running query, no slot is lost when a
   waiter times out or a query fails, nobody waits while one is free, and what
   runs was approved: for any number of callers, any capacity and any length
   of the queue (QuerySemaphore, query).                                      *)
THEOREM SlotsSafety == Spec => []SlotsInv
<1>1. IInv => SlotsInv
  BY Promised DEF SlotsInv
<1> QED BY <1>1, Starts, StepKeeps, PTL DEF Spec

(* Whoever hears that the company data is ready, or is not, hears what was so
   no longer ago than the two caches keep an answer, for any times to live and
   whatever breaks and recovers meanwhile (cachedCompanyDataReady over the
   cached catalog).                                                           *)
THEOREM FreshnessSafety == Spec => []HealthFresh
<1> QED BY Promised, Starts, StepKeeps, PTL DEF Spec

(***************************************************************************)
(* Schema discovery: no session lists a relation twice, needs more calls    *)
(* than the manifest was admitted for, or misses what all its pages saw     *)
(***************************************************************************)

\* Sets of numbers, bounded or not.
LEMMA LessIsWellFounded == IsWellFoundedOn({ss \in Nat \X Nat : ss[1] < ss[2]}, Nat)
  BY NatLessThanWellFounded DEF OpToRel

LEMMA Least ==
  ASSUME NEW T, T \subseteq Nat, T # {}
  PROVE  \E n \in T : \A k \in T : n <= k
<1> DEFINE R == {ss \in Nat \X Nat : ss[1] < ss[2]}
<1>1. \E n \in T : \A k \in T : ~(<<k, n>> \in R)
  <2> HIDE DEF R
  <2>1. IsWellFoundedOn(R, Nat)
    BY LessIsWellFounded DEF R
  <2> QED BY <2>1, WFMin
<1>2. PICK n \in T : \A k \in T : ~(<<k, n>> \in R)
  BY <1>1
<1>3. ASSUME NEW k \in T PROVE n <= k
  <2>1. k \in Nat /\ n \in Nat
    OBVIOUS
  <2>2. k < n => <<k, n>> \in R
    BY <2>1
  <2> QED BY <2>1, <2>2, <1>2
<1> QED BY <1>3

LEMMA Greatest ==
  ASSUME NEW T, T \subseteq Rels, T # {}
  PROVE  Max(T) \in T /\ \A k \in T : k <= Max(T)
<1>1. T \subseteq Nat
  BY Manifest
<1>2. PICK n \in Nat : \A k \in T : k <= n
  BY Manifest DEF None
<1> DEFINE U == {m \in Nat : \A k \in T : k <= m}
<1>3. U \subseteq Nat /\ U # {}
  BY <1>2
<1>4. PICK m \in U : \A k \in U : m <= k
  <2> HIDE DEF U
  <2> QED BY <1>3, Least
<1>5. m \in T
  <2>1. SUFFICES ASSUME m \notin T PROVE FALSE
    OBVIOUS
  <2>2. PICK k \in T : TRUE
    OBVIOUS
  <2>3. m \in Nat /\ \A x \in T : x \in Nat /\ x <= m /\ x # m
    BY <1>1, <2>1
  <2>4. m - 1 \in Nat /\ \A x \in T : x <= m - 1
    BY <2>2, <2>3
  <2>5. m - 1 \in U
    BY <2>4
  <2> QED BY <1>4, <2>3, <2>5
<1>6. \E x \in T : \A y \in T : x >= y
  <2>1. \A y \in T : y \in Nat /\ y <= m
    BY <1>1
  <2> QED BY <1>5, <2>1
<1>7. Max(T) \in T /\ \A y \in T : Max(T) >= y
  BY <1>6 DEF Max
<1>8. \A y \in T : y \in Nat
  BY <1>1
<1> QED BY <1>7, <1>8

-----------------------------------------------------------------------------
\* The sizes of the manifest: of the entries, and of their estimates.
Measured(size) == \A r \in Rels : size[r] \in Nat

LEMMA Measures == Measured(Size) /\ Measured(Budget)
  BY Manifest DEF Measured

LEMMA RelsFinite == IsFiniteSet(Rels) /\ Rels \subseteq Nat \ {None}
<1>1. Rels \subseteq Nat \ {None}
  BY Manifest
<1>2. PICK n \in Nat : \A r \in Rels : r <= n
  BY Manifest DEF None
<1>3. Rels \subseteq 0..n
  BY <1>1, <1>2
<1>4. 0 \in Int /\ n \in Int
  OBVIOUS
<1>5. IsFiniteSet(0..n)
  BY <1>4, FS_Interval
<1> QED BY <1>1, <1>3, <1>5, FS_Subset

LEMMA BytesFinite ==
  ASSUME NEW size, Measured(size), NEW A, A \subseteq Rels
  PROVE  IsFiniteSet(Bytes(A, size))
<1> DEFINE Each == {{r} \X (1..size[r]) : r \in A}
           f == [r \in A |-> {r} \X (1..size[r])]
<1>1. IsFiniteSet(A)
  BY RelsFinite, FS_Subset
<1>2. IsFiniteSet(Each)
  <2>1. f \in [A -> Each] /\ \A e \in Each : \E r \in A : f[r] = e
    OBVIOUS
  <2> HIDE DEF f, Each
  <2>2. f \in Surjection(A, Each)
    BY <2>1 DEF Surjection
  <2> QED BY <1>1, <2>2, FS_Surjection
<1>3. ASSUME NEW e \in Each PROVE IsFiniteSet(e)
  <2>1. PICK r \in A : e = {r} \X (1..size[r])
    OBVIOUS
  <2>2. 1 \in Int /\ size[r] \in Int
    BY DEF Measured
  <2>3. IsFiniteSet({r}) /\ IsFiniteSet(1..size[r])
    BY <2>2, FS_Singleton, FS_Interval
  <2> QED BY <2>1, <2>3, FS_Product
<1>4. Bytes(A, size) = UNION Each
  BY DEF Bytes
<1> HIDE DEF Each
<1>5. IsFiniteSet(UNION Each)
  BY <1>2, <1>3, FS_UNION
<1> QED BY <1>4, <1>5

\* Fewer relations, or smaller entries, have fewer bytes.
LEMMA BytesMonotone ==
  ASSUME NEW size, Measured(size), NEW room, Measured(room),
         NEW A, NEW B, A \subseteq B, B \subseteq Rels, \A r \in A : size[r] <= room[r]
  PROVE  /\ Cardinality(Bytes(A, size)) \in Nat /\ Cardinality(Bytes(B, room)) \in Nat
         /\ Cardinality(Bytes(A, size)) <= Cardinality(Bytes(B, room))
<1>1. IsFiniteSet(Bytes(A, size)) /\ IsFiniteSet(Bytes(B, room))
  BY BytesFinite
<1>2. Bytes(A, size) \subseteq Bytes(B, room)
  <2>1. ASSUME NEW r \in A PROVE {r} \X (1..size[r]) \subseteq {r} \X (1..room[r])
    <3>1. r \in Rels /\ size[r] \in Nat /\ room[r] \in Nat /\ size[r] <= room[r]
      BY DEF Measured
    <3>2. 1..size[r] \subseteq 1..room[r]
      BY <3>1
    <3> QED BY <3>2
  <2> QED BY <2>1 DEF Bytes
<1> QED BY <1>1, <1>2, FS_Subset, FS_CardinalityType

UpTo(rels, k) == {r \in rels : r <= k}

\* A page is an initial segment, and not empty when what is left fits a page each.
LEMMA PageIs ==
  ASSUME NEW size, Measured(size), NEW A, A \subseteq Rels
  PROVE  /\ Prefix(A, size) \subseteq A
         /\ \A r \in Prefix(A, size), q \in A : q <= r => q \in Prefix(A, size)
         /\ A # {} /\ (\A r \in A : size[r] <= PageBytes) => Prefix(A, size) # {}
<1>1. Prefix(A, size) \subseteq A
  BY DEF Prefix
<1>2. \A r \in A : r \in Nat
  BY RelsFinite
<1>3. ASSUME NEW r \in Prefix(A, size), NEW q \in A, q <= r PROVE q \in Prefix(A, size)
  <2> DEFINE S == {p \in A : p <= q}
             T == {p \in A : p <= r}
  <2>1. S \subseteq T /\ T \subseteq Rels
    BY <1>1, <1>2, <1>3
  <2>2. Cardinality(Bytes(T, size)) <= PageBytes
    BY DEF Prefix
  <2> HIDE DEF S, T
  <2>3. \A p \in Rels : size[p] <= size[p]
    BY DEF Measured
  <2>4. /\ Cardinality(Bytes(S, size)) \in Nat /\ Cardinality(Bytes(T, size)) \in Nat
        /\ Cardinality(Bytes(S, size)) <= Cardinality(Bytes(T, size))
    BY <2>1, <2>3, BytesMonotone
  <2>5. PageBytes \in Nat
    BY Manifest
  <2>6. Cardinality(Bytes(S, size)) <= PageBytes
    BY <2>2, <2>4, <2>5
  <2> QED BY <2>6 DEF Prefix, S
<1>4. ASSUME A # {}, \A r \in A : size[r] <= PageBytes PROVE Prefix(A, size) # {}
  <2>1. A \subseteq Nat
    BY <1>2
  <2>2. PICK m \in A : \A k \in A : m <= k
    BY <1>4, <2>1, Least
  <2>3. {q \in A : q <= m} = {m}
    <3>1. ASSUME NEW q \in A, q <= m PROVE q = m
      BY <2>1, <2>2, <3>1
    <3>2. m <= m
      BY <2>1
    <3> QED BY <3>1, <3>2
  <2>4. Bytes({m}, size) = {m} \X (1..size[m])
    BY DEF Bytes
  <2>5. size[m] \in Nat /\ size[m] <= PageBytes
    BY <1>4 DEF Measured
  <2>6. IsFiniteSet({m}) /\ Cardinality({m}) = 1
    BY FS_Singleton
  <2>7. IsFiniteSet(1..size[m]) /\ Cardinality(1..size[m]) = size[m]
    BY <2>5, FS_Interval
  <2>8. Cardinality({m} \X (1..size[m])) = 1 * size[m]
    <3>1. PICK S, T : S = {m} /\ T = 1..size[m]
      OBVIOUS
    <3>2. Cardinality(S \X T) = Cardinality(S) * Cardinality(T)
      BY <2>6, <2>7, <3>1, FS_Product
    <3> QED BY <2>6, <2>7, <3>1, <3>2
  <2>9. Cardinality(Bytes({q \in A : q <= m}, size)) <= PageBytes
    <3>1. 1 * size[m] = size[m]
      BY <2>5
    <3>2. Cardinality({m} \X (1..size[m])) <= PageBytes
      BY <2>5, <2>8, <3>1
    <3> QED BY <2>3, <2>4, <3>2
  <2> QED BY <2>9 DEF Prefix
<1> QED BY <1>1, <1>3, <1>4

\* What a page of the entries leaves of fewer relations, the estimate leaves of more.
LEMMA LeavesLess ==
  ASSUME NEW A, NEW B, A \subseteq B, B \subseteq Rels, \A r \in A : Size[r] <= Budget[r]
  PROVE  A \ Prefix(A, Size) \subseteq B \ Prefix(B, Budget)
<1>1. SUFFICES ASSUME NEW r \in A, r \in Prefix(B, Budget) PROVE r \in Prefix(A, Size)
  OBVIOUS
<1> DEFINE S == {q \in A : q <= r}
           T == {q \in B : q <= r}
<1>2. S \subseteq T /\ T \subseteq Rels
  OBVIOUS
<1>3. Cardinality(Bytes(T, Budget)) <= PageBytes
  BY <1>1 DEF Prefix
<1> HIDE DEF S, T
<1>4. \A p \in S : Size[p] <= Budget[p]
  BY DEF S
<1>5. /\ Cardinality(Bytes(S, Size)) \in Nat /\ Cardinality(Bytes(T, Budget)) \in Nat
      /\ Cardinality(Bytes(S, Size)) <= Cardinality(Bytes(T, Budget))
  BY <1>2, <1>4, Measures, BytesMonotone
<1>6. PageBytes \in Nat
  BY Manifest
<1>7. Cardinality(Bytes(S, Size)) <= PageBytes
  BY <1>3, <1>5, <1>6
<1> QED BY <1>7 DEF Prefix, S

\* A page that leaves something ends at its largest relation, and leaves what is larger.
LEMMA PageEnds ==
  ASSUME NEW A, A \subseteq Rels, More(A), ~TooLarge(A), NEW m, m = Max(Prefix(A, Size))
  PROVE  /\ m \in Prefix(A, Size) /\ m \in A /\ m \in Nat \ {None}
         /\ Prefix(A, Size) = UpTo(A, m)
         /\ A \ Prefix(A, Size) = After(A, m) /\ A \ Prefix(A, Size) # {}
<1> DEFINE P == Prefix(A, Size)
<1>1. P \subseteq A /\ (\A r \in P, q \in A : q <= r => q \in P)
  BY PageIs, Measures
<1>2. A # P /\ P # {}
  <2>1. A # P
    BY DEF More
  <2> QED BY <1>1, <2>1 DEF TooLarge
<1> HIDE DEF P
<1>3. P # {} /\ P \subseteq Rels
  BY <1>1, <1>2
<1>4. Max(P) \in P /\ \A k \in P : k <= Max(P)
  BY <1>3, Greatest
<1>5. m = Max(P)
  BY DEF P
<1>6. \A r \in A : r \in Nat \ {None}
  BY RelsFinite
<1>7. P = UpTo(A, m)
  BY <1>1, <1>4, <1>5 DEF UpTo
<1>8. A \ P = After(A, m)
  BY <1>1, <1>4, <1>5, <1>6, <1>7 DEF UpTo, After
<1> QED BY <1>1, <1>2, <1>4, <1>5, <1>6, <1>7, <1>8 DEF P

-----------------------------------------------------------------------------
\* What the last of a session's pages saw.
Latest(lists) == IF lists = <<>> THEN Rels ELSE lists[Len(lists)]

LEMMA Grows ==
  ASSUME NEW lists \in Seq(SUBSET Rels), NEW L \in SUBSET Rels, NEW longer, longer = Append(lists, L)
  PROVE  /\ longer \in Seq(SUBSET Rels) /\ longer # <<>> /\ Latest(longer) = L
         /\ Shrinking(longer) => Shrinking(lists) /\ L \subseteq Latest(lists)
         /\ Unchanged(longer) => /\ Unchanged(lists) /\ (lists # <<>> => L = Latest(lists))
                                 /\ Range(longer) = {L}
<1>1. /\ longer \in Seq(SUBSET Rels) /\ Len(longer) = Len(lists) + 1 /\ Len(lists) \in Nat
      /\ longer[Len(lists) + 1] = L
      /\ \A i \in 1..Len(lists) : longer[i] = lists[i]
      /\ DOMAIN longer = 1..(Len(lists) + 1) /\ DOMAIN lists = 1..Len(lists)
  OBVIOUS
<1>2. longer # <<>> /\ Latest(longer) = L
  BY <1>1 DEF Latest
<1>3. \A i \in DOMAIN lists : i \in DOMAIN longer /\ longer[i] = lists[i] /\ i <= Len(lists) + 1
  BY <1>1
<1>4. Len(lists) + 1 \in DOMAIN longer
  BY <1>1
<1>5. lists # <<>> => Len(lists) \in DOMAIN lists /\ Latest(lists) = lists[Len(lists)]
  BY <1>1 DEF Latest
<1>6. lists = <<>> => Latest(lists) = Rels
  BY DEF Latest
<1>7. ASSUME Shrinking(longer) PROVE Shrinking(lists) /\ L \subseteq Latest(lists)
  <2>1. \A i, j \in DOMAIN longer : i <= j => longer[j] \subseteq longer[i]
    BY <1>7 DEF Shrinking
  <2>2. Shrinking(lists)
    BY <1>3, <2>1 DEF Shrinking
  <2>3. lists # <<>> => L \subseteq Latest(lists)
    BY <1>1, <1>3, <1>4, <1>5, <2>1
  <2> QED BY <1>6, <2>2, <2>3
<1>8. ASSUME Unchanged(longer)
      PROVE  Unchanged(lists) /\ (lists # <<>> => L = Latest(lists)) /\ Range(longer) = {L}
  <2>1. \A i, j \in DOMAIN longer : longer[j] = longer[i]
    BY <1>8 DEF Unchanged
  <2>2. Unchanged(lists)
    BY <1>3, <2>1 DEF Unchanged
  <2>3. lists # <<>> => L = Latest(lists)
    BY <1>1, <1>3, <1>4, <1>5, <2>1
  <2>4. Range(longer) = {L}
    BY <1>1, <1>4, <2>1 DEF Range
  <2> QED BY <2>2, <2>3, <2>4
<1> QED BY <1>1, <1>2, <1>7, <1>8

\* All relations that any of a session's pages saw.
LEMMA AddsPage ==
  ASSUME NEW lists \in Seq(SUBSET Rels), NEW L \in SUBSET Rels, NEW longer, longer = Append(lists, L)
  PROVE  UNION Range(longer) = (UNION Range(lists)) \cup L
<1>1. /\ longer[Len(lists) + 1] = L
      /\ \A i \in 1..Len(lists) : longer[i] = lists[i]
      /\ DOMAIN longer = 1..(Len(lists) + 1) /\ DOMAIN lists = 1..Len(lists) /\ Len(lists) \in Nat
  OBVIOUS
<1>2. \A i \in 1..(Len(lists) + 1) : i \in 1..Len(lists) \/ i = Len(lists) + 1
  BY <1>1
<1>3. Range(longer) = Range(lists) \cup {L}
  <2>1. Len(lists) + 1 \in DOMAIN longer /\ DOMAIN lists \subseteq DOMAIN longer
    BY <1>1
  <2> QED BY <1>1, <1>2, <2>1 DEF Range
<1> QED BY <1>3

-----------------------------------------------------------------------------
\* A session in the middle of a page, and between two pages: what it has, ...
Sound(t) ==
  /\ t.allowed \subseteq Rels /\ t.found \subseteq PgRels /\ t.seen \subseteq Rels
  /\ t.found \subseteq UNION Range(t.lists)
  /\ t.at \in PgRels \cup {None} /\ t.cursor \in Rels \cup {None}
  /\ t.calls \in Nat \ {0} /\ t.lists \in Seq(SUBSET Rels)
  /\ t.lists = <<>> => t.st # "paused" /\ t.cursor = None /\ t.at = None

\* ... what it listed lies before its cursor, with something from each page, ...
Once(t) ==
  /\ ~t.twice
  /\ t.cursor # None => \A r \in t.seen : r <= t.cursor
  /\ t.cursor = None /\ t.st # "paused" => t.seen = {} /\ t.calls = 1
  /\ t.cursor # None /\ t.st = "paused" => t.calls <= Cardinality(t.seen)
  /\ t.cursor # None /\ t.st # "paused" => t.calls <= Cardinality(t.seen) + 1

\* ... what it still has to list is no more than the estimate left, ...
InTime(t, left) ==
  Shrinking(t.lists) /\ Priced(t.lists) =>
    /\ t.calls <= MaxPages
    /\ t.st = "paused" /\ t.cursor # None =>
         t.calls < MaxPages /\ After(Latest(t.lists), t.cursor) \subseteq left[t.calls]
    /\ t.st # "paused" =>
         /\ After(t.found \cup Latest(t.lists), t.cursor) \subseteq left[t.calls - 1]
         /\ t.at # None => UpTo(Latest(t.lists) \cap PgRels, t.at) \subseteq t.found

\* ... and it has missed nothing of a list that stays the same.
Exactly(t) ==
  Unchanged(t.lists) /\ Fits(t.lists) =>
    /\ ~t.invalid
    /\ t.cursor # None => t.cursor \in Latest(t.lists) /\ t.seen = UpTo(Latest(t.lists), t.cursor)
    /\ t.st # "paused" => /\ t.found = UpTo(Latest(t.lists) \cap PgRels, t.at)
                          /\ t.at # None => t.at \in Latest(t.lists)
    /\ t.st = "paused" /\ t.cursor = None => t.seen = Latest(t.lists)

\* One PostgreSQL page over the relations L, of which P are PostgreSQL's: the
\* walk is refused, goes on, or has found F and pages the merged list.
Refused(t, u) ==
  /\ u.st = "paused" /\ u.cursor = None /\ u.invalid = TRUE
  /\ u.found \subseteq PgRels /\ u.found \subseteq UNION Range(u.lists)
  /\ u.at \in PgRels \cup {None}
  /\ u.seen = t.seen /\ u.twice = t.twice

Onward(t, u, next, F) ==
  /\ u.st = "catalog" /\ u.at = next /\ u.found = F
  /\ u.cursor = t.cursor /\ u.seen = t.seen /\ u.twice = t.twice /\ u.invalid = t.invalid

Paged(t, u, rest, page) ==
  /\ u.st = "paused" /\ u.at = None /\ u.found = {} /\ u.invalid = t.invalid
  /\ u.seen = t.seen \cup page /\ u.twice = (t.twice \/ page \cap t.seen # {})
  /\ u.cursor = IF More(rest) THEN Max(page) ELSE None

Stepped(t, u, v) ==
  /\ DOMAIN u = Fields /\ u.op = "discover" /\ u.calls = t.calls /\ u.allowed \subseteq t.allowed
  /\ u.lists = Append(t.lists, (v \cap t.allowed) \cup (MongoRels \cap t.allowed))

Turn(t, u, v) ==
  LET P == v \cap t.allowed
      rest == After(P, t.at)
      F == t.found \cup Prefix(rest, Size)
      list == F \cup (MongoRels \cap t.allowed)
      more == After(list, t.cursor)
  IN  \/ ((t.at # None /\ t.at \notin P) \/ TooLarge(rest)) /\ Refused(t, u)
      \/ /\ t.at = None \/ t.at \in P
         /\ More(rest) /\ ~TooLarge(rest)
         /\ \/ Max(Prefix(rest, Size)) = t.at /\ Refused(t, u)
            \/ Onward(t, u, Max(Prefix(rest, Size)), F)
      \/ /\ t.at = None \/ t.at \in P
         /\ ~More(rest)
         /\ \/ ((t.cursor # None /\ t.cursor \notin list) \/ TooLarge(more)) /\ Refused(t, u)
            \/ /\ (t.cursor = None \/ t.cursor \in list) /\ ~TooLarge(more)
               /\ Paged(t, u, more, Prefix(more, Size))
-----------------------------------------------------------------------------
\* The fields a discovery goes by.
SetFound(t, lists, found) == [t EXCEPT !.lists = lists, !.found = found]
SetOver(t) == [t EXCEPT !.found = {}, !.at = None, !.allowed = {}]
SetAt(t, next) == [t EXCEPT !.st = "catalog", !.at = next]
SetPage(t, seen, twice, cursor) ==
  [t EXCEPT !.st = "paused", !.seen = seen, !.twice = twice, !.cursor = cursor]

LEMMA FoundIs ==
  ASSUME NEW t, DOMAIN t = Fields, NEW lists, NEW found, NEW u, u = SetFound(t, lists, found)
  PROVE  /\ DOMAIN u = Fields /\ u.op = t.op /\ u.st = t.st /\ u.allowed = t.allowed /\ u.calls = t.calls
         /\ u.lists = lists /\ u.found = found /\ u.at = t.at /\ u.cursor = t.cursor
         /\ u.seen = t.seen /\ u.twice = t.twice /\ u.invalid = t.invalid
  BY DEF Fields, SetFound

LEMMA OverIs ==
  ASSUME NEW t, DOMAIN t = Fields, NEW u, u = SetOver(t)
  PROVE  /\ DOMAIN u = Fields /\ u.op = t.op /\ u.allowed = {} /\ u.calls = t.calls
         /\ u.lists = t.lists /\ u.found = {} /\ u.at = None /\ u.cursor = t.cursor
         /\ u.seen = t.seen /\ u.twice = t.twice /\ u.invalid = t.invalid
  BY DEF Fields, SetOver

LEMMA RefusedIs ==
  ASSUME NEW t, DOMAIN t = Fields
  PROVE  LET u == Invalid(t) IN
         /\ DOMAIN u = Fields /\ u.op = t.op /\ u.allowed = t.allowed /\ u.calls = t.calls
         /\ u.lists = t.lists /\ u.found = t.found /\ u.at = t.at
         /\ u.seen = t.seen /\ u.twice = t.twice
         /\ u.st = "paused" /\ u.cursor = None /\ u.invalid = TRUE
<1> DEFINE u == Invalid(t)
<1>1. u = [t EXCEPT !.st = "paused", !.cursor = None, !.invalid = TRUE]
  BY DEF Invalid
<1> HIDE DEF u
<1>2. /\ DOMAIN u = Fields /\ u.op = t.op /\ u.allowed = t.allowed /\ u.calls = t.calls
      /\ u.lists = t.lists /\ u.found = t.found /\ u.at = t.at
      /\ u.seen = t.seen /\ u.twice = t.twice
      /\ u.st = "paused" /\ u.cursor = None /\ u.invalid = TRUE
  BY <1>1 DEF Fields
<1> QED BY <1>2 DEF u

LEMMA AtIs ==
  ASSUME NEW t, DOMAIN t = Fields, NEW next, NEW u, u = SetAt(t, next)
  PROVE  /\ DOMAIN u = Fields /\ u.op = t.op /\ u.allowed = t.allowed /\ u.calls = t.calls
         /\ u.lists = t.lists /\ u.found = t.found /\ u.cursor = t.cursor
         /\ u.seen = t.seen /\ u.twice = t.twice /\ u.invalid = t.invalid
         /\ u.st = "catalog" /\ u.at = next
  BY DEF Fields, SetAt

LEMMA PagedIs ==
  ASSUME NEW t, DOMAIN t = Fields, NEW seen, NEW twice, NEW cursor, NEW u,
         u = SetPage(t, seen, twice, cursor)
  PROVE  /\ DOMAIN u = Fields /\ u.op = t.op /\ u.allowed = t.allowed /\ u.calls = t.calls
         /\ u.lists = t.lists /\ u.found = t.found /\ u.at = t.at /\ u.invalid = t.invalid
         /\ u.st = "paused" /\ u.seen = seen /\ u.twice = twice /\ u.cursor = cursor
  BY DEF Fields, SetPage

\* The merged list is refused: the session's cursor is gone, or no page holds what is next.
Stops(t, list, more) == (t.cursor # None /\ t.cursor \notin list) \/ TooLarge(more)

LEMMA MergedSteps ==
  ASSUME NEW t, DOMAIN t = Fields, t.found \subseteq PgRels
  PROVE  LET u == Merged(t)
             list == t.found \cup (MongoRels \cap t.allowed)
             more == After(list, t.cursor)
         IN  /\ DOMAIN u = Fields /\ u.op = t.op /\ u.calls = t.calls /\ u.allowed = {} /\ u.lists = t.lists
             /\ \/ Stops(t, list, more) /\ Refused(t, u)
                \/ ~Stops(t, list, more) /\ Paged(t, u, more, Prefix(more, Size))
<1> DEFINE list == t.found \cup (MongoRels \cap t.allowed)
           more == After(list, t.cursor)
           page == Prefix(more, Size)
           cursor == IF More(more) THEN Max(page) ELSE None
           over == SetOver(t)
           twice == over.twice \/ page \cap t.seen # {}
           last == SetPage(over, over.seen \cup page, twice, cursor)
<1>1. Merged(t) = IF Stops(t, list, more) THEN Invalid(over) ELSE last
  BY DEF Merged, SetOver, SetPage, Stops
<1> HIDE DEF list, more, page, cursor
<1>2. /\ DOMAIN over = Fields /\ over.op = t.op /\ over.allowed = {} /\ over.calls = t.calls
      /\ over.lists = t.lists /\ over.found = {} /\ over.at = None /\ over.cursor = t.cursor
      /\ over.seen = t.seen /\ over.twice = t.twice /\ over.invalid = t.invalid
  BY OverIs
<1> HIDE DEF over, twice
<1>3. CASE Stops(t, list, more)
  <2>1. PICK u : u = Merged(t)
    OBVIOUS
  <2>2. u = Invalid(over)
    BY <1>1, <1>3, <2>1
  <2>3. /\ DOMAIN u = Fields /\ u.op = t.op /\ u.allowed = {} /\ u.calls = t.calls
        /\ u.lists = t.lists /\ Refused(t, u)
    <3>1. /\ DOMAIN u = Fields /\ u.op = over.op /\ u.allowed = over.allowed /\ u.calls = over.calls
          /\ u.lists = over.lists /\ u.found = over.found /\ u.at = over.at
          /\ u.seen = over.seen /\ u.twice = over.twice
          /\ u.st = "paused" /\ u.cursor = None /\ u.invalid = TRUE
      BY <1>2, <2>2, RefusedIs
    <3>2. {} \subseteq PgRels /\ {} \subseteq UNION Range(u.lists)
      OBVIOUS
    <3> QED BY <1>2, <3>1, <3>2 DEF Refused
  <2> QED BY <1>3, <2>1, <2>3 DEF list, more
<1>4. CASE ~Stops(t, list, more)
  <2>1. PICK u : u = Merged(t)
    OBVIOUS
  <2>2. u = SetPage(over, over.seen \cup page, twice, cursor)
    BY <1>1, <1>4, <2>1
  <2>3. /\ DOMAIN u = Fields /\ u.op = t.op /\ u.allowed = {} /\ u.calls = t.calls
        /\ u.lists = t.lists /\ u.found = {} /\ u.at = None /\ u.invalid = t.invalid
        /\ u.st = "paused" /\ u.seen = t.seen \cup page /\ u.twice = twice /\ u.cursor = cursor
    BY <1>2, <2>2, PagedIs
  <2>4. u.twice = (t.twice \/ page \cap t.seen # {})
    BY <1>2, <2>3 DEF twice
  <2>5. u.cursor = IF More(more) THEN Max(page) ELSE None
    BY <2>3 DEF cursor
  <2>6. Paged(t, u, more, page)
    BY <2>3, <2>4, <2>5 DEF Paged
  <2> QED BY <1>4, <2>1, <2>3, <2>6 DEF list, more, page
<1> QED BY <1>3, <1>4

LEMMA WalkedSteps ==
  ASSUME NEW t, DOMAIN t = Fields, t.op = "discover", Sound(t), NEW v, v \subseteq PgRels
  PROVE  Stepped(t, Walked(t, v), v) /\ Turn(t, Walked(t, v), v)
<1> DEFINE P == v \cap t.allowed
           rest == After(P, t.at)
           F == t.found \cup Prefix(rest, Size)
           list == F \cup (MongoRels \cap t.allowed)
           more == After(list, t.cursor)
           lists == Append(t.lists, P \cup (MongoRels \cap t.allowed))
           went == SetFound(t, lists, F)
           next == Max(Prefix(rest, Size))
<1>1. Walked(t, v) = IF (t.at # None /\ t.at \notin P) \/ TooLarge(rest) THEN Invalid(went)
                     ELSE IF ~More(rest) THEN Merged(went)
                     ELSE IF next = t.at THEN Invalid(went) ELSE SetAt(went, next)
  BY DEF Walked, SetFound, SetAt
<1>2. /\ DOMAIN went = Fields /\ went.op = "discover" /\ went.st = t.st /\ went.allowed = t.allowed /\ went.calls = t.calls
      /\ went.lists = lists /\ went.found = F /\ went.at = t.at /\ went.cursor = t.cursor
      /\ went.seen = t.seen /\ went.twice = t.twice /\ went.invalid = t.invalid
  <2>1. went = SetFound(t, lists, F)
    OBVIOUS
  <2> HIDE DEF went, lists, F
  <2> QED BY <2>1, FoundIs
<1>3. F \subseteq PgRels
  <2>1. Prefix(rest, Size) \subseteq PgRels
    BY DEF Prefix, After
  <2> QED BY <2>1 DEF Sound
<1>4. t.at \in PgRels \cup {None}
  BY DEF Sound
<1>10. F \subseteq UNION Range(lists)
  <2>1. t.lists \in Seq(SUBSET Rels) /\ t.found \subseteq UNION Range(t.lists) /\ t.allowed \subseteq Rels
    BY DEF Sound
  <2>2. PICK L \in SUBSET Rels : L = P \cup (MongoRels \cap t.allowed)
    BY <2>1 DEF Rels
  <2>3. PICK before, longer : before = t.lists /\ longer = lists
    OBVIOUS
  <2>4. before \in Seq(SUBSET Rels) /\ longer = Append(before, L)
    BY <2>1, <2>2, <2>3
  <2>5. UNION Range(longer) = (UNION Range(before)) \cup L
    BY <2>4, AddsPage
  <2>6. Prefix(rest, Size) \subseteq L
    BY <2>2 DEF Prefix, After
  <2> QED BY <2>1, <2>3, <2>5, <2>6
<1> DEFINE u == Walked(t, v)
<1> HIDE DEF went, lists, next, F, rest, P, u
<1>5. ASSUME u = Invalid(went) PROVE Stepped(t, u, v) /\ Refused(t, u)
  <2>1. /\ DOMAIN u = Fields /\ u.op = "discover" /\ u.allowed = t.allowed /\ u.calls = t.calls
        /\ u.lists = lists /\ u.found = F /\ u.at = t.at /\ u.seen = t.seen /\ u.twice = t.twice
        /\ u.st = "paused" /\ u.cursor = None /\ u.invalid = TRUE
    BY <1>2, <1>5, RefusedIs
  <2>2. Refused(t, u)
    BY <1>3, <1>4, <1>10, <2>1 DEF Refused
  <2>3. Stepped(t, u, v)
    BY <2>1 DEF Stepped, lists, P
  <2> QED BY <2>2, <2>3
<1>6. ASSUME u = Merged(went)
      PROVE  /\ Stepped(t, u, v)
             /\ \/ Stops(t, list, more) /\ Refused(t, u)
                \/ ~Stops(t, list, more) /\ Paged(t, u, more, Prefix(more, Size))
  <2>1. went.found \subseteq PgRels /\ list = went.found \cup (MongoRels \cap went.allowed)
        /\ more = After(list, went.cursor)
    BY <1>2, <1>3
  <2> HIDE DEF list, more
  <2>2. PICK w, l, m : /\ w = went /\ l = w.found \cup (MongoRels \cap w.allowed)
                       /\ m = After(l, w.cursor)
    OBVIOUS
  <2>3. DOMAIN w = Fields /\ w.found \subseteq PgRels /\ u = Merged(w) /\ l = list /\ m = more
    BY <1>2, <1>6, <2>1, <2>2
  <2>4. /\ DOMAIN u = Fields /\ u.op = w.op /\ u.calls = w.calls /\ u.allowed = {} /\ u.lists = w.lists
        /\ \/ Stops(w, l, m) /\ Refused(w, u)
           \/ ~Stops(w, l, m) /\ Paged(w, u, m, Prefix(m, Size))
    BY <2>2, <2>3, MergedSteps
  <2>5. /\ DOMAIN u = Fields /\ u.op = "discover" /\ u.calls = t.calls /\ u.allowed = {} /\ u.lists = lists
        /\ \/ Stops(t, list, more) /\ Refused(went, u)
           \/ ~Stops(t, list, more) /\ Paged(went, u, more, Prefix(more, Size))
    BY <1>2, <2>2, <2>3, <2>4 DEF Stops
  <2>6. Refused(went, u) => Refused(t, u)
    BY <1>2 DEF Refused
  <2>7. Paged(went, u, more, Prefix(more, Size)) => Paged(t, u, more, Prefix(more, Size))
    BY <1>2 DEF Paged
  <2>8. Stepped(t, u, v)
    BY <2>5 DEF Stepped, lists, P
  <2> QED BY <2>5, <2>6, <2>7, <2>8
<1>7. ASSUME u = SetAt(went, next) PROVE Stepped(t, u, v) /\ Onward(t, u, next, F)
  <2>1. /\ DOMAIN u = Fields /\ u.op = "discover" /\ u.allowed = t.allowed /\ u.calls = t.calls
        /\ u.lists = lists /\ u.found = F /\ u.cursor = t.cursor
        /\ u.seen = t.seen /\ u.twice = t.twice /\ u.invalid = t.invalid
        /\ u.st = "catalog" /\ u.at = next
    BY <1>2, <1>7, AtIs
  <2>2. Onward(t, u, next, F)
    BY <2>1 DEF Onward
  <2>3. Stepped(t, u, v)
    BY <2>1 DEF Stepped, lists, P
  <2> QED BY <2>2, <2>3
<1> HIDE DEF list, more
<1>8. Stepped(t, u, v)
  BY <1>1, <1>5, <1>6, <1>7 DEF u
<1>9. \/ ((t.at # None /\ t.at \notin P) \/ TooLarge(rest)) /\ Refused(t, u)
      \/ /\ t.at = None \/ t.at \in P
         /\ More(rest) /\ ~TooLarge(rest)
         /\ (next = t.at /\ Refused(t, u)) \/ Onward(t, u, next, F)
      \/ /\ t.at = None \/ t.at \in P
         /\ ~More(rest)
         /\ \/ Stops(t, list, more) /\ Refused(t, u)
            \/ ~Stops(t, list, more) /\ Paged(t, u, more, Prefix(more, Size))
  BY <1>1, <1>5, <1>6, <1>7 DEF u
<1> QED BY <1>8, <1>9 DEF Turn, Stops, u, next, F, rest, P, list, more
-----------------------------------------------------------------------------
\* The estimate of the manifest, and a session that keeps all of this.
Estimated(left) == left \in [0..MaxPages -> SUBSET Rels] /\ Estimate(left)
Walks(t, left) == Sound(t) /\ Once(t) /\ InTime(t, left) /\ Exactly(t)

\* The sets a page goes by.
Lists(t, v, P, L, rest, F, list, more) ==
  /\ Sound(t) /\ v \subseteq PgRels
  /\ P = v \cap t.allowed /\ L = P \cup (MongoRels \cap t.allowed)
  /\ rest = After(P, t.at) /\ F = t.found \cup Prefix(rest, Size)
  /\ list = F \cup (MongoRels \cap t.allowed) /\ more = After(list, t.cursor)

LEMMA ListsAre ==
  ASSUME NEW t, NEW v,
         NEW P, NEW L, NEW rest, NEW F, NEW list, NEW more, Lists(t, v, P, L, rest, F, list, more)
  PROVE  /\ P \subseteq PgRels /\ P = L \cap PgRels /\ L \subseteq Rels /\ rest \subseteq P
         /\ F \subseteq PgRels /\ F \subseteq t.found \cup P
         /\ list \subseteq Rels /\ more \subseteq list /\ Prefix(more, Size) \subseteq more
         /\ ~More(rest) => F = t.found \cup rest
<1>1. /\ Sound(t) /\ v \subseteq PgRels
      /\ P = v \cap t.allowed /\ L = P \cup (MongoRels \cap t.allowed)
      /\ rest = After(P, t.at) /\ F = t.found \cup Prefix(rest, Size)
      /\ list = F \cup (MongoRels \cap t.allowed) /\ more = After(list, t.cursor)
  BY DEF Lists
<1>2. t.allowed \subseteq Rels /\ t.found \subseteq PgRels
  BY <1>1 DEF Sound
<1>3. P \subseteq PgRels /\ P = L \cap PgRels /\ L \subseteq Rels
  <2>1. PgRels \cap MongoRels = {}
    BY Manifest
  <2> QED BY <1>1, <1>2, <2>1 DEF Rels
<1>4. rest \subseteq P /\ Prefix(rest, Size) \subseteq rest /\ more \subseteq list /\ Prefix(more, Size) \subseteq more
  BY <1>1 DEF After, Prefix
<1>5. F \subseteq PgRels /\ F \subseteq t.found \cup P /\ list \subseteq Rels
  BY <1>1, <1>2, <1>3, <1>4 DEF Rels
<1>6. ~More(rest) => F = t.found \cup rest
  BY <1>1 DEF More
<1> QED BY <1>3, <1>4, <1>5, <1>6

LEMMA Numbers == None \in Nat /\ \A r \in Rels : r \in Nat /\ r # None /\ r > None
<1>1. \A r \in Rels : r \in Nat \ {None}
  BY RelsFinite
<1> QED BY <1>1 DEF None

\* What a page adds to what the session saw.
LEMMA StepGrows ==
  ASSUME NEW t, NEW u, NEW v, NEW L, Sound(t), L \subseteq Rels, u.lists = Append(t.lists, L)
  PROVE  /\ u.lists \in Seq(SUBSET Rels) /\ u.lists # <<>> /\ Latest(u.lists) = L
         /\ Shrinking(u.lists) => Shrinking(t.lists) /\ L \subseteq Latest(t.lists)
         /\ Unchanged(u.lists) => Unchanged(t.lists) /\ (t.lists # <<>> => L = Latest(t.lists))
         /\ UNION Range(u.lists) = (UNION Range(t.lists)) \cup L
         /\ Priced(u.lists) => Priced(t.lists) /\ \A r \in L : Size[r] <= Budget[r]
         /\ Fits(u.lists) => Fits(t.lists) /\ \A r \in L : Size[r] <= PageBytes
<1>1. t.lists \in Seq(SUBSET Rels)
  BY DEF Sound
<1>2. PICK longer : longer = u.lists
  OBVIOUS
<1>3. L \in SUBSET Rels /\ longer = Append(t.lists, L)
  BY <1>2
<1>4. UNION Range(longer) = (UNION Range(t.lists)) \cup L
  <2>1. PICK before : before = t.lists
    OBVIOUS
  <2>2. before \in Seq(SUBSET Rels) /\ L \in SUBSET Rels /\ longer = Append(before, L)
    BY <1>1, <1>3, <2>1
  <2>3. UNION Range(longer) = (UNION Range(before)) \cup L
    BY <2>2, AddsPage
  <2> QED BY <2>1, <2>3
<1>5. /\ Priced(u.lists) => Priced(t.lists) /\ \A r \in L : Size[r] <= Budget[r]
      /\ Fits(u.lists) => Fits(t.lists) /\ \A r \in L : Size[r] <= PageBytes
  BY <1>2, <1>4 DEF Priced, Fits
<1> QED BY <1>1, <1>2, <1>3, <1>4, <1>5, Grows

LEMMA RefusedWalks ==
  ASSUME NEW t, NEW u, NEW v, NEW left, Walks(t, left), Stepped(t, u, v), v \subseteq PgRels,
         Refused(t, u), ~(Unchanged(u.lists) /\ Fits(u.lists))
  PROVE  Walks(u, left)
<1>1. Sound(t) /\ Once(t) /\ InTime(t, left)
  BY DEF Walks
<1>2. PICK L : L = (v \cap t.allowed) \cup (MongoRels \cap t.allowed)
  OBVIOUS
<1>3. L \subseteq Rels
  BY <1>1, <1>2 DEF Sound
<1>4. u.lists = Append(t.lists, L) /\ u.calls = t.calls /\ u.allowed \subseteq t.allowed
  BY <1>2 DEF Stepped
<1>5. u.lists \in Seq(SUBSET Rels) /\ u.lists # <<>> /\ (Shrinking(u.lists) => Shrinking(t.lists))
      /\ (Priced(u.lists) => Priced(t.lists))
  BY <1>1, <1>3, <1>4, StepGrows
<1>6. Sound(u)
  BY <1>1, <1>4, <1>5 DEF Sound, Refused
<1>7. Once(u)
  BY <1>1 DEF Once, Refused
<1>8. InTime(u, left)
  BY <1>1, <1>4, <1>5 DEF InTime, Refused
<1> QED BY <1>6, <1>7, <1>8 DEF Walks, Exactly

\* A page is never refused where each relation fits one.
LEMMA FitsPage ==
  ASSUME NEW A, A \subseteq Rels, \A r \in A : Size[r] <= PageBytes
  PROVE  ~TooLarge(A)
  BY PageIs, Measures DEF TooLarge

\* Over a list that stays the same, the walk finds all of PostgreSQL's part.
LEMMA FindsAll ==
  ASSUME NEW t, Exactly(t), t.st # "paused", NEW v,
         NEW P, NEW L, NEW rest, NEW F, NEW list, NEW more, Lists(t, v, P, L, rest, F, list, more),
         Unchanged(t.lists), Fits(t.lists), t.lists # <<>> => L = Latest(t.lists)
  PROVE  /\ t.at # None => t.at \in P
         /\ t.found = UpTo(P, t.at)
         /\ ~More(rest) => F = P /\ list = L
<1>1. /\ P \subseteq PgRels /\ P = L \cap PgRels
      /\ ~More(rest) => F = t.found \cup rest
  BY ListsAre
<1>2. t.at \in PgRels \cup {None} /\ (t.at # None => t.lists # <<>>)
  BY DEF Lists, Sound
<1>3. t.found = UpTo(Latest(t.lists) \cap PgRels, t.at) /\ (t.at # None => t.at \in Latest(t.lists))
  BY DEF Exactly
<1>4. t.at # None => t.at \in P
  BY <1>1, <1>2, <1>3
<1>5. \A S : UpTo(S \cap PgRels, None) = {}
  <2>1. ASSUME NEW r \in PgRels PROVE ~(r <= None)
    <3>1. r \in Nat /\ r > None /\ None \in Nat
      BY Numbers DEF Rels
    <3> QED BY <3>1
  <2> QED BY <2>1 DEF UpTo
<1>6. t.found = UpTo(P, t.at)
  <2>1. CASE t.at = None
    <3>1. P = P \cap PgRels
      BY <1>1
    <3> QED BY <1>3, <1>5, <2>1, <3>1
  <2>2. CASE t.at # None
    BY <1>1, <1>2, <1>3, <2>2
  <2> QED BY <2>1, <2>2
<1>7. rest = After(P, t.at) /\ list = F \cup (MongoRels \cap t.allowed)
      /\ L = P \cup (MongoRels \cap t.allowed)
  BY DEF Lists
<1>8. UpTo(P, t.at) \cup After(P, t.at) = P
  <2>1. \A r \in P : r \in Nat
    BY <1>1, Numbers DEF Rels
  <2>2. t.at \in Nat
    BY <1>2, Numbers DEF Rels
  <2>3. \A r \in P : r <= t.at \/ r > t.at
    BY <2>1, <2>2
  <2> QED BY <2>3 DEF UpTo, After
<1> QED BY <1>1, <1>4, <1>6, <1>7, <1>8

LEMMA OnwardWalks ==
  ASSUME NEW t, NEW u, NEW v, NEW left, Walks(t, left), t.st # "paused",
         NEW P, NEW L, NEW rest, NEW F, NEW list, NEW more, Lists(t, v, P, L, rest, F, list, more),
         Stepped(t, u, v), More(rest), ~TooLarge(rest), NEW next, next = Max(Prefix(rest, Size)), Onward(t, u, next, F)
  PROVE  Walks(u, left)
<1>1. Sound(t) /\ Once(t) /\ InTime(t, left) /\ Exactly(t)
  BY DEF Walks
<1>2. /\ P \subseteq PgRels /\ P = L \cap PgRels /\ L \subseteq Rels /\ rest \subseteq P
      /\ F \subseteq PgRels /\ F \subseteq t.found \cup P
  BY <1>1, ListsAre
<1>3. rest \subseteq Rels
  BY <1>2
<1>4. next \in rest /\ next \in Nat \ {None} /\ Prefix(rest, Size) = UpTo(rest, next)
  BY <1>3, PageEnds
<1>5. rest = After(P, t.at) /\ F = t.found \cup Prefix(rest, Size) /\ L = (v \cap t.allowed) \cup (MongoRels \cap t.allowed)
  BY DEF Lists
<1>6. u.lists = Append(t.lists, L) /\ u.calls = t.calls /\ u.allowed \subseteq t.allowed
  BY <1>5 DEF Stepped
<1>7. /\ u.lists \in Seq(SUBSET Rels) /\ u.lists # <<>> /\ Latest(u.lists) = L
      /\ Shrinking(u.lists) => Shrinking(t.lists) /\ L \subseteq Latest(t.lists)
      /\ Unchanged(u.lists) => Unchanged(t.lists) /\ (t.lists # <<>> => L = Latest(t.lists))
      /\ UNION Range(u.lists) = (UNION Range(t.lists)) \cup L
      /\ Priced(u.lists) => Priced(t.lists) /\ \A r \in L : Size[r] <= Budget[r]
      /\ Fits(u.lists) => Fits(t.lists)
  BY <1>1, <1>2, <1>6, StepGrows
<1>8. /\ u.st = "catalog" /\ u.at = next /\ u.found = F /\ u.cursor = t.cursor
      /\ u.seen = t.seen /\ u.twice = t.twice /\ u.invalid = t.invalid
  BY DEF Onward
<1>9. /\ t.at \in PgRels \cup {None} /\ (t.at # None => t.lists # <<>>)
      /\ (t.cursor # None => t.lists # <<>>)
  BY <1>1 DEF Sound
<1>10. t.at \in Nat /\ next > t.at /\ \A r \in P : r \in Nat /\ r > None
  <2>1. t.at \in Nat /\ \A r \in P : r \in Nat /\ r > None
    BY <1>2, <1>9, Numbers DEF Rels
  <2> QED BY <1>4, <1>5, <2>1 DEF After
<1>11. Sound(u)
  <2>1. next \in PgRels
    BY <1>2, <1>4
  <2>2. F \subseteq UNION Range(u.lists)
    BY <1>1, <1>2, <1>7 DEF Sound
  <2> QED BY <1>1, <1>2, <1>6, <1>7, <1>8, <2>1, <2>2 DEF Sound
<1>12. Once(u)
  BY <1>1, <1>6, <1>8 DEF Once
<1>13. InTime(u, left)
  <2>1. SUFFICES ASSUME Shrinking(u.lists), Priced(u.lists)
                 PROVE  /\ u.calls <= MaxPages
                        /\ After(u.found \cup Latest(u.lists), u.cursor) \subseteq left[u.calls - 1]
                        /\ UpTo(Latest(u.lists) \cap PgRels, u.at) \subseteq u.found
    BY <1>8 DEF InTime
  <2>2. Shrinking(t.lists) /\ Priced(t.lists) /\ L \subseteq Latest(t.lists)
    BY <1>7, <2>1
  <2>3. /\ t.calls <= MaxPages
        /\ After(t.found \cup Latest(t.lists), t.cursor) \subseteq left[t.calls - 1]
        /\ t.at # None => UpTo(Latest(t.lists) \cap PgRels, t.at) \subseteq t.found
    BY <1>1, <2>2 DEF InTime
  <2>4. F \cup L \subseteq t.found \cup Latest(t.lists)
    BY <1>2, <2>2
  <2>5. After(F \cup L, t.cursor) \subseteq left[t.calls - 1]
    BY <2>3, <2>4 DEF After
  <2>6. ASSUME NEW r \in P, r <= next PROVE r \in F
    <3>1. CASE r > t.at
      BY <1>4, <1>5, <2>6, <3>1 DEF After, UpTo
    <3>2. CASE ~(r > t.at)
      <4>1. t.at # None /\ r <= t.at
        BY <1>10, <3>2
      <4>2. r \in Latest(t.lists) \cap PgRels
        BY <1>2, <2>2
      <4> QED BY <1>5, <2>3, <4>1, <4>2 DEF UpTo
    <3> QED BY <3>1, <3>2
  <2>7. UpTo(L \cap PgRels, next) \subseteq F
    BY <1>2, <2>6 DEF UpTo
  <2> QED BY <1>6, <1>7, <1>8, <2>3, <2>5, <2>7
<1>14. Exactly(u)
  <2>1. SUFFICES ASSUME Unchanged(u.lists), Fits(u.lists)
                 PROVE  /\ ~u.invalid
                        /\ u.cursor # None => u.cursor \in Latest(u.lists) /\ u.seen = UpTo(Latest(u.lists), u.cursor)
                        /\ u.found = UpTo(Latest(u.lists) \cap PgRels, u.at)
                        /\ u.at \in Latest(u.lists)
    BY <1>8 DEF Exactly
  <2>2. Unchanged(t.lists) /\ Fits(t.lists) /\ (t.lists # <<>> => L = Latest(t.lists))
    BY <1>7, <2>1
  <2>3. t.found = UpTo(P, t.at)
    BY <1>1, <2>2, FindsAll
  <2>4. F = UpTo(P, next)
    <3>1. F = UpTo(P, t.at) \cup UpTo(After(P, t.at), next)
      BY <1>4, <1>5, <2>3
    <3>2. \A r \in P : r <= next <=> r <= t.at \/ (r > t.at /\ r <= next)
      BY <1>4, <1>10
    <3> QED BY <3>1, <3>2 DEF UpTo, After
  <2>5. next \in L
    BY <1>2, <1>4
  <2>6. t.cursor # None => t.cursor \in L /\ t.seen = UpTo(L, t.cursor)
    BY <1>1, <1>9, <2>2 DEF Exactly
  <2>7. ~t.invalid
    BY <1>1, <2>2 DEF Exactly
  <2> QED BY <1>2, <1>7, <1>8, <2>4, <2>5, <2>6, <2>7
<1> QED BY <1>11, <1>12, <1>13, <1>14 DEF Walks

LEMMA PagedWalks ==
  ASSUME NEW t, NEW u, NEW v, NEW left, Estimated(left), Walks(t, left), t.st # "paused",
         NEW P, NEW L, NEW rest, NEW F, NEW list, NEW more, Lists(t, v, P, L, rest, F, list, more),
         Stepped(t, u, v), ~More(rest), ~TooLarge(more), NEW page, page = Prefix(more, Size), Paged(t, u, more, page)
  PROVE  Walks(u, left)
<1>1. Sound(t) /\ Once(t) /\ InTime(t, left) /\ Exactly(t)
  BY DEF Walks
<1>2. /\ P \subseteq PgRels /\ P = L \cap PgRels /\ L \subseteq Rels /\ rest \subseteq P
      /\ F \subseteq PgRels /\ F \subseteq t.found \cup P /\ F = t.found \cup rest
      /\ list \subseteq Rels /\ more \subseteq list /\ page \subseteq more
  BY <1>1, ListsAre
<1>3. /\ rest = After(P, t.at) /\ list = F \cup (MongoRels \cap t.allowed) /\ more = After(list, t.cursor)
      /\ L = P \cup (MongoRels \cap t.allowed) /\ L = (v \cap t.allowed) \cup (MongoRels \cap t.allowed)
  BY DEF Lists
<1>4. u.lists = Append(t.lists, L) /\ u.calls = t.calls /\ u.allowed \subseteq t.allowed
  BY <1>3 DEF Stepped
<1>5. /\ u.lists \in Seq(SUBSET Rels) /\ u.lists # <<>> /\ Latest(u.lists) = L
      /\ Shrinking(u.lists) => Shrinking(t.lists) /\ L \subseteq Latest(t.lists)
      /\ Unchanged(u.lists) => Unchanged(t.lists) /\ (t.lists # <<>> => L = Latest(t.lists))
      /\ UNION Range(u.lists) = (UNION Range(t.lists)) \cup L
      /\ Priced(u.lists) => Priced(t.lists) /\ \A r \in L : Size[r] <= Budget[r]
      /\ Fits(u.lists) => Fits(t.lists)
  BY <1>1, <1>2, <1>4, StepGrows
<1>6. /\ u.st = "paused" /\ u.at = None /\ u.found = {} /\ u.invalid = t.invalid
      /\ u.seen = t.seen \cup page /\ u.twice = (t.twice \/ page \cap t.seen # {})
      /\ u.cursor = IF More(more) THEN Max(page) ELSE None
  BY DEF Paged
<1>7. /\ t.at \in PgRels \cup {None} /\ (t.at # None => t.lists # <<>>)
      /\ t.cursor \in Rels \cup {None} /\ (t.cursor # None => t.lists # <<>>)
      /\ t.seen \subseteq Rels /\ t.calls \in Nat \ {0} /\ t.allowed \subseteq Rels
  BY <1>1 DEF Sound
<1>8. more \subseteq Rels /\ \A r \in Rels : r \in Nat /\ r > None
  BY <1>2, Numbers
<1>9. t.at \in Nat /\ t.cursor \in Nat
  BY <1>7, Numbers DEF Rels
<1>10. ASSUME More(more)
       PROVE  /\ u.cursor \in more /\ u.cursor \in Nat \ {None} /\ page = UpTo(more, u.cursor)
              /\ more \ page = After(more, u.cursor) /\ more \ page # {}
              /\ u.cursor > t.cursor
  <2>1. PICK m : m = Max(Prefix(more, Size))
    OBVIOUS
  <2>2. /\ m \in more /\ m \in Nat \ {None} /\ page = UpTo(more, m)
        /\ more \ page = After(more, m) /\ more \ page # {}
    BY <1>8, <1>10, <2>1, PageEnds
  <2>3. u.cursor = m
    BY <1>6, <1>10, <2>1
  <2>4. m > t.cursor
    BY <1>3, <2>2 DEF After
  <2> QED BY <2>2, <2>3, <2>4
<1>11. u.cursor # None <=> More(more)
  BY <1>6, <1>10
<1>12. Sound(u)
  <2>1. u.cursor \in Rels \cup {None}
    BY <1>8, <1>10, <1>11
  <2>2. {} \subseteq PgRels /\ {} \subseteq UNION Range(u.lists)
    OBVIOUS
  <2> QED BY <1>2, <1>4, <1>5, <1>6, <1>7, <1>8, <2>1, <2>2 DEF Sound
<1>13. Once(u)
  <2>1. \A r \in page : r > t.cursor
    BY <1>2, <1>3 DEF After
  <2>2. ~t.twice /\ (t.cursor # None => \A r \in t.seen : r <= t.cursor) /\ (t.cursor = None => t.seen = {})
    BY <1>1 DEF Once
  <2>3. page \cap t.seen = {}
    <3>1. ASSUME NEW r \in page, r \in t.seen PROVE FALSE
      <4>1. r > t.cursor /\ r <= t.cursor /\ r \in Nat
        BY <1>7, <1>8, <2>1, <2>2, <3>1
      <4> QED BY <1>9, <4>1
    <3> QED BY <3>1
  <2>4. ~u.twice
    BY <1>6, <2>2, <2>3
  <2>5. ASSUME u.cursor # None, NEW r \in u.seen PROVE r <= u.cursor
    <3>1. u.cursor \in Nat /\ page = UpTo(more, u.cursor) /\ u.cursor > t.cursor
      BY <1>10, <1>11, <2>5
    <3>2. CASE r \in page
      BY <3>1, <3>2 DEF UpTo
    <3>3. CASE r \in t.seen
      <4>1. r <= t.cursor /\ r \in Nat
        BY <1>7, <1>8, <2>2, <3>3
      <4> QED BY <1>9, <3>1, <4>1
    <3> QED BY <1>6, <2>5, <3>2, <3>3
  <2>6. ASSUME u.cursor # None PROVE u.calls <= Cardinality(u.seen)
    <3>1. u.cursor \in page /\ u.cursor \in Rels
      <4>1. u.cursor \in more /\ u.cursor \in Nat /\ page = UpTo(more, u.cursor)
        BY <1>10, <1>11, <2>6
      <4> QED BY <1>8, <4>1 DEF UpTo
    <3>2. IsFiniteSet(t.seen) /\ IsFiniteSet(u.seen)
      <4>1. u.seen \subseteq Rels
        BY <1>12 DEF Sound
      <4> QED BY <1>7, <4>1, RelsFinite, FS_Subset
    <3>3. PICK S, k : S = t.seen \cup {k} /\ k = u.cursor
      OBVIOUS
    <3>4. k \notin t.seen
      BY <2>3, <3>1, <3>3
    <3>5. IsFiniteSet(S) /\ Cardinality(S) = Cardinality(t.seen) + 1
      BY <3>2, <3>3, <3>4, FS_AddElement
    <3>6. S \subseteq u.seen
      BY <1>6, <3>1, <3>3
    <3>7. Cardinality(S) <= Cardinality(u.seen)
      BY <3>2, <3>6, FS_Subset
    <3>8. Cardinality(t.seen) \in Nat /\ Cardinality(u.seen) \in Nat
      BY <3>2, FS_CardinalityType
    <3>9. t.calls <= Cardinality(t.seen) + 1
      <4>1. CASE t.cursor # None
        BY <1>1, <4>1 DEF Once
      <4>2. CASE t.cursor = None
        <5>1. t.calls = 1
          BY <1>1, <4>2 DEF Once
        <5> QED BY <3>8, <5>1
      <4> QED BY <4>1, <4>2
    <3> QED BY <1>4, <1>7, <3>5, <3>7, <3>8, <3>9
  <2> QED BY <1>6, <2>4, <2>5, <2>6 DEF Once
<1>14. InTime(u, left)
  <2>1. SUFFICES ASSUME Shrinking(u.lists), Priced(u.lists)
                 PROVE  /\ u.calls <= MaxPages
                        /\ u.cursor # None => u.calls < MaxPages
                                              /\ After(Latest(u.lists), u.cursor) \subseteq left[u.calls]
    BY <1>6 DEF InTime
  <2>2. Shrinking(t.lists) /\ Priced(t.lists) /\ L \subseteq Latest(t.lists)
    BY <1>5, <2>1
  <2>3. /\ t.calls <= MaxPages
        /\ After(t.found \cup Latest(t.lists), t.cursor) \subseteq left[t.calls - 1]
        /\ t.at # None => UpTo(Latest(t.lists) \cap PgRels, t.at) \subseteq t.found
    BY <1>1, <2>2 DEF InTime
  <2>4. list \subseteq t.found \cup Latest(t.lists)
    BY <1>2, <1>3, <2>2
  <2>5. more \subseteq left[t.calls - 1]
    BY <1>3, <2>3, <2>4 DEF After
  <2>6. L \subseteq list
    <3>1. ASSUME NEW r \in P PROVE r \in F
      <4>1. CASE r > t.at
        BY <1>2, <1>3, <4>1 DEF After
      <4>2. CASE ~(r > t.at)
        <5>1. t.at # None /\ r <= t.at
          BY <1>2, <1>8, <1>9, <4>2 DEF None
        <5>2. r \in Latest(t.lists) \cap PgRels
          BY <1>2, <2>2
        <5> QED BY <1>2, <2>3, <5>1, <5>2 DEF UpTo
      <4> QED BY <4>1, <4>2
    <3> QED BY <1>3, <3>1
  <2>8. \A r \in more : Size[r] <= Budget[r]
    <3>1. t.found \subseteq UNION Range(u.lists) /\ L \subseteq UNION Range(u.lists)
      BY <1>1, <1>5 DEF Sound
    <3>2. more \subseteq t.found \cup L
      BY <1>2, <1>3
    <3> QED BY <2>1, <3>1, <3>2 DEF Priced
  <2>7. ASSUME u.cursor # None
        PROVE  t.calls < MaxPages /\ After(L, u.cursor) \subseteq left[t.calls]
    <3>1. /\ u.cursor \in Nat /\ u.cursor > t.cursor
          /\ more \ page = After(more, u.cursor) /\ more \ page # {}
      BY <1>10, <1>11, <2>7
    <3>2. After(L, u.cursor) \subseteq more \ page
      <4>1. ASSUME NEW r \in L, r > u.cursor PROVE r \in more
        <5>1. r \in Nat
          BY <1>2, <1>8
        <5>2. r > t.cursor
          BY <1>9, <3>1, <4>1, <5>1
        <5> QED BY <1>3, <2>6, <5>2 DEF After
      <4> QED BY <3>1, <4>1 DEF After
    <3>3. MaxPages \in Nat \ {0} /\ t.calls \in 1..MaxPages /\ t.calls - 1 \in 0..MaxPages
      <4>1. MaxPages \in Nat \ {0}
        BY Manifest
      <4> QED BY <1>7, <2>3, <4>1
    <3>4. /\ left[t.calls] = left[t.calls - 1] \ Prefix(left[t.calls - 1], Budget)
          /\ left[MaxPages] = {} /\ left[t.calls - 1] \subseteq Rels
      BY <3>3 DEF Estimated, Estimate
    <3>5. PICK B : B = left[t.calls - 1]
      OBVIOUS
    <3>6. more \ Prefix(more, Size) \subseteq B \ Prefix(B, Budget)
      BY <2>5, <2>8, <3>4, <3>5, LeavesLess
    <3>7. more \ page \subseteq left[t.calls]
      BY <3>4, <3>5, <3>6
    <3>8. t.calls # MaxPages
      BY <3>1, <3>4, <3>7
    <3> QED BY <2>3, <3>2, <3>3, <3>7, <3>8
  <2> QED BY <1>4, <1>5, <2>3, <2>7
<1>15. Exactly(u)
  <2>1. SUFFICES ASSUME Unchanged(u.lists), Fits(u.lists)
                 PROVE  /\ ~u.invalid
                        /\ u.cursor # None => u.cursor \in L /\ u.seen = UpTo(L, u.cursor)
                        /\ u.cursor = None => u.seen = L
    BY <1>5, <1>6 DEF Exactly
  <2>2. Unchanged(t.lists) /\ Fits(t.lists) /\ (t.lists # <<>> => L = Latest(t.lists))
    BY <1>5, <2>1
  <2>3. list = L
    BY <1>1, <2>2, FindsAll
  <2>4. ~t.invalid /\ (t.cursor # None => t.seen = UpTo(L, t.cursor))
    BY <1>1, <1>7, <2>2 DEF Exactly
  <2>5. t.seen = UpTo(L, t.cursor)
    <3>1. t.cursor = None => t.seen = {}
      BY <1>1 DEF Once
    <3>2. UpTo(L, None) = {}
      BY <1>2, <1>8 DEF UpTo, None
    <3> QED BY <2>4, <3>1, <3>2
  <2>6. more = After(L, t.cursor)
    BY <1>3, <2>3
  <2>7. \A r \in L : r \in Nat
    BY <1>2, <1>8
  <2>8. u.cursor # None => u.cursor \in L /\ u.seen = UpTo(L, u.cursor)
    <3>1. SUFFICES ASSUME u.cursor # None PROVE u.cursor \in L /\ u.seen = UpTo(L, u.cursor)
      OBVIOUS
    <3>2. u.cursor \in more /\ u.cursor \in Nat /\ page = UpTo(more, u.cursor) /\ u.cursor > t.cursor
      BY <1>10, <1>11, <3>1
    <3>3. u.seen = UpTo(L, t.cursor) \cup UpTo(After(L, t.cursor), u.cursor)
      BY <1>6, <2>5, <2>6, <3>2
    <3>4. \A r \in L : r <= u.cursor <=> r <= t.cursor \/ (r > t.cursor /\ r <= u.cursor)
      BY <1>9, <2>7, <3>2
    <3>5. u.seen = UpTo(L, u.cursor)
      BY <3>3, <3>4 DEF UpTo, After
    <3> QED BY <1>2, <2>3, <3>2, <3>5
  <2>9. u.cursor = None => u.seen = L
    <3>1. SUFFICES ASSUME u.cursor = None PROVE u.seen = L
      OBVIOUS
    <3>2. page = more
      BY <1>11, <3>1 DEF More
    <3>3. u.seen = UpTo(L, t.cursor) \cup After(L, t.cursor)
      BY <1>6, <2>5, <2>6, <3>2
    <3>4. \A r \in L : r <= t.cursor \/ r > t.cursor
      BY <1>9, <2>7
    <3> QED BY <3>3, <3>4 DEF UpTo, After
  <2> QED BY <1>6, <2>4, <2>8, <2>9
<1> QED BY <1>12, <1>13, <1>14, <1>15 DEF Walks
LEMMA TurnWalks ==
  ASSUME NEW t, NEW u, NEW v, NEW left, Estimated(left), Walks(t, left), t.st # "paused",
         v \subseteq PgRels, Stepped(t, u, v), Turn(t, u, v)
  PROVE  Walks(u, left)
<1>1. Sound(t) /\ Exactly(t)
  BY DEF Walks
<1>2. PICK P, L, rest, F, list, more : Lists(t, v, P, L, rest, F, list, more)
  <2>1. PICK P, L, rest : /\ P = v \cap t.allowed /\ L = P \cup (MongoRels \cap t.allowed)
                          /\ rest = After(P, t.at)
    OBVIOUS
  <2>2. PICK F : F = t.found \cup Prefix(rest, Size)
    OBVIOUS
  <2>3. PICK list, more : list = F \cup (MongoRels \cap t.allowed) /\ more = After(list, t.cursor)
    OBVIOUS
  <2> QED BY <1>1, <2>1, <2>2, <2>3 DEF Lists
<1>3. /\ P = v \cap t.allowed /\ L = P \cup (MongoRels \cap t.allowed)
      /\ rest = After(P, t.at) /\ F = t.found \cup Prefix(rest, Size)
      /\ list = F \cup (MongoRels \cap t.allowed) /\ more = After(list, t.cursor)
  BY <1>2 DEF Lists
<1>4. PICK next, page : next = Max(Prefix(rest, Size)) /\ page = Prefix(more, Size)
  OBVIOUS
<1>5. \/ (t.at # None /\ t.at \notin P) /\ Refused(t, u)
      \/ TooLarge(rest) /\ Refused(t, u)
      \/ More(rest) /\ ~TooLarge(rest) /\ next = t.at /\ Refused(t, u)
      \/ More(rest) /\ ~TooLarge(rest) /\ Onward(t, u, next, F)
      \/ ~More(rest) /\ (t.cursor # None /\ t.cursor \notin list) /\ Refused(t, u)
      \/ ~More(rest) /\ TooLarge(more) /\ Refused(t, u)
      \/ ~More(rest) /\ ~TooLarge(more) /\ Paged(t, u, more, page)
  BY <1>3, <1>4 DEF Turn
<1>6. /\ L \subseteq Rels /\ rest \subseteq Rels /\ rest \subseteq L /\ more \subseteq list
  <2>1. P \subseteq PgRels /\ rest \subseteq P /\ P = L \cap PgRels /\ L \subseteq Rels /\ more \subseteq list
    BY <1>2, ListsAre
  <2> QED BY <2>1 DEF Rels
<1>7. Unchanged(u.lists) /\ Fits(u.lists) =>
        /\ Unchanged(t.lists) /\ Fits(t.lists) /\ (\A r \in L : Size[r] <= PageBytes)
        /\ (t.lists # <<>> => L = Latest(t.lists))
  <2>1. u.lists = Append(t.lists, L)
    BY <1>3 DEF Stepped
  <2> QED BY <1>1, <1>6, <2>1, StepGrows
<1>8. Unchanged(u.lists) /\ Fits(u.lists) => (t.at # None => t.at \in P) /\ (~More(rest) => list = L)
  BY <1>1, <1>2, <1>7, FindsAll
<1>9. CASE Refused(t, u) /\ ~(Unchanged(u.lists) /\ Fits(u.lists))
  BY <1>9, RefusedWalks
<1>15. ASSUME Unchanged(u.lists), Fits(u.lists)
       PROVE  ~TooLarge(rest) /\ (~More(rest) => ~TooLarge(more))
  BY <1>6, <1>7, <1>8, <1>15, FitsPage
<1>10. ~(More(rest) /\ ~TooLarge(rest) /\ next = t.at)
  <2>1. SUFFICES ASSUME More(rest), ~TooLarge(rest), next = t.at PROVE FALSE
    OBVIOUS
  <2>2. next \in rest /\ next \in Nat
    BY <1>4, <1>6, <2>1, PageEnds
  <2>3. next > t.at
    BY <1>3, <2>2 DEF After
  <2> QED BY <2>1, <2>2, <2>3
<1>11. CASE (t.at # None /\ t.at \notin P) /\ Refused(t, u) /\ Unchanged(u.lists) /\ Fits(u.lists)
  BY <1>8, <1>11
<1>12. CASE ~More(rest) /\ (t.cursor # None /\ t.cursor \notin list) /\ Unchanged(u.lists) /\ Fits(u.lists)
  <2>1. list = L /\ L = Latest(t.lists) /\ Unchanged(t.lists) /\ Fits(t.lists)
    BY <1>1, <1>7, <1>8, <1>12 DEF Sound
  <2> QED BY <1>1, <1>12, <2>1 DEF Exactly
<1>13. CASE More(rest) /\ ~TooLarge(rest) /\ Onward(t, u, next, F)
  BY <1>2, <1>4, <1>13, OnwardWalks
<1>14. CASE ~More(rest) /\ ~TooLarge(more) /\ Paged(t, u, more, page)
  BY <1>2, <1>4, <1>14, PagedWalks
<1> QED BY <1>5, <1>9, <1>10, <1>11, <1>12, <1>13, <1>14, <1>15

-----------------------------------------------------------------------------
\* What a step may do to a caller that is, or starts, discovering.
Begun(a) == [Idle EXCEPT !.op = "discover", !.st = "catalog", !.allowed = a, !.calls = 1]
AskedFor(t, a) == [t EXCEPT !.st = "catalog", !.allowed = a, !.calls = t.calls + 1, !.found = {}, !.at = None]
Loads(t) == [t EXCEPT !.st = "load"]

Moves(t, u) ==
  \/ u = t \/ u.op # "discover"
  \/ \E a \in SUBSET Rels : u = Begun(a)
  \/ /\ t.op = "discover" /\ t.st = "paused" /\ t.cursor # None
     /\ \E a \in SUBSET Rels : u = AskedFor(t, a)
  \/ /\ t.op = "discover" /\ t.st # "paused"
     /\ u = Loads(t) \/ \E v \in SUBSET PgRels : u = Walked(t, v)

LEMMA BegunIs ==
  ASSUME NEW a
  PROVE  LET u == Begun(a) IN
         /\ u.op = "discover" /\ u.st = "catalog" /\ u.allowed = a /\ u.calls = 1 /\ u.lists = <<>>
         /\ u.found = {} /\ u.at = None /\ u.cursor = None /\ u.seen = {} /\ u.twice = FALSE
         /\ u.invalid = FALSE
<1> DEFINE u == Begun(a)
<1>1. PICK i : i = Idle
  OBVIOUS
<1>2. /\ DOMAIN i = Fields /\ i.lists = <<>> /\ i.found = {} /\ i.at = None /\ i.cursor = None
      /\ i.seen = {} /\ i.twice = FALSE /\ i.invalid = FALSE
  BY <1>1, IdleIs DEF Idle
<1>3. u = [i EXCEPT !.op = "discover", !.st = "catalog", !.allowed = a, !.calls = 1]
  BY <1>1 DEF Begun
<1> HIDE DEF u
<1>4. /\ u.op = "discover" /\ u.st = "catalog" /\ u.allowed = a /\ u.calls = 1 /\ u.lists = <<>>
      /\ u.found = {} /\ u.at = None /\ u.cursor = None /\ u.seen = {} /\ u.twice = FALSE
      /\ u.invalid = FALSE
  BY <1>2, <1>3 DEF Fields
<1> QED BY <1>4 DEF u

LEMMA AskedForIs ==
  ASSUME NEW t, DOMAIN t = Fields, NEW a, NEW u, u = AskedFor(t, a)
  PROVE  /\ u.op = t.op /\ u.st = "catalog" /\ u.allowed = a /\ u.calls = t.calls + 1 /\ u.lists = t.lists
         /\ u.found = {} /\ u.at = None /\ u.cursor = t.cursor /\ u.seen = t.seen
         /\ u.twice = t.twice /\ u.invalid = t.invalid
  BY DEF Fields, AskedFor

LEMMA LoadsIs ==
  ASSUME NEW t, DOMAIN t = Fields, NEW u, u = Loads(t)
  PROVE  /\ u.op = t.op /\ u.st = "load" /\ u.allowed = t.allowed /\ u.calls = t.calls /\ u.lists = t.lists
         /\ u.found = t.found /\ u.at = t.at /\ u.cursor = t.cursor /\ u.seen = t.seen
         /\ u.twice = t.twice /\ u.invalid = t.invalid
  BY DEF Fields, Loads

LEMMA NothingBefore == \A S : UpTo(S \cap PgRels, None) = {}
<1>1. ASSUME NEW r \in PgRels PROVE ~(r <= None)
  <2>1. r \in Nat /\ r > None /\ None \in Nat
    BY Numbers DEF Rels
  <2> QED BY <2>1
<1> QED BY <1>1 DEF UpTo

LEMMA BegunWalks ==
  ASSUME NEW left, Estimated(left), NEW a, a \subseteq Rels, NEW u, u = Begun(a)
  PROVE  Walks(u, left)
<1>1. /\ u.op = "discover" /\ u.st = "catalog" /\ u.allowed = a /\ u.calls = 1 /\ u.lists = <<>>
      /\ u.found = {} /\ u.at = None /\ u.cursor = None /\ u.seen = {} /\ u.twice = FALSE
      /\ u.invalid = FALSE
  BY BegunIs
<1>2. Sound(u)
  <2>1. <<>> \in Seq(SUBSET Rels) /\ 1 \in Nat \ {0}
    OBVIOUS
  <2> QED BY <1>1, <2>1 DEF Sound
<1>3. Once(u)
  BY <1>1 DEF Once
<1>4. Latest(u.lists) = Rels
  BY <1>1 DEF Latest
<1>5. InTime(u, left)
  <2>1. 1 <= MaxPages /\ left[0] = Rels
    BY Manifest DEF Estimated, Estimate
  <2>2. After({} \cup Rels, None) \subseteq left[0]
    BY <2>1 DEF After
  <2>3. u.calls - 1 = 0
    BY <1>1
  <2> QED BY <1>1, <1>4, <2>1, <2>2, <2>3 DEF InTime
<1>6. Exactly(u)
  BY <1>1, <1>4, NothingBefore DEF Exactly
<1> QED BY <1>2, <1>3, <1>5, <1>6 DEF Walks

LEMMA NextPageWalks ==
  ASSUME NEW t, DOMAIN t = Fields, NEW left, Walks(t, left), t.st = "paused", t.cursor # None,
         NEW a, a \subseteq Rels, NEW u, u = AskedFor(t, a)
  PROVE  Walks(u, left)
<1>1. /\ u.op = t.op /\ u.st = "catalog" /\ u.allowed = a /\ u.calls = t.calls + 1 /\ u.lists = t.lists
      /\ u.found = {} /\ u.at = None /\ u.cursor = t.cursor /\ u.seen = t.seen
      /\ u.twice = t.twice /\ u.invalid = t.invalid
  BY AskedForIs
<1>2. Sound(t) /\ Once(t) /\ InTime(t, left) /\ Exactly(t)
  BY DEF Walks
<1>3. t.calls \in Nat \ {0} /\ u.calls \in Nat \ {0} /\ u.calls - 1 = t.calls
  BY <1>1, <1>2 DEF Sound
<1>4. Sound(u)
  <2>1. {} \subseteq PgRels /\ {} \subseteq UNION Range(u.lists)
    OBVIOUS
  <2> QED BY <1>1, <1>2, <1>3, <2>1 DEF Sound
<1>5. Once(u)
  <2>1. t.calls <= Cardinality(t.seen)
    BY <1>2 DEF Once
  <2>2. IsFiniteSet(t.seen)
    BY <1>2, RelsFinite, FS_Subset DEF Sound
  <2>3. Cardinality(t.seen) \in Nat
    BY <2>2, FS_CardinalityType
  <2>4. u.calls <= Cardinality(u.seen) + 1
    BY <1>1, <1>3, <2>1, <2>3
  <2> QED BY <1>1, <1>2, <2>4 DEF Once
<1>6. InTime(u, left)
  <2>1. SUFFICES ASSUME Shrinking(t.lists), Priced(t.lists)
                 PROVE  /\ u.calls <= MaxPages
                        /\ After({} \cup Latest(t.lists), t.cursor) \subseteq left[u.calls - 1]
    BY <1>1 DEF InTime
  <2>2. t.calls < MaxPages /\ After(Latest(t.lists), t.cursor) \subseteq left[t.calls]
    BY <1>2, <2>1 DEF InTime
  <2>3. MaxPages \in Nat
    BY Manifest
  <2>4. u.calls <= MaxPages
    BY <1>1, <1>3, <2>2, <2>3
  <2> QED BY <1>3, <2>2, <2>4
<1>7. Exactly(u)
  BY <1>1, <1>2, NothingBefore DEF Exactly
<1> QED BY <1>4, <1>5, <1>6, <1>7 DEF Walks

LEMMA MoveWalks ==
  ASSUME NEW t, NEW u, NEW left, Estimated(left), Placed(t), t.op = "discover" => Walks(t, left),
         Moves(t, u), u.op = "discover"
  PROVE  Walks(u, left)
<1>1. DOMAIN t = Fields
  BY PlacedIs
<1>2. CASE u = t
  BY <1>2
<1>3. CASE \E a \in SUBSET Rels : u = Begun(a)
  BY <1>3, BegunWalks
<1>4. CASE t.op = "discover" /\ t.st = "paused" /\ t.cursor # None /\ \E a \in SUBSET Rels : u = AskedFor(t, a)
  BY <1>1, <1>4, NextPageWalks
<1>5. CASE t.op = "discover" /\ t.st # "paused" /\ u = Loads(t)
  <2>1. /\ u.op = t.op /\ u.st = "load" /\ u.allowed = t.allowed /\ u.calls = t.calls /\ u.lists = t.lists
        /\ u.found = t.found /\ u.at = t.at /\ u.cursor = t.cursor /\ u.seen = t.seen
        /\ u.twice = t.twice /\ u.invalid = t.invalid
    BY <1>1, <1>5, LoadsIs
  <2>2. Sound(t) /\ Once(t) /\ InTime(t, left) /\ Exactly(t)
    BY <1>5 DEF Walks
  <2>3. Sound(u) /\ Once(u)
    BY <1>5, <2>1, <2>2 DEF Sound, Once
  <2>4. InTime(u, left)
    BY <1>5, <2>1, <2>2 DEF InTime
  <2>5. Exactly(u)
    BY <1>5, <2>1, <2>2 DEF Exactly
  <2> QED BY <2>3, <2>4, <2>5 DEF Walks
<1>6. ASSUME t.op = "discover", t.st # "paused", NEW v \in SUBSET PgRels, u = Walked(t, v)
      PROVE  Walks(u, left)
  <2>1. Sound(t)
    BY <1>6 DEF Walks
  <2>2. Stepped(t, u, v) /\ Turn(t, u, v)
    BY <1>1, <1>6, <2>1, WalkedSteps
  <2> QED BY <1>6, <2>2, TurnWalks
<1> QED BY <1>2, <1>3, <1>4, <1>5, <1>6 DEF Moves
-----------------------------------------------------------------------------
\* Each step, seen from every caller.
AllMove == \A c \in Callers : Moves(call[c], call'[c])

LEMMA OneMove ==
  ASSUME IInv, NEW c \in Callers, NEW u, call' = [call EXCEPT ![c] = u], Moves(call[c], u)
  PROVE  AllMove
<1>1. DOMAIN call = Callers
  BY DEF IInv, Calls
<1>2. call'[c] = u /\ \A d \in Callers \ {c} : call'[d] = call[d]
  BY <1>1, Updated
<1> QED BY <1>2 DEF AllMove, Moves

LEMMA Elsewhere ==
  ASSUME IInv, NEW c \in Callers, NEW u, call' = [call EXCEPT ![c] = u], u.op # "discover"
  PROVE  AllMove
<1>1. Moves(call[c], u)
  BY DEF Moves
<1> QED BY <1>1, OneMove

LEMMA PagesMove ==
  ASSUME IInv, NEW c \in Callers, Discover(c) \/ NextPage(c) \/ EndDiscovery(c)
  PROVE  AllMove
<1>1. grants \in SUBSET Rels
  BY DEF IInv, World
<1>2. CASE Discover(c)
  <2>1. PICK u : u = Begun(grants)
    OBVIOUS
  <2>2. call' = [call EXCEPT ![c] = u]
    BY <1>2, <2>1 DEF Discover, Start, Begun
  <2>3. Moves(call[c], u)
    BY <1>1, <2>1 DEF Moves
  <2> QED BY <2>2, <2>3, OneMove
<1>3. CASE NextPage(c)
  <2>1. PICK t, u : t = call[c] /\ u = AskedFor(t, grants)
    OBVIOUS
  <2>2. call' = [call EXCEPT ![c] = u] /\ t.op = "discover" /\ t.st = "paused" /\ t.cursor # None
    BY <1>3, <2>1 DEF NextPage, AskedFor
  <2>3. Moves(t, u)
    BY <1>1, <2>1, <2>2 DEF Moves
  <2> QED BY <2>1, <2>2, <2>3, OneMove
<1>4. CASE EndDiscovery(c)
  <2>1. call' = [call EXCEPT ![c] = Idle]
    BY <1>4 DEF EndDiscovery
  <2> QED BY <2>1, IdleIs, Elsewhere
<1> QED BY <1>2, <1>3, <1>4

LEMMA QueriesMove ==
  ASSUME IInv, NEW c \in Callers,
         QueueTimeout(c) \/ \E n \in DOMAIN Queries : Refuse(c, n) \/ Query(c, n)
  PROVE  AllMove
<1>1. CASE call' = [call EXCEPT ![c] = Idle]
  BY <1>1, IdleIs, Elsewhere
<1>2. CASE QueueTimeout(c)
  BY <1>1, <1>2 DEF QueueTimeout
<1>3. ASSUME NEW n, Refuse(c, n) PROVE AllMove
  BY <1>1, <1>3 DEF Refuse, Start
<1>4. ASSUME NEW n, Query(c, n) PROVE AllMove
  <2> DEFINE t == [Idle EXCEPT !.op = "query", !.query = n]
             u == Enter(t)
             v == [t EXCEPT !.st = "queued"]
  <2>1. \/ call' = [call EXCEPT ![c] = u] \/ call' = [call EXCEPT ![c] = v]
        \/ call' = [call EXCEPT ![c] = Idle]
    BY <1>4 DEF Query, Start
  <2>2. DOMAIN t = Fields /\ t.op = "query"
    BY Begins
  <2> HIDE DEF t
  <2>3. v.op = "query"
    BY <2>2, Steps DEF Kept
  <2>4. u.op = "query"
    <3>1. PICK x : u = [t EXCEPT !.st = x]
      BY DEF Enter
    <3> HIDE DEF u
    <3> QED BY <2>2, <3>1, Steps DEF Kept
  <2> HIDE DEF u, v
  <2> QED BY <1>1, <2>1, <2>3, <2>4, Elsewhere
<1> QED BY <1>2, <1>3, <1>4

LEMMA LeaveMoves ==
  ASSUME IInv, NEW c \in Callers, Leave(c)
  PROVE  AllMove
<1>1. PICK s : s = Source(Queries[call[c].query].relation)
  OBVIOUS
<1>2. \/ /\ queue[s] # <<>>
         /\ call' = [call EXCEPT ![c] = Idle, ![Head(queue[s])] = Enter(@)]
      \/ call' = [call EXCEPT ![c] = Idle]
  BY <1>1 DEF Leave, HandsOver
<1>3. call[c].st \in {"exec", "leave"} /\ s \in Sources /\ DOMAIN call = Callers
      /\ \A d \in Callers : Placed(call[d])
  BY <1>1, SourceIn DEF Leave, IInv, Calls
<1>4. CASE call' = [call EXCEPT ![c] = Idle]
  BY <1>4, IdleIs, Elsewhere
<1>5. ASSUME queue[s] # <<>>, call' = [call EXCEPT ![c] = Idle, ![Head(queue[s])] = Enter(@)]
      PROVE  AllMove
  <2>1. PICK d : d = Head(queue[s])
    OBVIOUS
  <2>2. d \in Waiters(call, s)
    <3>1. queue[s] \in Seq(Callers) /\ Line(queue[s]) = Waiters(call, s)
      BY <1>3 DEF IInv, Slots, SlotAt
    <3>2. Head(queue[s]) = queue[s][1] /\ 1 \in DOMAIN queue[s]
      BY <1>5, <3>1
    <3> QED BY <2>1, <3>1, <3>2 DEF Line
  <2>3. d \in Callers /\ call[d].st = "queued" /\ call[d].op = "query" /\ DOMAIN call[d] = Fields /\ d # c
    <3>1. d \in Callers /\ call[d].st = "queued"
      BY <2>2 DEF Waiters, WaitsAt
    <3> QED BY <1>3, <3>1, PlacedIs
  <2>4. PICK f, u : f = [call EXCEPT ![c] = Idle] /\ u = Enter(call[d])
    OBVIOUS
  <2>5. DOMAIN f = Callers /\ f[c] = Idle /\ f[d] = call[d] /\ \A e \in Callers \ {c} : f[e] = call[e]
    BY <1>3, <2>3, <2>4, Updated
  <2>6. call' = [f EXCEPT ![d] = u]
    BY <1>5, <2>1, <2>3, <2>4, <2>5
  <2>7. call'[d] = u /\ \A e \in Callers \ {d} : call'[e] = f[e]
    BY <2>3, <2>5, <2>6, Updated
  <2>8. u.op = "query"
    <3>1. PICK t, x : t = call[d] /\ u = [t EXCEPT !.st = x]
      BY <2>4 DEF Enter
    <3>2. DOMAIN t = Fields /\ t.op = "query"
      BY <2>3, <3>1
    <3> QED BY <3>1, <3>2, Steps DEF Kept
  <2>9. ASSUME NEW e \in Callers PROVE Moves(call[e], call'[e])
    <3>1. CASE e = d
      BY <2>7, <2>8, <3>1 DEF Moves
    <3>2. CASE e = c
      BY <2>3, <2>5, <2>7, <3>2, IdleIs DEF Moves
    <3>3. CASE e # d /\ e # c
      BY <2>5, <2>7, <3>3 DEF Moves
    <3> QED BY <3>1, <3>2, <3>3
  <2> QED BY <2>9 DEF AllMove
<1> QED BY <1>2, <1>4, <1>5

LEMMA SettleMoves ==
  ASSUME NEW c, NEW v, NEW e, Settle(c, v, e)
  PROVE  AllMove
<1> DEFINE told == {d \in Callers : d = c \/ (call[d].st = "join" /\ call[d].owner = c)}
<1>1. call' = [d \in Callers |-> IF d \in told THEN Idle ELSE call[d]]
  BY DEF Settle
<1> HIDE DEF told
<1>2. \A d \in Callers : call'[d] = Idle \/ call'[d] = call[d]
  BY <1>1
<1> QED BY <1>2, IdleIs DEF AllMove, Moves

LEMMA ReadinessMoves ==
  ASSUME IInv, NEW c \in Callers,
         AskReady(c) \/ CheckTables(c) \/ PingMongo(c) \/ SelectNothing(c) \/ AnswerReady(c)
  PROVE  AllMove
<1>1. Placed(call[c])
  BY DEF IInv, Calls
<1>2. PICK t : t = call[c]
  OBVIOUS
<1>3. DOMAIN t = Fields /\ (t.st \in {"tables", "join", "select", "pg"} => t.op = "ready")
  BY <1>1, <1>2, PlacedIs
<1>4. CASE AskReady(c)
  <2> DEFINE x == [Idle EXCEPT !.op = "ready", !.asked = now]
             y == [x EXCEPT !.st = "tables"]
             z == SetOwner(x, entry.by)
  <2>1. \/ call' = [call EXCEPT ![c] = y] \/ call' = [call EXCEPT ![c] = z]
        \/ call' = [call EXCEPT ![c] = Idle]
    BY <1>4 DEF AskReady, Start, SetOwner
  <2>2. DOMAIN x = Fields /\ x.op = "ready"
    BY Begins
  <2> HIDE DEF x
  <2>3. y.op = "ready"
    BY <2>2, Steps DEF Kept
  <2>4. z.op = "ready"
    BY <2>2, Joined
  <2> HIDE DEF y, z
  <2> QED BY <2>1, <2>3, <2>4, IdleIs, Elsewhere
<1>5. CASE CheckTables(c)
  <2>1. t.op = "ready"
    BY <1>2, <1>3, <1>5 DEF CheckTables
  <2>2. \/ \E ok \in BOOLEAN : call' = [call EXCEPT ![c] = SetTables(t, "catalog", ok)]
        \/ \E e : Settle(c, "error", e)
    BY <1>2, <1>5 DEF CheckTables, SetTables
  <2>3. ASSUME NEW ok, call' = [call EXCEPT ![c] = SetTables(t, "catalog", ok)] PROVE AllMove
    <3>1. PICK u : u = SetTables(t, "catalog", ok)
      OBVIOUS
    <3>2. u.op = "ready"
      BY <1>3, <2>1, <3>1, StepsWithTables DEF Kept
    <3> QED BY <2>3, <3>1, <3>2, Elsewhere
  <2> QED BY <2>2, <2>3, SettleMoves
<1>6. CASE PingMongo(c)
  <2>1. PICK y, u : y = (IF Whole("mongo") THEN "ok" ELSE "bad") /\ u = SetMongo(t, y)
    OBVIOUS
  <2>2. t.op = "ready" /\ call' = [call EXCEPT ![c] = u]
    BY <1>2, <1>6, <2>1 DEF PingMongo, SetMongo
  <2>3. u.op = "ready"
    BY <1>3, <2>1, <2>2, Pinged DEF Kept
  <2> QED BY <2>2, <2>3, Elsewhere
<1>7. CASE SelectNothing(c)
  <2>1. PICK y, u : y = (IF Whole("pg") THEN "ok" ELSE "bad") /\ u = SetPg(t, "pg", y)
    OBVIOUS
  <2>2. t.op = "ready" /\ call' = [call EXCEPT ![c] = u]
    BY <1>2, <1>3, <1>7, <2>1 DEF SelectNothing, SetPg
  <2>3. u.op = "ready"
    BY <1>3, <2>1, <2>2, StepsWithPg DEF Kept
  <2> QED BY <2>2, <2>3, Elsewhere
<1>8. CASE AnswerReady(c)
  <2>1. \E v, e : Settle(c, v, e)
    BY <1>8 DEF AnswerReady
  <2> QED BY <2>1, SettleMoves
<1> QED BY <1>4, <1>5, <1>6, <1>7, <1>8

LEMMA ProceedMoves ==
  ASSUME NEW t, Placed(t), t.st \in {"catalog", "load"}, NEW v \in SUBSET PgRels
  PROVE  Moves(t, Proceed(t, v))
<1>1. DOMAIN t = Fields /\ t.op \in {"discover", "query", "ready"}
  BY PlacedIs
<1>2. CASE t.op = "discover"
  <2>1. Proceed(t, v) = Walked(t, v)
    BY <1>2 DEF Proceed
  <2> QED BY <1>2, <2>1 DEF Moves
<1>3. CASE t.op \in {"query", "ready"}
  <2>1. PICK u : u = Proceed(t, v)
    OBVIOUS
  <2>2. \/ \E x : u = [t EXCEPT !.st = x] \/ u = SetPg(t, "pg", "bad")
    BY <1>3, <2>1 DEF Proceed, Validated, Judged, SetPg
  <2>3. u.op = t.op
    BY <1>1, <2>2, Steps, StepsWithPg DEF Kept
  <2> QED BY <1>3, <2>1, <2>3 DEF Moves
<1> QED BY <1>1, <1>2, <1>3

LEMMA CatalogMoves ==
  ASSUME IInv, LoadCatalog \/ \E c \in Callers : AskCatalog(c)
  PROVE  AllMove
<1>1. views \in SUBSET PgRels /\ catalog.value \in SUBSET PgRels /\ \A c \in Callers : Placed(call[c])
  BY DEF IInv, World, Kinds, Calls
<1>2. ASSUME NEW c \in Callers, AskCatalog(c) PROVE AllMove
  <2>1. PICK t, u, v : /\ t = call[c] /\ v = catalog.value
                       /\ u = IF catalog.expires > now THEN Proceed(t, v) ELSE Loads(t)
    OBVIOUS
  <2>2. t.st = "catalog" /\ call' = [call EXCEPT ![c] = u] /\ Placed(t)
    BY <1>1, <1>2, <2>1 DEF AskCatalog, Loads
  <2>3. Moves(t, Proceed(t, v))
    BY <1>1, <2>1, <2>2, ProceedMoves
  <2>4. Moves(t, Loads(t))
    <3>1. PICK w : w = Loads(t)
      OBVIOUS
    <3>2. DOMAIN t = Fields
      BY <2>2, PlacedIs
    <3>3. w.op = t.op
      BY <3>1, <3>2, LoadsIs
    <3> QED BY <2>2, <3>1, <3>3 DEF Moves
  <2>5. Moves(t, u)
    BY <2>1, <2>3, <2>4
  <2> QED BY <2>1, <2>2, <2>5, OneMove
<1>3. CASE LoadCatalog
  <2>1. call' = [c \in Callers |->
                   IF call[c].st # "load" THEN call[c]
                   ELSE IF up["pg"] THEN Proceed(call[c], views) ELSE Threw(call[c])]
    BY <1>3 DEF LoadCatalog
  <2>2. ASSUME NEW c \in Callers PROVE Moves(call[c], call'[c])
    <3>1. PICK t, u : t = call[c] /\ u = call'[c]
      OBVIOUS
    <3>2. Placed(t) /\ \/ u = t
                       \/ t.st = "load" /\ u = Proceed(t, views)
                       \/ t.st = "load" /\ u = Threw(t)
      BY <1>1, <2>1, <3>1
    <3>3. CASE t.st = "load" /\ u = Proceed(t, views)
      BY <1>1, <3>1, <3>2, <3>3, ProceedMoves
    <3>4. CASE t.st = "load" /\ u = Threw(t)
      <4>1. DOMAIN t = Fields /\ t.op \in {"discover", "query", "ready"}
        BY <3>2, <3>4, PlacedIs
      <4>2. CASE t.op = "discover"
        BY <3>1, <3>4, <4>2, IdleIs DEF Threw, Moves
      <4>3. CASE t.op \in {"query", "ready"}
        <5>1. u = [t EXCEPT !.st = "leave"] \/ u = SetPg(t, "pg", "bad")
          BY <3>4, <4>3 DEF Threw, SetPg
        <5>2. u.op = t.op
          BY <4>1, <5>1, Steps, StepsWithPg DEF Kept
        <5> QED BY <3>1, <4>3, <5>2 DEF Moves
      <4> QED BY <4>1, <4>2, <4>3
    <3>5. CASE u = t
      BY <3>1, <3>5 DEF Moves
    <3> QED BY <3>2, <3>3, <3>4, <3>5
  <2> QED BY <2>2 DEF AllMove
<1> QED BY <1>2, <1>3

LEMMA StepMoves == IInv /\ [Next]_vars => AllMove
<1> SUFFICES ASSUME IInv, [Next]_vars PROVE AllMove
  OBVIOUS
<1>1. CASE call' = call
  BY <1>1 DEF AllMove, Moves
<1>2. CASE UNCHANGED vars
  BY <1>1, <1>2 DEF vars
<1>3. CASE Change \/ Tick
  BY <1>1, <1>3 DEF Change, Tick
<1>4. CASE LoadCatalog \/ \E c \in Callers : AskCatalog(c)
  BY <1>4, CatalogMoves
<1>5. ASSUME NEW c \in Callers, Discover(c) \/ NextPage(c) \/ EndDiscovery(c) PROVE AllMove
  BY <1>5, PagesMove
<1>6. ASSUME NEW c \in Callers, QueueTimeout(c) \/ \E n \in DOMAIN Queries : Refuse(c, n) \/ Query(c, n)
      PROVE  AllMove
  BY <1>6, QueriesMove
<1>7. ASSUME NEW c \in Callers, Leave(c) PROVE AllMove
  BY <1>7, LeaveMoves
<1>8. ASSUME NEW c \in Callers,
             AskReady(c) \/ CheckTables(c) \/ PingMongo(c) \/ SelectNothing(c) \/ AnswerReady(c)
      PROVE  AllMove
  BY <1>8, ReadinessMoves
<1> QED BY <1>2, <1>3, <1>4, <1>5, <1>6, <1>7, <1>8 DEF Next

\* Every session walks within one and the same estimate.
Walking == \A left : Estimated(left) =>
             \A c \in Callers : call[c].op = "discover" => Walks(call[c], left)

LEMMA WalkingStarts == Init => Walking
<1> SUFFICES ASSUME Init PROVE Walking
  OBVIOUS
<1>1. \A c \in Callers : call[c] = Idle
  BY DEF Init
<1> QED BY <1>1, IdleIs DEF Walking

LEMMA WalkingKeeps == IInv /\ Walking /\ [Next]_vars => Walking'
<1> SUFFICES ASSUME IInv, Walking, [Next]_vars PROVE Walking'
  OBVIOUS
<1>1. \A c \in Callers : Moves(call[c], call'[c]) /\ Placed(call[c])
  BY StepMoves DEF AllMove, IInv, Calls
<1>2. ASSUME NEW left, Estimated(left), NEW c \in Callers, call'[c].op = "discover"
      PROVE  Walks(call'[c], left)
  <2>1. PICK t, u : t = call[c] /\ u = call'[c]
    OBVIOUS
  <2>2. t.op = "discover" => Walks(t, left)
    BY <1>2, <2>1 DEF Walking
  <2>3. Placed(t) /\ Moves(t, u) /\ u.op = "discover"
    BY <1>1, <1>2, <2>1
  <2>4. Walks(u, left)
    BY <1>2, <2>2, <2>3, MoveWalks
  <2> QED BY <2>1, <2>4
<1> QED BY <1>2 DEF Walking

LEMMA WalkingBounds == Walking => DiscoveryBounded
<1> SUFFICES ASSUME Walking, NEW c \in Callers, NEW t, t = call[c], t.op = "discover"
             PROVE  /\ ~t.twice
                    /\ t.st = "paused" /\ t.cursor # None => t.calls <= Cardinality(t.seen)
                    /\ Shrinking(t.lists) /\ Priced(t.lists) =>
                         t.calls <= MaxPages /\ (t.st = "paused" /\ t.calls = MaxPages => t.cursor = None)
                    /\ Unchanged(t.lists) /\ Fits(t.lists) /\ t.st = "paused" /\ t.cursor = None =>
                         ~t.invalid /\ Range(t.lists) = {t.seen}
  BY DEF DiscoveryBounded
<1>1. PICK left : Estimated(left)
  BY Manifest DEF Estimated
<1>2. Sound(t) /\ Once(t) /\ InTime(t, left) /\ Exactly(t)
  BY <1>1 DEF Walking, Walks
<1>3. ~t.twice /\ (t.st = "paused" /\ t.cursor # None => t.calls <= Cardinality(t.seen))
  BY <1>2 DEF Once
<1>4. ASSUME Shrinking(t.lists), Priced(t.lists)
      PROVE  t.calls <= MaxPages /\ (t.st = "paused" /\ t.calls = MaxPages => t.cursor = None)
  <2>1. t.calls <= MaxPages /\ (t.st = "paused" /\ t.cursor # None => t.calls < MaxPages)
    BY <1>2, <1>4 DEF InTime
  <2>2. t.calls \in Nat /\ MaxPages \in Nat
    BY <1>2, Manifest DEF Sound
  <2> QED BY <2>1, <2>2
<1>5. ASSUME Unchanged(t.lists), Fits(t.lists), t.st = "paused", t.cursor = None
      PROVE  ~t.invalid /\ Range(t.lists) = {t.seen}
  <2>1. ~t.invalid /\ t.seen = Latest(t.lists) /\ t.lists # <<>> /\ t.lists \in Seq(SUBSET Rels)
    BY <1>2, <1>5 DEF Exactly, Sound
  <2>2. Len(t.lists) \in DOMAIN t.lists /\ t.seen = t.lists[Len(t.lists)]
    BY <2>1 DEF Latest
  <2>3. \A i \in DOMAIN t.lists : t.lists[i] = t.seen
    BY <1>5, <2>2 DEF Unchanged
  <2>4. Range(t.lists) = {t.seen}
    BY <2>2, <2>3 DEF Range
  <2> QED BY <2>1, <2>4
<1> QED BY <1>3, <1>4, <1>5

(* No discovery lists a relation twice or has more calls than relations,
   whatever changes between its pages.  When nothing is granted or repaired
   meanwhile and no relation it meets takes more than its estimate, it ends
   within the calls the manifest was admitted for.  When all its pages saw the
   same relations and each fits a page, it has listed exactly those.  For any
   manifest, sizes, page and estimate that the start accepts, PostgreSQL
   relations whose policy states shorter types than are printed among them
   (discoverSchema, assertReportingManifestDiscoveryBudget).                  *)
THEOREM DiscoverySafety == Spec => []DiscoveryBounded
<1> QED BY Starts, StepKeeps, WalkingStarts, WalkingKeeps, WalkingBounds, PTL DEF Spec
=============================================================================
