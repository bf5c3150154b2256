------------------------------ MODULE Shutdown ------------------------------
(***************************************************************************)
(* One process from its first signal to its last query (src/server.ts,      *)
(* buildApp's shutdown tasks in src/app.ts, MessageProcessor's queue, the   *)
(* event notifier).  Jobs come in through requests and through recovery,    *)
(* wait in the queue, and run on a few workers; each run computes its       *)
(* hashes and ciphertexts under keys that closing the process overwrites    *)
(* with zeros, and writes them through a pool that closing ends.            *)
(***************************************************************************)
EXTENDS Integers, FiniteSets

CONSTANTS
  Jobs,         \* bound: the messages there are
  Concurrency,  \* workers
  MaxBuffered   \* jobs the process holds in its queue and workers

ASSUME ShutdownAssumption ==
  IsFiniteSet(Jobs) /\ Concurrency \in Nat \ {0} /\ MaxBuffered \in Nat \ {0}

VARIABLES
  stage,     \* how far the shutdown is
  timedOut,  \* waitForIdle gave up
  orphaned,  \* a request failed while a message of it was still being accepted
  job,       \* where each message is
  pump,      \* pumpScheduled
  timers,    \* the intervals of recovery and retention
  recovery,  \* drainPending is running (recoveryPromise)
  retention, \* the lifecycle job is running (lifecyclePromise)
  notices,   \* event deliveries under way
  awaited,   \* those that drain() waits for
  wrote      \* history: jobs that wrote under keys already wiped

processVars == <<stage, timedOut, orphaned, job, pump, timers, recovery, retention, notices, awaited, wrote>>

\* up, closing, notifier, recovery, idle, retention, wiped, ended, down: each
\* names what the shutdown waits for, or what it did last.
PoolsEnded == stage \in {"ended", "down"}
KeysWiped == stage = "wiped" \/ PoolsEnded
IdleOver == stage = "retention" \/ KeysWiped
RecoveryOver == stage = "idle" \/ IdleOver
ServerClosed == stage \in {"notifier", "recovery"} \/ RecoveryOver

\* accepting: a request is storing it; orphan: so too, with its request gone;
\* waiting: stored, and in no queue; working: on a worker, with no client of the
\* pool; writing: in a transaction.
Where == {"absent", "accepting", "orphan", "waiting", "queued", "working", "writing", "done", "lost"}
In(places) == {j \in Jobs : job[j] \in places}
Active == In({"working", "writing"})
Pending == In({"queued"})

ShutdownTypeOK ==
  /\ stage \in {"up", "closing", "notifier", "recovery", "idle", "retention", "wiped", "ended",
               "down"}
  /\ timedOut \in BOOLEAN /\ orphaned \in BOOLEAN
  /\ job \in [Jobs -> Where]
  /\ pump \in BOOLEAN /\ timers \subseteq {"recovery", "retention"}
  /\ recovery \in BOOLEAN /\ retention \in BOOLEAN
  /\ notices \subseteq Jobs /\ awaited \subseteq Jobs
  /\ wrote \subseteq Jobs
  /\ Cardinality(Active) <= Concurrency
  /\ Cardinality(Active) + Cardinality(Pending) <= MaxBuffered

ShutdownInit ==
  /\ stage = "up" /\ timedOut = FALSE /\ orphaned = FALSE
  /\ job \in [Jobs -> {"absent", "waiting"}]
  /\ pump = FALSE /\ timers = {"recovery", "retention"}
  /\ recovery = FALSE /\ retention = FALSE
  /\ notices = {} /\ awaited = {} /\ wrote = {}

-----------------------------------------------------------------------------
\* Requests and the queue.
Arrive(j) ==
  /\ stage = "up" /\ job[j] = "absent"
  /\ job' = [job EXCEPT ![j] = "accepting"]
  /\ UNCHANGED <<stage, timedOut, orphaned, pump, timers, recovery, retention, notices, awaited, wrote>>

\* Another message of the batch threw: Promise.all rejects, the request is
\* answered 500, and accept goes on by itself.
Abandon(j) ==
  /\ job[j] = "accepting"
  /\ job' = [job EXCEPT ![j] = "orphan"]
  /\ orphaned' = TRUE
  /\ UNCHANGED <<stage, timedOut, pump, timers, recovery, retention, notices, awaited, wrote>>

HasRoom == Cardinality(Active) + Cardinality(Pending) < MaxBuffered

\* saveInbound hashes and encrypts, then queueWork; a full queue leaves the row
\* for recovery.  Once the pools have ended the insert fails.
Accept(j) ==
  /\ job[j] \in {"accepting", "orphan"}
  /\ IF PoolsEnded
     THEN job' = [job EXCEPT ![j] = "lost"] /\ UNCHANGED <<pump, wrote>>
     ELSE /\ job' = [job EXCEPT ![j] = IF HasRoom THEN "queued" ELSE "waiting"]
          /\ pump' = (pump \/ HasRoom)
          /\ wrote' = IF KeysWiped THEN wrote \cup {j} ELSE wrote
  /\ UNCHANGED <<stage, timedOut, orphaned, timers, recovery, retention, notices, awaited>>

\* Workers take what is queued, as many as there are workers.
Fill(jobs) ==
  LET free == Concurrency - Cardinality({j \in Jobs : jobs[j] \in {"working", "writing"}})
      queued == {j \in Jobs : jobs[j] = "queued"}
  IN {[j \in Jobs |-> IF j \in taken THEN "working" ELSE jobs[j]] :
       taken \in {s \in SUBSET queued :
         Cardinality(s) = IF Cardinality(queued) < free THEN Cardinality(queued) ELSE free}}

SettledOnly(jobs) == {jobs}

\* A task that settles makes room for the next.
Settled(jobs) == Fill(jobs)

Pump ==
  /\ pump
  /\ pump' = FALSE
  /\ job' \in Fill(job)
  /\ UNCHANGED <<stage, timedOut, orphaned, timers, recovery, retention, notices, awaited, wrote>>

\* A worker gets a client of the pool and begins a transaction; when the pool
\* has ended it is refused, the job fails, and the worker takes the next.
Begin(j) ==
  /\ job[j] = "working"
  /\ IF PoolsEnded THEN job' \in Settled([job EXCEPT ![j] = "lost"])
     ELSE job' = [job EXCEPT ![j] = "writing"]
  /\ UNCHANGED <<stage, timedOut, orphaned, pump, timers, recovery, retention, notices, awaited, wrote>>

\* It writes what it computes then, and goes on with the job or is done with it;
\* on its way it may notify the integration, without waiting for the answer.
Write(j) ==
  /\ job[j] = "writing"
  /\ wrote' = IF KeysWiped THEN wrote \cup {j} ELSE wrote
  /\ \/ job' = [job EXCEPT ![j] = "working"] /\ UNCHANGED notices
     \/ job' \in Settled([job EXCEPT ![j] = "done"]) /\ notices' \in {notices, notices \cup {j}}
  /\ UNCHANGED <<stage, timedOut, orphaned, pump, timers, recovery, retention, awaited>>

\* A delivery ends: answered, refused, or aborted after its timeout.
Delivered(j) ==
  /\ j \in notices
  /\ notices' = notices \ {j} /\ awaited' = awaited \ {j}
  /\ UNCHANGED <<stage, timedOut, orphaned, job, pump, timers, recovery, retention, wrote>>

-----------------------------------------------------------------------------
\* Recovery and retention: an interval starts each, never two at once.
StartRecovery ==
  /\ "recovery" \in timers /\ ~recovery
  /\ recovery' = TRUE
  /\ UNCHANGED <<stage, timedOut, orphaned, job, pump, timers, retention, notices, awaited, wrote>>

\* One turn of drainPending: claim a row, and queue it or put it back.
Recover ==
  /\ recovery
  /\ \/ \E j \in In({"waiting"}) :
          IF HasRoom
          THEN /\ job' = [job EXCEPT ![j] = "queued"] /\ pump' = TRUE /\ UNCHANGED recovery
          ELSE /\ recovery' = FALSE /\ UNCHANGED <<job, pump>>
     \/ recovery' = FALSE /\ UNCHANGED <<job, pump>>
  /\ UNCHANGED <<stage, timedOut, orphaned, timers, retention, notices, awaited, wrote>>

StartRetention ==
  /\ "retention" \in timers /\ ~retention
  /\ retention' = TRUE
  /\ UNCHANGED <<stage, timedOut, orphaned, job, pump, timers, recovery, notices, awaited, wrote>>

EndRetention ==
  /\ retention
  /\ retention' = FALSE
  /\ UNCHANGED <<stage, timedOut, orphaned, job, pump, timers, recovery, notices, awaited, wrote>>

-----------------------------------------------------------------------------
\* Shutdown: the first signal closes the application; a later one finds the
\* promise there.  The hooks run once no request is under way.
Signal ==
  /\ stage = "up"
  /\ stage' = "closing"
  /\ UNCHANGED <<timedOut, orphaned, job, pump, timers, recovery, retention, notices, awaited, wrote>>

\* drain() takes the deliveries under way when it is called.
CloseServer ==
  /\ stage = "closing" /\ In({"accepting"}) = {}
  /\ stage' = "notifier" /\ awaited' = notices
  /\ UNCHANGED <<timedOut, orphaned, job, pump, timers, recovery, retention, notices, wrote>>

StopRecovery ==
  /\ stage = "notifier" /\ awaited = {}
  /\ stage' = "recovery" /\ timers' = timers \ {"recovery"}
  /\ UNCHANGED <<timedOut, orphaned, job, pump, recovery, retention, notices, awaited, wrote>>

AwaitRecovery ==
  /\ stage = "recovery" /\ ~recovery
  /\ stage' = "idle"
  /\ UNCHANGED <<timedOut, orphaned, job, pump, timers, recovery, retention, notices, awaited, wrote>>

NoWorkerBusy == Active = {}

AllIdle == Active = {} /\ Pending = {} /\ ~pump

\* waitForIdle answers, and then the retention interval is cleared too.
WaitForIdle ==
  /\ stage = "idle" /\ AllIdle
  /\ stage' = "retention" /\ timers' = timers \ {"retention"}
  /\ UNCHANGED <<timedOut, orphaned, job, pump, recovery, retention, notices, awaited, wrote>>

DeadlineNever == FALSE

\* Ten seconds are over.
Deadline == stage = "idle" /\ ~AllIdle

GiveUp ==
  /\ Deadline
  /\ stage' = "retention" /\ timers' = timers \ {"retention"} /\ timedOut' = TRUE
  /\ UNCHANGED <<orphaned, job, pump, recovery, retention, notices, awaited, wrote>>

RetentionOver == ~retention

\* The last task waits for the lifecycle job; then every key becomes zeros.
Wipe ==
  /\ stage = "retention" /\ RetentionOver
  /\ stage' = "wiped"
  /\ UNCHANGED <<timedOut, orphaned, job, pump, timers, recovery, retention, notices, awaited, wrote>>

\* The pools refuse new clients at once; end() waits for those in use.
EndPools ==
  /\ stage = "wiped"
  /\ stage' = "ended"
  /\ UNCHANGED <<timedOut, orphaned, job, pump, timers, recovery, retention, notices, awaited, wrote>>

PoolsDown ==
  /\ stage = "ended" /\ In({"writing"}) = {}
  /\ stage' = "down"
  /\ UNCHANGED <<timedOut, orphaned, job, pump, timers, recovery, retention, notices, awaited, wrote>>

ShutdownNext ==
  \/ \E j \in Jobs : Arrive(j)
  \/ \E j \in Jobs : Abandon(j)
  \/ \E j \in Jobs : Accept(j)
  \/ Pump
  \/ \E j \in Jobs : Begin(j)
  \/ \E j \in Jobs : Write(j)
  \/ \E j \in Jobs : Delivered(j)
  \/ StartRecovery \/ Recover \/ StartRetention \/ EndRetention
  \/ Signal \/ CloseServer \/ StopRecovery \/ AwaitRecovery
  \/ WaitForIdle \/ GiveUp \/ Wipe \/ EndPools \/ PoolsDown

\* The event loop gets to every callback that is due; requests, deliveries, the
\* database and the wait for idle have timeouts.  Nothing is assumed of what a
\* worker does between two transactions: the model it asks may keep it waiting.
Fairness ==
  /\ WF_processVars(Pump) /\ WF_processVars(Recover) /\ WF_processVars(EndRetention)
  /\ \A j \in Jobs : WF_processVars(Accept(j)) /\ WF_processVars(Write(j)) /\ WF_processVars(Delivered(j))
  /\ WF_processVars(CloseServer) /\ WF_processVars(StopRecovery) /\ WF_processVars(AwaitRecovery)
  /\ WF_processVars(WaitForIdle) /\ WF_processVars(GiveUp) /\ WF_processVars(Wipe) /\ WF_processVars(EndPools)
  /\ WF_processVars(PoolsDown)

ShutdownSpec == ShutdownInit /\ [][ShutdownNext]_processVars /\ Fairness

-----------------------------------------------------------------------------
\* A shutdown that did not give up leaves no worker behind that writes hashes,
\* ciphertexts or audit codes under zeroed keys - unless a failed request left a
\* message behind, which waitForIdle does not know of (app.ts:369-376, 480-487,
\* routes.ts:129).
CleanShutdown == wrote # {} => timedOut \/ orphaned

\* The jobs the shutdown waits for are over when it goes on: no row is claimed,
\* and none is deleted, by a process whose keys are gone (app.ts:371, 467).
Quiesced == KeysWiped => ~recovery /\ ~retention

\* A shutdown ends, whatever the workers wait for (message-processor.ts:164).
ShutdownEnds == (stage = "closing") ~> (stage = "down")

\* What was queued before the process closed is not forgotten: it runs, or waits
\* on a worker that never answers, or the database has it for the next process.
QueueServed ==
  \A j \in Jobs : (job[j] = "queued" /\ Active = {}) ~> (job[j] # "queued" \/ Active # {})

\* Why: nothing is left to work on once the wait is over, and nothing comes.
QuietAfterIdle ==
  IdleOver /\ ~timedOut /\ ~orphaned =>
    Active = {} /\ Pending = {} /\ ~pump

\* What a shutdown may rely on at every stage, its parts being stated above.
ShutdownInv == ShutdownTypeOK /\ CleanShutdown /\ Quiesced /\ QuietAfterIdle
=============================================================================
