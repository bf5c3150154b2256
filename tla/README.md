# A TLA+ model of the WhatsApp assistant

The repository is a WhatsApp assistant for one company: whitelisted employees ask for reports, a bounded worker pool
answers through an LLM or a deterministic router, and PostgreSQL keeps every message, an idempotent outbox and a
hash-chained audit log. This directory models the parts whose correctness depends on the order of events: what several
replicas, a recovery timer, Meta's webhooks, operators and a lifecycle job do to shared rows while processes crash,
calls fail and requests go unanswered; what one process does to its own memory between two `await`s; and what a language
model, a browser or a captured webhook may ask for. TLC checks the models on small instances; TLAPS proves every
invariant that the passing runs check for every instance.

| File | What it is |
|---|---|
| `MessagePipeline.tla` | a message from its stored row to the reply on the user's phone |
| `ReplyOnce.tla` | what the outbox promises, without queues, workers or statuses; `MessagePipeline` refines it |
| `MCMessagePipeline.tla` | the instance of `MessagePipeline` that TLC explores |
| `MessagePipelineProofs.tla` | theorems about `MessagePipeline` |
| `AuditChain.tla` | the audit log and the transactions that write, freeze, shorten and erase it |
| `AuditVerifier.tla` | `AuditChain` with `scripts/verify-audit-log.ts` running against it |
| `AuditChainProofs.tla` | theorems about `AuditChain` and `AuditVerifier` |
| `MessageRetention.tla` | the rows of `messages` between the retention job, the erasures, the hold and everybody who writes them |
| `MessageRetentionProofs.tla` | theorems about `MessageRetention` |
| `RateLimits.tla` | the fixed-window limits in `rate_limit_buckets` |
| `Ingress.tla` | a webhook from the request to the stored message, over `RateLimits` and against operators |
| `IngressProofs.tla` | theorems about `RateLimits` and, over them, `Ingress` |
| `Shutdown.tla` | one process from its first signal to its last query |
| `AssistantTurn.tla` | one message through router, assistant, MCP tools and authorization |
| `AssistantTurnProofs.tla` | theorems about `AssistantTurn` |
| `Whitelist.tla` | the transactions that change users and permissions |
| `AdminPanel.tla` | the panel's sessions and failed logins over `Whitelist` |
| `AdminPanelProofs.tla` | theorems about `Whitelist` and `AdminPanel` |
| `QueryRules.tla` | which reporting queries the two providers accept, and which rows they keep |
| `Reports.tla` | discovery, queries, the catalog cache and readiness over `QueryRules` |
| `ProcessProofs.tla` | theorems about `Shutdown` and `Reports` |
| `Maintenance.tla` | migrations, the encryption backfill, key rotation and the start of processes |
| `MaintenanceProofs.tla` | theorems about `Maintenance` |
| `MCIngress`, `MCAssistantTurn`, `MCAdminPanel`, `MCReports` | the instances TLC explores of these; `MCReports` also compares the providers' rules |
| `*.cfg` | one TLC run each, see *Runs* |
| `PROJECT.json` | components, runs, mutants, the definitions' source lines, findings, hazards, theorems |

Paths below are those of the repository (`src/messages/...`, `migrations/...`).

## 1. Inventory

### Components, their state, their operations

**Message pipeline** (`src/messages/message-processor.ts`, `src/messages/message.repository.ts`).
State in the database: one `messages` row per inbound message (`status`, `processing_attempts`, `updated_at`) and at
most one outbound row per inbound message (`status`, `delivery_attempts`, `external_message_id_hash`). State in
memory, lost in a crash: `pendingQueue`, `activeTasks`, the message `drainPending` has claimed.
Operations: `enqueue` (accept, `saveInbound`, `queueWork`), `pump`, `execute` (`claimInbound`, user limit, route,
audit, `deliverReply`, `setInboundStatus`), `drainPending` every ten seconds, `recordStatus` for Meta's delivery
statuses, `markUnexpectedFailure`.
Correct when: the user gets a reply at most once; an unknown outcome is never retried; no message is lost and none is
worked on forever; retries are bounded; two workers on one message do no harm.

**WhatsApp client** (`src/whatsapp/client.ts`). No state. `sendText` splits a reply and sends the chunks; a 429 is
retried, a timeout or a server error is *uncertain*, other errors are rejections, some of them permanent.
Correct when: an uncertain send is never reported as a rejected one; retries are bounded.

**Webhook routes** (`src/whatsapp/routes.ts`). Signature and payload checks, the decommission test, messages in batches
of four, statuses in batches of ten. Correct when: nothing is stored of an erased client; Meta repeats what was not
stored, and a repeated message is stored once.

**Audit log** (`src/messages/audit.repository.ts`, `migrations/005_security_operations.sql`). State: `audit_events`,
the singleton `audit_chain_state`, `audit_chain_anchors`, a sequence no rollback takes back. Operations:
`appendAuditEvent` inside `record` and inside the administrative transactions. Correct when the committed rows are one
chain from the retained anchor to the recorded tail.

**Verification** (`scripts/verify-audit-log.ts`). Three queries, no transaction. Correct when it accepts an untouched
chain and reports a broken one.

**Data lifecycle** (`assistant_run_data_lifecycle` in migration 005, `src/security/data-lifecycle.ts`, `runRetention` in
`src/app.ts`). Content after 30 days, terminal records after 90, an audit prefix after 365, rate-limit buckets, a
heartbeat row. Correct when it deletes what has expired and nothing else, and nothing under a legal hold.

**Hold, erasure, decommission** (`scripts/set-legal-hold.ts`, `erase-user-data.ts`, `erase-client-data.ts`). State: the
singleton `service_state`. Correct when a hold stops every deletion, an erasure is complete and final.

**Whitelist administration** (`src/admin/store.ts`, `scripts/whitelist-user.ts`). Users and permissions, each change
with its audit event in one transaction.

**Process lifecycle** (`src/app.ts`, `src/server.ts`, `src/integrations/event-notifier.ts`,
`src/security/keyed-hash.ts`). Start-up checks, timers, shutdown tasks in order, `waitForIdle` with a deadline,
destruction of the keys. Correct when a shutdown ends whatever a worker waits for, and nothing is written under a
destroyed key unless the shutdown gave up waiting.

**Rate limits and lockout** (`src/security/rate-limiter.ts`, `accept` and `registerLockout`). Fixed windows in
PostgreSQL, shared by every replica. Correct when the bursts they let through are bounded and a limiter that fails
denies.

**Assistant turn** (`src/llm/company-assistant.ts`, `src/mcp/*`, `src/auth/*`, `src/assistant/*`). A bounded loop of
model calls and tool calls, each tool call checked against the actor's present permissions and recorded before its data
leave the server; a deterministic router when the assistant throws. Correct when the turn ends, nothing is disclosed
without permission and record, and an answer without data does not pass as one with data.

**LLM gateways** (`src/llm/*gateway.ts`). Translate the turn's items into a provider's messages. Correct when every tool
call is answered exactly where the provider expects it.

**Reporting queries** (`src/reports/*`). State in memory: the catalog cache, two semaphores, the readiness cache.
Operations: paged discovery over two sources, guarded queries, readiness. Correct when a discovery ends within the calls
it was budgeted, slots are neither leaked nor shared, and both providers mean the same by a query.

**Admin panel** (`src/admin/app.ts`). State in memory: sessions, failed-login buckets. Correct when a session ends when
it must and guesses are bounded.

**Encryption, backfill, migrations, readiness** (`src/security/encryption.ts`, `scripts/encrypt-existing-data.ts`,
`src/db/*`). State: the key id of every envelope and lookup hash, the canary, the audit anchor, `schema_migrations`.
Correct when no rotation loses a row and no plaintext is left once 006 is applied.

**Configuration and logging**: stateless, see `PROJECT.json`.

### Interactions

```text
Meta --webhook--> routes --> MessageProcessor --SQL--> messages
                                 |  ^                     ^  ^
                    queue, workers  | recovery timer      |  | statuses
                                 v  +---------------------+  |
                       assistant, MCP tools                  |
                                 |                           |
                                 +--HTTP--> Meta ------------+
every step --appendAuditEvent--> audit_events, audit_chain_state
operators (hold, erasure, whitelist), lifecycle job --SQL, advisory lock--> the same tables
```

Replicas share nothing but the database. Inside a replica code interleaves at every `await`; between transactions
PostgreSQL interleaves at every statement, READ COMMITTED, with row, table and advisory locks.

### What is hard

1. A claim is a two-minute lease on `updated_at` with no owner: a slow worker and its successor both go on.
2. A send has three outcomes, one of them "nobody knows".
3. Delivery statuses arrive before the id they carry is stored, late, repeated, or for an earlier attempt.
4. A process can die after any statement; a call can fail although its statement ran.
5. Two counters bound the retries and live on different rows.
6. Every append serialises on one row, while other locks are held: deadlocks are real and are broken by an abort.
7. Retention shortens the chain while it grows; an erasure restarts it.
8. Flags (`decommissioned_at`, `legal_hold_at`, roles, permissions) are read in one step and used in a later one.
9. `Promise.all` rejects at the first failure and leaves the rest running.
10. A key ring is read when a process starts, and rows are written under whichever key was active then.
11. Caches (catalog, readiness) and cursors outlive what they describe.
12. A language model may ask for anything, in any order, with any arguments.

`PROJECT.json` lists each hazard at its line, with the properties that cover it.

## 2. Plan

Most important first; every step is modelled, checked and, where named, proved.

| Step | Module | Composes | Abstract specification | Theorems |
|---|---|---|---|---|
| 1 | `MessagePipeline` | | `ReplyOnce` | types, delivery, at most one reply, suppression, `ReplyOnce`, claims, exclusive handling |
| 2 | `AuditChain`, `AuditVerifier` | `AuditVerifier` extends `AuditChain` | | chain, hold, retention, the verifier's alarm |
| 3 | `MessageRetention` | the rows and the worker of step 1, without what touches no row | | rows, erasure, hold, answered once |
| 4 | `RateLimits`, `Ingress` | `Ingress` extends `RateLimits` and adds retention, rotation, erasure | | the limits, acknowledgements, replay, erasure, a limiter that fails |
| 5 | `Shutdown` | requests, queue, workers, recovery, retention, notifier, pools | | what is over before keys and pools go |
| 6 | `AssistantTurn` | routers, assistant, tools, authorization, delivery | | disclosure, guarded answers, requests |
| 7 | `Whitelist`, `AdminPanel` | `AdminPanel` extends `Whitelist` | | the whitelist and its log, sessions, guesses |
| 8 | `QueryRules`, `Reports` | `Reports` extends `QueryRules` | | slots, readiness, discovery |
| 9 | `Maintenance` | migrators, backfill, processes, operator | | keys, upgrade, erased content |

Open: liveness, which TLC checks and no theorem states (section 15).

## 3. `MessagePipeline`

### State

| Variable | Code |
|---|---|
| `inbound[m]` | the inbound row: `status`, `processing_attempts`, and whether `updated_at` is more than two minutes old |
| `outbox[m]` | the outbound row whose `reply_to_message_id` is `m`: `status`, `delivery_attempts`, which accepted reply's id it holds |
| `queue[r]`, `task[w]`, `drain[r]` | `pendingQueue`, the worker slots and the message `drainPending` has in hand; lost in a crash |
| `fate[m]`, `seen[m]`, `partial[m]` | outside the program: what Meta accepted and what becomes of it, the statuses already delivered, interrupted multi-chunk sends |
| `crashes`, `throws` | bounds |

Messages are numbered in the order of `created_at`, which is the order of recovery.

### Actions

Every statement and every HTTP request is a step; `task[w].pc` names the `await` the worker is about to perform.

| Action | Code |
|---|---|
| `ReceiveWebhook` | `accept` past its gates, `saveInbound`, the status test, `queueWork`; a full queue or a lost answer leaves the row to recovery |
| `Pump` | `pump` |
| `DrainClaim`, `DrainQueue`, `DrainRelease`, `DrainAbandon` | one turn of `drainPending`'s loop |
| `ClaimInbound`, `ConsumeUserLimit`, `Deny`, `Route` | `execute` up to the reply |
| `ReserveOutbound`, `RetryOutbound` | `reserveOutbound`: INSERT and SELECT, then the retry UPDATE |
| `Send` | `sendText` with its outcomes |
| `MarkSent`, `MarkUnknown`, `MarkFailed`, `Finish`, `Audit`, `Fail` | the rest of `deliverReply`, `execute` and `markUnexpectedFailure` |
| `Throw`, `Continue` | a database call that rejects before or after its statement ran; `OnError` is the `catch` it leads to |
| `DeliveryStatus` | `recordStatus` and `updateOutboundStatus`; `dropped` when the ingress limit denies it |
| `GrowStale`, `Crash` | two minutes pass; a process dies and restarts |

### Properties

* `AtMostOneReply`: at most one copy of the reply reaches the user.
* `DeliveryInv`: types (neither retry counter passes its limit), and why. A worker that may still send holds the
  reservation alone (`OneSender`); a delivery may begin only when every earlier one has failed (`RetryIsSafe`); no status
  reopens a row whose last send is not the failed one (`NoStrayFailure`); the id a worker holds is that of a reply it has
  just got accepted (`AcceptedIsCurrent`); beside a copy that has arrived none may still arrive (`OneCopy`).
* `SuppressedForGood`: a `delivery_unknown` row never becomes one that is sent again.
* `DeliveriesWithinClaims`: the outbox never outruns the claims, so the two counters agree.
* `ImplementsReplyOnce`: while replies fit one message and statuses come once, the pipeline is an implementation of
  `ReplyOnce`: deliveries one at a time, bounded, none after a copy has arrived.
* `ExclusiveHandling`, `FirstDeliveryRecorded`: without slow workers and outages, one worker per message, and the
  first accepted send finds its reservation open.
* `EventuallyAtRest`: every stored message is settled in the end, or is in the one state recovery cannot see.

### What is abstracted

* The gates of `accept` (freshness, ingress and abuse limits, whitelist) decide only whether the action happens;
  `Ingress` has them. The per-user limit is a free choice, and so is the reply.
* `acknowledgeInbound`, the one-per-minute notices and the health counters touch no row of the model.
* `process` (accept and execute in one call) is used by tests only; its steps are those of `enqueue` and a worker.
* The repository without an outbox (`message-processor.ts:601`) is a test double.
* `drainPending`'s limit of 25 only ends a loop that the timer starts again.
* The room test and the write that gives a message back (`message-processor.ts:209-210`) are one step: in between only
  the queue's length can change, and the row is already claimed.
* When recovery sets `ignored` and the audit event then fails, the row goes to `failed` in one step.
* A crash while a request is in flight is a `Send` step followed by `Crash`, or `Crash` alone.

## 4. `AuditChain` and `AuditVerifier`

### State

`events`, `anchor`, `last`, `sequence` are `audit_events`, `audit_chain_anchors`, `audit_chain_state` and the sequence
object; `user`, `hold`, `decommissioned` are one user's row and the flags of `service_state`; `today` is the
database's clock. `tx[p]` is the transaction of process `p`: the statement it is about to run and what it has read.
A hash is the number of the transaction that made it, because an HMAC over a random id does not repeat.

Locks are not variables. PostgreSQL keeps a lock until the end of the transaction, so who holds what follows from the
statement a transaction has reached: `HoldsChain`, `HoldsUser`, `UsesUsers`, `SharesUser`, `HoldsAdvisory`,
`HoldsEventsTable`, `HoldsChainTable`; `Blockers` says whom a statement waits for. Writes appear at `Commit`, `Erase` or
`Purge`.

### Actions

| Action | Code |
|---|---|
| `Record`, `Whitelist`, `ChangeHold`, `EraseUser`, `EraseClient` | a client begins its transaction |
| `LockChain`, `ReserveSequence`, `InsertEvent`, `Commit` | `appendAuditEvent` and COMMIT, statement by statement |
| `LockUser` | `SELECT ... FOR UPDATE` of `upsertWhitelistedUser` and of the user erasure |
| `LockAdvisory` | the advisory lock and the reading of `service_state` behind it |
| `LockEventsTable`, `LockChainTable`, `Erase` | `LOCK TABLE`, table by table, and `eraseAssistantData` |
| `BeginPurge`, `FindBoundary`, `Purge` | `assistant_run_data_lifecycle` |
| `Abort`, `BreakDeadlock` | ROLLBACK for a reason of its own, or because PostgreSQL chose it as the victim |
| `Tick` | midnight |
| `ReadAnchor`, `ReadEvents`, `ReadState` (`AuditVerifier`) | the three queries of `verify-audit-log` |

### Properties

* `ChainIntact`: the verifier's loop over one snapshot succeeds (`Verifies` is that loop).
* `LogInv`: the inductive strengthening: `Roles`, `OneAdvisory`, `OneWriter`, `Numbered`, `PurgeSound`.
* `HoldFreezes`: under a hold no event and no user disappears.
* `RecentKept`: retention removes expired events only; an erasure removes all of them, with the anchor and the tail.
* `ExpiredGo`: an expired event goes, unless a hold is put in force.
* `AlarmMeansChange`: a verifier that condemns the chain has had the log changed under it.

### What is abstracted

* One user stands for all. Transactions about different users meet on the chain's row only. A user whitelisted
  again gets a new id, so the model's user, once erased, does not come back. Two administrators inserting one phone
  number at once are in `Whitelist`.
* The content of events, the canary, the advisory lock of the migrator, `lock_timeout` (an `Abort`) and messages,
  permissions, buckets and canaries in the erasures are not in this module; the messages are in `MessageRetention`.
* `setUserActive` runs the same append after an UPDATE that does not conflict with the foreign key's lock: to the
  chain it is a `Record`.
* Retention, hold and erasure also read `service_state` FOR UPDATE; the advisory lock already excludes them.

## 5. `MessageRetention`

### State

| Variable | Code |
|---|---|
| `rows`, `ids` | the committed rows of `messages`, inbound and outbound, and how many were ever inserted |
| `user`, `hold` | the user's row; `service_state.legal_hold_at` |
| `job` | the transaction of `assistant_run_data_lifecycle`: its `NOW()` and the rows it has minimized |
| `erasure` | the transaction of `erase-user-data`: the rows it has deleted |
| `work[w]` | what a worker is doing, as in `MessagePipeline`; lost in a crash |
| `today`, `overdue` | the database's clock in days; the messages recovery had not settled when their records were due |
| `sent`, `copies` | outside the program: the day of Meta's first delivery of a message, the replies that reached the user |
| `aborts` | bound |

A row keeps the day it was created, its direction, status, attempts, whether it has content (ciphertext or metadata),
whether it has an owner, the row it replies to, and what becomes of the accepted reply whose id it carries.

The job's and the erasure's writes appear when they commit. Until then `LockedIds` and `UserLocked` are the locks they
hold: an UPDATE of a locked row waits, a SELECT sees the old one, `claimNextInbound` skips it, and an INSERT that refers
to the locked user waits and fails once the user is gone.

### Actions

| Action | Code |
|---|---|
| `Receive` | `accept` and `saveInbound`: Meta delivers a message, or repeats it; a worker takes it or it is left to recovery |
| `Claim`, `Recover` | `claimInbound`; `claimNextInbound` with the look-up of the user |
| `Reserve` (`InsertReply`, `ReuseReply`) | `reserveOutbound` |
| `Send`, `MarkSent`, `MarkFailed`, `MarkUnknown`, `Finish`, `Fail`, `Ignore`, `Interrupted` | the rest of `execute`, `deliverReply`, `markUnexpectedFailure`, `drainPending` |
| `DeliveryStatus` | `updateOutboundStatus` |
| `BeginJob`, `Minimize`, `Purge`, `JobFails` | the statements of `assistant_run_data_lifecycle`; its handler |
| `BeginErasure`, `EraseMessages`, `EraseUser`, `ErasureFails` | `erase-user-data`, `eraseUserData` |
| `EraseClient`, `ChangeHold` | `erase-client-data` behind its table locks; `set-legal-hold` |
| `Tick`, `Crash` | midnight; the end of a process |

### Properties

* `RetentionInv`: types; ids are unique; every row has its owner; nothing is inserted behind an erasure that has deleted
  the messages; no deleting transaction runs under a hold.
* `ErasedForGood`: an erased user leaves no message behind. `messages.user_id` is ON DELETE SET NULL, so a row inserted
  between the two deletions would stay without an owner; the lock on the user's row prevents it.
* `AnsweredOnce`: purging a record makes neither a repeated webhook nor recovery answer a message again, provided
  recovery has settled the message before its record is due. Without the proviso it is false, see *Observations*.
* `HoldKeeps`: under a hold no message and no content goes.
* `ContentGoes`, `AnsweredRecordsGo`: expired content goes, in whatever state its message is; the record of a message
  that was answered or ignored goes. Failed replies may stay, see *Observations*.

### What is abstracted

* `erase-user-data` asks the operator to confirm that the service is stopped. The model lets it run against a live one,
  which includes the other case.
* Of the gates of `accept`, `Receive` has the freshness window and the look-up of the user; the limits deny it at most.
* Claims have no age: a row in `processing` may be taken over at any time. The minimizer's refresh of `updated_at`, which
  postpones a takeover by two minutes, is one of these cases.
* A worker is done within the day it began (`Tick`): its statements and requests have timeouts of seconds, the retention
  is in days. A crash may leave a row untouched for any number of days.
* A repeated webhook is accepted for at most as many days as records are kept (`PolicyAssumption`). Without a freshness
  window (`WEBHOOK_MESSAGE_MAX_AGE_SECONDS` is 0 by default) that is as long as Meta repeats it, about a week against
  ninety days. `env.ts` accepts a shorter record retention, which would make a repeated webhook new.
* A client erasure sets the decommission switch; `AuditChain` has it. Here it empties the tables. Audit events, buckets,
  permissions and the heartbeat row are left out.

## 6. `RateLimits` and `Ingress`

### State

`bucket[b]` is a row of `rate_limit_buckets` (window start, count, expiry), `now` the database's clock. `passed[b]` is
history: when the bucket let a call pass, and which of these opened its last two windows.

| Variable | Code |
|---|---|
| `post[p]` | a request: unsigned, signed, in its batches, answered 200, 401, 503 or 500 |
| `task[p, i]` | `accept` for one message of it: the `await` it is at, and its result |
| `row[m, k]` | the row of message `m` hashed under key `k` |
| `erased`, `listed` | `decommissioned_at` with empty tables; active users |
| `activeKey[p]` | the active identifier key of the replica that request goes to; `Ring(p)` are the keys it knows |
| `sent`, `inserted`, `audited` | outside the program and history: Meta's timestamp; rows ever made of a message; events written |
| `torn` | history: messages that replicas with different rings looked up at odds |
| `outages` | bound |

### Actions

| Action | Code |
|---|---|
| `Consume`, `PurgeBuckets`, `EraseBuckets`, `Elapse` | the upsert of `PostgresRateLimitStore.consume`; the job's and the erasure's DELETE; time |
| `Receive`, `CheckService`, `StartBatch`, `Answer` | the route: signature and `parseIncomingMessages`, `isDecommissioned`, batches of `Promise.all`, the answer |
| `ConsumeLimit` | the global, sender, abuse, lockout, lockout-report and security-event limits, by the step a task is at |
| `FindUser`, `RecordEvent`, `SelectExisting`, `Insert` | the rest of `accept` and `saveInbound` |
| `Settle`, `Lifecycle`, `Deactivate`, `Rotate`, `EraseClientData` | the pipeline, the job, the panel, the operator |

### Properties

* `BurstBound`: a bucket's windows begin at its calls, so across a boundary more than one capacity passes; `2 * Capacity`
  calls that passed never fit one window's length.
* `IngressInv`: types, and
  `NoReplay` (a message becomes a row once, also when it is posted again by two requests at once, to a replica with the
  new key after one with the old, the other way round, or after its row was deleted: the freshness window must not
  outlast the record). Excused is only a message that is `torn`: the replica that did not find it had it in a row under
  a key it did not know yet, or while a replica with another active key was about to insert it,
  `AckedKept` (a request answered 200 leaves no message behind that nobody decided on).
* `FailsClosed` (run `ingress_outage`): until an erasure empties the buckets, of each sender at most as many messages are
  stored as that sender's limit let calls pass, and at most as many events are written as the limits of the reports did,
  also when the limiter cannot be asked.
* `NothingAfterErasure`: a request that passed the decommission test before the erasure stores nothing after it. The
  row's reference to its user, who is gone, refuses it.

### What is abstracted

* Four messages at a time become `Batch`; 100 events become `MaxEvents`. The signature is a free choice.
* `Tick` waits until no message is between its gates, so a message is handled within one tick.
* `Rotate(p)` brings up the replica of request `p` with the new active key before the request arrives, whatever other
  requests are under way on replicas that still have the old one. `FirstRing` are the keys those know: the old one alone
  where the runbook's first two steps are one deployment (run `ingress`), both where the new one was deployed before it
  was made active (run `ingress_outage`).
* Freshness is on in the instance. By default it is off, and then a message posted again after its record's retention is
  new to the service.

## 7. `Shutdown`

`stage` names what the shutdown waits for: `up`, `closing` (Fastify finishes the requests under way), `notifier`
(`drain`), `recovery`, `idle` (`waitForIdle`), `retention`, then `wiped` (keys are zeros), `ended` (pools refuse new
clients), `down`. `job[j]` is where a message is: in a request, on its own after its request failed (`orphan`), waiting
in the database, queued, on a worker, in a transaction. `pump`, `timers`, `recovery`, `retention`, `notices`, `awaited`
are the processor's and `buildApp`'s own variables; `timedOut`, `orphaned`, `wrote` are history.

| Action | Code |
|---|---|
| `Arrive`, `Abandon`, `Accept` | a request's message; `Promise.all` rejecting beside it; `saveInbound` and `queueWork` |
| `Pump`, `Begin`, `Write` | `pump` and `settled`; a worker's transactions, with a notification or none |
| `Delivered` | the end of a notification, by its answer or its timeout |
| `StartRecovery`, `Recover`, `StartRetention`, `EndRetention` | the intervals and their promises |
| `Signal`, `CloseServer`, `StopRecovery`, `AwaitRecovery`, `WaitForIdle`, `GiveUp`, `Wipe`, `EndPools`, `PoolsDown` | `shutdown`, the shutdown tasks in their order, `onClose`, the ends of the pools |

* `ShutdownInv`: types with the bounds of queue and workers; `CleanShutdown` (nothing is written under zeroed keys unless
  the wait for idle gave up or a failed request left a message behind); `Quiesced` (recovery and retention are over
  before the keys go); `QuietAfterIdle` (why: after the wait nothing is queued, running or about to be pumped).
* `ShutdownEnds`: a shutdown ends, whatever a worker waits for.
* `QueueServed`: a queued job does not stay while every worker is free.

Assumed of Fastify: `close` finishes the requests under way and accepts no more.

## 8. `AssistantTurn`

One message of one user. `row` is the user as the database has it, `user` as the queued message carries it; an
administrator changes `row` at any step. The model's turn is any sequence of function calls with new, repeated or
missing ids and good, invalid or unparsable arguments, or an answer, or a failure.

| Action | Code |
|---|---|
| `BotCommand` | `BotCommandRouter.handle` |
| `Handle`, `Open`, `Ask`, `NextCall`, `Final`, `Close` | `CompanyLlmAssistant.handle`: classification, the session and its tools, the loop, each call's checks and counters, the answer, `finally` |
| `ReadActor`, `Require`, `Operate`, `Query`, `RecordSuccess`, `RecordFailure` | `runTool` and the operations, one `await` each |
| `Report`, `RunReport`, `ReportFails` | `ReportCommandRouter`, alone or after `FallbackAssistantResponder` caught an error |
| `Deliver` | `execute`: the request's event, then the reply |
| `Administer` | a change of role, department, activity or one permission |

* `Disclosure`: what the model or the user is shown needs permissions, a role and a department the user had in this
  turn, and its event is in the log first. The report router is held to the role and department of the queued message
  only: it does not read the user again.
* `Guarded`: a company answer in the model's words has data from a tool, and no call of the turn was denied or failed.
* `RequestInv`: types; `WellFormedRequest`: whatever mixture of good, unknown, refused and failed calls came before,
  in the next request all calls of a turn, and nothing else, are answered by the very next message, in Anthropic's and
  in Gemini's form, each answer names a call that was made, and no call is answered twice.
* `TurnEnds`: the turn ends with its session closed.

Abstracted: texts are classes of text (what the patterns make of them); each relation is its own resource; whether an
answer repeats the data and looks like an instruction is a free choice; conversation history is one earlier item.

## 9. `Whitelist` and `AdminPanel`

`rows` are committed users with their permissions, `said` what the last audit events say of each, `tx[c]` a connection's
transaction with its locks and its own rows. `Lookup`, `Update`, `Insert`, `Audit`, `Commit` are
`upsertWhitelistedUser` statement by statement; `SetActive` the activation; a batch is several upserts in one
transaction. An INSERT waits for another one of the same phone and fails when that one commits, as the unique index on
`phone_lookup_hash` has it.

`AdminPanel` puts the process in front of it: `sessions` (the Map, token to expiry), `buckets` (failed logins), requests
(`Login`, `Refuse`, `Visit`, `Logout`, `Submit`, `Expired`), `Restart`, and scripts that do not pass through it.

* `WhitelistInv`: `OneUserPerPhone`; `Audited` (the log's last word on a user is what the whitelist holds, in whatever
  order updates commit); `ExploreNeedsRole` (a grant to explore does not outlive the role it needs).
* `PanelInv`: `SessionsExact` (a session admits until its time, a logout or a restart, and only as many younger logins as
  there are places end it before); `GuessBound` (between two successes an address is told at most
  `2 * (MaxFailures - 1)` times in a window's length that a password is wrong).

Requests refused before credentials are looked at (plain HTTP, cross-site forms, a wrong form token) change nothing.

## 10. `QueryRules` and `Reports`

`QueryRules` has what both providers accept (`SqlAccepts`, `MongoAccepts`), what their filters keep, what they count, and
which prefix of the rows an answer has. Texts to compare with are classes. Before the run, TLC evaluates in `MCReports`
over every filter, aggregate and grouping of two columns: `SameQueries` (both accept the same queries, but that MongoDB
also refuses a value that is not of the field's type), `SameRows` (filters keep the same rows, but that `$ne` keeps
nulls), `SameCounts` (counts agree on columns without nulls), `TruncationTold` (an answer that does not say it is
truncated is whole).

`Reports` has callers that run a discovery session, a query or a readiness request, one step for each `await`, over two
sources. Views, sources and grants change between any two steps. `catalog` is the cached catalog with its single load,
`active` and `queue` the two semaphores, `entry` the readiness cache.

* `DiscoveryBounded`: a session lists no relation twice, and something on each page that leaves a cursor, so it has no
  more calls than relations, whatever changes; it ends within the calls the manifest was admitted for, whatever is revoked
  or breaks on the way, unless something is granted or repaired or it meets a relation larger than its estimate; when its
  pages all saw the same relations, each of which fits a page, it lists exactly those and is never refused.
* `SlotsInv`: types; `SlotsExact`: a slot belongs to one running query, none is lost when a waiter times out or a query is
  refused, nobody waits while a slot is free, and what runs reads approved columns, bounded where the policy asks for it.
* `HealthFresh`: an answer about readiness is no older than the two caches together allow.

Abstracted: `SELECT ... WHERE FALSE` of all views is one step; the entry of a relation has a size in units of the page
(`MAX_SCHEMA_RESULT_BYTES`). It is no larger than the estimate by which `assertReportingManifestDiscoveryBudget` admits
it, unless the policy of a PostgreSQL view states the types of its fields (`Stated`): the estimate goes by those, the page
prints the catalog's. Such an entry has any size; one that fits no page makes every discovery that reaches it fail
(`TooLarge`). The envelope around the entries is left out of a page's size.

## 11. `Maintenance`

`stored[r]` is the key of a row's envelopes (or plaintext, none, erased), `lookup[u]` that of the phone's lookup hash,
`canary`, `anchor`, `unsigned` those of the canary, the audit anchor and the unsigned events. `ring` is the secret
manager's present revision; a process keeps the one it started with. `applied`, `edited`, `lock`, `migrator` are
`schema_migrations`, changed files, the advisory lock and the operators' runs; `backfill` is the run of
`encrypt-existing-data` with its locked batch.

| Action | Code |
|---|---|
| `StartMigrate`, `TakeLock`, `Look`, `Apply`, `Edit`, `KillMigrate` | `migrate.ts`, with the checks of 006 in `Protected` |
| `Start`, `WriteCanary`, `CheckCanary`, `Shut` | `assertRuntimeReady`, `ensureSecurityCanary`, the panel's check before each transaction |
| `UpsertUser`, `SaveMessage`, `EraseContent`, `PurgeAudit` | everybody who writes meanwhile |
| `BeginBackfill`, `BackfillCanary`, `SelectUsers`, `UpdateUsers`, `SelectMessages`, `UpdateMessages`, `SignAudit`, `RotateAnchor`, `KillBackfill` | the backfill, batch by batch |
| `AddKey`, `Activate`, `Retire` | the key rotation of `README.md` |

* `KeysInv`: types; `NothingLost`: no row, lookup hash or canary is under a key that a running process, or the next to
  start, does not have.
* `Finalized`: once 006 is recorded nothing is plaintext or unsigned, and the service runs on such a database only.
* `ErasedForGood`: the backfill does not bring back content that retention erased after it read it.

Abstracted and assumed: the three rings rotate alike and are one; `Activate` waits until every process has been given the
key; `Retire` follows a backfill that no writer with another active key disturbed, and waits until message ids and audit
records under the key have expired (`encrypt-existing-data` does not rewrite message ids); processes start when the
upgrade is over, as `README.md` has it.

## 12. Runs

`Chunks = 1` says that a reply fits one WhatsApp message; `RepeatedStatuses = FALSE` that Meta delivers a status once.

| Run | Instance | Result |
|---|---|---|
| `pipeline_safety` | 1 message, 2 replicas with one worker each, 3 attempts, queue of 1, 1 crash, 1 outage, slow workers, statuses `sent`, `delivered`, `failed` | passes, 729 thousand states |
| `pipeline_recovery` | 2 messages, 2 replicas, 2 attempts, queue of 1, 1 crash, no outage, no slow worker; with fairness | passes, 350 thousand states |
| `pipeline_stranded` | 1 message, crash during the last attempt; with fairness | `EventuallySettled` fails: finding |
| `audit` | a worker, the panel, three operators, two replicas running the job, the verifier; 2 transactions, 1 abort, days 0 to 2, retention of 1 day; with fairness | passes, 144 thousand states |
| `retention` | 1 message, 2 workers, 2 attempts, content for 1 day, records and redelivery for 2, days 0 to 3, 4 rows, 1 abort; with fairness | passes, 347 thousand states |
| `ingress` | 2 posts, 2 messages of 1 sender, batches of 2 of up to 3 events, capacities 1 to 3, 2 keys of which replicas before the rotation know one, ticks 0 to 2 | passes, 1.4 million states |
| `ingress_outage` | 1 post of 2 messages, each of its own sender, 2 limiter outages, both keys known to all, the rest as above | passes, 80 thousand states |
| `shutdown` | 3 jobs, 1 worker, at most 2 in memory; with fairness | passes, 52 thousand states |
| `assistant` | 9 deployments and requests, 7 forms of a call, 2 calls at a time and in all, 1 change of the user; with fairness | passes, 779 thousand states |
| `reports` | 3 callers, 3 operations (1 discovery and 2 readiness requests at a time), 3 PostgreSQL views and a MongoDB collection, estimated at 2 pages (one view takes more than its estimate, one fits no page), two of them granted at first, 1 slot and 1 waiting place, 1 change, ticks 0 to 2 | passes, 823 thousand states |
| `admin` | the panel and a script, 2 phones, 3 jobs, 2 sessions, 2 failures, instants 1 to 3, 1 restart | passes, 1.2 million states |
| `maintenance` | 1 replica, 1 panel, 1 migrator, 2 users, 1 message, 2 keys, batches of 1, 1 write, 1 kill, 1 edited file | passes, 1.7 million states |

Why the bounds are enough to be of use. A second copy needs one message, two workers that have both claimed it, and a
retry: three attempts allow a first delivery, a failed or unknown second one and a third. One crash and one outage
suffice to end a worker at every statement or make any statement's answer disappear. Two messages over a queue of one
fill the queue and make recovery choose. Two appends are a fork; three days let an event expire while another is recent,
and let the day change inside a purge. Four rows are a message with its reply, purged and stored once more; four days
are content that expires before its record, and a repeated webhook after the record is due. Two posts of the same
message race each other on replicas with equal and with different keys, and follow each other over a rotation, a purge
and an erasure; three ticks are a window, its end and the next. Three jobs fill one worker and its queue and leave one
outside. Two calls are one that succeeds and one that is refused or repeats an id; one change of the user takes a
permission, the role or the department between any two steps. Two clients with batches of two phones lock in either
order; three failures cross a window. A view larger than its estimate, granted in time, makes a third page of two. Three
callers are a slot's holder, its waiter and one who is turned away. Two users in batches of one let a writer come behind
the batch that has passed. What needs more of anything is, for safety, covered by the theorems.

Deadlock checking is off in every run: a model that has used up its bounds, or whose work is all done, stops.

### Fairness

* `MessagePipeline`: workers and `pump` (the event loop runs), `DrainClaim` and the continuation of `drainPending`
  (`setInterval` every ten seconds, `src/app.ts:342-368`), `GrowStale` (clocks advance). Nothing is assumed of Meta, users,
  crashes or webhooks. `Send` is part of a worker's step: `fetch` has a ten-second timeout, so it ends.
* `AuditChain`: a transaction that has begun runs its next statement or is aborted by the deadlock detector; the job's
  timer fires (`src/app.ts:459-463`). Nobody is obliged to begin anything else.
* `MessageRetention`: the job's timer, the statements of the job and of an erasure that has begun, the steps of workers
  and the recovery timer. Nothing is assumed of Meta, operators or the clock: time may stop, and then only what has
  already expired has to go.
* `Shutdown`: callbacks that are due run; requests, deliveries, statements and the wait for idle have timeouts. Nothing
  is assumed of what a worker does between two transactions (`Begin` has no fairness): the model it asks may keep it
  waiting, and the shutdown ends all the same. Nobody is obliged to send a signal.
* `AssistantTurn`: every call of the turn answers, fails or times out (the gateways' `AbortSignal`, the pools'
  `statement_timeout`). Nothing is assumed of what the model answers.
* `RateLimits`, `Ingress`, `AdminPanel`, `Reports`, `Maintenance` state safety only.

## 13. Findings

A crash during the third attempt strands a message in `processing`: `claimNextInbound` looks for rows with fewer than
three attempts (`message.repository.ts:184`; run `pipeline_stranded`, property `EventuallySettled`).

## 14. Observations

Behaviour of the code that was met while modelling, and that the properties above therefore exclude by an assumption or
a proviso. No run stands for these.

*Pipeline, audit and retention*
* A rejected later chunk of a split reply makes the retry repeat the opening ones (`client.ts:178`,
  `message-processor.ts:633`). Hence `Chunks = 1`.
* A repeated `failed` status of an earlier attempt reopens a `delivery_unknown` row: the retry keeps the earlier id
  (`message.repository.ts:326-329, 378`). Hence `RepeatedStatuses = FALSE`.
* The verifier's three queries are three snapshots, so an intact log may be reported as broken while it is written to
  (`verify-audit-log.ts:91`). `AlarmMeansChange` says no more than it can.
* A hold may be written after a client's erasure: `decommissioned_at` is read before the lock and not again
  (`set-legal-hold.ts:61, 92`).
* A failed reply with fewer than three delivery attempts, of a message that is settled, is never deleted
  (`migrations/005_security_operations.sql:226`).
* A `delivery_unknown` reply is deleted by its own age although its message is still open; after an outage longer than
  the record retention the message is answered again (`migrations/005_security_operations.sql:224`). Hence the proviso
  of `AnsweredOnce`.

*Ingress*
* Events of a payload beyond the first hundred are answered 200 and dropped (`webhook-parser.ts`).
* A message that throws rejects its batch at once; the others of the batch go on without a request (`routes.ts:129`).
* The longest freshness window, a day, equals the shortest record retention; the replay check is off by default
  (`env.ts:134, 143`).
* The client's erasure empties the limits as well.
* While replicas have different active keys a message may be stored and answered twice: the look-up asks for the hashes
  of all keys of a ring, the unique index knows the active key's only (`message.repository.ts:107, 130`). Two replicas
  look it up at once, or a replica that is not yet deployed does not know the new key, which the runbook adds to the ring
  and makes active in one deployment (`README.md:176-177`). Hence `torn` in `NoReplay`.

*Shutdown*
* The notifier is drained before the workers that notify are idle (`app.ts:220`), so what they send afterwards is lost,
  although `event-notifier.ts:83` says that outstanding deliveries are awaited.
* After a wait that gave up, or a failed batch, a message may be hashed and encrypted under zeroed keys (`app.ts:372`).

*Assistant and reports*
* The report router uses the role and the department a message was queued with; the tools read the user again.
* A company request with no tool to offer is sent to the provider without tools and may end in the fallback.
* A relation granted or repaired in the middle of a discovery can cost the session one call more than the manifest was
  admitted for: it shifts where the later pages end (`federated-query.repository.ts:80`, `schema-policy.ts:333`). Hence
  the proviso of `DiscoveryBounded`.
* The start estimates a column by the policy's `fieldTypes` where it has them (`schema-policy.ts:285`), also for
  PostgreSQL, whose pages print the catalog's type (`schema-query.repository.ts:482`), such as `timestamp without time
  zone` for a stated `date`. So a manifest may be admitted that needs more calls than the three of a message, although
  `tests/schema-policy.test.ts:153` "rejects manifests that cannot be discovered within one message", or that has an
  entry no page can hold. Hence the provisos on sizes in `DiscoveryBounded`.
* A query runs on the grants read before its wait in the queue; the SQL provider validates inside its slot, the MongoDB
  provider before it.
* `COUNT(column)` leaves nulls out, `$sum: 1` does not; `<>` drops nulls, `$ne` keeps them; a value of the wrong type is
  refused by MongoDB's provider and fails at PostgreSQL.

*Panel and maintenance*
* A right password admits from a blocked address too; buckets of failed logins are never pruned; an upsert makes a
  deactivated user active.
* 006 checks before it takes its table locks; a user added by the panel before the backfill, with a phone that is still
  plaintext in another row, would collide with it at the unique index.

## 15. Proofs

### `MessagePipelineProofs`

Assumptions: those of the module on its constants. Any number of replicas, workers, messages, crashes and outages. Three
theorems are false when a reply is split or Meta repeats a status (*Observations*), and three hold as long as a worker
outlives no claim; their statements say so: `OnceEnvironment` is `Chunks = 1` and no repeated status, `CalmEnvironment`
no slow worker and no outage.

* `DeliverySafety` (under `OnceEnvironment`): `[]DeliveryInv`, which is inductive. `AtMostOneReply` alone is not: a state
  in which two workers hold one reservation, or in which a row may be reopened over a reply that is still on its way,
  has one copy today and two tomorrow. `OneSender`, `RetryIsSafe` and `NoStrayFailure` exclude exactly these. The proof
  has one lemma for the steps that leave sends and fates alone (`QuietStep`) and one for each step that does not:
  `ReserveStep`, `SendStep`, `RecordStep`, `StatusStep`.
* `ReplySafety` (under `OnceEnvironment`): `[]AtMostOneReply`, from `OneCopy` and a count.
* `SuppressionSafety` (under `OnceEnvironment`): `SuppressedForGood`. The worker's own writes match a row in `sending`
  only; a failed status would need an accepted id whose failure is still to come, and `NoStrayFailure` says that such an
  id is never in a `delivery_unknown` row.
* `ReplyRefinement` (under `OnceEnvironment`): `ImplementsReplyOnce`. `ReserveOutbound` and `RetryOutbound` are the abstract
  beginning of a delivery, `Send` its arrival or its end, a crash ends what its workers had open, and every other
  step stutters. `DeliveryInv` gives the abstract guards.
* `ClaimsSafety` (no environment): `[]DeliveriesWithinClaims`. Its invariant `AllPaid` counts who may still turn a claim into
  a delivery: workers before their reservation (`Carriers`), recovery loops (`Drainers`), claimed jobs in a queue
  (`Waiting`). Deliveries made and deliveries to come never exceed the claims.
* `ExclusiveSafety` (under `CalmEnvironment`): `[]ExclusiveHandling`. `AllSole`: workers, loops and queued claimed jobs of one
  message are one at most, and while there is one the row says that it is claimed.
* `FirstDeliverySafety` (under `CalmEnvironment`): `[]FirstDeliveryRecorded`, with `AllFirstOpen` on top of `AllSole`.

### `AuditChainProofs`

Assumptions: the kinds of processes are disjoint and the limits are natural numbers. Any number of clients, operators,
jobs, days and transactions.

* `LogSafety`: `[]LogInv`. The chain alone is not inductive: an append keeps it only if the writer's `prev` is still the
  tail (`OneWriter`), a purge only if its boundary is still a committed event (`PurgeSound`), which an erasure would
  break without the advisory lock (`OneAdvisory`). Steps that change nothing but one transaction are *orderly*: they
  take a lock only when nobody has it. One lemma (`OrderlyStep`) covers all of them; `ReserveSequenceStep`, `CommitStep`,
  `EraseStep`, `PurgeStep` and `TickStep` do the others, `CommitChain` and `PurgeChain` the links.
* `ChainSafety`, `HoldSafety`, `RetentionSafety`: `[]ChainIntact`, `HoldFreezes` and `RecentKept` follow.
* `AlarmSafety`: `[]AlarmMeansChange` of `AuditVerifier`. The verifier's steps leave the log alone, so `LogInv` holds of it
  too; `Watching` adds that what a run has read so far is what the log holds, unless the log was changed since.

### `MessageRetentionProofs`

Assumptions: those of the module on its constants. Any number of messages, workers, attempts, rows, days and aborts.

* `TableSafety`: `[]RetentionInv`. `ErasedForGood` alone is not inductive: a state in which an erasure has deleted the
  messages and a new one has been stored meanwhile has its user still. `Doomed` excludes it, and is kept because an
  insert needs the lock the erasure holds; `Owned` says that the erasure, which looks for the user's id, finds every
  row; `Frozen` that no deletion is under way when a hold begins. Steps of the application either change rows in place
  (`InPlaceStep`) or insert one (`InsertStep`); those of the job and the operators have a lemma each.
* `ErasureSafety`, `RetentionHoldSafety`: `[]ErasedForGood` and `HoldKeeps` follow.
* `OnceSafety`: `[]AnsweredOnce`, with `AnswerInv` on top of `RetentionInv`. For a message that is not overdue, `Once` says
  that one worker at a time carries an answer, that the reservation is open as long as it does, and that a message
  without a reservation, or with one that may be retried, has no answer yet. A purge could break this by taking the
  reply and leaving the message: `Single` and the dates in `Dated` say that a reply is never older than the message it
  refers to, so they do not part in this order. A repeated webhook could break it by storing the message again: `Known`
  says that its row is there as long as Meta may repeat it (`PolicyAssumption`). A worker could, by going on after its
  row was deleted: `SettledInTime` says that nobody works on a record that is due, which is what the proviso `overdue`
  is for; `AboutOf` that ids a worker holds are of its own message, or of none.

### `IngressProofs`

Assumptions: `IngressAssumption` (payloads are sequences of events; the limits have their buckets) and that of
`RateLimits` (capacities and the window's length are positive). Any number of buckets, posts, messages, senders, keys,
outages, any batch size, any limit of events, any length of time.

* `LimitSafety`: `[]LimitInv`. `BurstBound` alone is not inductive: it does not say where in its window a bucket is.
  `InOrder` keeps the calls in the order of time; `WindowsFit` says that each of the last two windows let at most its
  capacity pass and that they began at least a window apart; `BucketCounts` ties the row to its window, also after the
  lifecycle job has deleted the row, which it may only because the row has been out of use for longer than a window. The
  proof takes one bucket at a time (`EachFits`, `AllFit`) and has a lemma for a call that opens a window
  (`PassesFirst`), one that passes in it (`PassesNext`), one that is refused (`TurnedAway`) and for time (`Ages`).
* `BurstSafety`: `[]BurstBound` follows.
* `IngressBurstSafety`: `[]BurstBound` of the webhook. Its steps use the limits as `RateLimits` has them or leave them
  alone (lemma `LimitRefinement`), so this adds nothing to `BurstSafety` but that the module uses them so.
* `ErasureSafety`: `[]NothingAfterErasure`. `AckSafety`: types and `AckedKept`. Both follow from `Base`, which also holds with the
  freshness test off: a request has begun a prefix of its messages (`Requests`); a task's result fits its step
  (`Results`); one that ends as queued or duplicate leaves a message that was stored (`Stored`); one answered 200 is
  through with all of its messages (`Through`); a row was inserted after its message was sent (`Rows`). The parser keeps
  well-formed events up to a limit: that its n-th element exists is the lemma `HasNth`, an intermediate value argument
  (`Meets`) by a least counterexample.
* `IngressSafety` (under `FreshEnvironment`: the window is on and no longer than the record's retention, as `env.ts` has it
  once it is on): `[]IngressInv`. `NoReplay` needs that a message past the test is still inside the window (`InTime`:
  time does not pass over a task), that one about to be inserted has no row under any key, and no other replica about to
  insert it under another, unless it is torn (`Alone`: what makes the look-up of one replica hold for the insert of
  another is `NotAtOdds`), and that a stored message has its row until the window is over (`Remembered`).
* `FailsClosedSafety`: `[]FailsClosed`. The counts alone are not inductive: they do not say who is on the way from a
  limit to the table. `AllPaid` counts, for each sender, the calls that passed against the tasks that have passed the
  sender's limit and not been turned away since, stored or not, and for the reports those written against those about to
  be. `Brought` ties a stored message to the task that queued it, so there are no more stored messages of a sender than
  such tasks.

### `MaintenanceProofs`

Assumptions: `RowAssumption`, `SizeAssumption` (rows and processes have disjoint names; at least one key, batches of at least one). Any
number of replicas, panels, migrators, users, messages, keys, writes, kills and edits.

* `KeySafety`, `UpgradeSafety`, `BackfillErasureSafety`: `[]KeysInv`, `[]Finalized` and `ErasedForGood` from one
  invariant. `NothingLost` alone is not inductive: a retirement could take the key of a row the backfill has passed.
  `Progress` says that, as long as no writer with another key has been about, the tables a backfill is past are under
  the active key; `Moved` that after one such run nothing but the anchor is under an older one; `Shared` that whatever
  key somebody writes with, everybody has. `Reached` ties a migrator's place to the files applied, and `BatchSound` says
  that the rows of a locked batch were there, with content, when they were read.

### `AssistantTurnProofs`

Assumptions: `AssistantAssumption` (deployments, rows, requests and calls have their types; limits are numbers). Any set
of departments, relations and reports, any limit of calls, of calls at a time and of changes of the user.

* `DisclosureSafety`, `GuardedSafety`, `TypeSafety`: `[]Disclosure`, `[]Guarded` and `[]TypeOK` from one invariant.
  `Disclosure` alone is not inductive: it speaks of data that were shown, and a tool has them before. `Present` says that
  what the user holds now is part of what was held in the turn, so a check against the present row counts; `InHand` that
  the call at work acts for a user of the turn with a permission of the turn, and what it read was allowed; `Shown` that what has
  been shown has its event, or belongs to a reply whose event is next. For `Guarded`, `Blameless` says that a failure in
  the log is one the counters know of, and `Counted` that a call at work is not yet counted in any of them.
* `RequestSafety`: `[]RequestInv`. `Transcript` describes the conversation while the calls of a turn are made: every turn
  but the last is answered in full (`AllTurns`), of the last the answers made and the calls still to make are together
  its calls in order (`Unfinished`), and each answer has a number no other has (`Known`).

### `AdminPanelProofs`

Assumptions: `WhitelistAssumption` and `PanelAssumption`: finitely many clients, batches of upserts, positive limits, and an
address is blocked no shorter than its failures are counted (15 minutes against 10, `app.ts:205-207`). Any number of
clients, phones, addresses, sessions, failures, restarts, batches of any length.

* `WhitelistSafety`: `[]WhitelistInv`. The committed rows alone say nothing of what a transaction is about to commit.
  `Own` is what a transaction knows of itself: what it changed is locked (`Locked`), it inserts only phones that are not
  there (`SamePhones`), what it looked up is what it writes (`Aimed`), and its last record of a row says what it
  wrote (`Logged`, `Truthful`). `Apart` is what keeps two of them from each other: disjoint locks, and no phone that both
  insert.
* `PanelSafety`: `[]PanelInv`. `Kept` says that the map holds what was issued and neither ended, expired nor displaced.
  `Counts` ties the guesses told to the bucket: those the bucket counts lie in its window, those before it at the latest
  when the window began, and those of the window before that a window's length earlier. Hence `2 * (MaxFailures - 1)`.

### `ProcessProofs`

Assumptions: those of `Shutdown` and `Reports` on their constants. Any set of messages and callers, any number of workers,
any queue, capacity, time to live, manifest, size of an entry and of a page; entries may exceed their estimate where the
policy states the types of a PostgreSQL view.

* `ShutdownSafety`: `[]ShutdownInv`, with `Gone` on top of it: at each stage, what could start work again (the requests,
  a recovery and the two intervals) has been waited for or cleared before.
* `SlotsSafety`, `FreshnessSafety`: `[]SlotsInv` and `HealthFresh`. `Slots` says that the slots taken are as many as callers
  hold one, and that the queue has each waiter once; `Calls` that whoever has a slot has been admitted, which is what a
  query refused inside its slot rests on. `Health` follows an answer back to what was read: of a probe under way
  (`ProbeAt`), of those who joined it (`JoinAt`), of the entry kept (`EntryAt`) and of a catalog that is not complete
  (`CatalogAt`).
* `DiscoverySafety`: `[]DiscoveryBounded`. Each session has an invariant of its own, `Walks`, for the estimate by which the
  manifest was admitted: `Sound` are its types, `Once` says that what it listed lies before its cursor and is one
  relation a call at least, `InTime` that, while what it sees only shrinks and is within its estimates (`Priced`), what it
  still has to list is part of what the estimate has left after as many pages, and `Exactly` that of a list that stays
  the same and fits (`Fits`) it has missed nothing. The page of a part of what is left reaches at least as far as the
  estimate's own (`PageEnds`, `LeavesLess`), because none of its entries is larger than its estimate (`BytesMonotone`) and
  a page is a prefix in the order of names (`PageIs`).

Proving these properties corrected the models three times. `DiscoveryBounded` used to promise the calls without its
proviso, which held on the instance explored and fails on a larger manifest (*Observations*). And `Mark` of `AssistantTurn`
and `Say` of `Whitelist` were each a `CASE` with overlapping arms, of which TLC takes the first and a proof may not.

### Model-checked only

* Liveness: `EventuallyAtRest` and the finding `EventuallySettled`, `ExpiredGo`, `ContentGoes`, `AnsweredRecordsGo`,
  `ShutdownEnds`, `QueueServed`, `TurnEnds`. The prover has no rule for fairness and ENABLED here.
* The rules of `QueryRules` (which queries the two providers accept, which rows they keep, what they count), by evaluation
  over every query of two columns. The theorems about `Reports` use them as they are defined.

## 16. Not modelled

Configuration (`src/config/*`), logging, redaction, the static pages, phone formats, diagnostic and demo scripts:
stateless conversions done once, which no later step sees change. The providers' HTTP exchanges, their time-outs in the
SDKs and `toolChoice`; the fixed SQL of `company-report.repository.ts`; conversation history, read receipts and typing
indicators; connection pools and TLS. Cryptography is ideal: hashes do not collide and nobody forges one. PostgreSQL is
taken at its documentation for READ COMMITTED, locks, foreign keys and unique indexes.
