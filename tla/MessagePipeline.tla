--------------------------- MODULE MessagePipeline ---------------------------
(***************************************************************************)
(* One inbound WhatsApp message from its persisted row to the reply, as    *)
(* MessageProcessor (src/messages/message-processor.ts) drives it over     *)
(* MessageRepository (src/messages/message.repository.ts):                 *)
(*                                                                         *)
(*   webhook -> inbound row -> in-memory queue -> worker -> outbox row     *)
(*           -> WhatsApp Cloud API -> delivery-status webhooks             *)
(*                                                                         *)
(* The rows survive a crash; the queue, the workers and the recovery loop  *)
(* of a replica do not.  A step of the model is the code between two       *)
(* awaits: every SQL statement and every HTTP request is a step of its     *)
(* own, so the workers of all replicas, the recovery loops, the webhooks   *)
(* and the clock interleave between them as the event loops and PostgreSQL *)
(* let them.                                                               *)
(***************************************************************************)
EXTENDS Integers, Sequences, FiniteSets

CONSTANTS
  Replicas,         \* server processes over one database
  Workers,          \* worker slots of all replicas
  Host,             \* Host[w]: the replica worker slot w belongs to
  MaxMessages,      \* bound: inbound messages that may arrive
  AttemptLimit,     \* the 3 of processing_attempts < 3 and delivery_attempts < 3
  MaxBuffered,      \* maxBufferedJobs of one replica
  Chunks,           \* messages one reply is split into by splitWhatsAppText
  MaxCrashes,       \* bound: process crashes
  MaxThrows,        \* bound: database outages, each rejecting one call
  SlowWorkers,      \* may a claim outlive the two minutes while it is handled?
  RepeatedStatuses, \* may Meta deliver one delivery status more than once?
  StatusKinds       \* the delivery statuses Meta sends

ASSUME ReplicaAssumption == Host \in [Workers -> Replicas]

ASSUME BoundAssumption ==
  /\ MaxMessages \in Nat
  /\ AttemptLimit \in Nat \ {0}
  /\ MaxBuffered \in Nat
  /\ Chunks \in Nat \ {0}
  /\ MaxCrashes \in Nat
  /\ MaxThrows \in Nat

ASSUME SwitchAssumption ==
  /\ SlowWorkers \in BOOLEAN
  /\ RepeatedStatuses \in BOOLEAN
  /\ StatusKinds \subseteq {"sent", "delivered", "read", "failed"}

VARIABLES
  inbound,   \* inbound[m]: the row saveInbound stores
  outbox,    \* outbox[m]: the row whose reply_to_message_id is m's id
  queue,     \* queue[r]: pendingQueue of replica r
  task,      \* task[w]: what worker slot w is executing
  drain,     \* drain[r]: the message drainPending of r has claimed, 0 if none
  fate,      \* fate[m][n]: what becomes of the n-th reply to m Meta accepted
  seen,      \* seen[m]: the delivery statuses <<n, s>> Meta has delivered
  partial,   \* partial[m]: sends that left an opening chunk and no whole reply
  crashes,   \* crashes so far
  throws     \* database outages so far

rows == <<inbound, outbox>>
memory == <<queue, task, drain>>
world == <<fate, seen, partial>>
vars == <<inbound, outbox, queue, task, drain, fate, seen, partial, crashes, throws>>

\* Messages are numbered in the order of their rows' created_at.
Messages == 1..MaxMessages

Job == [msg : Messages, claimed : BOOLEAN]

InboundStatus == {"none", "received", "processing", "processed", "ignored", "failed"}

OutboundStatus ==
  {"none", "sending", "sent", "delivered", "read", "failed", "delivery_unknown"}

\* stale: updated_at is more than two minutes ago.
InboundRow == [status : InboundStatus, attempts : 0..AttemptLimit, stale : BOOLEAN]

\* external: which accepted reply's id external_message_id_hash holds, 0 if none.
OutboxRow == [status : OutboundStatus, attempts : 0..AttemptLimit, external : Nat]

NoInbound == [status |-> "none", attempts |-> 0, stale |-> FALSE]
NoOutbox == [status |-> "none", attempts |-> 0, external |-> 0]

\* Where a worker is.  Each name is the await it is about to perform.
Place ==
  {"idle", "claim", "limit", "deny", "route", "reserve", "retry", "send",
   "markSent", "markFailed", "markUnknown", "finish", "audit", "fail"}

\* permanent: the error being handled is one isPermanentSendError accepts;
\* unknown: deliverReply answered "unknown"; accepted: the id sendText returned.
Task == [pc : Place, msg : 0..MaxMessages, permanent : BOOLEAN, unknown : BOOLEAN,
         accepted : Nat]

Idle == [pc |-> "idle", msg |-> 0, permanent |-> FALSE, unknown |-> FALSE,
         accepted |-> 0]

-----------------------------------------------------------------------------
(***************************************************************************)
(* The repository's statements, as functions from a row to a row.          *)
(***************************************************************************)

InsertedInbound == [status |-> "received", attempts |-> 0, stale |-> FALSE]

\* Rows execute() may claim.
ClaimInboundMatches(row) ==
  /\ row.status \in {"received", "failed"}
  /\ row.attempts < AttemptLimit

\* Fault: recovery forgets messages whose worker died.
ClaimNextMatchesWaitingOnly(row) == ClaimInboundMatches(row)

\* Fault: recovery takes a message over without waiting two minutes.
ClaimNextMatchesAnyClaim(row) ==
  /\ row.status \in {"received", "failed", "processing"}
  /\ row.attempts < AttemptLimit

\* Fault: recovery never gives up.
ClaimNextMatchesForever(row) ==
  \/ row.status \in {"received", "failed"}
  \/ row.status = "processing" /\ row.stale

\* Rows claimNextInbound takes for recovery.
ClaimNextMatches(row) ==
  /\ \/ row.status \in {"received", "failed"}
     \/ row.status = "processing" /\ row.stale
  /\ row.attempts < AttemptLimit

\* Fault: the claim does not count.
ClaimedUncounted(row) == [row EXCEPT !.status = "processing", !.stale = FALSE]

Claimed(row) == [status |-> "processing", attempts |-> row.attempts + 1, stale |-> FALSE]

\* setInboundStatus: whatever the row's status was.
SetInboundStatus(row, status) == [row EXCEPT !.status = status, !.stale = FALSE]

MarkInboundUndeliverable(row) ==
  [status |-> "failed",
   attempts |-> IF row.attempts > AttemptLimit THEN row.attempts ELSE AttemptLimit,
   stale |-> FALSE]

ReservedOutbox == [status |-> "sending", attempts |-> 1, external |-> 0]

\* Fault: an attempt whose fate is unknown is retried like a rejected one.
RetryMatchesUnknown(row) ==
  /\ row.status \in {"failed", "delivery_unknown"}
  /\ row.attempts < AttemptLimit

\* Fault: a reservation left by a worker taken for dead is used again.
RetryMatchesSending(row) ==
  /\ row.status \in {"failed", "sending"}
  /\ row.attempts < AttemptLimit

\* The retry UPDATE of reserveOutbound.
RetryMatches(row) == row.status = "failed" /\ row.attempts < AttemptLimit

RetriedOutbox(row) ==
  [status |-> "sending", attempts |-> row.attempts + 1, external |-> row.external]

MarkSentMatches(row) == row.status = "sending"

MarkOutboundSent(row, id) == [row EXCEPT !.status = "sent", !.external = id]

MarkOutboundFailed(row) ==
  IF row.status = "sending" THEN [row EXCEPT !.status = "failed"] ELSE row

MarkOutboundUnknown(row) ==
  IF row.status \in {"sending", "failed"}
    THEN [row EXCEPT !.status = "delivery_unknown"] ELSE row

\* The statuses a delivery status may move an outbox row out of.
StatusAppliesFrom(status) ==
  CASE status = "sent"      -> {"sending", "delivery_unknown"}
    [] status = "delivered" -> {"sending", "delivery_unknown", "sent"}
    [] status = "read"      -> {"sending", "delivery_unknown", "sent", "delivered"}
    [] status = "failed"    -> {"sending", "delivery_unknown", "sent"}

\* Fault: a status is matched to the row without comparing the reply's id.
UpdateOutboundStatusOfAny(row, n, status) ==
  IF row.external # 0 /\ row.status \in StatusAppliesFrom(status)
    THEN [row EXCEPT !.status = status] ELSE row

\* updateOutboundStatus for the n-th accepted reply.
UpdateOutboundStatus(row, n, status) ==
  IF row.external = n /\ row.status \in StatusAppliesFrom(status)
    THEN [row EXCEPT !.status = status] ELSE row

-----------------------------------------------------------------------------
(***************************************************************************)
(* Helpers                                                                 *)
(***************************************************************************)

ActiveOn(r) == {w \in Workers : Host[w] = r /\ task[w].pc # "idle"}

\* queueWork: the jobs waiting and running are bounded together.
HasRoom(r) == Len(queue[r]) + Cardinality(ActiveOn(r)) < MaxBuffered

\* Somebody on some replica still has to do with message m.
Held(m) ==
  \/ \E w \in Workers : task[w].pc # "idle" /\ task[w].msg = m
  \/ \E r \in Replicas : drain[r] = m
  \/ \E r \in Replicas : \E i \in DOMAIN queue[r] : queue[r][i].msg = m

\* Where an awaited call that rejects takes the worker: claimInbound and the
\* statements of the rate-limit branch to runQueuedSafely, markOutboundSent to
\* its own catch, the others to the catch of execute; the handler of
\* markUnexpectedFailure swallows what it meets.
OnError(t) ==
  CASE t.pc = "markSent" -> [t EXCEPT !.pc = "markUnknown"]
    [] t.pc = "fail"     -> Idle
    [] OTHER             -> [t EXCEPT !.pc = "fail", !.permanent = FALSE]

\* The statement has run.  Its answer reaches worker w, or is lost on the way
\* and the call rejects all the same.
Continue(w, next) ==
  \/ task' = [task EXCEPT ![w] = next] /\ UNCHANGED throws
  \/ /\ throws < MaxThrows
     /\ throws' = throws + 1
     /\ task' = [task EXCEPT ![w] = OnError(task[w])]

At(w, pc) == task[w].pc = pc

To(w, pc) == [task[w] EXCEPT !.pc = pc]

-----------------------------------------------------------------------------
(***************************************************************************)
(* Acceptance: accept() past its gates, saveInbound, then queueWork.       *)
(***************************************************************************)

Enqueue(r, job) == queue' = [queue EXCEPT ![r] = Append(@, job)]

\* A webhook carries message m to replica r: a new row, or a redelivery of one
\* that is still waiting.  A full queue, or an answer of saveInbound that is
\* lost, leaves the row to recovery.
ReceiveWebhook(r, m) ==
  /\ IF inbound[m].status = "none"
       THEN /\ m > 1 => inbound[m - 1].status # "none"
            /\ inbound' = [inbound EXCEPT ![m] = InsertedInbound]
       ELSE /\ inbound[m].status \in {"received", "failed"}
            /\ UNCHANGED inbound
  /\ \/ /\ HasRoom(r)
        /\ Enqueue(r, [msg |-> m, claimed |-> FALSE])
        /\ UNCHANGED throws
     \/ ~HasRoom(r) /\ UNCHANGED <<queue, throws>>
     \/ throws < MaxThrows /\ throws' = throws + 1 /\ UNCHANGED queue
  /\ UNCHANGED <<outbox, task, drain, world, crashes>>

\* pump: a free worker slot takes the oldest job.
Pump(w) ==
  LET r == Host[w]
  IN /\ At(w, "idle")
     /\ queue[r] # <<>>
     /\ task' = [task EXCEPT ![w] =
          [Idle EXCEPT !.pc = IF Head(queue[r]).claimed THEN "limit" ELSE "claim",
                       !.msg = Head(queue[r]).msg]]
     /\ queue' = [queue EXCEPT ![r] = Tail(@)]
     /\ UNCHANGED <<rows, drain, world, crashes, throws>>

-----------------------------------------------------------------------------
(***************************************************************************)
(* Recovery: drainPending, every ten seconds on every replica.             *)
(***************************************************************************)

\* claimNextInbound takes the oldest waiting row.  When the answer or the
\* decryption of the content fails, the row stays claimed and the loop ends.
DrainClaim(r) ==
  LET waiting == {m \in Messages : ClaimNextMatches(inbound[m])}
  IN /\ drain[r] = 0
     /\ \E m \in waiting :
          /\ \A k \in waiting : m <= k
          /\ inbound' = [inbound EXCEPT ![m] = Claimed(@)]
          /\ \/ drain' = [drain EXCEPT ![r] = m] /\ UNCHANGED throws
             \/ throws < MaxThrows /\ throws' = throws + 1 /\ UNCHANGED drain
     /\ UNCHANGED <<outbox, queue, task, world, crashes>>

\* The claimed message enters the queue already claimed; ...
DrainQueue(r) ==
  /\ drain[r] # 0
  /\ HasRoom(r)
  /\ Enqueue(r, [msg |-> drain[r], claimed |-> TRUE])
  /\ drain' = [drain EXCEPT ![r] = 0]
  /\ UNCHANGED <<rows, task, world, crashes, throws>>

\* ... or is given back when the queue is full or a lookup rejects, or given
\* up when its user is inactive or its content was purged.
DrainRelease(r, status) ==
  /\ drain[r] # 0
  /\ status = "ignored" \/ (status = "failed" /\ (~HasRoom(r) \/ throws < MaxThrows))
  /\ inbound' = [inbound EXCEPT ![drain[r]] = SetInboundStatus(@, status)]
  /\ throws' = IF status = "failed" /\ HasRoom(r) THEN throws + 1 ELSE throws
  /\ drain' = [drain EXCEPT ![r] = 0]
  /\ UNCHANGED <<outbox, queue, task, world, crashes>>

\* One outage rejects the lookup and then the write of markUnexpectedFailure.
DrainAbandon(r) ==
  /\ drain[r] # 0
  /\ throws < MaxThrows
  /\ throws' = throws + 1
  /\ drain' = [drain EXCEPT ![r] = 0]
  /\ UNCHANGED <<rows, queue, task, world, crashes>>

-----------------------------------------------------------------------------
(***************************************************************************)
(* execute() and deliverReply(), one action per await.                     *)
(***************************************************************************)

ClaimInbound(w) ==
  LET m == task[w].msg
  IN /\ At(w, "claim")
     /\ IF ClaimInboundMatches(inbound[m])
          THEN /\ inbound' = [inbound EXCEPT ![m] = Claimed(@)]
               /\ Continue(w, To(w, "limit"))
          ELSE /\ UNCHANGED inbound
               /\ Continue(w, Idle)
     /\ UNCHANGED <<outbox, queue, drain, world, crashes>>

\* The per-user limit, which denies when its store cannot be reached.
ConsumeUserLimit(w) ==
  /\ At(w, "limit")
  /\ \E pc \in {"route", "deny"} : task' = [task EXCEPT ![w] = To(w, pc)]
  /\ UNCHANGED <<rows, queue, drain, world, crashes, throws>>

Deny(w) ==
  /\ At(w, "deny")
  /\ inbound' = [inbound EXCEPT ![task[w].msg] = SetInboundStatus(@, "ignored")]
  /\ Continue(w, To(w, "audit"))
  /\ UNCHANGED <<outbox, queue, drain, world, crashes>>

\* The assistant composes the reply and the request is audited, or one of the
\* two fails.
Route(w) ==
  /\ At(w, "route")
  /\ \E pc \in {"reserve", "fail"} : task' = [task EXCEPT ![w] = To(w, pc)]
  /\ UNCHANGED <<rows, queue, drain, world, crashes, throws>>

\* What deliverReply does with a reservation it may not send: an answered
\* reply is done, any other state is declared unknown.
NotReserved(w, status) ==
  IF status \in {"sent", "delivered", "read"} THEN To(w, "finish")
                                              ELSE To(w, "markUnknown")

\* reserveOutbound up to its SELECT: the INSERT wins, or the row is read.
ReserveOutbound(w) ==
  LET m == task[w].msg
  IN /\ At(w, "reserve")
     /\ IF outbox[m].status = "none"
          THEN /\ outbox' = [outbox EXCEPT ![m] = ReservedOutbox]
               /\ Continue(w, To(w, "send"))
          ELSE /\ UNCHANGED outbox
               /\ Continue(w, IF outbox[m].status = "failed"
                                THEN To(w, "retry") ELSE NotReserved(w, outbox[m].status))
     /\ UNCHANGED <<inbound, queue, drain, world, crashes>>

\* The UPDATE of reserveOutbound, after a SELECT that saw "failed".
RetryOutbound(w) ==
  LET m == task[w].msg
  IN /\ At(w, "retry")
     /\ IF RetryMatches(outbox[m])
          THEN /\ outbox' = [outbox EXCEPT ![m] = RetriedOutbox(@)]
               /\ Continue(w, To(w, "send"))
          ELSE /\ UNCHANGED outbox
               /\ Continue(w, NotReserved(w, "failed"))
     /\ UNCHANGED <<inbound, queue, drain, world, crashes>>

\* Meta accepts every chunk and answers; f is what will become of the reply.
SendAccepted(w, f) ==
  LET m == task[w].msg
  IN /\ At(w, "send")
     /\ fate' = [fate EXCEPT ![m] = Append(@, f)]
     /\ task' = [task EXCEPT ![w] =
          [To(w, "markSent") EXCEPT !.accepted = Len(fate[m]) + 1]]
     /\ UNCHANGED <<rows, queue, drain, seen, partial, crashes, throws>>

\* Meta rejects a chunk, after accepting the opening ones or none.
SendRejected(w, permanent, opened) ==
  LET m == task[w].msg
  IN /\ At(w, "send")
     /\ opened => Chunks > 1
     /\ partial' = IF opened THEN [partial EXCEPT ![m] = @ + 1] ELSE partial
     /\ task' = [task EXCEPT ![w] = [To(w, "markFailed") EXCEPT !.permanent = permanent]]
     /\ UNCHANGED <<rows, queue, drain, fate, seen, crashes, throws>>

\* No answer, or a server error: the reply may have been accepted, with fate f,
\* or only its opening chunks, or nothing at all.
SendUncertain(w, reached, f) ==
  LET m == task[w].msg
  IN /\ At(w, "send")
     /\ reached = "opening" => Chunks > 1
     /\ fate' = IF reached = "all" THEN [fate EXCEPT ![m] = Append(@, f)] ELSE fate
     /\ partial' = IF reached = "opening" THEN [partial EXCEPT ![m] = @ + 1] ELSE partial
     /\ task' = [task EXCEPT ![w] = To(w, "markUnknown")]
     /\ UNCHANGED <<rows, queue, drain, seen, crashes, throws>>

Fates == {"delivered", "failed"}

Send(w) ==
  \/ \E f \in Fates : SendAccepted(w, f)
  \/ \E permanent, opened \in BOOLEAN : SendRejected(w, permanent, opened)
  \/ \E reached \in {"all", "opening", "none"}, f \in Fates : SendUncertain(w, reached, f)

\* No row in state "sending" left: the error leads to markUnknown.
MarkSent(w) ==
  LET m == task[w].msg
  IN /\ At(w, "markSent")
     /\ IF MarkSentMatches(outbox[m])
          THEN /\ outbox' = [outbox EXCEPT ![m] = MarkOutboundSent(@, task[w].accepted)]
               /\ Continue(w, [To(w, "finish") EXCEPT !.accepted = 0])
          ELSE /\ UNCHANGED outbox
               /\ Continue(w, To(w, "markUnknown"))
     /\ UNCHANGED <<inbound, queue, drain, world, crashes>>

\* Fault: a send without an answer is recorded like a rejected one.
MarkUnknownAsFailed(w) ==
  LET m == task[w].msg
  IN /\ At(w, "markUnknown")
     /\ outbox' = [outbox EXCEPT ![m] = MarkOutboundFailed(@)]
     /\ Continue(w, [To(w, "finish") EXCEPT !.unknown = TRUE, !.accepted = 0])
     /\ UNCHANGED <<inbound, queue, drain, world, crashes>>

MarkUnknown(w) ==
  LET m == task[w].msg
  IN /\ At(w, "markUnknown")
     /\ outbox' = [outbox EXCEPT ![m] = MarkOutboundUnknown(@)]
     /\ Continue(w, [To(w, "finish") EXCEPT !.unknown = TRUE, !.accepted = 0])
     /\ UNCHANGED <<inbound, queue, drain, world, crashes>>

MarkFailed(w) ==
  LET m == task[w].msg
  IN /\ At(w, "markFailed")
     /\ outbox' = [outbox EXCEPT ![m] = MarkOutboundFailed(@)]
     /\ Continue(w, To(w, "fail"))
     /\ UNCHANGED <<inbound, queue, drain, world, crashes>>

\* The row becomes processed; an unknown delivery is audited before the end.
Finish(w) ==
  /\ At(w, "finish")
  /\ inbound' = [inbound EXCEPT ![task[w].msg] = SetInboundStatus(@, "processed")]
  /\ Continue(w, IF task[w].unknown THEN To(w, "audit") ELSE Idle)
  /\ UNCHANGED <<outbox, queue, drain, world, crashes>>

\* The audit event that follows an ignored or unknown outcome.
Audit(w) ==
  /\ At(w, "audit")
  /\ Continue(w, Idle)
  /\ UNCHANGED <<rows, queue, drain, world, crashes>>

\* markUnexpectedFailure: permanent errors end the message, others leave it to
\* recovery.
Fail(w) ==
  LET m == task[w].msg
  IN /\ At(w, "fail")
     /\ inbound' = [inbound EXCEPT ![m] =
          IF task[w].permanent THEN MarkInboundUndeliverable(@)
                               ELSE SetInboundStatus(@, "failed")]
     /\ task' = [task EXCEPT ![w] = Idle]
     /\ UNCHANGED <<outbox, queue, drain, world, crashes, throws>>

\* The places whose await is a database call of execute.
Statements ==
  {"claim", "deny", "reserve", "retry", "markSent", "markFailed", "markUnknown",
   "finish", "audit", "fail"}

\* The call rejects and its statement has not run.
Throw(w) ==
  /\ task[w].pc \in Statements
  /\ throws < MaxThrows
  /\ throws' = throws + 1
  /\ task' = [task EXCEPT ![w] = OnError(@)]
  /\ UNCHANGED <<rows, queue, drain, world, crashes>>

Work(w) ==
  \/ ClaimInbound(w) \/ ConsumeUserLimit(w) \/ Deny(w) \/ Route(w)
  \/ ReserveOutbound(w) \/ RetryOutbound(w) \/ Send(w)
  \/ MarkSent(w) \/ MarkUnknown(w) \/ MarkFailed(w)
  \/ Finish(w) \/ Audit(w) \/ Fail(w)

-----------------------------------------------------------------------------
(***************************************************************************)
(* Meta, the clock and the processes                                       *)
(***************************************************************************)

\* What Meta has to say about a reply with fate f.
Reported(f) == IF f = "delivered" THEN {"sent", "delivered", "read"} ELSE {"sent", "failed"}

\* A delivery status reaches recordStatus, in any order and at any time, before
\* markOutboundSent has stored the id too.  It is dropped by the ingress limit
\* or applied to the row that carries the id, if one does.
DeliveryStatus(m, n, s, dropped) ==
  /\ n \in DOMAIN fate[m]
  /\ s \in Reported(fate[m][n]) \cap StatusKinds
  /\ <<n, s>> \notin seen[m] \/ RepeatedStatuses
  /\ seen' = [seen EXCEPT ![m] = @ \cup {<<n, s>>}]
  /\ outbox' = IF dropped THEN outbox
                          ELSE [outbox EXCEPT ![m] = UpdateOutboundStatus(@, n, s)]
  /\ UNCHANGED <<inbound, memory, fate, partial, crashes, throws>>

\* Two minutes pass since the row was touched.
GrowStale(m) ==
  /\ inbound[m].status = "processing"
  /\ ~inbound[m].stale
  /\ SlowWorkers \/ ~Held(m)
  /\ inbound' = [inbound EXCEPT ![m].stale = TRUE]
  /\ UNCHANGED <<outbox, memory, world, crashes, throws>>

\* Replica r dies and restarts with nothing in memory.  A request in flight has
\* reached Meta or not: SendAccepted just before, or no step of the send.
Crash(r) ==
  /\ crashes < MaxCrashes
  /\ crashes' = crashes + 1
  /\ task' = [w \in Workers |-> IF Host[w] = r THEN Idle ELSE task[w]]
  /\ queue' = [queue EXCEPT ![r] = <<>>]
  /\ drain' = [drain EXCEPT ![r] = 0]
  /\ UNCHANGED <<rows, world, throws>>

Init ==
  /\ inbound = [m \in Messages |-> NoInbound]
  /\ outbox = [m \in Messages |-> NoOutbox]
  /\ queue = [r \in Replicas |-> <<>>]
  /\ task = [w \in Workers |-> Idle]
  /\ drain = [r \in Replicas |-> 0]
  /\ fate = [m \in Messages |-> <<>>]
  /\ seen = [m \in Messages |-> {}]
  /\ partial = [m \in Messages |-> 0]
  /\ crashes = 0
  /\ throws = 0

Next ==
  \/ \E w \in Workers : Pump(w) \/ Work(w) \/ Throw(w)
  \/ \E r \in Replicas :
       \/ \E m \in Messages : ReceiveWebhook(r, m)
       \/ DrainClaim(r)
       \/ DrainQueue(r)
       \/ \E status \in {"failed", "ignored"} : DrainRelease(r, status)
       \/ DrainAbandon(r)
       \/ Crash(r)
  \/ \E m \in Messages :
       \/ GrowStale(m)
       \/ \E n \in 1..AttemptLimit, s \in StatusKinds, dropped \in BOOLEAN :
            DeliveryStatus(m, n, s, dropped)

Spec == Init /\ [][Next]_vars

\* The event loops keep running, the recovery timer keeps firing, the clock
\* keeps going; nothing is assumed of Meta, of the users or of crashes.
Fairness ==
  /\ \A w \in Workers : WF_vars(Pump(w)) /\ WF_vars(Work(w))
  /\ \A r \in Replicas :
       /\ WF_vars(DrainClaim(r))
       /\ WF_vars(DrainQueue(r) \/ DrainRelease(r, "failed"))
  /\ \A m \in Messages : WF_vars(GrowStale(m))

FairSpec == Spec /\ Fairness

-----------------------------------------------------------------------------
(***************************************************************************)
(* Properties                                                              *)
(***************************************************************************)

\* Every variable holds what its declaration says.
TypeOK ==
  /\ inbound \in [Messages -> InboundRow]
  /\ outbox \in [Messages -> OutboxRow]
  /\ queue \in [Replicas -> Seq(Job)]
  /\ task \in [Workers -> Task]
  /\ drain \in [Replicas -> 0..MaxMessages]
  /\ fate \in [Messages -> Seq(Fates)]
  /\ seen \in [Messages -> SUBSET (Nat \X StatusKinds)]
  /\ partial \in [Messages -> Nat]
  /\ crashes \in 0..MaxCrashes
  /\ throws \in 0..MaxThrows

\* Copies of the reply to m, whole or opening chunks, that reach the user.
Copies(m) ==
  Cardinality({n \in DOMAIN fate[m] : fate[m][n] = "delivered"}) + partial[m]

\* "idempotent outbox" (README.md:48): whatever crashes, retries, takes a
\* message over or arrives late, the user is sent the reply at most once.
AtMostOneReply == \A m \in Messages : Copies(m) <= 1

\* The worker may still send, or has to record what a send did.
Sending(w, m) == task[w].msg = m /\ task[w].pc \in {"send", "markSent", "markFailed"}

\* An accepted reply to m other than the n-th may still be, or was, delivered.
Alive(m, n) == \E k \in DOMAIN fate[m] : k # n /\ fate[m][k] = "delivered"

\* The status that says the recorded reply failed has already been used up.
FailureUsed(m) == <<outbox[m].external, "failed">> \in seen[m]

\* Why a second copy is impossible, one part per way it could come about.
\* A worker owns the reservation alone and nobody can begin another delivery;
OneSender ==
  \A m \in Messages, w \in Workers : Sending(w, m) =>
    /\ outbox[m].status \notin {"none", "failed"}
    /\ \A v \in Workers : Sending(v, m) => v = w

\* a delivery may begin, or be under way, only once every earlier one has failed;
RetryIsSafe ==
  \A m \in Messages :
    /\ outbox[m].status \in {"none", "failed"} => ~Alive(m, 0)
    /\ \A w \in Workers : Sending(w, m) => ~Alive(m, task[w].accepted)

\* and no delivery status can reopen a row whose last send is not the failed one.
NoStrayFailure ==
  \A m \in Messages : outbox[m].external # 0 /\ ~FailureUsed(m) =>
    /\ outbox[m].status \in {"sent", "delivered", "read"}
    /\ outbox[m].external \in DOMAIN fate[m]
    /\ ~Alive(m, outbox[m].external)
    /\ \A w \in Workers : ~Sending(w, m)

\* The id a worker holds is that of a reply it has just got accepted.
AcceptedIsCurrent ==
  \A w \in Workers :
    /\ task[w].accepted # 0 => task[w].pc \in {"markSent", "markUnknown", "fail"}
    /\ task[w].pc = "markSent" => task[w].accepted \in DOMAIN fate[task[w].msg]
    /\ task[w].pc # "idle" => task[w].msg \in Messages

OneCopy ==
  \A m \in Messages :
    /\ partial[m] = 0
    /\ \A n \in DOMAIN fate[m] : fate[m][n] = "delivered" => ~Alive(m, n)

SendSound == OneSender /\ RetryIsSafe /\ NoStrayFailure /\ AcceptedIsCurrent /\ OneCopy

\* The types, neither retry counter passing the limit among them, and all this.
DeliveryInv == TypeOK /\ SendSound

\* "delivery outcome is unknown; automatic retry was suppressed"
\* (message-processor.ts:511): a reply whose send got no answer can only be
\* confirmed later, it never becomes one that recovery would send again.
SuppressedForGood ==
  [][\A m \in Messages : outbox[m].status = "delivery_unknown"
       => outbox'[m].status \notin {"sending", "failed"}]_vars

\* The retry counters agree: the reply is never offered to Meta more often than
\* the message was claimed, whoever claimed it.
DeliveriesWithinClaims ==
  \A m \in Messages : outbox[m].attempts <= inbound[m].attempts

Reply == INSTANCE ReplyOnce WITH
  begun <- [m \in Messages |-> outbox[m].attempts],
  open <- [m \in Messages |-> \E w \in Workers : task[w].pc = "send" /\ task[w].msg = m],
  copies <- [m \in Messages |-> Copies(m)]

\* The pipeline implements the contract of ReplyOnce, where a reply fits one
\* message and Meta repeats no delivery status.
ImplementsReplyOnce == Reply!Spec

\* Handling takes a message under a claim of its own: while no claim outlives
\* its two minutes and no database call fails, two workers never handle the
\* same message together.
Handling(w, m) == task[w].msg = m /\ task[w].pc \notin {"idle", "claim"}

ExclusiveHandling ==
  \A m \in Messages : \A v, w \in Workers : Handling(v, m) /\ Handling(w, m) => v = w

\* Under the same conditions the first accepted send finds its reservation
\* still open, so the outbox ends up with Meta's id of the reply.
FirstDeliveryRecorded ==
  \A w \in Workers : task[w].pc = "markSent" /\ outbox[task[w].msg].attempts = 1
                       => outbox[task[w].msg].status = "sending"

\* Nothing is left to do for m.
Settled(m) ==
  \/ inbound[m].status \in {"processed", "ignored"}
  \/ inbound[m].status = "failed" /\ inbound[m].attempts >= AttemptLimit

\* The one row recovery cannot see: claimed for the last time, and its worker gone.
Stranded(m) ==
  /\ inbound[m].status = "processing"
  /\ inbound[m].attempts = AttemptLimit
  /\ ~Held(m)

\* Every stored message comes to rest, and only a death during the last attempt
\* makes it rest in "processing".
EventuallyAtRest ==
  \A m \in Messages :
    inbound[m].status = "received" ~> [](Settled(m) \/ Stranded(m))

\* "the recovery worker re-queued stored messages after a crash or transient
\* failure" (docs/RUNBOOK.md:164): every stored message is settled in the end.
EventuallySettled ==
  \A m \in Messages : inbound[m].status = "received" ~> Settled(m)
=============================================================================
