---------------------------- MODULE MessageRetention ----------------------------
(***************************************************************************)
(* How long the rows of the messages table live: the retention job of      *)
(* migration 005 and the erasures, against webhooks, recovery, workers and *)
(* delivery statuses that go on meanwhile.                                 *)
(*                                                                         *)
(* A job and an erasure are transactions of several statements; whatever   *)
(* the application does to a message is a statement of its own and commits *)
(* at once.  The steps of a worker are those of MessagePipeline, without   *)
(* the ones that touch no row.  There is one whitelisted user.             *)
(***************************************************************************)
EXTENDS Integers, FiniteSets

CONSTANTS
  MaxMessages,     \* bound: messages the user sends
  Workers,         \* worker slots of all replicas
  AttemptLimit,    \* the 3 of processing_attempts and delivery_attempts
  ContentDays,     \* message content retention
  RecordDays,      \* message record retention
  RedeliveryDays,  \* how long a repeated webhook is accepted: the freshness window,
                   \* or, without one, external: as long as Meta repeats it
  MaxDays,         \* bound: the last day
  MaxRows,         \* bound: rows inserted into messages
  MaxAborts        \* bound: jobs and erasures that fail

\* What env.ts and the function itself require of the policy; of the
\* freshness window and Meta, that no webhook is accepted whose record has expired.
ASSUME PolicyAssumption ==
  /\ ContentDays \in Nat \ {0}
  /\ RecordDays \in Nat /\ ContentDays <= RecordDays
  /\ RedeliveryDays \in Nat /\ RedeliveryDays <= RecordDays

ASSUME LimitAssumption ==
  /\ AttemptLimit \in Nat \ {0}
  /\ MaxMessages \in Nat /\ MaxDays \in Nat /\ MaxRows \in Nat /\ MaxAborts \in Nat

VARIABLES
  rows,     \* committed rows of messages
  ids,      \* rows inserted so far, and the last id
  user,     \* does the user's row exist?
  hold,     \* legal_hold_at IS NOT NULL
  work,     \* work[w]: what worker slot w is executing
  job,      \* the transaction of assistant_run_data_lifecycle
  erasure,  \* the transaction of erase-user-data
  aborts,   \* jobs and erasures that have failed
  today,    \* the database's clock, in days
  sent,     \* sent[m]: the day Meta first delivered m, Never before that
  copies,   \* copies[m]: replies to m that reach the user
  overdue   \* messages still unsettled when their records were due

table == <<rows, ids>>
operators == <<user, hold, job, erasure, aborts>>
clock == <<today, overdue>>
meta == <<sent, copies>>
vars == <<rows, ids, user, hold, work, job, erasure, aborts, today, sent,
          copies, overdue>>

Messages == 1..MaxMessages
Ids == 1..MaxRows
Never == MaxDays + 1

InboundStatus == {"received", "processing", "processed", "ignored", "failed"}
OutboundStatus == {"sending", "sent", "delivered", "failed", "delivery_unknown"}

\* What becomes of a reply Meta has accepted.
Fates == {"delivered", "failed"}

\* reply: reply_to_message_id, 0 if NULL; owned: user_id IS NOT NULL; fate: that
\* of the accepted reply whose id the row carries, "none" without an id or once
\* Meta has reported it as failed.
Row == [id : Ids, out : BOOLEAN, msg : Messages, status : InboundStatus \cup OutboundStatus,
        attempts : 0..AttemptLimit, day : 0..MaxDays, content : BOOLEAN,
        owned : BOOLEAN, reply : 0..MaxRows, fate : Fates \cup {"none"}]

\* Each place is the await the worker is about to perform.
Place == {"idle", "claim", "ignore", "reserve", "send", "markSent", "markFailed",
          "markUnknown", "finish", "fail"}

\* id and out: the inbound row and the reservation; permanent: the error at hand
\* is one isPermanentSendError accepts; fate: that of the reply just accepted.
Task == [pc : Place, msg : 0..MaxMessages, id : 0..MaxRows, out : 0..MaxRows,
         permanent : BOOLEAN, fate : Fates \cup {"none"}]

Idle == [pc |-> "idle", msg |-> 0, id |-> 0, out |-> 0, permanent |-> FALSE, fate |-> "none"]
NoJob == [pc |-> "idle", now |-> 0, minimized |-> {}]
NoErasure == [pc |-> "idle", doomed |-> {}]

-----------------------------------------------------------------------------
(***************************************************************************)
(* Rows and locks                                                          *)
(***************************************************************************)

IdsOf(S) == {r.id : r \in S}
WithId(i) == {r \in rows : r.id = i}
Inbound(m) == {r \in rows : ~r.out /\ r.msg = m}
Replies(i) == {r \in rows : r.out /\ r.reply = i}

\* Rows a transaction in progress has updated or deleted.
LockedIds == job.minimized \cup erasure.doomed

\* Fault: the erasure reads the user's row without FOR UPDATE.
UserUnlocked == FALSE

\* FOR UPDATE on the user's row: an insert that refers to it has to wait.
UserLocked == erasure.pc # "idle"

\* Nobody holds the advisory lock named data-lifecycle.
LifecycleFree == job.pc = "idle" /\ erasure.pc = "idle"

\* The rows after the one with r's id has become r.
Replaced(r) == {IF q.id = r.id THEN r ELSE q : q \in rows}

Insert(r) ==
  /\ ids < MaxRows
  /\ ids' = ids + 1
  /\ rows' = rows \cup {r}

NewRow(out, m, status, attempts, reply) ==
  [id |-> ids + 1, out |-> out, msg |-> m, status |-> status, attempts |-> attempts,
   day |-> today, content |-> TRUE, owned |-> TRUE, reply |-> reply, fate |-> "none"]

At(w, pc) == work[w].pc = pc
Goto(w, pc) == work' = [work EXCEPT ![w].pc = pc]

-----------------------------------------------------------------------------
(***************************************************************************)
(* Webhooks, recovery and workers                                          *)
(***************************************************************************)

\* saveInbound for a whitelisted sender, then queueWork: a worker takes the job,
\* or it is left to recovery.
Receive(m) ==
  /\ sent[m] = Never \/ today - sent[m] <= RedeliveryDays
  /\ user
  /\ sent' = IF sent[m] = Never THEN [sent EXCEPT ![m] = today] ELSE sent
  /\ IF Inbound(m) = {}
       THEN ~UserLocked /\ Insert(NewRow(FALSE, m, "received", 0, 0))
       ELSE UNCHANGED table
  /\ \/ \E w \in Workers, r \in rows' :
          /\ At(w, "idle")
          /\ ~r.out /\ r.msg = m /\ r.status \in {"received", "failed"}
          /\ work' = [work EXCEPT ![w] = [Idle EXCEPT !.pc = "claim", !.msg = m, !.id = r.id]]
     \/ UNCHANGED work
  /\ UNCHANGED <<operators, clock, copies>>

\* Fault: messages are tried for ever.
AttemptsUnlimited(r) == TRUE

AttemptsLeft(r) == r.attempts < AttemptLimit

Claimed(r) == [r EXCEPT !.status = "processing", !.attempts = @ + 1]

\* claimInbound; when another worker was quicker, or the row is gone, nothing
\* is left to do.
Claim(w) ==
  /\ At(w, "claim")
  /\ work[w].id \notin LockedIds
  /\ LET found == {r \in WithId(work[w].id) : r.status \in {"received", "failed"} /\ AttemptsLeft(r)}
     IN IF found = {}
          THEN work' = [work EXCEPT ![w] = Idle] /\ UNCHANGED rows
          ELSE \E r \in found : rows' = Replaced(Claimed(r)) /\ Goto(w, "reserve")
  /\ UNCHANGED <<ids, operators, clock, meta>>

\* claimNextInbound and the lookup of the user: the oldest candidate.  SKIP LOCKED
\* passes over rows other transactions hold; a row in "processing" is a candidate
\* if it is two minutes old by now, and it may be.
Recover(w) ==
  /\ At(w, "idle")
  /\ LET waiting == {r \in rows : /\ ~r.out /\ r.owned /\ r.id \notin LockedIds
                                  /\ r.status \in {"received", "failed", "processing"}
                                  /\ AttemptsLeft(r)}
     IN \E r \in waiting :
          /\ \A q \in waiting : q.status = "processing" \/ r.id <= q.id
          /\ rows' = Replaced(Claimed(r))
          /\ work' = [work EXCEPT ![w] =
               [Idle EXCEPT !.pc = IF user /\ r.content THEN "reserve" ELSE "ignore",
                            !.msg = r.msg, !.id = r.id]]
  /\ UNCHANGED <<ids, operators, clock, meta>>

\* setInboundStatus and markInboundUndeliverable, whatever the row says, if it
\* is still there.
SetInbound(w, status, attempts) ==
  /\ work[w].id \notin LockedIds
  /\ rows' = {IF r.id = work[w].id
                THEN [r EXCEPT !.status = status,
                               !.attempts = IF attempts > @ THEN attempts ELSE @]
                ELSE r : r \in rows}
  /\ work' = [work EXCEPT ![w] = Idle]
  /\ UNCHANGED <<ids, operators, clock, meta>>

\* No user or no content: recovery gives the message up.
Ignore(w) == At(w, "ignore") /\ SetInbound(w, "ignored", 0)

Finish(w) == At(w, "finish") /\ SetInbound(w, "processed", 0)

\* markUnexpectedFailure.
Fail(w) == At(w, "fail") /\ SetInbound(w, "failed", IF work[w].permanent THEN AttemptLimit ELSE 0)

\* reserveOutbound when the message has no reply: the new row refers to the user
\* and to the message; the insert waits for whoever deletes them, and fails when
\* one of them is gone.
InsertReply(w) ==
  LET t == work[w]
  IN /\ Replies(t.id) = {}
     /\ ~UserLocked /\ t.id \notin erasure.doomed
     /\ IF user /\ WithId(t.id) # {}
          THEN /\ Insert(NewRow(TRUE, t.msg, "sending", 1, t.id))
               /\ work' = [work EXCEPT ![w].pc = "send", ![w].out = ids + 1]
          ELSE Goto(w, "fail") /\ UNCHANGED table

RetryMatches(r) == r.status = "failed" /\ AttemptsLeft(r)

\* Otherwise a failed reply is tried again, with fresh content; an answered one
\* is done; any other is declared unknown.
ReuseReply(w, r) ==
  /\ IF RetryMatches(r)
       THEN /\ r.id \notin LockedIds
            /\ rows' = Replaced([r EXCEPT !.status = "sending", !.attempts = @ + 1,
                                          !.content = TRUE])
            /\ work' = [work EXCEPT ![w].pc = "send", ![w].out = r.id]
       ELSE /\ UNCHANGED rows
            /\ work' = [work EXCEPT
                 ![w].pc = IF r.status \in {"sent", "delivered"} THEN "finish" ELSE "markUnknown",
                 ![w].out = r.id]
  /\ UNCHANGED ids

Reserve(w) ==
  /\ At(w, "reserve")
  /\ InsertReply(w) \/ \E r \in Replies(work[w].id) : ReuseReply(w, r)
  /\ UNCHANGED <<operators, clock, meta>>

\* The assistant, or a statement, fails before there is a reply.
Interrupted(w) ==
  /\ At(w, "reserve")
  /\ Goto(w, "fail")
  /\ UNCHANGED <<table, operators, clock, meta>>

\* sendText: accepted; rejected; or nobody knows, and it may have been accepted.
Send(w) ==
  /\ At(w, "send")
  /\ \/ \E f \in Fates, answered \in BOOLEAN :
          /\ copies' = IF f = "delivered" THEN [copies EXCEPT ![work[w].msg] = @ + 1] ELSE copies
          /\ work' = IF answered
                       THEN [work EXCEPT ![w].pc = "markSent", ![w].fate = f]
                       ELSE [work EXCEPT ![w].pc = "markUnknown"]
     \/ Goto(w, "markUnknown") /\ UNCHANGED copies
     \/ \E permanent \in BOOLEAN :
          /\ work' = [work EXCEPT ![w].pc = "markFailed", ![w].permanent = permanent]
          /\ UNCHANGED copies
  /\ UNCHANGED <<table, operators, clock, sent>>

\* markOutboundSent; with no row in "sending" it throws.
MarkSent(w) ==
  /\ At(w, "markSent")
  /\ work[w].out \notin LockedIds
  /\ LET open == {r \in WithId(work[w].out) : r.status = "sending"}
     IN IF open = {}
          THEN Goto(w, "markUnknown") /\ UNCHANGED rows
          ELSE \E r \in open :
                 /\ rows' = Replaced([r EXCEPT !.status = "sent", !.fate = work[w].fate])
                 /\ Goto(w, "finish")
  /\ UNCHANGED <<ids, operators, clock, meta>>

\* The reservation goes from one of the statuses in from to status.
SetOutbound(w, from, status) ==
  /\ work[w].out \notin LockedIds
  /\ rows' = {IF r.id = work[w].out /\ r.status \in from THEN [r EXCEPT !.status = status]
                                                         ELSE r : r \in rows}
  /\ UNCHANGED <<ids, operators, clock, meta>>

MarkFailed(w) ==
  At(w, "markFailed") /\ SetOutbound(w, {"sending"}, "failed") /\ Goto(w, "fail")

MarkUnknown(w) ==
  At(w, "markUnknown") /\ SetOutbound(w, {"sending", "failed"}, "delivery_unknown") /\ Goto(w, "finish")

\* The process dies, or the database rejects the statement and the handlers that
\* follow it: the worker is gone, its rows stay as they are.
Crash(w) ==
  /\ ~At(w, "idle")
  /\ work' = [work EXCEPT ![w] = Idle]
  /\ UNCHANGED <<table, operators, clock, meta>>

\* updateOutboundStatus for the reply whose id the row carries: Meta confirms it,
\* or reports its failure, once.
DeliveryStatus(r) ==
  /\ r \in rows /\ r.id \notin LockedIds
  /\ \/ /\ r.fate = "delivered" /\ r.status \in {"sending", "delivery_unknown", "sent"}
        /\ rows' = Replaced([r EXCEPT !.status = "delivered"])
     \/ /\ r.fate = "failed" /\ r.status \in {"sending", "delivery_unknown", "sent"}
        /\ rows' = Replaced([r EXCEPT !.status = "failed", !.fate = "none"])
  /\ UNCHANGED <<ids, operators, work, clock, meta>>

-----------------------------------------------------------------------------
(***************************************************************************)
(* The retention job, the erasures and the legal hold                      *)
(***************************************************************************)

Expired(r, now, days) == r.day < now - days

\* Fault: the job deletes under a legal hold.
BeginJobAnyway ==
  /\ LifecycleFree
  /\ job' = [NoJob EXCEPT !.pc = "minimize", !.now = today]
  /\ UNCHANGED <<table, user, hold, erasure, aborts, work, clock, meta>>

\* assistant_run_data_lifecycle: the try-lock and the legal hold.
BeginJob ==
  /\ LifecycleFree
  /\ ~hold
  /\ job' = [NoJob EXCEPT !.pc = "minimize", !.now = today]
  /\ UNCHANGED <<table, user, hold, erasure, aborts, work, clock, meta>>

\* Fault: only messages that are done lose their content.
HasExpiredContentDone(r, now) ==
  r.content /\ Expired(r, now, ContentDays) /\ r.status \in {"processed", "ignored", "sent", "delivered"}

HasExpiredContent(r, now) == r.content /\ Expired(r, now, ContentDays)

Minimize ==
  /\ job.pc = "minimize"
  /\ job' = [job EXCEPT !.pc = "purge",
                        !.minimized = IdsOf({r \in rows : HasExpiredContent(r, job.now)})]
  /\ UNCHANGED <<table, user, hold, erasure, aborts, work, clock, meta>>

\* Fault: a reply whose delivery is unknown is kept.
TerminalIfConfirmed(r) ==
  \/ ~r.out /\ r.status \in {"processed", "ignored"}
  \/ r.out /\ r.status \in {"sent", "delivered"}
  \/ r.status = "failed" /\ r.attempts >= AttemptLimit

\* Statuses the function takes for final.
Terminal(r) ==
  \/ ~r.out /\ r.status \in {"processed", "ignored"}
  \/ r.out /\ r.status \in {"sent", "delivery_unknown", "delivered"}
  \/ r.status = "failed" /\ r.attempts >= AttemptLimit

\* Fault: records go with their content.
PurgeableWithContent(r, now) == Terminal(r) /\ Expired(r, now, ContentDays)

Purgeable(r, now) == Terminal(r) /\ Expired(r, now, RecordDays)

\* The rows left once those with ids in S are deleted: ON DELETE SET NULL.
Without(S) ==
  {[r EXCEPT !.reply = IF @ \in S THEN 0 ELSE @] : r \in {q \in rows : q.id \notin S}}

\* The deletion of expired records, and the COMMIT.
Purge ==
  /\ job.pc = "purge"
  /\ LET gone == IdsOf({r \in rows : Purgeable(r, job.now)})
     IN rows' = {[r EXCEPT !.content = @ /\ r.id \notin job.minimized] : r \in Without(gone)}
  /\ job' = NoJob
  /\ UNCHANGED <<ids, user, hold, erasure, aborts, work, clock, meta>>

\* EXCEPTION WHEN OTHERS, or the connection is lost: nothing has happened.
JobFails ==
  /\ job.pc # "idle"
  /\ aborts < MaxAborts /\ aborts' = aborts + 1
  /\ job' = NoJob
  /\ UNCHANGED <<table, user, hold, erasure, work, clock, meta>>

\* erase-user-data up to FOR UPDATE on the user's row; ...
BeginErasure ==
  /\ LifecycleFree
  /\ user /\ ~hold
  /\ erasure' = [NoErasure EXCEPT !.pc = "messages"]
  /\ UNCHANGED <<table, user, hold, job, aborts, work, clock, meta>>

\* ... the deletion of the user's messages; ...
EraseMessages ==
  /\ erasure.pc = "messages"
  /\ erasure' = [pc |-> "user", doomed |-> IdsOf({r \in rows : r.owned})]
  /\ UNCHANGED <<table, user, hold, job, aborts, work, clock, meta>>

\* ... and of the user, and the COMMIT.
EraseUser ==
  /\ erasure.pc = "user"
  /\ user' = FALSE
  /\ rows' = {[r EXCEPT !.owned = FALSE] : r \in Without(erasure.doomed)}
  /\ erasure' = NoErasure
  /\ UNCHANGED <<ids, hold, job, aborts, work, clock, meta>>

ErasureFails ==
  /\ erasure.pc # "idle"
  /\ aborts < MaxAborts /\ aborts' = aborts + 1
  /\ erasure' = NoErasure
  /\ UNCHANGED <<table, user, hold, job, work, clock, meta>>

\* erase-client-data: LOCK TABLE lets nobody in between its deletions.
EraseClient ==
  /\ LifecycleFree
  /\ ~hold
  /\ rows' = {} /\ user' = FALSE
  /\ UNCHANGED <<ids, hold, job, erasure, aborts, work, clock, meta>>

\* set-legal-hold.
ChangeHold ==
  /\ LifecycleFree
  /\ hold' = ~hold
  /\ UNCHANGED <<table, user, job, erasure, aborts, work, clock, meta>>

Settled(r) ==
  \/ r.status \in {"processed", "ignored"}
  \/ r.status = "failed" /\ r.attempts >= AttemptLimit

\* Midnight.  Work in progress ends within the day it began: each of its steps
\* has a timeout of seconds or minutes.
Tick ==
  /\ today < MaxDays
  /\ \A w \in Workers : At(w, "idle")
  /\ today' = today + 1
  /\ overdue' = overdue \cup
       {r.msg : r \in {q \in rows : ~q.out /\ ~Settled(q) /\ Expired(q, today + 1, RecordDays)}}
  /\ UNCHANGED <<table, operators, work, meta>>

Init ==
  /\ rows = {} /\ ids = 0
  /\ user = TRUE /\ hold = FALSE
  /\ work = [w \in Workers |-> Idle]
  /\ job = NoJob /\ erasure = NoErasure /\ aborts = 0
  /\ today = 0 /\ overdue = {}
  /\ sent = [m \in Messages |-> Never]
  /\ copies = [m \in Messages |-> 0]

Work(w) ==
  \/ Claim(w) \/ Ignore(w) \/ Reserve(w) \/ Interrupted(w) \/ Send(w)
  \/ MarkSent(w) \/ MarkFailed(w) \/ MarkUnknown(w) \/ Finish(w) \/ Fail(w)

Next ==
  \/ \E m \in Messages : Receive(m)
  \/ \E w \in Workers : Recover(w) \/ Work(w) \/ Crash(w)
  \/ \E r \in rows : DeliveryStatus(r)
  \/ BeginJob \/ Minimize \/ Purge \/ JobFails
  \/ BeginErasure \/ EraseMessages \/ EraseUser \/ ErasureFails \/ EraseClient
  \/ ChangeHold
  \/ Tick

Spec == Init /\ [][Next]_vars

\* The job's timer fires; a transaction that has begun ends; workers and the
\* recovery timer go on.
Fairness ==
  /\ WF_vars(BeginJob) /\ WF_vars(Minimize) /\ WF_vars(Purge)
  /\ WF_vars(EraseMessages) /\ WF_vars(EraseUser)
  /\ \A w \in Workers : WF_vars(Work(w)) /\ WF_vars(Recover(w))

FairSpec == Spec /\ Fairness

-----------------------------------------------------------------------------
(***************************************************************************)
(* Properties                                                              *)
(***************************************************************************)

\* Every variable holds what its declaration says, and ids are unique.
TypeOK ==
  /\ rows \subseteq Row
  /\ \A q, r \in rows : q.id = r.id => q = r
  /\ ids \in 0..MaxRows /\ \A r \in rows : r.id <= ids
  /\ user \in BOOLEAN /\ hold \in BOOLEAN
  /\ work \in [Workers -> Task]
  /\ job \in [pc : {"idle", "minimize", "purge"}, now : 0..MaxDays, minimized : SUBSET Ids]
  /\ erasure \in [pc : {"idle", "messages", "user"}, doomed : SUBSET Ids]
  /\ aborts \in 0..MaxAborts
  /\ today \in 0..MaxDays
  /\ sent \in [Messages -> 0..Never]
  /\ copies \in [Messages -> Nat]
  /\ overdue \subseteq Messages

\* A worker that is doing something has a message.
Busy == \A w \in Workers : work[w].pc # "idle" => work[w].msg \in Messages

\* No row has lost its owner.
Owned == \A r \in rows : r.owned

\* Nothing is inserted behind an erasure that has deleted the user's messages.
Doomed == erasure.pc = "user" => IdsOf(rows) \subseteq erasure.doomed

\* An erased user has left nothing, and is not erased again.
Gone == ~user => rows = {} /\ erasure.pc = "idle"

\* A hold is not put in force over a transaction that deletes.
Frozen == hold => LifecycleFree

\* Why ErasedForGood and HoldKeeps hold: whatever a worker or a webhook inserts is
\* the user's, and the lock on the user's row and the advisory lock keep inserts
\* and holds out of the erasure and the job.
RetentionInv == TypeOK /\ Busy /\ Owned /\ Doomed /\ Gone /\ Frozen

\* "Verify user, permission, message ... rows are absent"
\* (docs/DATA_LIFECYCLE.md): once the user is erased no message of theirs is
\* left, not even one without an owner that a later erasure would not find,
\* whoever was storing or answering one meanwhile.
ErasedForGood == ~user => rows = {}

\* "idempotent outbox" (README.md:48), over the whole life of the records: the
\* job does not make a message look new while Meta may repeat it or recovery may
\* take it, provided recovery has settled it by the time its records expire.
AnsweredOnce == \A m \in Messages : m \notin overdue => copies[m] <= 1

\* "A legal hold overrides automated deletion until formally released"
\* (docs/DATA_LIFECYCLE.md): under a hold every message and its content stay.
HoldKeeps ==
  [][hold => /\ IdsOf(rows) \subseteq IdsOf(rows')
             /\ IdsOf({r \in rows : r.content}) \subseteq IdsOf({r \in rows' : r.content})]_vars

\* "Authorized message body ... 30 days ... Automatic minimizer": the table comes
\* to hold no expired content, in whatever state its messages are, also when a
\* retry has written some anew.
ContentGoes ==
  (\E r \in rows : r.content /\ Expired(r, today, ContentDays))
    ~> (hold \/ \A r \in rows : r.content => ~Expired(r, today, ContentDays))

\* The message was answered or ignored, or an answer may have reached the user.
Answered(r) == r.status \in {"processed", "ignored", "sent", "delivery_unknown", "delivered"}

\* The records of messages that were answered or ignored go when they expire.
AnsweredRecordsGo ==
  (\E r \in rows : Answered(r) /\ Expired(r, today, RecordDays))
    ~> (hold \/ \A r \in rows : Answered(r) => ~Expired(r, today, RecordDays))
=============================================================================
