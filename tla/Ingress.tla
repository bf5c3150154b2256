------------------------------ MODULE Ingress ------------------------------
(***************************************************************************)
(* A WhatsApp webhook from the request to the stored message               *)
(* (src/whatsapp/routes.ts, MessageProcessor.accept, saveInbound): the      *)
(* signature, the decommission switch, batches that run side by side, the   *)
(* freshness window, the limits of RateLimits, the whitelist, and the       *)
(* insert.  Around it: the pipeline settles what is stored, the lifecycle   *)
(* job deletes it, operators deactivate users, deploy replicas one by one   *)
(* with a new hash key, and erase the client's data.  Meta, or somebody who  *)
(* captured a request, may post the same message any number of times.       *)
(***************************************************************************)
EXTENDS RateLimits, FiniteSets

CONSTANTS
  MaxPosts,    \* bound: the requests that come
  MaxOutages,  \* bound: calls of the limiter that fail
  Payloads,    \* bound: the lists of events each may carry: [id, wellFormed]
  Messages,    \* external message ids
  Senders,
  From,        \* the sender of each message
  Keys,        \* keys of the identifier ring once it is rotated
  FirstKey,    \* the one active at first
  FirstRing,   \* the keys of a replica that is not rotated yet: Keys when the new
               \* one was deployed before it is made active, else FirstKey alone
  MaxEvents,   \* MAX_EVENTS_PER_PAYLOAD
  Batch,       \* messages of a request that are handled side by side
  Freshness,   \* WEBHOOK_MESSAGE_MAX_AGE_SECONDS; 0 disables the test
  Retention    \* MESSAGE_RECORD_RETENTION_DAYS

ASSUME IngressAssumption ==
  /\ From \in [Messages -> Senders] /\ FirstKey \in FirstRing /\ FirstRing \subseteq Keys
  /\ MaxPosts \in Nat /\ MaxOutages \in Nat /\ MaxEvents \in Nat /\ Batch \in Nat \ {0}
  /\ Freshness \in Nat /\ Retention \in Nat
  /\ Payloads \in [1..MaxPosts -> SUBSET Seq([id : Messages, wellFormed : BOOLEAN])]
  /\ ({"ingress-global", "security-audit", "lockout-audit"} \X {"global"} \X Keys) \cup
     ({"ingress-sender", "abuse-sender", "lockout-notify"} \X Senders \X Keys) \subseteq Buckets

VARIABLES
  erased,    \* service_state.decommissioned_at, set with the tables emptied
  listed,    \* senders who are active users
  activeKey, \* of the replica each request goes to
  sent,      \* when Meta first sent a message: the timestamp it is signed with
  row,       \* messages, by external id and the key it was hashed under
  post,      \* the requests
  task,      \* accept(), for each message of a request
  inserted,  \* history: how often a message became a row
  audited,   \* history: events accept() recorded
  torn,      \* history: messages that replicas with different rings looked up at odds
  outages    \* calls of the limiter that failed

world == <<erased, listed, activeKey, sent>>
vars == <<limits, world, row, post, task, inserted, audited, torn, outages>>

Posts == 1..MaxPosts

NotSent == MaxTime + 1
NoRow == [status |-> "none", at |-> 0]
NoTask == [pc |-> "none", result |-> "none"]
NoPost == [pc |-> "none", events |-> <<>>, begun |-> 0]

Places == 1..MaxEvents
Inside(t) == t.pc \notin {"none", "done", "thrown"}

TypeOK ==
  /\ LimitTypeOK
  /\ erased \in BOOLEAN /\ listed \subseteq Senders /\ activeKey \in [Posts -> Keys]
  /\ sent \in [Messages -> 0..NotSent]
  /\ row \in [Messages \X Keys ->
               [status : {"none", "received", "failed", "processed"}, at : 0..MaxTime]]
  /\ post \in [Posts ->
       [pc : {"none", "signed", "working", "ok", "unauthorized", "unavailable", "error"},
        events : Seq(Messages), begun : Nat]]
  /\ task \in [Posts \X Places ->
       [pc : {"none", "done", "thrown", "global", "sender", "user", "abuse", "lockout", "lockoutAudit",
              "audit", "record", "select", "insert"},
        result : {"none", "stale", "rate_limited", "unauthorized", "duplicate", "queued"}]]
  /\ inserted \in [Messages -> Nat] /\ audited \in Nat /\ torn \subseteq Messages
  /\ outages \in 0..MaxOutages

Init ==
  /\ LimitInit
  /\ erased = FALSE /\ listed = Senders /\ activeKey = [p \in Posts |-> FirstKey]
  /\ sent = [m \in Messages |-> NotSent]
  /\ row = [r \in Messages \X Keys |-> NoRow]
  /\ post = [p \in Posts |-> NoPost]
  /\ task = [t \in Posts \X Places |-> NoTask]
  /\ inserted = [m \in Messages |-> 0] /\ audited = 0 /\ torn = {} /\ outages = 0

-----------------------------------------------------------------------------
\* What the parser keeps of a payload: of the first MaxEvents events those that
\* are well-formed and for this number, each id once, in their order.
Kept(events) ==
  {i \in DOMAIN events : /\ i <= MaxEvents /\ events[i].wellFormed
                         /\ \A j \in 1..(i - 1) : events[j].wellFormed => events[j].id # events[i].id}

Nth(K, k) == CHOOSE i \in K : Cardinality({j \in K : j <= i}) = k

Parsed(events) ==
  [k \in 1..Cardinality(Kept(events)) |-> events[Nth(Kept(events), k)].id]

\* A request comes, in the order of the numbers; without Meta's signature it goes no further.
Receive(p) ==
  /\ post[p].pc = "none" /\ \A q \in 1..(p - 1) : post[q].pc # "none"
  /\ \E payload \in Payloads[p], signed \in BOOLEAN :
       LET events == IF signed THEN Parsed(payload) ELSE <<>> IN
       /\ post' = [post EXCEPT ![p] = [pc |-> IF signed THEN "signed" ELSE "unauthorized",
                                       events |-> events, begun |-> 0]]
       /\ sent' = [m \in Messages |->
                    IF sent[m] = NotSent /\ \E i \in DOMAIN events : events[i] = m
                    THEN now ELSE sent[m]]
  /\ UNCHANGED <<limits, erased, listed, activeKey, row, task, inserted, audited, torn, outages>>

\* The decommission switch is read once, before the messages are handled.
CheckService(p) ==
  /\ post[p].pc = "signed"
  /\ post' = [post EXCEPT ![p].pc = IF erased THEN "unavailable" ELSE "working"]
  /\ UNCHANGED <<limits, world, row, task, inserted, audited, torn, outages>>

Begun(p) == {i \in Places : i <= post[p].begun}
Settled(p) == \A i \in Begun(p) : task[<<p, i>>].pc = "done"

\* Within the window, in the past or in the future.
IsFresh(m) == Freshness = 0 \/ (now - sent[m] <= Freshness /\ sent[m] - now <= Freshness)

\* The next messages are handed to enqueue, once all before them are done.
StartBatch(p) ==
  LET upTo == IF post[p].begun + Batch < Len(post[p].events)
              THEN post[p].begun + Batch ELSE Len(post[p].events)
  IN
  /\ post[p].pc = "working" /\ Settled(p) /\ post[p].begun < upTo
  /\ post' = [post EXCEPT ![p].begun = upTo]
  /\ task' = [t \in Posts \X Places |->
       IF t[1] # p \/ t[2] \notin (post[p].begun + 1)..upTo THEN task[t]
       ELSE IF IsFresh(post[p].events[t[2]])
       THEN [pc |-> "global", result |-> "none"]
       ELSE [pc |-> "audit", result |-> "stale"]]
  /\ UNCHANGED <<limits, world, row, inserted, audited, torn, outages>>

\* 200 when every message was handled.  One that throws rejects the whole batch:
\* the request fails at once, and what runs beside it goes on unobserved.
Answer(p) ==
  /\ post[p].pc = "working"
  /\ \/ /\ Settled(p) /\ post[p].begun = Len(post[p].events)
        /\ post' = [post EXCEPT ![p].pc = "ok"]
     \/ /\ \E i \in Begun(p) : task[<<p, i>>].pc = "thrown"
        /\ post' = [post EXCEPT ![p].pc = "error"]
  /\ UNCHANGED <<limits, world, row, task, inserted, audited, torn, outages>>

-----------------------------------------------------------------------------
\* accept(): each step up to the next answer of the database.
Goto(p, i, pc, result) ==
  task' = [task EXCEPT ![<<p, i>>].pc = pc, ![<<p, i>>].result = result]

\* The bucket each step asks, and where its answer leads.
Subject(p, step, m) ==
  CASE step = "global"       -> <<"ingress-global", "global", activeKey[p]>>
    [] step = "sender"       -> <<"ingress-sender", From[m], activeKey[p]>>
    [] step = "abuse"        -> <<"abuse-sender", From[m], activeKey[p]>>
    [] step = "lockout"      -> <<"lockout-notify", From[m], activeKey[p]>>
    [] step = "lockoutAudit" -> <<"lockout-audit", "global", activeKey[p]>>
    [] step = "audit"        -> <<"security-audit", "global", activeKey[p]>>

IfAllowed == [global |-> "sender", sender |-> "user", abuse |-> "audit", lockout |-> "lockoutAudit",
              lockoutAudit |-> "record", audit |-> "record"]
IfDenied == [global |-> "done", sender |-> "done", abuse |-> "lockout", lockout |-> "done",
             lockoutAudit |-> "done", audit |-> "done"]

Limited(step, result, allowed) ==
  IF step \in {"global", "sender"} /\ ~allowed THEN "rate_limited" ELSE result

AnswerWhenDownOpen == TRUE

\* consumeLimit when the limiter cannot be asked.
AnswerWhenDown == FALSE

\* One call of the limiter.
ConsumeLimit(p, i) ==
  LET t == task[<<p, i>>]
      b == Subject(p, t.pc, post[p].events[i])
      Go(allowed) == Goto(p, i, IF allowed THEN IfAllowed[t.pc] ELSE IfDenied[t.pc],
                          Limited(t.pc, t.result, allowed))
  IN
  /\ t.pc \in DOMAIN IfAllowed
  /\ \/ Consume(b) /\ Go(Allows(b)) /\ UNCHANGED outages
     \/ /\ outages < MaxOutages
        /\ Go(AnswerWhenDown) /\ outages' = outages + 1
        /\ UNCHANGED limits
  /\ UNCHANGED <<world, row, post, inserted, audited, torn>>

FindUser(p, i) ==
  /\ task[<<p, i>>].pc = "user"
  /\ IF From[post[p].events[i]] \in listed
     THEN Goto(p, i, "select", "none") ELSE Goto(p, i, "abuse", "unauthorized")
  /\ UNCHANGED <<limits, world, row, post, inserted, audited, torn, outages>>

\* The audit event; when it cannot be written, the request fails.
RecordEvent(p, i) ==
  /\ task[<<p, i>>].pc = "record"
  /\ \/ Goto(p, i, "done", task[<<p, i>>].result) /\ audited' = audited + 1
     \/ Goto(p, i, "thrown", task[<<p, i>>].result) /\ UNCHANGED audited
  /\ UNCHANGED <<limits, world, row, post, inserted, torn, outages>>

Found(status) == IF status \in {"received", "failed"} THEN "queued" ELSE "duplicate"

\* The keys a request's replica knows: those before the rotation, or after it.
Ring(p) == IF activeKey[p] = FirstKey THEN FirstRing ELSE Keys

CandidatesUnderActiveKey(p, m) == {r \in {<<m, activeKey[p]>>} : row[r].status # "none"}

\* A row under any key of the ring is the same message.
Candidates(p, m) == {r \in {m} \X Ring(p) : row[r].status # "none"}

\* A message not found is torn when it is stored under a key this replica does not
\* know yet, or about to be stored under another active key.
Odds(p, m) ==
  \/ \E k \in Keys \ Ring(p) : row[<<m, k>>].status # "none"
  \/ \E q \in Posts, j \in Places : /\ task[<<q, j>>].pc = "insert" /\ post[q].events[j] = m
                                   /\ activeKey[q] # activeKey[p]

SelectExisting(p, i) ==
  LET m == post[p].events[i] IN
  /\ task[<<p, i>>].pc = "select"
  /\ \/ /\ Candidates(p, m) = {}
        /\ Goto(p, i, "insert", "none")
        /\ torn' = IF Odds(p, m) THEN torn \cup {m} ELSE torn
     \/ /\ \E r \in Candidates(p, m) : Goto(p, i, "done", Found(row[r].status))
        /\ UNCHANGED torn
  /\ UNCHANGED <<limits, world, row, post, inserted, audited, outages>>

UserExistsAlways(m) == TRUE

\* The row refers to the user: without one it is refused.
UserExists(m) == ~erased

Insert(p, i) ==
  LET m == post[p].events[i]
      r == <<m, activeKey[p]>>
  IN
  /\ task[<<p, i>>].pc = "insert"
  /\ IF ~UserExists(m) THEN Goto(p, i, "thrown", "none") /\ UNCHANGED <<row, inserted>>
     ELSE IF row[r].status # "none"
     THEN Goto(p, i, "done", Found(row[r].status)) /\ UNCHANGED <<row, inserted>>
     ELSE /\ row' = [row EXCEPT ![r] = [status |-> "received", at |-> now]]
          /\ inserted' = [inserted EXCEPT ![m] = @ + 1]
          /\ Goto(p, i, "done", "queued")
  /\ UNCHANGED <<limits, world, post, audited, torn, outages>>

-----------------------------------------------------------------------------
\* The pipeline is done with a message, or gives up on it.
Settle ==
  /\ \E r \in DOMAIN row : \E status \in {"processed", "failed"} :
       /\ row[r].status = "received" \/ (row[r].status = "failed" /\ status = "processed")
       /\ row' = [row EXCEPT ![r].status = status]
  /\ UNCHANGED <<limits, world, post, task, inserted, audited, torn, outages>>

Outdated(r) == row[r].status = "processed" /\ row[r].at < now - Retention
Disused(b) == bucket[b].count > 0 /\ bucket[b].expires < now

PurgeUnused ==
  IF \E b \in Buckets : Disused(b) THEN PurgeBuckets ELSE UNCHANGED limits

\* The lifecycle job: records past their retention, then unused buckets.
Lifecycle ==
  /\ ~erased
  /\ (\E r \in DOMAIN row : Outdated(r)) \/ (\E b \in Buckets : Disused(b))
  /\ row' = [r \in DOMAIN row |-> IF Outdated(r) THEN NoRow ELSE row[r]]
  /\ PurgeUnused
  /\ UNCHANGED <<world, post, task, inserted, audited, torn, outages>>

Deactivate ==
  /\ ~erased
  /\ \E s \in listed : listed' = listed \ {s}
  /\ UNCHANGED <<limits, erased, activeKey, sent, row, post, task, inserted, audited, torn, outages>>

InFlight == \E t \in DOMAIN task : Inside(task[t])

\* The runbook's rotation, replica by replica: the one a request will go to comes up
\* with the new key active and the old one still in its ring.
Rotate(p) ==
  /\ post[p].pc = "none" /\ activeKey[p] = FirstKey
  /\ \E k \in Keys \ {FirstKey} : activeKey' = [activeKey EXCEPT ![p] = k]
  /\ UNCHANGED <<limits, erased, listed, sent, row, post, task, inserted, audited, torn, outages>>

\* One transaction empties the tables and sets the switch.
EraseClientData ==
  /\ ~erased
  /\ erased' = TRUE /\ listed' = {}
  /\ row' = [r \in DOMAIN row |-> NoRow]
  /\ EraseBuckets
  /\ UNCHANGED <<activeKey, sent, post, task, inserted, audited, torn, outages>>

\* Bound: a message is handled within one tick.
Tick ==
  /\ ~InFlight
  /\ Elapse
  /\ UNCHANGED <<world, row, post, task, inserted, audited, torn, outages>>

Next ==
  \/ \E p \in Posts : Receive(p)
  \/ \E p \in Posts : CheckService(p)
  \/ \E p \in Posts : StartBatch(p)
  \/ \E p \in Posts : Answer(p)
  \/ \E p \in Posts, i \in Places : ConsumeLimit(p, i)
  \/ \E p \in Posts, i \in Places : FindUser(p, i)
  \/ \E p \in Posts, i \in Places : RecordEvent(p, i)
  \/ \E p \in Posts, i \in Places : SelectExisting(p, i)
  \/ \E p \in Posts, i \in Places : Insert(p, i)
  \/ Settle
  \/ Lifecycle
  \/ Deactivate
  \/ \E p \in Posts : Rotate(p)
  \/ EraseClientData
  \/ Tick

Spec == Init /\ [][Next]_vars

-----------------------------------------------------------------------------
\* A message becomes a row at most once, however often it is posted, by two
\* requests at once, under an old key and a new one, and after its row was deleted:
\* the freshness window must not outlast the record (message.repository.ts:117,
\* message-processor.ts:283, env.ts:134, 143).  Only a message that is torn by the
\* rotation is excused, stored under a key the replica it came to does not know
\* or looked up at once by replicas with different active keys.
NoReplay == \A m \in Messages : inserted[m] > 1 => m \in torn

\* Nothing is stored of a client whose data were erased, not even by a request
\* that passed the decommission test before (routes.ts:111).
NothingAfterErasure == erased => \A r \in DOMAIN row : row[r].status = "none"

\* A request answered 200 leaves no message behind that nobody refused: Meta
\* will not send it again (routes.ts:126-140).
AckedKept ==
  \A p \in Posts : post[p].pc = "ok" => \A i \in DOMAIN post[p].events :
    /\ task[<<p, i>>].result \in {"stale", "rate_limited", "unauthorized", "duplicate", "queued"}
    /\ task[<<p, i>>].result \in {"duplicate", "queued"} => inserted[post[p].events[i]] > 0

\* The calls that some buckets let pass.
Passes(B) == UNION {{b} \X DOMAIN passed[b].at : b \in B}

SenderBuckets(s) == {b \in Buckets : b[1] = "ingress-sender" /\ b[2] = s}
ReportBuckets == {b \in Buckets : b[1] \in {"security-audit", "lockout-audit"}}

\* What is stored of a sender was let through by that sender's limit, and what is
\* reported by those of the reports: when the limiter cannot be asked, nothing
\* passes (message-processor.ts:702).
FailsClosed ==
  ~erased =>
    /\ \A s \in Senders : Cardinality({m \in Messages : From[m] = s /\ inserted[m] > 0})
         <= Cardinality(Passes(SenderBuckets(s)))
    /\ audited <= Cardinality(Passes(ReportBuckets))

\* What holds of the messages whatever interleaves, its parts being stated above.
IngressInv == TypeOK /\ NoReplay /\ AckedKept
=============================================================================
