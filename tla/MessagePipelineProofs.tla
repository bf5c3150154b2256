------------------------ MODULE MessagePipelineProofs ------------------------
(***************************************************************************)
(* Theorems about MessagePipeline, for every number of replicas, workers,  *)
(* messages, crashes and outages.                                          *)
(***************************************************************************)
EXTENDS MessagePipeline, FiniteSetTheorems, TLAPS

\* Every branch of Continue gives the worker a new task and nobody else.
LEMMA ContinueTask ==
  ASSUME NEW w \in Workers, NEW next, Continue(w, next), TypeOK
  PROVE  /\ task' \in {[task EXCEPT ![w] = next], [task EXCEPT ![w] = OnError(task[w])]}
         /\ throws' \in 0..MaxThrows
  BY BoundAssumption DEF Continue, TypeOK

\* A worker without a message has a task of the type.
LEMMA IdleType == Idle \in Task
  BY BoundAssumption DEF Idle, Task, Place

\* The error path leaves the message, the worker and the outbox in their types.
LEMMA OnErrorType ==
  ASSUME NEW t \in Task
  PROVE  OnError(t) \in Task
<1>1. CASE t.pc = "markSent"
  <2>1. OnError(t) = [t EXCEPT !.pc = "markUnknown"]
    BY <1>1 DEF OnError
  <2>2. QED
    BY <2>1 DEF Task, Place
<1>2. CASE t.pc = "fail"
  <2>1. OnError(t) = Idle
    BY <1>2 DEF OnError
  <2>2. QED
    BY <2>1, IdleType
<1>3. CASE t.pc \notin {"markSent", "fail"}
  <2>1. OnError(t) = [t EXCEPT !.pc = "fail", !.permanent = FALSE]
    BY <1>3 DEF OnError
  <2>2. QED
    BY <2>1 DEF Task, Place
<1>4. QED
  BY <1>1, <1>2, <1>3

\* So does every way on after a statement.
LEMMA ContinueType ==
  ASSUME NEW w \in Workers, NEW next \in Task, Continue(w, next), TypeOK
  PROVE  task' \in [Workers -> Task] /\ throws' \in 0..MaxThrows
<1>1. OnError(task[w]) \in Task
  BY OnErrorType DEF TypeOK
<1>2. /\ task' \in {[task EXCEPT ![w] = next], [task EXCEPT ![w] = OnError(task[w])]}
      /\ throws' \in 0..MaxThrows
  BY ContinueTask
<1>3. QED
  BY <1>1, <1>2 DEF TypeOK

\* A worker that moves to another place still holds a task.
LEMMA ToType ==
  ASSUME NEW w \in Workers, NEW pc \in Place, TypeOK
  PROVE  To(w, pc) \in Task
  BY DEF To, TypeOK, Task


\* What a statement of the repository writes is a row again.
LEMMA InboundRowType ==
  ASSUME NEW row \in InboundRow
  PROVE  /\ InsertedInbound \in InboundRow
         /\ row.attempts < AttemptLimit => Claimed(row) \in InboundRow
         /\ \A status \in InboundStatus : SetInboundStatus(row, status) \in InboundRow
         /\ MarkInboundUndeliverable(row) \in InboundRow
<1> USE BoundAssumption DEF InboundRow, InboundStatus
<1>1. InsertedInbound \in InboundRow
  BY DEF InsertedInbound
<1>2. row.attempts < AttemptLimit => Claimed(row) \in InboundRow
  BY DEF Claimed
<1>3. \A status \in InboundStatus : SetInboundStatus(row, status) \in InboundRow
  BY DEF SetInboundStatus
<1>4. MarkInboundUndeliverable(row) \in InboundRow
  BY DEF MarkInboundUndeliverable
<1>5. QED
  BY <1>1, <1>2, <1>3, <1>4

\* What a statement writes into the outbox is a row again.
LEMMA OutboxRowType ==
  ASSUME NEW row \in OutboxRow
  PROVE  /\ ReservedOutbox \in OutboxRow
         /\ row.attempts < AttemptLimit => RetriedOutbox(row) \in OutboxRow
         /\ \A id \in Nat : MarkOutboundSent(row, id) \in OutboxRow
         /\ MarkOutboundFailed(row) \in OutboxRow
         /\ MarkOutboundUnknown(row) \in OutboxRow
         /\ \A n \in Nat, s \in StatusKinds : UpdateOutboundStatus(row, n, s) \in OutboxRow
<1> USE BoundAssumption, SwitchAssumption DEF OutboxRow, OutboundStatus
<1>1. ReservedOutbox \in OutboxRow
  BY DEF ReservedOutbox
<1>2. ASSUME row.attempts < AttemptLimit
      PROVE  RetriedOutbox(row) \in OutboxRow
  <2>1. row.attempts + 1 \in 0..AttemptLimit
    BY <1>2
  <2>2. QED
    BY <2>1 DEF RetriedOutbox
<1>3. \A id \in Nat : MarkOutboundSent(row, id) \in OutboxRow
  BY DEF MarkOutboundSent
<1>4. MarkOutboundFailed(row) \in OutboxRow
  BY DEF MarkOutboundFailed
<1>5. MarkOutboundUnknown(row) \in OutboxRow
  BY DEF MarkOutboundUnknown
<1>6. \A n \in Nat, s \in StatusKinds : UpdateOutboundStatus(row, n, s) \in OutboxRow
  BY DEF UpdateOutboundStatus
<1>7. QED
  BY <1>1, <1>2, <1>3, <1>4, <1>5, <1>6

-----------------------------------------------------------------------------
(***************************************************************************)
(* Type correctness                                                        *)
(***************************************************************************)

\* A worker that is not idle has a message.
TasksKnown == \A w \in Workers : task[w].pc # "idle" => task[w].msg \in Messages

\* The actions of one worker keep every variable in its type.
LEMMA WorkType ==
  ASSUME TypeOK, TasksKnown, NEW w \in Workers, Work(w)
  PROVE  TypeOK'
<1> DEFINE m == task[w].msg
<1> USE DEF world, rows
<1>0. task[w] \in Task /\ \A pc \in Place : To(w, pc) \in Task
  BY ToType DEF TypeOK
<1>1. ASSUME task[w].pc # "idle"
      PROVE  m \in Messages /\ inbound[m] \in InboundRow /\ outbox[m] \in OutboxRow
  BY <1>1 DEF TypeOK, TasksKnown
<1>2. CASE ClaimInbound(w)
  <2>1. task' \in [Workers -> Task] /\ throws' \in 0..MaxThrows
    BY <1>0, <1>2, ContinueType, IdleType DEF ClaimInbound, Place
  <2>2. inbound' \in [Messages -> InboundRow]
    BY <1>1, <1>2, InboundRowType DEF ClaimInbound, ClaimInboundMatches, At, TypeOK
  <2>3. QED
    BY <2>1, <2>2, <1>2 DEF ClaimInbound, TypeOK
<1>3. CASE ConsumeUserLimit(w)
  BY <1>0, <1>3 DEF ConsumeUserLimit, TypeOK, Place
<1>4. CASE Deny(w)
  <2>1. task' \in [Workers -> Task] /\ throws' \in 0..MaxThrows
    BY <1>0, <1>4, ContinueType DEF Deny, Place
  <2>2. inbound' \in [Messages -> InboundRow]
    BY <1>1, <1>4, InboundRowType DEF Deny, At, TypeOK, InboundStatus
  <2>3. QED
    BY <2>1, <2>2, <1>4 DEF Deny, TypeOK
<1>5. CASE Route(w)
  BY <1>0, <1>5 DEF Route, TypeOK, Place
<1>6. CASE ReserveOutbound(w)
  <2>1. task' \in [Workers -> Task] /\ throws' \in 0..MaxThrows
    BY <1>0, <1>6, ContinueType DEF ReserveOutbound, NotReserved, Place
  <2>2. outbox' \in [Messages -> OutboxRow]
    BY <1>1, <1>6, OutboxRowType DEF ReserveOutbound, At, TypeOK
  <2>3. QED
    BY <2>1, <2>2, <1>6 DEF ReserveOutbound, TypeOK
<1>7. CASE RetryOutbound(w)
  <2>1. task' \in [Workers -> Task] /\ throws' \in 0..MaxThrows
    BY <1>0, <1>7, ContinueType DEF RetryOutbound, NotReserved, Place
  <2>2. outbox' \in [Messages -> OutboxRow]
    BY <1>1, <1>7, OutboxRowType DEF RetryOutbound, RetryMatches, At, TypeOK
  <2>3. QED
    BY <2>1, <2>2, <1>7 DEF RetryOutbound, TypeOK
<1>8. CASE Send(w)
  <2>1. m \in Messages /\ fate[m] \in Seq(Fates) /\ partial[m] \in Nat
    BY <1>1, <1>8 DEF Send, SendAccepted, SendRejected, SendUncertain, TypeOK, At
  <2>2. ASSUME NEW f \in Fates, SendAccepted(w, f)
        PROVE  TypeOK'
    <3>1. [To(w, "markSent") EXCEPT !.accepted = Len(fate[m]) + 1] \in Task
      <4>1. Len(fate[m]) + 1 \in Nat /\ To(w, "markSent") \in Task
        BY <1>0, <2>1 DEF Place
      <4>2. QED
        BY <4>1 DEF Task
    <3>2. Append(fate[m], f) \in Seq(Fates)
      BY <2>1
    <3>3. QED
      BY <2>2, <3>1, <3>2 DEF SendAccepted, TypeOK
  <2>3. ASSUME NEW permanent \in BOOLEAN, NEW opened \in BOOLEAN,
               SendRejected(w, permanent, opened)
        PROVE  TypeOK'
    <3>1. [To(w, "markFailed") EXCEPT !.permanent = permanent] \in Task
      BY <1>0 DEF Task, Place
    <3>2. partial' \in [Messages -> Nat]
      BY <2>1, <2>3 DEF SendRejected, TypeOK
    <3>3. QED
      BY <2>3, <3>1, <3>2 DEF SendRejected, TypeOK
  <2>4. ASSUME NEW reached \in {"all", "opening", "none"}, NEW f \in Fates,
               SendUncertain(w, reached, f)
        PROVE  TypeOK'
    <3>1. To(w, "markUnknown") \in Task
      BY <1>0 DEF Place
    <3>2. Append(fate[m], f) \in Seq(Fates)
      BY <2>1
    <3>3. fate' \in [Messages -> Seq(Fates)]
      BY <2>4, <3>2 DEF SendUncertain, TypeOK
    <3>4. partial' \in [Messages -> Nat]
      BY <2>1, <2>4 DEF SendUncertain, TypeOK
    <3>5. QED
      BY <2>4, <3>1, <3>3, <3>4 DEF SendUncertain, TypeOK
  <2>5. QED
    BY <1>8, <2>2, <2>3, <2>4 DEF Send
<1>9. CASE MarkSent(w)
  <2>1. [To(w, "finish") EXCEPT !.accepted = 0] \in Task
    BY <1>0 DEF Place, Task
  <2>2. task' \in [Workers -> Task] /\ throws' \in 0..MaxThrows
    BY <1>0, <1>9, <2>1, ContinueType DEF MarkSent, Place
  <2>3. outbox' \in [Messages -> OutboxRow]
    <3>1. task[w].accepted \in Nat
      BY <1>0 DEF Task
    <3>2. MarkOutboundSent(outbox[m], task[w].accepted) \in OutboxRow
      BY <1>1, <1>9, <3>1, OutboxRowType DEF MarkSent, At
    <3>3. QED
      BY <1>9, <3>2 DEF MarkSent, TypeOK
  <2>4. QED
    BY <2>2, <2>3, <1>9 DEF MarkSent, TypeOK
<1>10. CASE MarkUnknown(w)
  <2>1. [To(w, "finish") EXCEPT !.unknown = TRUE, !.accepted = 0] \in Task
    BY <1>0 DEF Place, Task
  <2>2. task' \in [Workers -> Task] /\ throws' \in 0..MaxThrows
    BY <1>10, <2>1, ContinueType DEF MarkUnknown
  <2>3. outbox' \in [Messages -> OutboxRow]
    BY <1>1, <1>10, OutboxRowType DEF MarkUnknown, At, TypeOK
  <2>4. QED
    BY <2>2, <2>3, <1>10 DEF MarkUnknown, TypeOK
<1>11. CASE MarkFailed(w)
  <2>1. task' \in [Workers -> Task] /\ throws' \in 0..MaxThrows
    BY <1>0, <1>11, ContinueType DEF MarkFailed, Place
  <2>2. outbox' \in [Messages -> OutboxRow]
    BY <1>1, <1>11, OutboxRowType DEF MarkFailed, At, TypeOK
  <2>3. QED
    BY <2>1, <2>2, <1>11 DEF MarkFailed, TypeOK
<1>12. CASE Finish(w)
  <2>1. task' \in [Workers -> Task] /\ throws' \in 0..MaxThrows
    BY <1>0, <1>12, ContinueType, IdleType DEF Finish, Place
  <2>2. inbound' \in [Messages -> InboundRow]
    BY <1>1, <1>12, InboundRowType DEF Finish, At, TypeOK, InboundStatus
  <2>3. QED
    BY <2>1, <2>2, <1>12 DEF Finish, TypeOK
<1>13. CASE Audit(w)
  <2>1. task' \in [Workers -> Task] /\ throws' \in 0..MaxThrows
    BY <1>13, ContinueType, IdleType DEF Audit
  <2>2. QED
    BY <2>1, <1>13 DEF Audit, TypeOK
<1>14. CASE Fail(w)
  <2>1. inbound' \in [Messages -> InboundRow]
    BY <1>1, <1>14, InboundRowType DEF Fail, At, TypeOK, InboundStatus
  <2>2. QED
    BY <2>1, <1>14, IdleType DEF Fail, TypeOK
<1>15. QED
  BY <1>2, <1>3, <1>4, <1>5, <1>6, <1>7, <1>8, <1>9, <1>10, <1>11, <1>12, <1>13,
     <1>14 DEF Work

\* Acceptance, recovery, Meta, the clock and crashes do too.
LEMMA EnvironmentType ==
  ASSUME TypeOK
  PROVE  /\ \A r \in Replicas :
              /\ \A m \in Messages : ReceiveWebhook(r, m) => TypeOK'
              /\ DrainClaim(r) => TypeOK'
              /\ DrainQueue(r) => TypeOK'
              /\ \A status \in {"failed", "ignored"} : DrainRelease(r, status) => TypeOK'
              /\ DrainAbandon(r) => TypeOK'
              /\ Crash(r) => TypeOK'
         /\ \A m \in Messages :
              /\ GrowStale(m) => TypeOK'
              /\ \A n \in 1..AttemptLimit, s \in StatusKinds, dropped \in BOOLEAN :
                   DeliveryStatus(m, n, s, dropped) => TypeOK'
         /\ \A w \in Workers : Pump(w) \/ Throw(w) => TypeOK'
<1> USE DEF world, rows, memory
<1>1. ASSUME NEW r \in Replicas
      PROVE  /\ \A m \in Messages : ReceiveWebhook(r, m) => TypeOK'
             /\ DrainClaim(r) => TypeOK'
             /\ DrainQueue(r) => TypeOK'
             /\ \A status \in {"failed", "ignored"} : DrainRelease(r, status) => TypeOK'
             /\ DrainAbandon(r) => TypeOK'
             /\ Crash(r) => TypeOK'
  <2>1. ASSUME NEW job \in Job
        PROVE  Enqueue(r, job) => queue' \in [Replicas -> Seq(Job)]
    <3>1. Append(queue[r], job) \in Seq(Job)
      BY DEF TypeOK
    <3>2. QED
      BY <3>1 DEF Enqueue, TypeOK
  <2>2. ASSUME NEW m \in Messages, ReceiveWebhook(r, m)
        PROVE  TypeOK'
    <3>1. queue' \in [Replicas -> Seq(Job)]
      <4>1. [msg |-> m, claimed |-> FALSE] \in Job
        BY DEF Job
      <4>2. QED
        BY <2>1, <2>2, <4>1 DEF ReceiveWebhook, TypeOK
    <3>2. inbound' \in [Messages -> InboundRow]
      <4>1. InsertedInbound \in InboundRow
        BY InboundRowType DEF TypeOK
      <4>2. QED
        BY <2>2, <4>1 DEF ReceiveWebhook, TypeOK
    <3>3. throws' \in 0..MaxThrows
      BY <2>2, BoundAssumption DEF ReceiveWebhook, TypeOK
    <3>4. QED
      BY <2>2, <3>1, <3>2, <3>3 DEF ReceiveWebhook, TypeOK
  <2>3. ASSUME DrainClaim(r)
        PROVE  TypeOK'
    <3>1. PICK m \in Messages :
            /\ inbound[m].attempts < AttemptLimit
            /\ inbound' = [inbound EXCEPT ![m] = Claimed(@)]
            /\ \/ drain' = [drain EXCEPT ![r] = m] /\ UNCHANGED throws
               \/ throws < MaxThrows /\ throws' = throws + 1 /\ UNCHANGED drain
      BY <2>3 DEF DrainClaim, ClaimNextMatches
    <3>2. Claimed(inbound[m]) \in InboundRow
      BY <3>1, InboundRowType DEF TypeOK
    <3>3. drain' \in [Replicas -> 0..MaxMessages] /\ throws' \in 0..MaxThrows
      <4>1. m \in 0..MaxMessages
        BY DEF Messages
      <4>2. throws' \in 0..MaxThrows
        BY <3>1, BoundAssumption DEF TypeOK
      <4>3. QED
        BY <3>1, <4>1, <4>2 DEF TypeOK
    <3>4. QED
      BY <2>3, <3>1, <3>2, <3>3 DEF DrainClaim, TypeOK
  <2>4. ASSUME DrainQueue(r)
        PROVE  TypeOK'
    <3>1. drain[r] \in Messages
      BY <2>4, BoundAssumption DEF DrainQueue, TypeOK, Messages
    <3>2. [msg |-> drain[r], claimed |-> TRUE] \in Job
      BY <3>1 DEF Job
    <3>3. queue' \in [Replicas -> Seq(Job)]
      BY <2>1, <2>4, <3>2 DEF DrainQueue
    <3>4. 0 \in 0..MaxMessages
      BY BoundAssumption
    <3>5. QED
      BY <2>4, <3>3, <3>4 DEF DrainQueue, TypeOK
  <2>5. ASSUME NEW status \in {"failed", "ignored"}, DrainRelease(r, status)
        PROVE  TypeOK'
    <3>1. drain[r] \in Messages
      BY <2>5, BoundAssumption DEF DrainRelease, TypeOK, Messages
    <3>2. SetInboundStatus(inbound[drain[r]], status) \in InboundRow
      BY <3>1, InboundRowType DEF TypeOK, InboundStatus
    <3>3. throws' \in 0..MaxThrows
      BY <2>5, BoundAssumption DEF DrainRelease, TypeOK
    <3>4. QED
      BY <2>5, <3>1, <3>2, <3>3, BoundAssumption DEF DrainRelease, TypeOK
  <2>6. DrainAbandon(r) => TypeOK'
    BY BoundAssumption DEF DrainAbandon, TypeOK
  <2>7. ASSUME Crash(r)
        PROVE  TypeOK'
    <3>1. task' \in [Workers -> Task]
      BY <2>7, IdleType DEF Crash, TypeOK
    <3>2. queue' \in [Replicas -> Seq(Job)]
      BY <2>7 DEF Crash, TypeOK
    <3>3. QED
      BY <2>7, <3>1, <3>2, BoundAssumption DEF Crash, TypeOK
  <2>8. QED
    BY <2>2, <2>3, <2>4, <2>5, <2>6, <2>7
<1>2. ASSUME NEW m \in Messages, GrowStale(m)
      PROVE  TypeOK'
  <2>1. [inbound[m] EXCEPT !.stale = TRUE] \in InboundRow
    BY DEF TypeOK, InboundRow
  <2>2. QED
    BY <1>2, <2>1 DEF GrowStale, TypeOK
<1>3. ASSUME NEW m \in Messages, NEW n \in 1..AttemptLimit, NEW s \in StatusKinds,
             NEW dropped \in BOOLEAN, DeliveryStatus(m, n, s, dropped)
      PROVE  TypeOK'
  <2>1. n \in Nat
    BY BoundAssumption
  <2>2. UpdateOutboundStatus(outbox[m], n, s) \in OutboxRow
    BY <2>1, OutboxRowType DEF TypeOK
  <2>3. seen' \in [Messages -> SUBSET (Nat \X StatusKinds)]
    BY <1>3, <2>1 DEF DeliveryStatus, TypeOK
  <2>4. QED
    BY <1>3, <2>2, <2>3 DEF DeliveryStatus, TypeOK
<1>4. ASSUME NEW w \in Workers, Pump(w)
      PROVE  TypeOK'
  <2> DEFINE r == Host[w]
  <2>1. r \in Replicas /\ queue[r] \in Seq(Job) /\ queue[r] # <<>>
    BY <1>4, ReplicaAssumption DEF Pump, TypeOK
  <2>2. Head(queue[r]) \in Job /\ Tail(queue[r]) \in Seq(Job)
    BY <2>1
  <2>3. Head(queue[r]).msg \in 0..MaxMessages
    BY <2>2 DEF Job, Messages
  <2>4. [Idle EXCEPT !.pc = IF Head(queue[r]).claimed THEN "limit" ELSE "claim",
                     !.msg = Head(queue[r]).msg] \in Task
    BY <2>3, IdleType DEF Task, Place
  <2>5. QED
    BY <1>4, <2>1, <2>2, <2>4 DEF Pump, TypeOK
<1>5. ASSUME NEW w \in Workers, Throw(w)
      PROVE  TypeOK'
  <2>1. OnError(task[w]) \in Task
    BY OnErrorType DEF TypeOK
  <2>2. QED
    BY <1>5, <2>1, BoundAssumption DEF Throw, TypeOK
<1>6. QED
  BY <1>1, <1>2, <1>3, <1>4, <1>5

\* What the next task of a worker is: nothing, or more work on its message.
LEMMA OnErrorKeeps ==
  ASSUME NEW t \in Task
  PROVE  OnError(t).pc = "idle" \/ OnError(t).msg = t.msg
<1>1. CASE t.pc = "markSent"
  BY <1>1 DEF OnError, Task
<1>2. CASE t.pc = "fail"
  BY <1>2 DEF OnError, Idle
<1>3. CASE t.pc \notin {"markSent", "fail"}
  <2>1. OnError(t) = [t EXCEPT !.pc = "fail", !.permanent = FALSE]
    BY <1>3 DEF OnError
  <2>2. QED
    BY <2>1 DEF Task
<1>4. QED
  BY <1>1, <1>2, <1>3

LEMMA WorkKeeps ==
  ASSUME TypeOK, NEW w \in Workers, Work(w) \/ Throw(w)
  PROVE  /\ task[w].pc # "idle"
         /\ \E next : /\ task' = [task EXCEPT ![w] = next]
                      /\ next.pc = "idle" \/ next.msg = task[w].msg
<1>1. task[w] \in Task
  BY DEF TypeOK
<1>2. task[w].pc # "idle"
  BY DEF Work, ClaimInbound, ConsumeUserLimit, Deny, Route, ReserveOutbound, RetryOutbound, Send,
    SendAccepted, SendRejected, SendUncertain, MarkSent, MarkUnknown, MarkFailed, Finish, Audit,
    Fail, Throw, At, Statements
<1>3. OnError(task[w]).pc = "idle" \/ OnError(task[w]).msg = task[w].msg
  BY <1>1, OnErrorKeeps
<1>4. \A pc : To(w, pc).msg = task[w].msg
  BY <1>1 DEF To, Task
<1> DEFINE Keeps == \E next : /\ task' = [task EXCEPT ![w] = next]
                              /\ next.pc = "idle" \/ next.msg = task[w].msg
<1>5. ASSUME NEW next, next.pc = "idle" \/ next.msg = task[w].msg,
             task' = [task EXCEPT ![w] = next] \/ Continue(w, next)
      PROVE  Keeps
  BY <1>3, <1>5 DEF Continue
<1>6. Keeps
  <2> HIDE DEF Keeps
  <2>1. Idle.pc = "idle"
    BY DEF Idle
  <2>2. CASE ClaimInbound(w)
    BY <1>4, <1>5, <2>1, <2>2 DEF ClaimInbound
  <2>3. CASE ConsumeUserLimit(w) \/ Route(w)
    BY <1>4, <1>5, <2>3 DEF ConsumeUserLimit, Route
  <2>4. CASE Deny(w) \/ MarkFailed(w)
    BY <1>4, <1>5, <2>4 DEF Deny, MarkFailed
  <2>5. CASE ReserveOutbound(w) \/ RetryOutbound(w)
    BY <1>4, <1>5, <2>5 DEF ReserveOutbound, RetryOutbound, NotReserved
  <2>6. CASE Finish(w) \/ Audit(w) \/ Fail(w)
    BY <1>4, <1>5, <2>1, <2>6 DEF Finish, Audit, Fail
  <2>7. CASE Throw(w)
    BY <1>3, <1>5, <2>7 DEF Throw
  <2>8. CASE MarkSent(w)
    <3>1. [To(w, "finish") EXCEPT !.accepted = 0].msg = task[w].msg
      BY <1>1 DEF To, Task
    <3>2. QED
      BY <1>4, <1>5, <2>8, <3>1 DEF MarkSent
  <2>9. CASE MarkUnknown(w)
    <3>1. [To(w, "finish") EXCEPT !.unknown = TRUE, !.accepted = 0].msg = task[w].msg
      BY <1>1 DEF To, Task
    <3>2. QED
      BY <1>5, <2>9, <3>1 DEF MarkUnknown
  <2>10. CASE Send(w)
    <3>1. \A n : [To(w, "markSent") EXCEPT !.accepted = n].msg = task[w].msg
      BY <1>1 DEF To, Task
    <3>2. \A b : [To(w, "markFailed") EXCEPT !.permanent = b].msg = task[w].msg
      BY <1>1 DEF To, Task
    <3>3. PICK next : next.msg = task[w].msg /\ task' = [task EXCEPT ![w] = next]
      <4>1. CASE \E f \in Fates : SendAccepted(w, f)
        BY <3>1, <4>1 DEF SendAccepted
      <4>2. CASE \E permanent, opened \in BOOLEAN : SendRejected(w, permanent, opened)
        BY <3>2, <4>2 DEF SendRejected
      <4>3. CASE \E reached \in {"all", "opening", "none"}, f \in Fates : SendUncertain(w, reached, f)
        BY <1>4, <4>3 DEF SendUncertain
      <4>4. QED
        BY <2>10, <4>1, <4>2, <4>3 DEF Send
    <3>4. QED
      BY <1>5, <3>3
  <2>11. QED
    BY <2>2, <2>3, <2>4, <2>5, <2>6, <2>7, <2>8, <2>9, <2>10 DEF Work
<1>7. QED
  BY <1>2, <1>6

\* The invariant that needs nothing of the environment.
Known == TypeOK /\ TasksKnown

LEMMA KnownInit == Init => Known
<1> SUFFICES ASSUME Init PROVE Known
  OBVIOUS
<1>1. TypeOK
  BY IdleType, BoundAssumption
  DEF Init, TypeOK, NoInbound, NoOutbox, InboundRow, OutboxRow, InboundStatus, OutboundStatus
<1>2. TasksKnown
  BY DEF Init, Idle, TasksKnown
<1>3. QED
  BY <1>1, <1>2 DEF Known

LEMMA KnownNext ==
  ASSUME Known, [Next]_vars
  PROVE  Known'
<1>1. TypeOK /\ TasksKnown
  BY DEF Known
<1>2. CASE UNCHANGED vars
  BY <1>1, <1>2 DEF vars, Known, TypeOK, TasksKnown
<1>3. TypeOK' \/ UNCHANGED vars
  BY <1>1, WorkType, EnvironmentType DEF Next
<1>4. CASE task' = task
  BY <1>1, <1>2, <1>3, <1>4 DEF Known, TasksKnown
<1>5. ASSUME NEW w \in Workers, Work(w) \/ Throw(w)
      PROVE  TasksKnown'
  <2>1. task[w].pc # "idle"
    BY <1>1, <1>5, WorkKeeps
  <2>2. PICK next : /\ task' = [task EXCEPT ![w] = next]
                    /\ next.pc = "idle" \/ next.msg = task[w].msg
    BY <1>1, <1>5, WorkKeeps
  <2>3. QED
    BY <1>1, <2>1, <2>2 DEF TasksKnown, TypeOK
<1>6. ASSUME NEW w \in Workers, Pump(w)
      PROVE  TasksKnown'
  <2>1. Head(queue[Host[w]]).msg \in Messages
    <3>1. queue[Host[w]] \in Seq(Job) /\ queue[Host[w]] # <<>>
      BY <1>1, <1>6, ReplicaAssumption DEF Pump, TypeOK
    <3>2. Head(queue[Host[w]]) \in Job
      BY <3>1
    <3>3. QED
      BY <3>2 DEF Job
  <2>2. QED
    BY <1>1, <1>6, <2>1 DEF Pump, TasksKnown, TypeOK, Idle
<1>7. ASSUME NEW r \in Replicas, Crash(r)
      PROVE  TasksKnown'
  BY <1>1, <1>7 DEF Crash, TasksKnown, Idle
<1>8. ASSUME Next
      PROVE  \/ task' = task
             \/ \E w \in Workers : Pump(w) \/ Work(w) \/ Throw(w)
             \/ \E r \in Replicas : Crash(r)
  BY <1>8 DEF Next, ReceiveWebhook, DrainClaim, DrainQueue, DrainRelease, DrainAbandon, GrowStale,
    DeliveryStatus, memory
<1>9. QED
  BY <1>1, <1>2, <1>3, <1>4, <1>5, <1>6, <1>7, <1>8 DEF Known

-----------------------------------------------------------------------------
(***************************************************************************)
(* The reply reaches the user at most once                                 *)
(***************************************************************************)

\* What is assumed of replies and of Meta: a reply fits in one WhatsApp
\* message, and no delivery status is delivered twice.
OnceEnvironment == Chunks = 1 /\ ~RepeatedStatuses

IInv == TypeOK /\ SendSound

\* A task that neither sends nor has a send to record.
Quiet(t) ==
  /\ t.pc \notin {"send", "markSent", "markFailed"}
  /\ t.accepted # 0 => t.pc \in {"markUnknown", "fail"}
  /\ t.pc # "idle" => t.msg \in Messages

\* A step that leaves replies, outbox rows and statuses alone, and in which no
\* worker starts sending, keeps the delivery invariant.
LEMMA QuietStep ==
  ASSUME IInv, TypeOK',
         UNCHANGED <<outbox, fate, seen, partial>>,
         \A w \in Workers : task'[w] = task[w] \/ Quiet(task'[w])
  PROVE  SendSound'
<1> USE DEF IInv, SendSound, Quiet
<1>1. \A w \in Workers, m \in Messages : Sending(w, m)' => Sending(w, m) /\ task'[w] = task[w]
  BY DEF Sending
<1>2. \A m \in Messages, n \in Nat : Alive(m, n)' <=> Alive(m, n)
  BY DEF Alive
<1>3. OneSender'
  BY <1>1 DEF OneSender
<1>4. RetryIsSafe'
  BY <1>1, <1>2 DEF RetryIsSafe, TypeOK, Task, Alive
<1>5. NoStrayFailure'
  BY <1>1, <1>2 DEF NoStrayFailure, FailureUsed, Alive
<1>6. AcceptedIsCurrent'
  BY DEF AcceptedIsCurrent
<1>7. OneCopy'
  BY <1>2 DEF OneCopy, Alive
<1>8. QED
  BY <1>3, <1>4, <1>5, <1>6, <1>7

\* An error takes a worker to a quiet place.
LEMMA OnErrorQuiet ==
  ASSUME IInv, NEW w \in Workers, task[w].pc \in Statements
  PROVE  Quiet(OnError(task[w]))
<1> DEFINE t == task[w]
<1>1. t \in Task /\ t.msg \in Messages
  BY DEF IInv, TypeOK, SendSound, AcceptedIsCurrent, Statements
<1>2. CASE t.pc = "markSent"
  <2>1. OnError(t) = [t EXCEPT !.pc = "markUnknown"]
    BY <1>2 DEF OnError
  <2>2. QED
    BY <1>1, <2>1 DEF Quiet, Task
<1>3. CASE t.pc = "fail"
  <2>1. OnError(t) = Idle
    BY <1>3 DEF OnError
  <2>2. QED
    BY <2>1 DEF Quiet, Idle
<1>4. CASE t.pc \notin {"markSent", "fail"}
  <2>1. OnError(t) = [t EXCEPT !.pc = "fail", !.permanent = FALSE]
    BY <1>4 DEF OnError
  <2>2. QED
    BY <1>1, <2>1 DEF Quiet, Task
<1>5. QED
  BY <1>2, <1>3, <1>4

\* The steps of a worker between which and Meta nothing passes.
LEMMA QuietWork ==
  ASSUME IInv, TypeOK', NEW w \in Workers,
         \/ ClaimInbound(w) \/ ConsumeUserLimit(w) \/ Deny(w) \/ Route(w)
         \/ Finish(w) \/ Audit(w) \/ Fail(w) \/ Throw(w)
  PROVE  SendSound'
<1> DEFINE t == task[w]
<1>1. /\ t \in Task /\ t.pc # "idle" /\ t.msg \in Messages
      /\ t.accepted # 0 => t.pc \in {"markSent", "markUnknown", "fail"}
  BY DEF IInv, TypeOK, SendSound, AcceptedIsCurrent, ClaimInbound, ConsumeUserLimit,
         Deny, Route, Finish, Audit, Fail, Throw, At, Statements
<1>2. UNCHANGED <<outbox, fate, seen, partial>>
  BY DEF ClaimInbound, ConsumeUserLimit, Deny, Route, Finish, Audit, Fail, Throw, world,
         rows
<1>3. Quiet(Idle)
  BY DEF Quiet, Idle
<1>4. \A pc \in {"limit", "deny", "route", "reserve", "audit"} :
        t.pc \notin {"markSent", "markUnknown", "fail"} => Quiet(To(w, pc))
  BY <1>1 DEF Quiet, To, Task
<1>5. t.pc = "route" => Quiet(To(w, "fail"))
  BY <1>1 DEF Quiet, To, Task
<1>6. t.pc \in Statements => Quiet(OnError(t))
  BY OnErrorQuiet
<1>7. \E next : Quiet(next) /\ task' = [task EXCEPT ![w] = next]
  <2>1. CASE ClaimInbound(w)
    BY <1>3, <1>4, <1>6, <2>1 DEF ClaimInbound, Continue, At, Statements
  <2>2. CASE ConsumeUserLimit(w)
    BY <1>4, <2>2 DEF ConsumeUserLimit, At
  <2>3. CASE Deny(w)
    BY <1>4, <1>6, <2>3 DEF Deny, Continue, At, Statements
  <2>4. CASE Route(w)
    BY <1>4, <1>5, <2>4 DEF Route, At
  <2>5. CASE Finish(w)
    BY <1>3, <1>4, <1>6, <2>5 DEF Finish, Continue, At, Statements
  <2>6. CASE Audit(w)
    BY <1>3, <1>6, <2>6 DEF Audit, Continue, At, Statements
  <2>7. CASE Fail(w)
    BY <1>3, <2>7 DEF Fail
  <2>8. CASE Throw(w)
    BY <1>6, <2>8 DEF Throw
  <2>9. QED
    BY <2>1, <2>2, <2>3, <2>4, <2>5, <2>6, <2>7, <2>8
<1>8. QED
  BY <1>2, <1>7, QuietStep DEF IInv, TypeOK

\* Begin a delivery, or find that none may be begun.
LEMMA ReserveStep ==
  ASSUME IInv, TypeOK', NEW w \in Workers, ReserveOutbound(w) \/ RetryOutbound(w)
  PROVE  SendSound'
<1> DEFINE m == task[w].msg
           t == task[w]
<1>1. /\ t \in Task /\ m \in Messages /\ t.accepted = 0 /\ t.pc \in Statements
      /\ t.pc \in {"reserve", "retry"}
  BY DEF IInv, TypeOK, SendSound, AcceptedIsCurrent, ReserveOutbound, RetryOutbound, At,
         Statements
<1>2. Quiet(OnError(t))
  BY <1>1, OnErrorQuiet
<1>3. UNCHANGED <<fate, seen, partial>>
  BY DEF ReserveOutbound, RetryOutbound, world
<1>4. \A pc \in {"retry", "finish", "markUnknown"} : Quiet(To(w, pc))
  BY <1>1 DEF Quiet, To, Task
<1>5. \/ outbox' = outbox /\ \E next : Quiet(next) /\ task' = [task EXCEPT ![w] = next]
      \/ /\ outbox[m].status \in {"none", "failed"}
         /\ \E row : /\ row.status = "sending"
                     /\ row.external = 0 \/ (/\ row.external = outbox[m].external
                                              /\ outbox[m].status = "failed")
                     /\ outbox' = [outbox EXCEPT ![m] = row]
         /\ \E next : /\ Quiet(next) \/ next = To(w, "send")
                      /\ task' = [task EXCEPT ![w] = next]
  <2>1. CASE ReserveOutbound(w) /\ outbox[m].status = "none"
    <3>1. /\ outbox' = [outbox EXCEPT ![m] = ReservedOutbox]
          /\ task' = [task EXCEPT ![w] = To(w, "send")] \/ task' = [task EXCEPT ![w] = OnError(t)]
      BY <2>1 DEF ReserveOutbound, Continue
    <3>2. ReservedOutbox.status = "sending" /\ ReservedOutbox.external = 0
      BY DEF ReservedOutbox
    <3>3. QED
      BY <1>2, <2>1, <3>1, <3>2
  <2>2. CASE ReserveOutbound(w) /\ outbox[m].status # "none"
    BY <1>2, <1>4, <2>2 DEF ReserveOutbound, Continue, NotReserved
  <2>3. CASE RetryOutbound(w) /\ RetryMatches(outbox[m])
    <3>1. /\ outbox' = [outbox EXCEPT ![m] = RetriedOutbox(outbox[m])]
          /\ task' = [task EXCEPT ![w] = To(w, "send")] \/ task' = [task EXCEPT ![w] = OnError(t)]
      BY <2>3 DEF RetryOutbound, Continue
    <3>2. /\ RetriedOutbox(outbox[m]).status = "sending"
          /\ RetriedOutbox(outbox[m]).external = outbox[m].external
      BY DEF RetriedOutbox
    <3>3. QED
      BY <1>2, <2>3, <3>1, <3>2 DEF RetryMatches
  <2>4. CASE RetryOutbound(w) /\ ~RetryMatches(outbox[m])
    BY <1>2, <1>4, <2>4 DEF RetryOutbound, Continue, NotReserved
  <2>5. QED
    BY <2>1, <2>2, <2>3, <2>4
<1>6. CASE outbox' = outbox /\ \E next : Quiet(next) /\ task' = [task EXCEPT ![w] = next]
  BY <1>3, <1>6, QuietStep DEF IInv, TypeOK
<1>7. CASE /\ outbox[m].status \in {"none", "failed"}
           /\ \E row : /\ row.status = "sending"
                       /\ row.external = 0 \/ (/\ row.external = outbox[m].external
                                                /\ outbox[m].status = "failed")
                       /\ outbox' = [outbox EXCEPT ![m] = row]
           /\ \E next : /\ Quiet(next) \/ next = To(w, "send")
                        /\ task' = [task EXCEPT ![w] = next]
  <2>1. /\ outbox'[m].status = "sending"
        /\ outbox'[m].external # 0 => outbox'[m].external = outbox[m].external
                                       /\ outbox[m].status = "failed"
        /\ \A k \in Messages : k # m => outbox'[k] = outbox[k]
    BY <1>1, <1>7 DEF IInv, TypeOK
  <2>2. /\ \A v \in Workers : v # w => task'[v] = task[v]
        /\ Quiet(task'[w]) \/ /\ task'[w].msg = m /\ task'[w].pc = "send"
                              /\ task'[w].accepted = 0
    BY <1>1, <1>7 DEF IInv, TypeOK, To, Task
  <2>3. \A v \in Workers : ~Sending(v, m)
    BY <1>1, <1>7 DEF IInv, SendSound, OneSender
  <2>4. ~Alive(m, 0)
    BY <1>1, <1>7 DEF IInv, SendSound, RetryIsSafe
  <2>5. \A v \in Workers, k \in Messages :
          Sending(v, k)' =>
            \/ Sending(v, k) /\ task'[v] = task[v] /\ k # m
            \/ v = w /\ k = m /\ task'[w].accepted = 0
    BY <2>2, <2>3 DEF Sending, Quiet
  <2>6. OneSender'
    BY <2>1, <2>5 DEF IInv, SendSound, OneSender
  <2>7. RetryIsSafe'
    BY <1>3, <2>1, <2>4, <2>5 DEF IInv, SendSound, RetryIsSafe, Alive
  <2>8. NoStrayFailure'
    <3>1. outbox'[m].external # 0 => FailureUsed(m)
      BY <1>1, <2>1 DEF IInv, SendSound, NoStrayFailure
    <3>2. QED
      BY <1>3, <2>1, <2>5, <3>1
      DEF IInv, SendSound, NoStrayFailure, FailureUsed, Alive
  <2>9. AcceptedIsCurrent' /\ OneCopy'
    BY <1>1, <1>3, <2>2 DEF IInv, SendSound, AcceptedIsCurrent, OneCopy, Alive, Quiet
  <2>10. QED
    BY <2>6, <2>7, <2>8, <2>9 DEF SendSound
<1>8. QED
  BY <1>5, <1>6, <1>7

\* What an appended fate changes: only the index one past the end.
LEMMA Appending ==
  ASSUME NEW S, NEW s \in Seq(S), NEW t, t = s \/ \E f \in S : t = Append(s, f)
  PROVE  /\ DOMAIN s = 1..Len(s)
         /\ \A n \in DOMAIN s : n \in DOMAIN t /\ t[n] = s[n]
         /\ \A n \in DOMAIN t : n \in DOMAIN s \/ n = Len(s) + 1
         /\ t # s => Len(s) + 1 \in DOMAIN t
         /\ \A f \in S : t = Append(s, f) => Len(s) + 1 \in DOMAIN t
  OBVIOUS

\* The send itself: the worker is the only one, and no earlier reply is alive.
LEMMA SendStep ==
  ASSUME IInv, TypeOK', OnceEnvironment, NEW w \in Workers, Send(w)
  PROVE  SendSound'
<1> DEFINE m == task[w].msg
           t == task[w]
<1>1. t \in Task /\ m \in Messages /\ t.accepted = 0 /\ t.pc = "send"
      /\ fate[m] \in Seq(Fates)
  BY DEF IInv, TypeOK, SendSound, AcceptedIsCurrent, Send, SendAccepted, SendRejected,
         SendUncertain, At
<1>2. /\ outbox[m].status \notin {"none", "failed"}
      /\ \A v \in Workers : Sending(v, m) => v = w
      /\ ~Alive(m, 0)
      /\ outbox[m].external # 0 => FailureUsed(m)
  BY <1>1 DEF IInv, SendSound, OneSender, RetryIsSafe, NoStrayFailure, Sending
<1>3. UNCHANGED <<outbox, seen, partial>>
  BY DEF Send, SendAccepted, SendRejected, SendUncertain, OnceEnvironment, rows
<1>4. /\ \A k \in Messages : k # m => fate'[k] = fate[k]
      /\ \/ fate'[m] = fate[m]
         \/ \E f \in Fates : fate'[m] = Append(fate[m], f)
      /\ \A v \in Workers : v # w => task'[v] = task[v]
      /\ task'[w].msg = m
      /\ \/ task'[w].pc = "markSent" /\ task'[w].accepted = Len(fate[m]) + 1
           /\ \E f \in Fates : fate'[m] = Append(fate[m], f)
         \/ task'[w].pc = "markFailed" /\ task'[w].accepted = 0 /\ fate'[m] = fate[m]
         \/ task'[w].pc = "markUnknown" /\ task'[w].accepted = 0
  <2>1. \A pc \in {"markSent", "markFailed", "markUnknown"} :
          To(w, pc).pc = pc /\ To(w, pc).msg = m /\ To(w, pc).accepted = 0
    BY <1>1 DEF To, Task
  <2>2. CASE \E f \in Fates : SendAccepted(w, f)
    BY <1>1, <2>1, <2>2 DEF SendAccepted, IInv, TypeOK, To, Task
  <2>3. CASE \E permanent, opened \in BOOLEAN : SendRejected(w, permanent, opened)
    BY <1>1, <2>1, <2>3 DEF SendRejected, IInv, TypeOK, To, Task
  <2>4. CASE \E reached \in {"all", "opening", "none"}, f \in Fates : SendUncertain(w, reached, f)
    BY <1>1, <2>1, <2>4 DEF SendUncertain, IInv, TypeOK
  <2>5. QED
    BY <2>2, <2>3, <2>4 DEF Send
<1>5. \A v \in Workers, k \in Messages :
        Sending(v, k)' =>
          \/ Sending(v, k) /\ task'[v] = task[v] /\ k # m /\ v # w
          \/ v = w /\ k = m
  BY <1>1, <1>2, <1>4 DEF Sending
<1>6. /\ DOMAIN fate[m] = 1..Len(fate[m])
      /\ \A n \in DOMAIN fate[m] : n \in DOMAIN fate'[m] /\ fate'[m][n] = fate[m][n]
                                  /\ fate[m][n] # "delivered"
      /\ \A n \in DOMAIN fate'[m] : n \in DOMAIN fate[m] \/ n = Len(fate[m]) + 1
      /\ \A f \in Fates : fate'[m] = Append(fate[m], f)
           => Len(fate[m]) + 1 \in DOMAIN fate'[m]
  <2>1. fate[m] \in Seq(Fates)
    BY <1>1
  <2>2. fate'[m] = fate[m] \/ \E f \in Fates : fate'[m] = Append(fate[m], f)
    BY <1>4
  <2>3. \A n \in DOMAIN fate[m] : fate[m][n] # "delivered"
    <3>1. \A n \in DOMAIN fate[m] : n # 0
      BY <2>1
    <3>2. QED
      BY <1>2, <3>1 DEF Alive
  <2>4. /\ DOMAIN fate[m] = 1..Len(fate[m])
        /\ \A n \in DOMAIN fate[m] : n \in DOMAIN fate'[m] /\ fate'[m][n] = fate[m][n]
    <3> HIDE DEF m
    <3> QED
      BY <2>1, <2>2, Appending, Zenon
  <2>5. /\ \A n \in DOMAIN fate'[m] : n \in DOMAIN fate[m] \/ n = Len(fate[m]) + 1
        /\ \A f \in Fates : fate'[m] = Append(fate[m], f)
             => Len(fate[m]) + 1 \in DOMAIN fate'[m]
    <3> HIDE DEF m
    <3> QED
      BY <2>1, <2>2, Appending, Zenon
  <2>6. QED
    BY <2>3, <2>4, <2>5, Zenon
<1>7. OneSender'
  BY <1>2, <1>3, <1>5 DEF IInv, SendSound, OneSender
<1>8. RetryIsSafe'
  <2>1. \A j \in DOMAIN fate'[m] : j # Len(fate[m]) + 1 => fate'[m][j] # "delivered"
    BY <1>6
  <2>2. fate'[m] = fate[m] => \A j \in DOMAIN fate'[m] : fate'[m][j] # "delivered"
    BY <1>6
  <2>3. task'[w].pc \in {"markSent", "markFailed"} =>
          \A j \in DOMAIN fate'[m] : j # task'[w].accepted => fate'[m][j] # "delivered"
    BY <1>4, <2>1, <2>2
  <2>4. \A k \in Messages, n \in Nat : k # m => (Alive(k, n)' <=> Alive(k, n))
    BY <1>4 DEF Alive
  <2>5. QED
    <3>1. \A k \in Messages : outbox'[k].status \in {"none", "failed"} => ~Alive(k, 0)'
      BY <1>2, <1>3, <2>4 DEF IInv, SendSound, RetryIsSafe
    <3>2. ASSUME NEW k \in Messages, NEW v \in Workers, Sending(v, k)'
          PROVE  ~Alive(k, task[v].accepted)'
      <4>1. CASE v = w /\ k = m
        BY <1>4, <2>3, <3>2, <4>1 DEF Sending, Alive
      <4>2. CASE Sending(v, k) /\ task'[v] = task[v] /\ k # m /\ v # w
        BY <2>4, <4>2 DEF IInv, SendSound, RetryIsSafe, TypeOK, Task
      <4>3. QED
        BY <1>5, <3>2, <4>1, <4>2
    <3>3. QED
      BY <3>1, <3>2 DEF RetryIsSafe
<1>9. NoStrayFailure'
  <2>1. \A k \in Messages : FailureUsed(k)' <=> FailureUsed(k)
    BY <1>3 DEF FailureUsed
  <2>2. ASSUME NEW k \in Messages, outbox'[k].external # 0, ~FailureUsed(k)'
        PROVE  /\ k # m /\ outbox'[k] = outbox[k] /\ fate'[k] = fate[k]
               /\ outbox[k].external # 0 /\ ~FailureUsed(k)
    <3>1. outbox'[k] = outbox[k] /\ ~FailureUsed(k)
      BY <1>3, <2>1, <2>2
    <3>2. k # m
      BY <1>2, <2>2, <3>1
    <3>3. QED
      BY <1>4, <2>2, <3>1, <3>2
  <2>3. ASSUME NEW k \in Messages, outbox'[k].external # 0, ~FailureUsed(k)'
        PROVE  /\ outbox'[k].status \in {"sent", "delivered", "read"}
               /\ outbox'[k].external \in DOMAIN fate'[k]
               /\ \A j \in DOMAIN fate'[k] :
                    j = outbox'[k].external \/ fate'[k][j] # "delivered"
               /\ \A v \in Workers : ~Sending(v, k)'
    <3>1. /\ outbox[k].status \in {"sent", "delivered", "read"}
          /\ outbox[k].external \in DOMAIN fate[k]
          /\ ~Alive(k, outbox[k].external)
          /\ \A v \in Workers : ~Sending(v, k)
      BY <2>2, <2>3 DEF IInv, SendSound, NoStrayFailure
    <3>2. \A j \in DOMAIN fate[k] : j = outbox[k].external \/ fate[k][j] # "delivered"
      BY <3>1 DEF Alive
    <3>3. \A v \in Workers : ~Sending(v, k)'
      BY <1>5, <2>2, <2>3, <3>1
    <3>4. QED
      BY <2>2, <2>3, <3>1, <3>2, <3>3
  <2>4. QED
    BY <2>3 DEF NoStrayFailure, Alive
<1>10. AcceptedIsCurrent'
  <2>1. \A v \in Workers : v # w /\ task[v].pc = "markSent" => task[v].msg # m
    BY <1>2 DEF Sending
  <2>2. ASSUME NEW v \in Workers
        PROVE  /\ task'[v].accepted # 0 => task'[v].pc \in {"markSent", "markUnknown", "fail"}
               /\ task'[v].pc = "markSent" =>
                    task'[v].accepted \in DOMAIN fate'[task'[v].msg]
               /\ task'[v].pc # "idle" => task'[v].msg \in Messages
    <3>1. CASE v = w
      BY <1>1, <1>4, <1>6, <3>1
    <3>2. CASE v # w
      <4>1. task'[v] = task[v]
        BY <1>4, <3>2
      <4>2. task[v].pc = "markSent" => fate'[task[v].msg] = fate[task[v].msg]
        BY <1>4, <2>1, <3>2 DEF IInv, SendSound, AcceptedIsCurrent
      <4>3. QED
        BY <4>1, <4>2 DEF IInv, SendSound, AcceptedIsCurrent
    <3>3. QED
      BY <3>1, <3>2
  <2>3. QED
    BY <2>2 DEF AcceptedIsCurrent
<1>11. OneCopy'
  <2>1. \A k \in Messages : partial'[k] = 0
    BY <1>3 DEF IInv, SendSound, OneCopy
  <2>2. ASSUME NEW k \in Messages, NEW n \in DOMAIN fate'[k], fate'[k][n] = "delivered"
        PROVE  \A j \in DOMAIN fate'[k] : j = n \/ fate'[k][j] # "delivered"
    <3>1. CASE k = m
      <4>1. n = Len(fate[m]) + 1
        BY <1>6, <2>2, <3>1
      <4>2. \A j \in DOMAIN fate'[m] : j # n => fate'[m][j] # "delivered"
        BY <1>6, <4>1
      <4>3. QED
        BY <3>1, <4>2
    <3>2. CASE k # m
      BY <1>4, <2>2, <3>2 DEF IInv, SendSound, OneCopy, Alive
    <3>3. QED
      BY <3>1, <3>2
  <2>3. QED
    BY <2>1, <2>2 DEF OneCopy, Alive
<1>12. QED
  BY <1>7, <1>8, <1>9, <1>10, <1>11 DEF SendSound

\* Recording what a send did.
LEMMA RecordStep ==
  ASSUME IInv, TypeOK', NEW w \in Workers, MarkSent(w) \/ MarkFailed(w) \/ MarkUnknown(w)
  PROVE  SendSound'
<1> DEFINE t == task[w]
<1>0. PICK m \in Messages : m = task[w].msg
  BY DEF IInv, SendSound, AcceptedIsCurrent, MarkSent, MarkFailed, MarkUnknown, At
<1>1. /\ t \in Task /\ t.msg = m /\ t.pc \in Statements
      /\ t.pc \in {"markSent", "markFailed", "markUnknown"}
      /\ t.pc = "markFailed" => t.accepted = 0
  BY <1>0 DEF IInv, TypeOK, SendSound, AcceptedIsCurrent, MarkSent, MarkFailed,
              MarkUnknown, At, Statements
<1>2. Quiet(OnError(t))
  BY <1>1, OnErrorQuiet
<1>3. UNCHANGED <<fate, seen, partial>>
  BY DEF MarkSent, MarkFailed, MarkUnknown, world
<1>4. /\ \A v \in Workers : v # w => task'[v] = task[v]
      /\ Quiet(task'[w])
  <2>1. CASE MarkSent(w)
    <3>1. Quiet([To(w, "finish") EXCEPT !.accepted = 0]) /\ Quiet(To(w, "markUnknown"))
      BY <1>1 DEF Quiet, To, Task
    <3>2. QED
      BY <1>2, <2>1, <3>1 DEF MarkSent, Continue, IInv, TypeOK
  <2>2. CASE MarkFailed(w)
    <3>1. Quiet(To(w, "fail"))
      BY <1>1 DEF Quiet, To, Task
    <3>2. QED
      BY <1>2, <2>2, <3>1 DEF MarkFailed, Continue, IInv, TypeOK
  <2>3. CASE MarkUnknown(w)
    <3>1. Quiet([To(w, "finish") EXCEPT !.unknown = TRUE, !.accepted = 0])
      BY <1>1 DEF Quiet, To, Task
    <3>2. QED
      BY <1>2, <2>3, <3>1 DEF MarkUnknown, Continue, IInv, TypeOK
  <2>4. QED
    BY <2>1, <2>2, <2>3
<1>5. CASE outbox' = outbox
  BY <1>3, <1>4, <1>5, QuietStep
\* What the three statements do to the one row they touch.
<1>6. CASE /\ \A k \in Messages : k # m => outbox'[k] = outbox[k]
           /\ \/ /\ MarkSent(w) /\ outbox[m].status = "sending"
                 /\ outbox'[m].status = "sent" /\ outbox'[m].external = task[w].accepted
              \/ /\ MarkFailed(w) /\ outbox[m].status = "sending"
                 /\ outbox'[m].status = "failed" /\ outbox'[m].external = outbox[m].external
              \/ /\ MarkUnknown(w) /\ outbox[m].status \in {"sending", "failed"}
                 /\ outbox'[m].status = "delivery_unknown"
                 /\ outbox'[m].external = outbox[m].external
  <2>1. \A v \in Workers, k \in Messages :
          Sending(v, k)' => Sending(v, k) /\ task'[v] = task[v] /\ v # w
    BY <1>4 DEF Sending, Quiet
  <2>2. MarkSent(w) \/ MarkFailed(w) => Sending(w, m)
    BY <1>1 DEF MarkSent, MarkFailed, At, Sending
  <2>3. MarkSent(w) \/ MarkFailed(w) => \A v \in Workers : ~Sending(v, m)'
    BY <1>1, <2>1, <2>2 DEF IInv, SendSound, OneSender
  <2>4. \A k \in Messages, n \in Nat : Alive(k, n)' <=> Alive(k, n)
    BY <1>3 DEF Alive
  <2>5. OneSender'
    <3>1. ASSUME NEW k \in Messages, NEW v \in Workers, Sending(v, k)'
          PROVE  /\ outbox'[k].status \notin {"none", "failed"}
                 /\ \A u \in Workers : Sending(u, k)' => u = v
      BY <1>6, <2>1, <2>3, <3>1 DEF IInv, SendSound, OneSender
    <3>2. QED
      BY <3>1 DEF OneSender
  <2>6. RetryIsSafe'
    <3>1. MarkFailed(w) => ~Alive(m, 0)
      BY <1>1, <2>2 DEF IInv, SendSound, RetryIsSafe, MarkFailed, At
    <3>2. \A k \in Messages : outbox'[k].status \in {"none", "failed"} => ~Alive(k, 0)
      BY <1>1, <1>6, <3>1 DEF IInv, SendSound, RetryIsSafe
    <3>3. \A k \in Messages, v \in Workers : Sending(v, k)' => ~Alive(k, task'[v].accepted)
      BY <2>1 DEF IInv, SendSound, RetryIsSafe
    <3>4. QED
      BY <1>3, <3>2, <3>3 DEF RetryIsSafe, Alive
  <2>7. NoStrayFailure'
    <3>1. MarkFailed(w) \/ MarkUnknown(w) =>
            (outbox'[m].external # 0 => <<outbox'[m].external, "failed">> \in seen[m])
      <4>1. MarkFailed(w) \/ MarkUnknown(w) =>
              /\ outbox[m].status \in {"sending", "failed"}
              /\ outbox'[m].external = outbox[m].external
        BY <1>6 DEF MarkSent, MarkFailed, MarkUnknown, At
      <4>2. QED
        BY <4>1 DEF IInv, SendSound, NoStrayFailure, FailureUsed
    <3>2. MarkSent(w) => /\ task[w].accepted \in DOMAIN fate[m]
                         /\ ~Alive(m, task[w].accepted)
      BY <1>1, <2>2
      DEF IInv, SendSound, RetryIsSafe, AcceptedIsCurrent, MarkSent, At
    <3>3. ASSUME NEW k \in Messages, outbox'[k].external # 0, ~FailureUsed(k)'
          PROVE  /\ outbox'[k].status \in {"sent", "delivered", "read"}
                 /\ outbox'[k].external \in DOMAIN fate'[k]
                 /\ ~Alive(k, outbox[k].external)'
                 /\ \A v \in Workers : ~Sending(v, k)'
      <4>1. CASE k # m
        BY <1>3, <1>6, <2>1, <3>3, <4>1
        DEF IInv, SendSound, NoStrayFailure, FailureUsed, Alive
      <4>2. CASE k = m /\ MarkSent(w)
        <5>1. /\ outbox'[k].status = "sent" /\ outbox'[k].external = task[w].accepted
          BY <1>6, <4>2 DEF MarkSent, MarkFailed, MarkUnknown, At
        <5>2. QED
          BY <1>3, <2>3, <3>2, <4>2, <5>1 DEF Alive
      <4>3. CASE k = m /\ (MarkFailed(w) \/ MarkUnknown(w))
        BY <1>3, <3>1, <3>3, <4>3 DEF FailureUsed
      <4>4. QED
        BY <4>1, <4>2, <4>3
    <3>4. QED
      BY <3>3 DEF NoStrayFailure
  <2>8. AcceptedIsCurrent' /\ OneCopy'
    BY <1>3, <1>4, <2>4 DEF IInv, SendSound, AcceptedIsCurrent, OneCopy, Quiet, Alive
  <2>9. QED
    BY <2>5, <2>6, <2>7, <2>8 DEF SendSound
<1>7. outbox' = outbox \/ <1>6!1
  <2>1. outbox[m] \in OutboxRow /\ outbox \in [Messages -> OutboxRow]
    BY DEF IInv, TypeOK
  <2>2. CASE MarkSent(w)
    <3>1. CASE MarkSentMatches(outbox[m])
      <4>1. outbox' = [outbox EXCEPT ![m] = MarkOutboundSent(outbox[m], t.accepted)]
        BY <1>1, <2>2, <3>1 DEF MarkSent
      <4>2. /\ MarkOutboundSent(outbox[m], t.accepted).status = "sent"
            /\ MarkOutboundSent(outbox[m], t.accepted).external = t.accepted
        BY <2>1 DEF MarkOutboundSent, OutboxRow
      <4>3. QED
        BY <2>1, <2>2, <3>1, <4>1, <4>2 DEF MarkSentMatches
    <3>2. CASE ~MarkSentMatches(outbox[m])
      BY <1>1, <2>2, <3>2 DEF MarkSent
    <3>3. QED
      BY <3>1, <3>2
  <2>3. CASE MarkFailed(w)
    BY <1>1, <2>1, <2>3 DEF MarkFailed, MarkOutboundFailed, OutboxRow
  <2>4. CASE MarkUnknown(w)
    BY <1>1, <2>1, <2>4 DEF MarkUnknown, MarkOutboundUnknown, OutboxRow
  <2>5. QED
    BY <2>2, <2>3, <2>4
<1>8. QED
  BY <1>5, <1>6, <1>7

\* A delivery status, early, late or out of order, but not repeated.
LEMMA StatusStep ==
  ASSUME IInv, TypeOK', OnceEnvironment,
         NEW m \in Messages, NEW n \in 1..AttemptLimit, NEW s \in StatusKinds,
         NEW dropped \in BOOLEAN, DeliveryStatus(m, n, s, dropped)
  PROVE  SendSound'
<1>1. /\ n \in Nat \ {0} /\ n \in DOMAIN fate[m] /\ s \in Reported(fate[m][n])
      /\ <<n, s>> \notin seen[m]
      /\ \A k \in Messages : seen[k] \subseteq seen'[k]
      /\ <<n, s>> \in seen'[m]
      /\ UNCHANGED <<task, fate, partial>>
  BY BoundAssumption DEF DeliveryStatus, OnceEnvironment, memory, IInv, TypeOK
<1>2. s = "failed" => fate[m][n] # "delivered"
  BY <1>1 DEF Reported
<1>3. s \in {"sent", "delivered", "read", "failed"}
  BY SwitchAssumption
<1>4. \A k \in Messages, j \in Nat : Alive(k, j)' <=> Alive(k, j)
  BY <1>1 DEF Alive
<1>5. \A k \in Messages, v \in Workers : Sending(v, k)' <=> Sending(v, k)
  BY <1>1 DEF Sending
<1>6. AcceptedIsCurrent' /\ OneCopy'
  BY <1>1 DEF IInv, SendSound, AcceptedIsCurrent, OneCopy, Alive
<1>7. CASE outbox' = outbox
  <2>1. OneSender' /\ RetryIsSafe'
    BY <1>1, <1>7 DEF IInv, SendSound, OneSender, RetryIsSafe, Sending, Alive
  <2>2. NoStrayFailure'
    BY <1>1, <1>7 DEF IInv, SendSound, NoStrayFailure, FailureUsed, Sending, Alive
  <2>3. QED
    BY <1>6, <2>1, <2>2 DEF SendSound
<1>8. CASE /\ outbox[m].external = n
           /\ \A k \in Messages : k # m => outbox'[k] = outbox[k]
           /\ outbox'[m].status = s /\ outbox'[m].external = n
  <2>1. s = "failed" => ~FailureUsed(m)
    BY <1>1, <1>8 DEF FailureUsed
  <2>2. s = "failed" => \A v \in Workers : ~Sending(v, m)
    BY <1>1, <1>8, <2>1 DEF IInv, SendSound, NoStrayFailure
  <2>3. s = "failed" => ~Alive(m, 0)
    <3>1. s = "failed" => ~Alive(m, n)
      BY <1>1, <1>8, <2>1 DEF IInv, SendSound, NoStrayFailure
    <3>2. QED
      BY <1>2, <3>1 DEF Alive
  <2>4. OneSender'
    BY <1>3, <1>5, <1>8, <2>2 DEF IInv, SendSound, OneSender
  <2>5. RetryIsSafe'
    <3>1. \A k \in Messages : outbox'[k].status \in {"none", "failed"} => ~Alive(k, 0)
      BY <1>3, <1>8, <2>3 DEF IInv, SendSound, RetryIsSafe
    <3>2. \A k \in Messages, v \in Workers : Sending(v, k) => ~Alive(k, task[v].accepted)
      BY DEF IInv, SendSound, RetryIsSafe
    <3>3. QED
      BY <1>1, <3>1, <3>2 DEF RetryIsSafe, Sending, Alive
  <2>6. NoStrayFailure'
    <3>1. ASSUME NEW k \in Messages, outbox'[k].external # 0, ~FailureUsed(k)'
          PROVE  /\ outbox'[k].status \in {"sent", "delivered", "read"}
                 /\ outbox'[k].external \in DOMAIN fate'[k]
                 /\ ~Alive(k, outbox[k].external)'
                 /\ \A v \in Workers : ~Sending(v, k)'
      <4>1. ~FailureUsed(k) /\ outbox[k].external = outbox'[k].external
        BY <1>1, <1>8, <3>1 DEF FailureUsed
      <4>2. k = m => s # "failed"
        BY <1>1, <1>8, <3>1 DEF FailureUsed
      <4>3. /\ outbox[k].status \in {"sent", "delivered", "read"}
            /\ outbox[k].external \in DOMAIN fate[k]
            /\ ~Alive(k, outbox[k].external)
            /\ \A v \in Workers : ~Sending(v, k)
        BY <3>1, <4>1 DEF IInv, SendSound, NoStrayFailure
      <4>4. QED
        BY <1>1, <1>3, <1>5, <1>8, <4>1, <4>2, <4>3 DEF Alive
    <3>2. QED
      BY <3>1 DEF NoStrayFailure
  <2>7. QED
    BY <1>6, <2>4, <2>5, <2>6 DEF SendSound
<1>9. outbox' = outbox \/ <1>8!1
  <2>1. outbox[m] \in OutboxRow /\ outbox \in [Messages -> OutboxRow]
    BY DEF IInv, TypeOK
  <2>2. CASE dropped \/ UpdateOutboundStatus(outbox[m], n, s) = outbox[m]
    BY <2>1, <2>2 DEF DeliveryStatus
  <2>3. CASE ~dropped /\ UpdateOutboundStatus(outbox[m], n, s) # outbox[m]
    <3>1. /\ outbox[m].external = n
          /\ UpdateOutboundStatus(outbox[m], n, s) = [outbox[m] EXCEPT !.status = s]
      BY <2>3 DEF UpdateOutboundStatus
    <3>2. outbox' = [outbox EXCEPT ![m] = [outbox[m] EXCEPT !.status = s]]
      BY <2>3, <3>1 DEF DeliveryStatus
    <3>3. QED
      BY <2>1, <3>1, <3>2 DEF OutboxRow
  <2>4. QED
    BY <2>2, <2>3
<1>10. QED
  BY <1>7, <1>8, <1>9

\* Steps of the queue, the recovery loop, the clock and the processes.
LEMMA EnvironmentStep ==
  ASSUME IInv, TypeOK',
         \/ \E w \in Workers : Pump(w)
         \/ \E r \in Replicas : \E m \in Messages : ReceiveWebhook(r, m)
         \/ \E r \in Replicas : \/ DrainClaim(r) \/ DrainQueue(r) \/ DrainAbandon(r)
                                \/ Crash(r)
         \/ \E r \in Replicas, status \in {"failed", "ignored"} : DrainRelease(r, status)
         \/ \E m \in Messages : GrowStale(m)
  PROVE  SendSound'
<1>1. UNCHANGED <<outbox, fate, seen, partial>>
  BY DEF Pump, ReceiveWebhook, DrainClaim, DrainQueue, DrainAbandon, Crash, DrainRelease,
         GrowStale, world, rows
<1>2. Quiet(Idle)
  BY DEF Quiet, Idle
<1>3. \A v \in Workers : task'[v] = task[v] \/ Quiet(task'[v])
  <2>1. ASSUME NEW w \in Workers, Pump(w)
        PROVE  \A v \in Workers : task'[v] = task[v] \/ Quiet(task'[v])
    <3>1. queue[Host[w]] \in Seq(Job) /\ queue[Host[w]] # <<>>
      BY <2>1, ReplicaAssumption DEF Pump, IInv, TypeOK
    <3>2. PICK job \in Job : job = Head(queue[Host[w]])
      BY <3>1
    <3>3. PICK pc \in {"limit", "claim"} :
            task' = [task EXCEPT ![w] = [Idle EXCEPT !.pc = pc, !.msg = job.msg]]
      BY <2>1, <3>2 DEF Pump
    <3>4. Quiet([Idle EXCEPT !.pc = pc, !.msg = job.msg])
      BY DEF Quiet, Idle, Job
    <3>5. QED
      BY <3>3, <3>4 DEF IInv, TypeOK
  <2>2. ASSUME NEW r \in Replicas, Crash(r)
        PROVE  \A v \in Workers : task'[v] = task[v] \/ Quiet(task'[v])
    BY <1>2, <2>2 DEF Crash
  <2>3. QED
    BY <2>1, <2>2 DEF ReceiveWebhook, DrainClaim, DrainQueue, DrainAbandon, DrainRelease,
                      GrowStale, memory
<1>4. QED
  BY <1>1, <1>3, QuietStep

\* Empty tables satisfy the inductive invariant.
LEMMA InitInv == Init /\ OnceEnvironment => IInv
<1> SUFFICES ASSUME Init PROVE IInv
  OBVIOUS
<1>1. TypeOK
  BY IdleType, BoundAssumption
  DEF Init, TypeOK, NoInbound, NoOutbox, InboundRow, OutboxRow, InboundStatus, OutboundStatus
<1>2. AcceptedIsCurrent /\ \A w \in Workers, m \in Messages : ~Sending(w, m)
  BY DEF Init, Idle, AcceptedIsCurrent, Sending
<1>3. \A m \in Messages, n \in Nat : ~Alive(m, n)
  BY DEF Init, Alive
<1>4. OneSender /\ RetryIsSafe /\ NoStrayFailure /\ OneCopy
  BY <1>2, <1>3 DEF Init, NoOutbox, OneSender, RetryIsSafe, NoStrayFailure, OneCopy
<1>5. QED
  BY <1>1, <1>2, <1>4 DEF IInv, SendSound

\* Every step keeps the inductive invariant.
LEMMA NextInv ==
  ASSUME IInv, OnceEnvironment, [Next]_vars
  PROVE  IInv'
<1>1. ASSUME NEW w \in Workers, Work(w)
      PROVE  IInv'
  <2>1. TypeOK'
    BY <1>1, WorkType DEF IInv, SendSound, AcceptedIsCurrent, TasksKnown
  <2>2. SendSound'
    BY <1>1, <2>1, QuietWork, ReserveStep, SendStep, RecordStep DEF Work
  <2>3. QED
    BY <2>1, <2>2 DEF IInv
<1>2. ASSUME NEW w \in Workers, Pump(w) \/ Throw(w)
      PROVE  IInv'
  <2>1. TypeOK'
    BY <1>2, EnvironmentType DEF IInv
  <2>2. SendSound'
    BY <1>2, <2>1, QuietWork, EnvironmentStep
  <2>3. QED
    BY <2>1, <2>2 DEF IInv
<1>3. ASSUME NEW r \in Replicas,
             \/ \E m \in Messages : ReceiveWebhook(r, m)
             \/ DrainClaim(r) \/ DrainQueue(r) \/ DrainAbandon(r) \/ Crash(r)
             \/ \E status \in {"failed", "ignored"} : DrainRelease(r, status)
      PROVE  IInv'
  <2>1. TypeOK'
    BY <1>3, EnvironmentType DEF IInv
  <2>2. SendSound'
    BY <1>3, <2>1, EnvironmentStep
  <2>3. QED
    BY <2>1, <2>2 DEF IInv
<1>4. ASSUME NEW m \in Messages, GrowStale(m)
      PROVE  IInv'
  <2>1. TypeOK'
    BY <1>4, EnvironmentType DEF IInv
  <2>2. SendSound'
    BY <1>4, <2>1, EnvironmentStep
  <2>3. QED
    BY <2>1, <2>2 DEF IInv
<1>5. ASSUME NEW m \in Messages, NEW n \in 1..AttemptLimit, NEW s \in StatusKinds,
             NEW dropped \in BOOLEAN, DeliveryStatus(m, n, s, dropped)
      PROVE  IInv'
  <2>1. TypeOK'
    BY <1>5, EnvironmentType DEF IInv
  <2>2. SendSound'
    BY <1>5, <2>1, StatusStep
  <2>3. QED
    BY <2>1, <2>2 DEF IInv
<1>6. CASE UNCHANGED vars
  BY <1>6
  DEF vars, IInv, TypeOK, SendSound, OneSender, RetryIsSafe, NoStrayFailure,
      AcceptedIsCurrent, OneCopy, Sending, Alive, FailureUsed
<1>7. QED
  BY <1>1, <1>2, <1>3, <1>4, <1>5, <1>6 DEF Next

\* No interleaving of webhooks, workers, replicas, crashes, outages, takeovers
\* and delivery statuses breaks the parts of SendSound, in particular that a
\* reply is being sent by one worker at most and that a failed row is never
\* reopened over a reply that may still arrive.
THEOREM DeliverySafety ==
  ASSUME OnceEnvironment
  PROVE  Spec => []DeliveryInv
<1>1. Init => IInv
  BY InitInv
<1>2. IInv /\ [Next]_vars => IInv'
  BY NextInv
<1>3. IInv => DeliveryInv
  BY DEF IInv, DeliveryInv
<1>4. QED
  BY <1>1, <1>2, <1>3, PTL DEF Spec

\* One delivered copy at most, as a number.
LEMMA OneCopyCounts ==
  ASSUME IInv, NEW m \in Messages
  PROVE  Copies(m) <= 1
<1> DEFINE D == {n \in DOMAIN fate[m] : fate[m][n] = "delivered"}
<1>1. partial[m] = 0
  BY DEF IInv, SendSound, OneCopy
<1>2. \A j, k \in D : j = k
  BY DEF IInv, SendSound, OneCopy, Alive
<1>3. CASE D = {}
  BY <1>1, <1>3, FS_EmptySet DEF Copies
<1>4. CASE D # {}
  <2>1. PICK d : D = {d}
    BY <1>2, <1>4
  <2>2. Cardinality(D) = 1
    BY <2>1, FS_Singleton
  <2>3. QED
    BY <1>1, <2>2 DEF Copies
<1>5. QED
  BY <1>3, <1>4

\* The idempotent outbox: the user gets the reply to a message at most once.
THEOREM ReplySafety ==
  ASSUME OnceEnvironment
  PROVE  Spec => []AtMostOneReply
<1>1. Init => IInv
  BY InitInv
<1>2. IInv /\ [Next]_vars => IInv'
  BY NextInv
<1>3. IInv => AtMostOneReply
  BY OneCopyCounts DEF AtMostOneReply
<1>4. QED
  BY <1>1, <1>2, <1>3, PTL DEF Spec

-----------------------------------------------------------------------------
(***************************************************************************)
(* An unknown delivery is not retried                                      *)
(***************************************************************************)

\* The rows a step may write, and in whose name.
LEMMA OutboxWritten ==
  ASSUME TypeOK, Next, NEW m \in Messages, outbox'[m] # outbox[m]
  PROVE  \/ outbox[m].status = "none" /\ outbox'[m] = ReservedOutbox
         \/ RetryMatches(outbox[m]) /\ outbox'[m] = RetriedOutbox(outbox[m])
         \/ /\ outbox[m].status = "sending"
            /\ \E id \in Nat : outbox'[m] = MarkOutboundSent(outbox[m], id)
         \/ outbox'[m] = MarkOutboundUnknown(outbox[m])
         \/ outbox'[m] = MarkOutboundFailed(outbox[m])
         \/ \E n \in 1..AttemptLimit, s \in StatusKinds, dropped \in BOOLEAN :
              DeliveryStatus(m, n, s, dropped)
<1>0. /\ \A w \in Workers : task[w].accepted \in Nat
      /\ outbox \in [Messages -> OutboxRow]
  BY DEF TypeOK, Task
<1>1. ASSUME NEW w \in Workers, ReserveOutbound(w)
      PROVE  outbox[m].status = "none" /\ outbox'[m] = ReservedOutbox
  BY <1>0, <1>1 DEF ReserveOutbound
<1>2. ASSUME NEW w \in Workers, RetryOutbound(w)
      PROVE  RetryMatches(outbox[m]) /\ outbox'[m] = RetriedOutbox(outbox[m])
  BY <1>0, <1>2 DEF RetryOutbound
<1>3. ASSUME NEW w \in Workers, MarkSent(w)
      PROVE  /\ outbox[m].status = "sending"
             /\ \E id \in Nat : outbox'[m] = MarkOutboundSent(outbox[m], id)
  BY <1>0, <1>3 DEF MarkSent, MarkSentMatches
<1>4. ASSUME NEW w \in Workers, MarkUnknown(w) PROVE outbox'[m] = MarkOutboundUnknown(outbox[m])
  BY <1>0, <1>4 DEF MarkUnknown
<1>5. ASSUME NEW w \in Workers, MarkFailed(w) PROVE outbox'[m] = MarkOutboundFailed(outbox[m])
  BY <1>0, <1>5 DEF MarkFailed
<1>6. ASSUME NEW w \in Workers, Work(w)
      PROVE  ReserveOutbound(w) \/ RetryOutbound(w) \/ MarkSent(w) \/ MarkUnknown(w) \/ MarkFailed(w)
  BY <1>6 DEF Work, ClaimInbound, ConsumeUserLimit, Deny, Route, Send, SendAccepted, SendRejected,
    SendUncertain, Finish, Audit, Fail, rows
<1>7. ASSUME NEW k \in Messages, NEW n \in 1..AttemptLimit, NEW s \in StatusKinds,
             NEW dropped \in BOOLEAN, DeliveryStatus(k, n, s, dropped)
      PROVE  DeliveryStatus(m, n, s, dropped)
  <2>1. k = m
    BY <1>0, <1>7 DEF DeliveryStatus
  <2>2. QED
    BY <1>7, <2>1
<1>8. ASSUME \/ \E w \in Workers : Pump(w) \/ Throw(w)
             \/ \E r \in Replicas :
                  \/ \E k \in Messages : ReceiveWebhook(r, k)
                  \/ DrainClaim(r) \/ DrainQueue(r)
                  \/ \E status \in {"failed", "ignored"} : DrainRelease(r, status)
                  \/ DrainAbandon(r) \/ Crash(r)
             \/ \E k \in Messages : GrowStale(k)
      PROVE  FALSE
  BY <1>8 DEF Pump, Throw, ReceiveWebhook, DrainClaim, DrainQueue, DrainRelease, DrainAbandon,
    Crash, GrowStale, rows
<1>9. QED
  BY <1>1, <1>2, <1>3, <1>4, <1>5, <1>6, <1>7, <1>8 DEF Next

\* A reply whose fate is unknown is confirmed by a later status or stays so: the
\* failure that would reopen its row has been used up.
LEMMA UnknownStays ==
  ASSUME OnceEnvironment, IInv, Next, NEW m \in Messages, outbox[m].status = "delivery_unknown"
  PROVE  outbox'[m].status \notin {"sending", "failed"}
<1>0. outbox[m] \in OutboxRow
  BY DEF IInv, TypeOK
<1>1. ASSUME NEW n \in 1..AttemptLimit, NEW s \in StatusKinds, NEW dropped \in BOOLEAN,
             DeliveryStatus(m, n, s, dropped)
      PROVE  outbox'[m].status \notin {"sending", "failed"}
  <2>0. n # 0
    BY BoundAssumption
  <2>1. CASE outbox'[m] = outbox[m]
    BY <2>1
  <2>2. CASE outbox'[m] # outbox[m]
    <3>1. /\ outbox'[m] = UpdateOutboundStatus(outbox[m], n, s)
          /\ <<n, s>> \notin seen[m]
      BY <1>1, <2>2 DEF DeliveryStatus, OnceEnvironment, IInv, TypeOK
    <3>2. outbox[m].external = n /\ outbox'[m].status = s
      BY <1>0, <2>2, <3>1 DEF UpdateOutboundStatus, OutboxRow
    <3>3. FailureUsed(m)
      BY <2>0, <3>2 DEF IInv, SendSound, NoStrayFailure
    <3>4. s # "failed"
      BY <3>1, <3>2, <3>3 DEF FailureUsed
    <3>5. QED
      BY <3>2, <3>4, SwitchAssumption
  <2>3. QED
    BY <2>1, <2>2
<1>2. CASE outbox'[m] = outbox[m]
  BY <1>2
<1>3. QED
  BY <1>0, <1>1, <1>2, OutboxWritten DEF IInv, RetryMatches, MarkOutboundSent, MarkOutboundUnknown,
    MarkOutboundFailed, OutboxRow

\* "delivery outcome is unknown; automatic retry was suppressed": a reply whose
\* send got no answer never becomes one that would be sent again.
THEOREM SuppressionSafety ==
  ASSUME OnceEnvironment
  PROVE  Spec => SuppressedForGood
<1>1. Init => IInv
  BY InitInv
<1>2. IInv /\ [Next]_vars => IInv'
  BY NextInv
<1>3. IInv /\ [Next]_vars =>
        [\A m \in Messages : outbox[m].status = "delivery_unknown"
           => outbox'[m].status \notin {"sending", "failed"}]_vars
  BY UnknownStays
<1>4. QED
  BY <1>1, <1>2, <1>3, PTL DEF Spec, SuppressedForGood

-----------------------------------------------------------------------------
(***************************************************************************)
(* The pipeline implements ReplyOnce                                       *)
(***************************************************************************)

Open(m) == \E w \in Workers : task[w].pc = "send" /\ task[w].msg = m

\* What ReplyOnce sees of the pipeline.
LEMMA ReplySees ==
  /\ Reply!vars = <<[m \in Messages |-> outbox[m].attempts],
                    [m \in Messages |-> Open(m)],
                    [m \in Messages |-> Copies(m)]>>
  /\ \A m \in Messages : Open(m) \in BOOLEAN
  BY DEF Reply!vars, Open

\* A step that begins no delivery, ends none and delivers nothing is a stutter.
LEMMA ReplyStutters ==
  ASSUME \A m \in Messages : outbox'[m].attempts = outbox[m].attempts,
         \A m \in Messages : Open(m)' <=> Open(m),
         UNCHANGED <<fate, partial>>
  PROVE  UNCHANGED Reply!vars
<1>1. \A m \in Messages : Copies(m)' = Copies(m)
  BY DEF Copies
<1>2. \A m \in Messages : Open(m)' = Open(m)
  BY DEF Open
<1>3. QED
  BY <1>1, <1>2, ReplySees DEF Reply!vars, Open

\* A worker's step, seen through Open.
LEMMA OpenAfter ==
  ASSUME TypeOK, NEW w \in Workers, NEW next, task' = [task EXCEPT ![w] = next], NEW m \in Messages
  PROVE  Open(m)' <=> \/ next.pc = "send" /\ next.msg = m
                      \/ \E v \in Workers \ {w} : task[v].pc = "send" /\ task[v].msg = m
<1>1. task'[w] = next /\ \A v \in Workers \ {w} : task'[v] = task[v]
  BY DEF TypeOK
<1>2. QED
  BY <1>1 DEF Open

\* A worker's step neither from nor to a send leaves Open alone.
LEMMA OpenKept ==
  ASSUME TypeOK, NEW w \in Workers, NEW next, next.pc # "send",
         task' = [task EXCEPT ![w] = next], task[w].pc # "send"
  PROVE  \A m \in Messages : Open(m)' <=> Open(m)
  BY OpenAfter DEF Open

\* An error leads nowhere near a send.
LEMMA OnErrorEnds ==
  ASSUME NEW t \in Task, t.pc # "send"
  PROVE  OnError(t).pc # "send" /\ OnError(t) \in Task
<1>1. CASE t.pc = "markSent"
  BY <1>1 DEF OnError, Task, Place
<1>2. CASE t.pc = "fail"
  BY <1>2, IdleType DEF OnError, Idle
<1>3. CASE t.pc \notin {"markSent", "fail"}
  <2>1. OnError(t) = [t EXCEPT !.pc = "fail", !.permanent = FALSE]
    BY <1>3 DEF OnError
  <2>2. QED
    BY <2>1 DEF Task, Place
<1>4. QED
  BY <1>1, <1>2, <1>3

\* Rows that are not there have had no delivery.
FreshRows == \A m \in Messages : outbox[m].status = "none" => outbox[m].attempts = 0

\* What a statement does to the two columns that count.
LEMMA ColumnsAfter ==
  ASSUME NEW row \in OutboxRow
  PROVE  /\ RetriedOutbox(row).status = "sending" /\ RetriedOutbox(row).attempts = row.attempts + 1
         /\ \A id : MarkOutboundSent(row, id).status = "sent"
                   /\ MarkOutboundSent(row, id).attempts = row.attempts
         /\ MarkOutboundUnknown(row).status \in {row.status, "delivery_unknown"}
         /\ MarkOutboundUnknown(row).attempts = row.attempts
         /\ MarkOutboundFailed(row).status \in {row.status, "failed"}
         /\ MarkOutboundFailed(row).attempts = row.attempts
         /\ \A n, s : /\ UpdateOutboundStatus(row, n, s).status \in {row.status, s}
                     /\ UpdateOutboundStatus(row, n, s).attempts = row.attempts
<1>1. RetriedOutbox(row).status = "sending" /\ RetriedOutbox(row).attempts = row.attempts + 1
  BY DEF RetriedOutbox
<1>2. \A id : MarkOutboundSent(row, id).status = "sent"
             /\ MarkOutboundSent(row, id).attempts = row.attempts
  BY DEF MarkOutboundSent, OutboxRow
<1>3. /\ MarkOutboundUnknown(row).status \in {row.status, "delivery_unknown"}
      /\ MarkOutboundUnknown(row).attempts = row.attempts
  BY DEF MarkOutboundUnknown, OutboxRow
<1>4. /\ MarkOutboundFailed(row).status \in {row.status, "failed"}
      /\ MarkOutboundFailed(row).attempts = row.attempts
  BY DEF MarkOutboundFailed, OutboxRow
<1>5. \A n, s : /\ UpdateOutboundStatus(row, n, s).status \in {row.status, s}
               /\ UpdateOutboundStatus(row, n, s).attempts = row.attempts
  BY DEF UpdateOutboundStatus, OutboxRow
<1>6. QED
  BY <1>1, <1>2, <1>3, <1>4, <1>5

\* Only a reservation counts a delivery.
LEMMA AttemptsWritten ==
  ASSUME TypeOK, Next, NEW m \in Messages
  PROVE  \/ outbox'[m].attempts = outbox[m].attempts
            /\ (outbox'[m].status = "none" => outbox[m].status = "none")
         \/ outbox[m].status = "none" /\ outbox'[m] = ReservedOutbox
         \/ RetryMatches(outbox[m]) /\ outbox'[m] = RetriedOutbox(outbox[m])
<1>0. outbox[m] \in OutboxRow
  BY DEF TypeOK
<1>1. CASE outbox'[m] = outbox[m]
  BY <1>1
<1>2. ASSUME NEW n \in 1..AttemptLimit, NEW s \in StatusKinds, NEW dropped \in BOOLEAN,
             DeliveryStatus(m, n, s, dropped), outbox'[m] # outbox[m]
      PROVE  /\ outbox'[m].attempts = outbox[m].attempts
             /\ outbox'[m].status = "none" => outbox[m].status = "none"
  <2>1. outbox'[m] = UpdateOutboundStatus(outbox[m], n, s)
    BY <1>2 DEF DeliveryStatus, TypeOK
  <2>2. s # "none"
    BY SwitchAssumption
  <2>3. QED
    BY <1>0, <2>1, <2>2, ColumnsAfter
<1>3. CASE outbox'[m] # outbox[m]
  <2>1. CASE \E id \in Nat : outbox'[m] = MarkOutboundSent(outbox[m], id)
    BY <1>0, <2>1, ColumnsAfter
  <2>2. CASE outbox'[m] = MarkOutboundUnknown(outbox[m])
    BY <1>0, <2>2, ColumnsAfter
  <2>3. CASE outbox'[m] = MarkOutboundFailed(outbox[m])
    BY <1>0, <2>3, ColumnsAfter
  <2>4. QED
    BY <1>2, <1>3, <2>1, <2>2, <2>3, OutboxWritten
<1>4. QED
  BY <1>1, <1>3

LEMMA FreshKept ==
  ASSUME TypeOK, FreshRows, Next
  PROVE  FreshRows'
<1>1. \A m \in Messages : outbox[m] \in OutboxRow
  BY DEF TypeOK
<1>2. QED
  BY <1>1, AttemptsWritten, ColumnsAfter DEF FreshRows, ReservedOutbox

\* A reservation that is granted begins a delivery: none is under way, none has
\* arrived, and the limit is not reached.
LEMMA ReservationBegins ==
  ASSUME IInv, FreshRows, NEW w \in Workers, ReserveOutbound(w) \/ RetryOutbound(w)
  PROVE  Reply!Next \/ UNCHANGED Reply!vars
<1>m. PICK m \in Messages : m = task[w].msg
  BY DEF IInv, SendSound, AcceptedIsCurrent, ReserveOutbound, RetryOutbound, At
<1>0. /\ m = task[w].msg /\ task[w] \in Task /\ task[w].pc \in {"reserve", "retry"}
      /\ outbox \in [Messages -> OutboxRow] /\ TypeOK
      /\ UNCHANGED <<fate, partial>>
  BY <1>m DEF IInv, TypeOK, ReserveOutbound, RetryOutbound, At, world
<1>1. OnError(task[w]).pc # "send"
  BY <1>0, OnErrorEnds
<1>2. To(w, "send").pc = "send" /\ To(w, "send").msg = m
  BY <1>0 DEF To, Task
<1>3. CASE /\ outbox[m].status \in {"none", "failed"} /\ outbox[m].attempts < AttemptLimit
           /\ Continue(w, To(w, "send"))
           /\ \E row : row.attempts = outbox[m].attempts + 1 /\ outbox' = [outbox EXCEPT ![m] = row]
  <2>1. ~Open(m)
    BY <1>0, <1>3 DEF IInv, SendSound, OneSender, Sending, Open
  <2>2. Copies(m) = 0
    <3>1. {n \in DOMAIN fate[m] : fate[m][n] = "delivered"} = {}
      <4>1. \A n \in DOMAIN fate[m] : n # 0
        BY <1>0 DEF TypeOK
      <4>2. QED
        BY <1>0, <1>3, <4>1 DEF IInv, SendSound, RetryIsSafe, Alive
    <3>2. partial[m] = 0
      BY <1>0 DEF IInv, SendSound, OneCopy
    <3>3. QED
      BY <3>1, <3>2, FS_EmptySet DEF Copies
  <2>3. PICK now \in BOOLEAN : task' = [task EXCEPT ![w] = IF now THEN To(w, "send")
                                                                  ELSE OnError(task[w])]
    BY <1>3 DEF Continue
  <2>4. \A k \in Messages : Open(k)' = IF k = m THEN now ELSE Open(k)
    <3> SUFFICES ASSUME NEW k \in Messages PROVE Open(k)' <=> IF k = m THEN now ELSE Open(k)
      BY DEF Open
    <3>0. PICK next : /\ next = IF now THEN To(w, "send") ELSE OnError(task[w])
                      /\ task' = [task EXCEPT ![w] = next]
      BY <2>3
    <3>1. Open(k)' <=> \/ next.pc = "send" /\ next.msg = k
                       \/ \E v \in Workers \ {w} : task[v].pc = "send" /\ task[v].msg = k
      <4>1. TypeOK /\ task' = [task EXCEPT ![w] = next]
        BY <1>0, <3>0
      <4>2. task'[w] = next /\ \A v \in Workers \ {w} : task'[v] = task[v]
        BY <4>1 DEF TypeOK
      <4>3. QED
        BY <4>2 DEF Open
    <3>2. Open(k) <=> \E v \in Workers \ {w} : task[v].pc = "send" /\ task[v].msg = k
      BY <1>0 DEF Open
    <3>3. QED
      BY <1>1, <1>2, <2>1, <3>0, <3>1, <3>2
  <2>5. \A k \in Messages : Copies(k)' = Copies(k)
    BY <1>0 DEF Copies
  <2>6. \A k \in Messages : outbox'[k].attempts =
                              IF k = m THEN outbox[k].attempts + 1 ELSE outbox[k].attempts
    BY <1>0, <1>3
  <2>7. Reply!Begin(m, now)
    <3>1. [k \in Messages |-> outbox'[k].attempts] =
            [[k \in Messages |-> outbox[k].attempts] EXCEPT ![m] = @ + 1]
      BY <1>0, <2>6
    <3>2. [k \in Messages |-> Open(k)'] = [[k \in Messages |-> Open(k)] EXCEPT ![m] = now]
      BY <1>0, <2>4
    <3>3. [k \in Messages |-> Copies(k)'] = [k \in Messages |-> Copies(k)]
      BY <2>5
    <3>4. QED
      BY <1>0, <1>3, <2>1, <2>2, <3>1, <3>2, <3>3 DEF Reply!Begin, Open
  <2>8. QED
    BY <1>0, <2>7 DEF Reply!Next
<1>4. CASE UNCHANGED outbox /\ \E next \in {To(w, "retry"), To(w, "finish"), To(w, "markUnknown")} :
                                 Continue(w, next)
  <2>1. PICK next : next.pc # "send" /\ task' = [task EXCEPT ![w] = next]
    BY <1>0, <1>1, <1>4 DEF Continue, To, Task
  <2>2. QED
    BY <1>0, <1>4, <2>1, OpenKept, ReplyStutters
<1>5. CASE ReserveOutbound(w)
  BY <1>0, <1>3, <1>4, <1>5, BoundAssumption DEF ReserveOutbound, ReservedOutbox, FreshRows, NotReserved
<1>6. CASE RetryOutbound(w)
  BY <1>0, <1>3, <1>4, <1>6 DEF RetryOutbound, RetryMatches, RetriedOutbox, NotReserved
<1>7. QED
  BY <1>5, <1>6

\* The end of a send: nobody else has one open, and at most a copy arrives.
LEMMA SendEnds ==
  ASSUME OnceEnvironment, IInv, NEW w \in Workers, Send(w)
  PROVE  Reply!Next
<1>1. PICK m \in Messages : m = task[w].msg
  BY DEF IInv, SendSound, AcceptedIsCurrent, Send, SendAccepted, SendRejected, SendUncertain, At
<1>2. /\ task[w] \in Task /\ task[w].pc = "send" /\ TypeOK /\ task \in [Workers -> Task]
      /\ fate[m] \in Seq(Fates) /\ fate \in [Messages -> Seq(Fates)]
  BY <1>1 DEF IInv, TypeOK, Send, SendAccepted, SendRejected, SendUncertain, At
<1>3. /\ UNCHANGED <<outbox, partial>>
      /\ \E next : next.pc # "send" /\ task' = [task EXCEPT ![w] = next]
  <2>1. ASSUME NEW f \in Fates, SendAccepted(w, f)
        PROVE  /\ UNCHANGED <<outbox, partial>>
               /\ \E next : next.pc # "send" /\ task' = [task EXCEPT ![w] = next]
    <3>1. [To(w, "markSent") EXCEPT !.accepted = Len(fate[m]) + 1].pc # "send"
      BY <1>2 DEF To, Task
    <3>2. QED
      BY <1>1, <2>1, <3>1 DEF SendAccepted, rows
  <2>2. ASSUME NEW permanent \in BOOLEAN, NEW opened \in BOOLEAN, SendRejected(w, permanent, opened)
        PROVE  /\ UNCHANGED <<outbox, partial>>
               /\ \E next : next.pc # "send" /\ task' = [task EXCEPT ![w] = next]
    <3>1. [To(w, "markFailed") EXCEPT !.permanent = permanent].pc # "send"
      BY <1>2 DEF To, Task
    <3>2. ~(Chunks > 1)
      BY DEF OnceEnvironment
    <3>3. partial' = partial
      BY <2>2, <3>2 DEF SendRejected
    <3>4. QED
      BY <1>1, <2>2, <3>1, <3>3 DEF SendRejected, rows
  <2>3. ASSUME NEW reached \in {"all", "opening", "none"}, NEW f \in Fates,
               SendUncertain(w, reached, f)
        PROVE  /\ UNCHANGED <<outbox, partial>>
               /\ \E next : next.pc # "send" /\ task' = [task EXCEPT ![w] = next]
    <3>1. To(w, "markUnknown").pc # "send"
      BY <1>2 DEF To, Task
    <3>2. ~(Chunks > 1)
      BY DEF OnceEnvironment
    <3>3. partial' = partial
      BY <2>3, <3>2 DEF SendUncertain
    <3>4. QED
      BY <1>1, <2>3, <3>1, <3>3 DEF SendUncertain, rows
  <2>4. QED
    BY <2>1, <2>2, <2>3 DEF Send
<1>4. \A k \in Messages : Open(k)' <=> Open(k) /\ k # m
  <2>1. PICK next : next.pc # "send" /\ task' = [task EXCEPT ![w] = next]
    BY <1>3
  <2>2. task'[w].pc # "send" /\ \A v \in Workers \ {w} : task'[v] = task[v]
    BY <1>2, <2>1
  <2>3. \A v \in Workers \ {w} : task[v].pc = "send" => task[v].msg # m
    BY <1>1, <1>2 DEF IInv, SendSound, OneSender, Sending
  <2>4. QED
    BY <1>1, <1>2, <2>2, <2>3 DEF Open
<1>5. Open(m)
  BY <1>1, <1>2 DEF Open
<1>6. fate' = fate \/ \E f \in Fates : fate' = [fate EXCEPT ![m] = Append(fate[m], f)]
  BY <1>1 DEF Send, SendAccepted, SendRejected, SendUncertain
<1>7. CASE \A k \in Messages : Copies(k)' = Copies(k)
  <2>1. [k \in Messages |-> Open(k)'] =
          [k \in Messages |-> [j \in Messages |-> Open(j)][k] /\ k \notin {m}]
    BY <1>4 DEF Open
  <2>2. Reply!GiveUp({m})
    BY <1>3, <1>5, <1>7, <2>1 DEF Reply!GiveUp, Open
  <2>3. QED
    BY <2>2 DEF Reply!Next
<1>8. CASE fate' = [fate EXCEPT ![m] = Append(fate[m], "delivered")]
  <2> DEFINE D == {n \in DOMAIN fate[m] : fate[m][n] = "delivered"}
  <2>1. /\ DOMAIN fate[m] = 1..Len(fate[m]) /\ Len(fate[m]) \in Nat
        /\ fate'[m] = Append(fate[m], "delivered")
        /\ \A k \in Messages : k # m => fate'[k] = fate[k]
    BY <1>2, <1>8
  <2>2. {n \in DOMAIN fate'[m] : fate'[m][n] = "delivered"} = D \cup {Len(fate[m]) + 1}
    BY <1>2, <2>1
  <2>3. IsFiniteSet(D) /\ Len(fate[m]) + 1 \notin D
    <3>1. IsFiniteSet(1..Len(fate[m]))
      <4>1. 1 \in Int /\ Len(fate[m]) \in Int
        BY <2>1
      <4>2. QED
        BY <4>1, FS_Interval, Zenon
    <3>2. D \in SUBSET (1..Len(fate[m]))
      BY <2>1
    <3>3. IsFiniteSet(D)
      BY <3>1, <3>2, FS_Subset
    <3>4. QED
      BY <2>1, <3>2, <3>3
  <2>4. Cardinality(D \cup {Len(fate[m]) + 1}) = Cardinality(D) + 1 /\ Cardinality(D) \in Nat
    BY <2>3, FS_AddElement, FS_CardinalityType
  <2>5. partial[m] \in Nat /\ partial' = partial
    BY <1>2, <1>3 DEF TypeOK
  <2>6. Copies(m)' = Copies(m) + 1
    <3>1. Copies(m) = Cardinality(D) + partial[m]
      BY DEF Copies
    <3>2. Copies(m)' = Cardinality({n \in DOMAIN fate'[m] : fate'[m][n] = "delivered"}) + partial'[m]
      BY DEF Copies
    <3>3. Cardinality({n \in DOMAIN fate'[m] : fate'[m][n] = "delivered"}) = Cardinality(D) + 1
      BY <2>2, <2>4
    <3>4. partial'[m] = partial[m]
      BY <2>5
    <3> HIDE DEF D
    <3>5. QED
      BY <2>4, <2>5, <3>1, <3>2, <3>3, <3>4
  <2>7. \A k \in Messages : k # m => Copies(k)' = Copies(k)
    BY <1>3, <2>1 DEF Copies
  <2>8. [k \in Messages |-> Copies(k)'] = [[k \in Messages |-> Copies(k)] EXCEPT ![m] = @ + 1]
    BY <2>6, <2>7
  <2>9. [k \in Messages |-> Open(k)'] = [[k \in Messages |-> Open(k)] EXCEPT ![m] = FALSE]
    BY <1>4 DEF Open
  <2>10. Reply!Arrive(m)
    BY <1>3, <1>5, <2>8, <2>9 DEF Reply!Arrive, Open
  <2>11. QED
    BY <2>10 DEF Reply!Next
<1>9. CASE fate' = [fate EXCEPT ![m] = Append(fate[m], "failed")]
  <2>1. /\ DOMAIN fate[m] = 1..Len(fate[m]) /\ Len(fate[m]) \in Nat
        /\ fate'[m] = Append(fate[m], "failed")
        /\ \A k \in Messages : k # m => fate'[k] = fate[k]
    BY <1>2, <1>9
  <2>2. {n \in DOMAIN fate'[m] : fate'[m][n] = "delivered"}
          = {n \in DOMAIN fate[m] : fate[m][n] = "delivered"}
    BY <1>2, <2>1
  <2>3. \A k \in Messages : Copies(k)' = Copies(k)
    BY <1>3, <2>1, <2>2 DEF Copies
  <2>4. QED
    BY <1>7, <2>3
<1>10. CASE fate' = fate
  BY <1>3, <1>7, <1>10 DEF Copies
<1>11. QED
  BY <1>6, <1>8, <1>9, <1>10 DEF Fates

\* A crash ends what its workers were sending.
LEMMA CrashEnds ==
  ASSUME IInv, NEW r \in Replicas, Crash(r)
  PROVE  Reply!Next
<1> DEFINE S == {m \in Messages : Open(m) /\ ~Open(m)'}
<1>1. \A m \in Messages : Open(m)' => Open(m)
  BY DEF Crash, Idle, Open
<1>2. UNCHANGED <<outbox, fate, partial>>
  BY DEF Crash, rows, world
<1>3. [m \in Messages |-> Open(m)'] =
        [m \in Messages |-> [j \in Messages |-> Open(j)][m] /\ m \notin S]
  BY <1>1 DEF Open
<1>4. PICK T \in SUBSET Messages : T = S
  OBVIOUS
<1>5. Reply!GiveUp(T)
  BY <1>2, <1>3, <1>4 DEF Reply!GiveUp, Open, Copies
<1>6. QED
  BY <1>5 DEF Reply!Next

\* Every other step of a worker leaves what ReplyOnce sees alone.
LEMMA WorkStutters ==
  ASSUME TypeOK, NEW w \in Workers,
         \/ Pump(w) \/ ClaimInbound(w) \/ ConsumeUserLimit(w) \/ Deny(w) \/ Route(w)
         \/ MarkSent(w) \/ MarkUnknown(w) \/ MarkFailed(w) \/ Finish(w) \/ Audit(w) \/ Fail(w)
         \/ Throw(w)
  PROVE  UNCHANGED Reply!vars
<1>0. /\ task[w] \in Task /\ TypeOK /\ \A m \in Messages : outbox[m] \in OutboxRow
      /\ outbox \in [Messages -> OutboxRow]
  BY DEF TypeOK
<1>1. task[w].pc # "send" /\ UNCHANGED <<fate, partial>>
  BY DEF Pump, ClaimInbound, ConsumeUserLimit, Deny, Route, MarkSent, MarkUnknown, MarkFailed, Finish,
    Audit, Fail, Throw, At, Statements, world
<1>2. OnError(task[w]).pc # "send"
  BY <1>0, <1>1, OnErrorEnds
<1>3. Idle.pc = "idle" /\ \A pc \in Place : To(w, pc) \in Task /\ To(w, pc).pc = pc
  BY <1>0 DEF Idle, To, Task
<1>4. ASSUME NEW next, next.pc # "send", Continue(w, next)
      PROVE  \E t : t.pc # "send" /\ task' = [task EXCEPT ![w] = t]
  BY <1>2, <1>4 DEF Continue
<1>5. \E t : t.pc # "send" /\ task' = [task EXCEPT ![w] = t]
  <2>1. CASE Pump(w)
    <3> DEFINE t == [Idle EXCEPT !.pc = IF Head(queue[Host[w]]).claimed THEN "limit" ELSE "claim",
                                 !.msg = Head(queue[Host[w]]).msg]
    <3>1. t.pc # "send"
      BY DEF Idle
    <3>2. QED
      BY <2>1, <3>1 DEF Pump
  <2>2. CASE ClaimInbound(w)
    BY <1>3, <1>4, <2>2 DEF ClaimInbound, Place
  <2>3. CASE ConsumeUserLimit(w) \/ Route(w)
    BY <1>3, <2>3 DEF ConsumeUserLimit, Route, Place
  <2>4. CASE Deny(w) \/ Audit(w) \/ MarkFailed(w)
    BY <1>3, <1>4, <2>4 DEF Deny, Audit, MarkFailed, Place
  <2>5. CASE Finish(w)
    BY <1>3, <1>4, <2>5 DEF Finish, Place
  <2>6. CASE MarkSent(w)
    <3>1. [To(w, "finish") EXCEPT !.accepted = 0].pc # "send"
      BY <1>3 DEF Place, Task
    <3>2. QED
      BY <1>3, <1>4, <2>6, <3>1 DEF MarkSent, Place
  <2>7. CASE MarkUnknown(w)
    <3>1. [To(w, "finish") EXCEPT !.unknown = TRUE, !.accepted = 0].pc # "send"
      BY <1>3 DEF Place, Task
    <3>2. QED
      BY <1>4, <2>7, <3>1 DEF MarkUnknown
  <2>8. CASE Fail(w) \/ Throw(w)
    BY <1>2, <1>3, <2>8 DEF Fail, Throw
  <2>9. QED
    BY <2>1, <2>2, <2>3, <2>4, <2>5, <2>6, <2>7, <2>8
<1>6. \A m \in Messages : Open(m)' <=> Open(m)
  BY <1>0, <1>1, <1>5, OpenKept
<1>7. \A m \in Messages : outbox'[m].attempts = outbox[m].attempts
  <2>1. CASE MarkSent(w)
    BY <1>0, <2>1, ColumnsAfter DEF MarkSent
  <2>2. CASE MarkUnknown(w)
    BY <1>0, <2>2, ColumnsAfter DEF MarkUnknown
  <2>3. CASE MarkFailed(w)
    BY <1>0, <2>3, ColumnsAfter DEF MarkFailed
  <2>4. CASE outbox' = outbox
    BY <2>4
  <2>5. QED
    BY <2>1, <2>2, <2>3, <2>4 DEF Pump, ClaimInbound, ConsumeUserLimit, Deny, Route, Finish, Audit,
      Fail, Throw, rows
<1>8. QED
  BY <1>1, <1>6, <1>7, ReplyStutters

\* And so do webhooks, recovery, the clock and the delivery statuses.
LEMMA EnvironmentStutters ==
  ASSUME TypeOK,
         \/ \E r \in Replicas :
              \/ \E m \in Messages : ReceiveWebhook(r, m)
              \/ DrainClaim(r) \/ DrainQueue(r)
              \/ \E status \in {"failed", "ignored"} : DrainRelease(r, status)
              \/ DrainAbandon(r)
         \/ \E m \in Messages :
              \/ GrowStale(m)
              \/ \E n \in 1..AttemptLimit, s \in StatusKinds, dropped \in BOOLEAN :
                   DeliveryStatus(m, n, s, dropped)
  PROVE  UNCHANGED Reply!vars
<1>0. /\ \A m \in Messages : outbox[m] \in OutboxRow
      /\ outbox \in [Messages -> OutboxRow]
  BY DEF TypeOK
<1>1. UNCHANGED <<task, fate, partial>>
  BY DEF ReceiveWebhook, DrainClaim, DrainQueue, DrainRelease, DrainAbandon, GrowStale, DeliveryStatus,
    memory, world
<1>2. \A m \in Messages : outbox'[m].attempts = outbox[m].attempts
  <2>1. ASSUME NEW m \in Messages, NEW n \in 1..AttemptLimit, NEW s \in StatusKinds,
               NEW dropped \in BOOLEAN, DeliveryStatus(m, n, s, dropped)
        PROVE  \A k \in Messages : outbox'[k].attempts = outbox[k].attempts
    BY <1>0, <2>1, ColumnsAfter DEF DeliveryStatus
  <2>2. CASE outbox' = outbox
    BY <2>2
  <2>3. QED
    BY <2>1, <2>2 DEF ReceiveWebhook, DrainClaim, DrainQueue, DrainRelease, DrainAbandon, GrowStale,
      rows
<1>3. QED
  BY <1>1, <1>2, ReplyStutters DEF Open

LEMMA ReplyStep ==
  ASSUME OnceEnvironment, IInv, FreshRows, [Next]_vars
  PROVE  Reply!Next \/ UNCHANGED Reply!vars
<1>1. CASE UNCHANGED vars
  BY <1>1, ReplyStutters DEF vars, Open
<1>2. ASSUME NEW w \in Workers, Pump(w) \/ Work(w) \/ Throw(w)
      PROVE  Reply!Next \/ UNCHANGED Reply!vars
  BY <1>2, WorkStutters, SendEnds, ReservationBegins DEF Work, IInv
<1>3. ASSUME NEW r \in Replicas, Crash(r)
      PROVE  Reply!Next \/ UNCHANGED Reply!vars
  BY <1>3, CrashEnds
<1>4. QED
  BY <1>1, <1>2, <1>3, EnvironmentStutters DEF Next, IInv

LEMMA ReplyInit ==
  ASSUME Init
  PROVE  Reply!Init /\ FreshRows
<1>1. FreshRows
  BY DEF Init, FreshRows, NoOutbox
<1>2. \A m \in Messages : outbox[m].attempts = 0 /\ ~Open(m) /\ Copies(m) = 0
  <2>1. ASSUME NEW m \in Messages PROVE Copies(m) = 0
    <3>1. {n \in DOMAIN fate[m] : fate[m][n] = "delivered"} = {}
      BY DEF Init
    <3>2. QED
      BY <3>1, FS_EmptySet DEF Init, Copies
  <2>2. QED
    BY <2>1 DEF Init, NoOutbox, Idle, Open
<1>3. QED
  BY <1>1, <1>2 DEF Reply!Init, Open

\* Where a reply fits one message and Meta repeats no delivery status, every
\* behaviour of the pipeline is one of ReplyOnce: deliveries are begun one at a
\* time, at most AttemptLimit of them, and none after a copy has arrived.
THEOREM ReplyRefinement ==
  ASSUME OnceEnvironment
  PROVE  Spec => ImplementsReplyOnce
<1>1. Init => IInv /\ FreshRows /\ Reply!Init
  BY InitInv, ReplyInit
<1>2. IInv /\ FreshRows /\ [Next]_vars => (IInv /\ FreshRows)'
  <2>1. CASE UNCHANGED vars
    BY <2>1, NextInv DEF vars, FreshRows
  <2>2. CASE Next
    BY <2>2, NextInv, FreshKept DEF IInv
  <2>3. QED
    BY <2>1, <2>2
<1>3. IInv /\ FreshRows /\ [Next]_vars => [Reply!Next]_(Reply!vars)
  BY ReplyStep
<1>4. QED
  BY <1>1, <1>2, <1>3, PTL DEF Spec, ImplementsReplyOnce, Reply!Spec

-----------------------------------------------------------------------------
(***************************************************************************)
(* Deliveries are paid for by claims                                       *)
(***************************************************************************)

\* Claims of m that have not led to a delivery yet: a worker on its way to the
\* reservation, a recovery loop that holds the message, a job that is claimed.
Carriers(m) == {w \in Workers : /\ task[w].pc \in {"limit", "route", "reserve", "retry"}
                                /\ task[w].msg = m}
Drainers(m) == {r \in Replicas : drain[r] = m}
Waiting(m) == {p \in Replicas \X Nat : /\ p[2] \in DOMAIN queue[p[1]]
                                       /\ queue[p[1]][p[2]] = [msg |-> m, claimed |-> TRUE]}

\* Every delivery, and every claim that may still become one, has been counted.
Paid(m) ==
  /\ IsFiniteSet(Carriers(m)) /\ IsFiniteSet(Drainers(m)) /\ IsFiniteSet(Waiting(m))
  /\ outbox[m].attempts + Cardinality(Carriers(m)) + Cardinality(Drainers(m))
       + Cardinality(Waiting(m)) <= inbound[m].attempts
  /\ inbound[m].status = "none" => inbound[m].attempts = 0

LEMMA FewerFew ==
  ASSUME NEW S, IsFiniteSet(S), NEW T, T \subseteq S
  PROVE  IsFiniteSet(T) /\ Cardinality(T) <= Cardinality(S) /\ Cardinality(T) \in Nat
<1>1. T \in SUBSET S
  OBVIOUS
<1>2. IsFiniteSet(T) /\ Cardinality(T) <= Cardinality(S)
  BY <1>1, FS_Subset
<1>3. QED
  BY <1>2, FS_CardinalityType

LEMMA OneMore ==
  ASSUME NEW S, IsFiniteSet(S), NEW x, NEW T, T \subseteq S \cup {x}
  PROVE  IsFiniteSet(T) /\ Cardinality(T) <= Cardinality(S) + 1 /\ Cardinality(T) \in Nat
<1>1. /\ IsFiniteSet(S \cup {x})
      /\ Cardinality(S \cup {x}) = IF x \in S THEN Cardinality(S) ELSE Cardinality(S) + 1
      /\ Cardinality(S) \in Nat
  BY FS_AddElement, FS_CardinalityType
<1>2. IsFiniteSet(T) /\ Cardinality(T) <= Cardinality(S \cup {x}) /\ Cardinality(T) \in Nat
  BY <1>1, FewerFew
<1>3. QED
  BY <1>1, <1>2

LEMMA OneLess ==
  ASSUME NEW S, IsFiniteSet(S), NEW x \in S, NEW T, T \subseteq S \ {x}
  PROVE  IsFiniteSet(T) /\ Cardinality(T) <= Cardinality(S) - 1 /\ Cardinality(T) \in Nat
<1>1. IsFiniteSet(S \ {x}) /\ Cardinality(S \ {x}) = Cardinality(S) - 1 /\ Cardinality(S) \in Nat
  BY FS_RemoveElement, FS_CardinalityType
<1>2. IsFiniteSet(T) /\ Cardinality(T) <= Cardinality(S \ {x}) /\ Cardinality(T) \in Nat
  BY <1>1, FewerFew
<1>3. QED
  BY <1>1, <1>2

\* A step that takes claims away, and counts none back.
LEMMA ClaimsGo ==
  ASSUME NEW m \in Messages, Paid(m), TypeOK,
         outbox'[m].attempts = outbox[m].attempts,
         inbound'[m].attempts \in Nat, inbound'[m].attempts >= inbound[m].attempts,
         inbound'[m].status = "none" => inbound'[m].attempts = 0,
         Carriers(m)' \subseteq Carriers(m), Drainers(m)' \subseteq Drainers(m),
         Waiting(m)' \subseteq Waiting(m)
  PROVE  Paid(m)'
<1>1. /\ IsFiniteSet(Carriers(m)') /\ Cardinality(Carriers(m)') <= Cardinality(Carriers(m))
      /\ Cardinality(Carriers(m)') \in Nat
  BY FewerFew DEF Paid
<1>2. /\ IsFiniteSet(Drainers(m)') /\ Cardinality(Drainers(m)') <= Cardinality(Drainers(m))
      /\ Cardinality(Drainers(m)') \in Nat
  BY FewerFew DEF Paid
<1>3. /\ IsFiniteSet(Waiting(m)') /\ Cardinality(Waiting(m)') <= Cardinality(Waiting(m))
      /\ Cardinality(Waiting(m)') \in Nat
  BY FewerFew DEF Paid
<1>4. /\ Cardinality(Carriers(m)) \in Nat /\ Cardinality(Drainers(m)) \in Nat
      /\ Cardinality(Waiting(m)) \in Nat
      /\ outbox[m].attempts \in Nat /\ inbound[m].attempts \in Nat
  BY FS_CardinalityType, BoundAssumption DEF Paid, TypeOK, OutboxRow, InboundRow
<1>5. QED
  BY <1>1, <1>2, <1>3, <1>4 DEF Paid

Carrying == {"limit", "route", "reserve", "retry"}

\* A worker's step, seen through Carriers.
LEMMA CarriersAfter ==
  ASSUME TypeOK, NEW w \in Workers, NEW next, task' = [task EXCEPT ![w] = next], NEW m \in Messages
  PROVE  /\ Carriers(m)' \subseteq Carriers(m) \cup {w}
         /\ next.pc \notin Carrying => Carriers(m)' \subseteq Carriers(m) \ {w}
         /\ next.msg # m => Carriers(m)' \subseteq Carriers(m) \ {w}
         /\ w \in Carriers(m) => Carriers(m)' \subseteq Carriers(m)
<1>1. task'[w] = next /\ \A v \in Workers \ {w} : task'[v] = task[v]
  BY DEF TypeOK
<1>2. QED
  BY <1>1 DEF Carriers, Carrying

\* An error gives the claim up.
LEMMA OnErrorDrops ==
  ASSUME NEW t \in Task
  PROVE  OnError(t).pc \notin Carrying
<1>1. CASE t.pc = "markSent"
  BY <1>1 DEF OnError, Task, Carrying
<1>2. CASE t.pc = "fail"
  BY <1>2 DEF OnError, Idle, Carrying
<1>3. CASE t.pc \notin {"markSent", "fail"}
  <2>1. OnError(t) = [t EXCEPT !.pc = "fail", !.permanent = FALSE]
    BY <1>3 DEF OnError
  <2>2. QED
    BY <2>1 DEF Task, Carrying
<1>4. QED
  BY <1>1, <1>2, <1>3

\* What a statement does to the columns of the inbound row that count.
LEMMA ClaimColumns ==
  ASSUME NEW row \in InboundRow
  PROVE  /\ Claimed(row).status = "processing" /\ Claimed(row).attempts = row.attempts + 1
         /\ \A status : /\ SetInboundStatus(row, status).status = status
                       /\ SetInboundStatus(row, status).attempts = row.attempts
         /\ MarkInboundUndeliverable(row).status = "failed"
         /\ MarkInboundUndeliverable(row).attempts \in Nat
         /\ MarkInboundUndeliverable(row).attempts >= row.attempts
<1>0. row.attempts \in Nat /\ AttemptLimit \in Nat
  BY BoundAssumption DEF InboundRow
<1>1. Claimed(row).status = "processing" /\ Claimed(row).attempts = row.attempts + 1
  BY DEF Claimed
<1>2. \A status : /\ SetInboundStatus(row, status).status = status
                  /\ SetInboundStatus(row, status).attempts = row.attempts
  BY DEF SetInboundStatus, InboundRow
<1>3. /\ MarkInboundUndeliverable(row).status = "failed"
      /\ MarkInboundUndeliverable(row).attempts \in Nat
      /\ MarkInboundUndeliverable(row).attempts >= row.attempts
  BY <1>0 DEF MarkInboundUndeliverable
<1>4. QED
  BY <1>1, <1>2, <1>3

\* The claims of a message are never taken back, and a row that has any is there.
Counted(m) ==
  /\ inbound'[m].attempts \in Nat
  /\ inbound'[m].attempts >= inbound[m].attempts
  /\ inbound'[m].status = "none" => inbound'[m].attempts = 0

\* The worker's next task carries no claim, or the claim it had.
EndsOrKeeps(w) ==
  \E next : /\ task' = [task EXCEPT ![w] = next]
            /\ next.pc \notin Carrying \/ (task[w].pc \in Carrying /\ next.msg = task[w].msg)

\* A worker that ends its claim, or keeps it, and counts nothing.
LEMMA WorkPaid ==
  ASSUME Known, NEW m \in Messages, Paid(m), NEW w \in Workers, EndsOrKeeps(w),
         queue' = queue, drain' = drain,
         outbox'[m].attempts = outbox[m].attempts, Counted(m)
  PROVE  Paid(m)'
<1>1. TypeOK
  BY DEF Known
<1>2. Carriers(m)' \subseteq Carriers(m)
  <2>0. PICK next : /\ task' = [task EXCEPT ![w] = next]
                    /\ next.pc \notin Carrying \/ (task[w].pc \in Carrying /\ next.msg = task[w].msg)
    BY DEF EndsOrKeeps
  <2>1. CASE next.pc \notin Carrying
    BY <1>1, <2>0, <2>1, CarriersAfter
  <2>2. CASE next.msg # m
    BY <1>1, <2>0, <2>2, CarriersAfter
  <2>3. CASE task[w].pc \in Carrying /\ task[w].msg = m
    <3>1. w \in Carriers(m)
      BY <2>3 DEF Carriers, Carrying
    <3>2. QED
      BY <1>1, <2>0, <3>1, CarriersAfter
  <2>4. QED
    BY <2>0, <2>1, <2>2, <2>3
<1>3. Drainers(m)' = Drainers(m) /\ Waiting(m)' = Waiting(m)
  BY DEF Drainers, Waiting
<1>4. QED
  BY <1>1, <1>2, <1>3, ClaimsGo DEF Counted

\* A worker's claim is counted, and carried on or lost.
LEMMA ClaimPaid ==
  ASSUME Known, NEW m \in Messages, Paid(m), NEW w \in Workers, ClaimInbound(w)
  PROVE  Paid(m)'
<1>0. PICK k \in Messages : k = task[w].msg
  BY DEF Known, TasksKnown, ClaimInbound, At
<1>1. /\ TypeOK /\ task[w] \in Task /\ k = task[w].msg /\ inbound[m] \in InboundRow
      /\ inbound \in [Messages -> InboundRow] /\ inbound[m].attempts \in Nat
      /\ outbox' = outbox /\ queue' = queue /\ drain' = drain
  BY <1>0, BoundAssumption DEF Known, TypeOK, InboundRow, ClaimInbound
<1>2. CASE UNCHANGED inbound /\ Continue(w, Idle)
  <2>1. Idle.pc \notin Carrying /\ OnError(task[w]).pc \notin Carrying
    BY <1>1, OnErrorDrops DEF Idle, Carrying
  <2>2. EndsOrKeeps(w)
    BY <1>2, <2>1 DEF Continue, EndsOrKeeps
  <2>3. Counted(m)
    BY <1>1, <1>2 DEF Counted, Paid
  <2>4. QED
    BY <1>1, <2>2, <2>3, WorkPaid
<1>3. CASE inbound' = [inbound EXCEPT ![k] = Claimed(@)] /\ Continue(w, To(w, "limit"))
  <2>1. To(w, "limit").msg = k /\ OnError(task[w]).pc \notin Carrying
    BY <1>1, OnErrorDrops DEF To, Task
  <2>2. PICK next \in {To(w, "limit"), OnError(task[w])} : task' = [task EXCEPT ![w] = next]
    BY <1>3 DEF Continue
  <2>3. CASE m = k
    <3>1. inbound'[m].attempts = inbound[m].attempts + 1 /\ inbound'[m].status = "processing"
      BY <1>1, <1>3, <2>3, ClaimColumns
    <3>2. Carriers(m)' \subseteq Carriers(m) \cup {w}
      BY <1>1, <2>2, CarriersAfter
    <3>3. /\ IsFiniteSet(Carriers(m)') /\ Cardinality(Carriers(m)') <= Cardinality(Carriers(m)) + 1
          /\ Cardinality(Carriers(m)') \in Nat
      BY <3>2, OneMore DEF Paid
    <3>4. Drainers(m)' = Drainers(m) /\ Waiting(m)' = Waiting(m) /\ outbox'[m] = outbox[m]
      BY <1>1 DEF Drainers, Waiting
    <3>5. /\ Cardinality(Carriers(m)) \in Nat /\ Cardinality(Drainers(m)) \in Nat
          /\ Cardinality(Waiting(m)) \in Nat /\ outbox[m].attempts \in Nat
      BY <1>1, FS_CardinalityType, BoundAssumption DEF Paid, TypeOK, OutboxRow
    <3>6. QED
      BY <1>1, <3>1, <3>3, <3>4, <3>5 DEF Paid
  <2>4. CASE m # k
    <3>1. next.pc \notin Carrying \/ next.msg # m
      BY <2>1, <2>2, <2>4
    <3>2. Carriers(m)' \subseteq Carriers(m)
      BY <1>1, <2>2, <3>1, CarriersAfter
    <3>3. Drainers(m)' = Drainers(m) /\ Waiting(m)' = Waiting(m) /\ outbox'[m] = outbox[m]
      BY <1>1 DEF Drainers, Waiting
    <3>4. inbound'[m] = inbound[m]
      BY <1>1, <1>3, <2>4
    <3>5. QED
      BY <1>1, <3>2, <3>3, <3>4, ClaimsGo DEF Paid
  <2>5. QED
    BY <2>3, <2>4
<1>4. QED
  BY <1>1, <1>2, <1>3 DEF ClaimInbound

\* A reservation uses up the claim of the worker that makes it.
LEMMA ReservePaid ==
  ASSUME Known, FreshRows, NEW m \in Messages, Paid(m), NEW w \in Workers,
         ReserveOutbound(w) \/ RetryOutbound(w)
  PROVE  Paid(m)'
<1>0. PICK k \in Messages : k = task[w].msg
  BY DEF Known, TasksKnown, ReserveOutbound, RetryOutbound, At
<1>a. /\ TypeOK /\ outbox[m] \in OutboxRow /\ outbox \in [Messages -> OutboxRow]
      /\ inbound[m] \in InboundRow
  BY DEF Known, TypeOK
<1>1. /\ TypeOK /\ task[w] \in Task /\ k = task[w].msg /\ outbox[m] \in OutboxRow
      /\ inbound[m].attempts \in Nat /\ outbox[m].attempts \in Nat
      /\ outbox \in [Messages -> OutboxRow] /\ task[w].pc \in {"reserve", "retry"}
      /\ inbound' = inbound /\ queue' = queue /\ drain' = drain
  <2>1. task[w] \in Task
    BY <1>a DEF TypeOK
  <2>2. inbound[m].attempts \in Nat /\ outbox[m].attempts \in Nat
    BY <1>a, BoundAssumption DEF InboundRow, OutboxRow
  <2>3. /\ task[w].pc \in {"reserve", "retry"}
        /\ inbound' = inbound /\ queue' = queue /\ drain' = drain
    BY DEF ReserveOutbound, RetryOutbound, At
  <2>4. QED
    BY <1>0, <1>a, <2>1, <2>2, <2>3
<1>2. OnError(task[w]).pc \notin Carrying
  BY <1>1, OnErrorDrops
<1>3. /\ Drainers(m)' = Drainers(m) /\ Waiting(m)' = Waiting(m) /\ inbound'[m] = inbound[m]
      /\ Counted(m)
  BY <1>1 DEF Drainers, Waiting, Counted, Paid
<1>4. CASE /\ UNCHANGED outbox
           /\ \E next \in {To(w, "retry"), To(w, "finish"), To(w, "markUnknown")} : Continue(w, next)
  <2>1. EndsOrKeeps(w)
    <3>1. task[w].pc \in Carrying /\ To(w, "retry").msg = task[w].msg
      BY <1>1 DEF Carrying, To, Task
    <3>2. To(w, "finish").pc \notin Carrying /\ To(w, "markUnknown").pc \notin Carrying
      BY <1>1 DEF Carrying, To, Task
    <3>3. PICK next \in {To(w, "retry"), To(w, "finish"), To(w, "markUnknown"), OnError(task[w])} :
            task' = [task EXCEPT ![w] = next]
      BY <1>4 DEF Continue
    <3>4. QED
      BY <1>2, <3>1, <3>2, <3>3 DEF EndsOrKeeps
  <2>2. QED
    BY <1>1, <1>3, <1>4, <2>1, WorkPaid
<1>5. CASE /\ Continue(w, To(w, "send"))
           /\ \E row : row.attempts = outbox[k].attempts + 1 /\ outbox' = [outbox EXCEPT ![k] = row]
  <2>1. PICK next : next.pc \notin Carrying /\ task' = [task EXCEPT ![w] = next]
    BY <1>1, <1>2, <1>5 DEF Continue, To, Task, Carrying
  <2>2. CASE m = k
    <3>1. outbox'[m].attempts = outbox[m].attempts + 1
      BY <1>1, <1>5, <2>2
    <3>2. w \in Carriers(m)
      BY <1>1, <2>2 DEF Carriers
    <3>3. Carriers(m)' \subseteq Carriers(m) \ {w}
      BY <1>1, <2>1, CarriersAfter
    <3>4. /\ IsFiniteSet(Carriers(m)') /\ Cardinality(Carriers(m)') <= Cardinality(Carriers(m)) - 1
          /\ Cardinality(Carriers(m)') \in Nat
      BY <3>2, <3>3, OneLess DEF Paid
    <3>5. /\ Cardinality(Carriers(m)) \in Nat /\ Cardinality(Drainers(m)) \in Nat
          /\ Cardinality(Waiting(m)) \in Nat
      BY FS_CardinalityType DEF Paid
    <3>6. QED
      BY <1>1, <1>3, <3>1, <3>4, <3>5 DEF Paid
  <2>3. CASE m # k
    <3>1. EndsOrKeeps(w)
      BY <2>1 DEF EndsOrKeeps
    <3>2. outbox'[m] = outbox[m]
      BY <1>1, <1>5, <2>3
    <3>3. QED
      BY <1>1, <1>3, <3>1, <3>2, WorkPaid
  <2>4. QED
    BY <2>2, <2>3
<1>6. CASE ReserveOutbound(w)
  BY <1>1, <1>4, <1>5, <1>6 DEF ReserveOutbound, ReservedOutbox, FreshRows, NotReserved
<1>7. CASE RetryOutbound(w)
  BY <1>1, <1>4, <1>5, <1>7 DEF RetryOutbound, RetriedOutbox, NotReserved
<1>8. QED
  BY <1>6, <1>7

\* A job that enters a queue, seen through Waiting.
LEMMA EnqueueWaiting ==
  ASSUME TypeOK, NEW r \in Replicas, NEW job \in Job, Enqueue(r, job), NEW m \in Messages
  PROVE  /\ Waiting(m)' \subseteq Waiting(m) \cup {<<r, Len(queue[r]) + 1>>}
         /\ job # [msg |-> m, claimed |-> TRUE] => Waiting(m)' \subseteq Waiting(m)
<1>1. PICK q \in Seq(Job) : q = queue[r]
  BY DEF TypeOK
<1>2. queue'[r] = Append(q, job) /\ \A s \in Replicas \ {r} : queue'[s] = queue[s]
  BY <1>1 DEF Enqueue, TypeOK
<1>3. /\ DOMAIN q = 1..Len(q) /\ Len(q) \in Nat /\ DOMAIN Append(q, job) = 1..(Len(q) + 1)
      /\ \A i \in 1..Len(q) : Append(q, job)[i] = q[i]
      /\ Append(q, job)[Len(q) + 1] = job
  OBVIOUS
<1>4. ASSUME NEW p \in Waiting(m)', p \notin Waiting(m)
      PROVE  p = <<r, Len(q) + 1>> /\ job = [msg |-> m, claimed |-> TRUE]
  <2>1. PICK s \in Replicas, i \in Nat : p = <<s, i>>
    BY DEF Waiting
  <2>2. i \in DOMAIN queue'[s] /\ queue'[s][i] = [msg |-> m, claimed |-> TRUE]
    BY <2>1 DEF Waiting
  <2>3. ~(i \in DOMAIN queue[s] /\ queue[s][i] = [msg |-> m, claimed |-> TRUE])
    BY <1>4, <2>1 DEF Waiting
  <2>4. s = r
    BY <1>2, <2>2, <2>3
  <2>5. i = Len(q) + 1
    BY <1>1, <1>2, <1>3, <2>2, <2>3, <2>4
  <2>6. QED
    BY <1>2, <1>3, <2>1, <2>2, <2>4, <2>5
<1>5. QED
  BY <1>1, <1>4

\* The oldest job leaves its queue: the jobs behind it move up.
LEMMA PumpWaiting ==
  ASSUME TypeOK, NEW r \in Replicas, queue[r] # <<>>,
         queue' = [queue EXCEPT ![r] = Tail(@)], NEW m \in Messages, IsFiniteSet(Waiting(m))
  PROVE  /\ IsFiniteSet(Waiting(m)') /\ Cardinality(Waiting(m)') \in Nat
         /\ Cardinality(Waiting(m)') <= Cardinality(Waiting(m))
         /\ Head(queue[r]) = [msg |-> m, claimed |-> TRUE]
              => Cardinality(Waiting(m)') <= Cardinality(Waiting(m)) - 1
<1>1. PICK q \in Seq(Job) : q = queue[r]
  BY DEF TypeOK
<1>2. queue'[r] = Tail(q) /\ \A s \in Replicas \ {r} : queue'[s] = queue[s]
  BY <1>1 DEF TypeOK
<1>3. /\ DOMAIN q = 1..Len(q) /\ Len(q) \in Nat /\ Len(q) >= 1
      /\ Len(Tail(q)) = Len(q) - 1 /\ DOMAIN Tail(q) = 1..(Len(q) - 1)
      /\ \A i \in 1..(Len(q) - 1) : Tail(q)[i] = q[i + 1]
      /\ Head(q) = q[1]
  BY <1>1
<1> DEFINE T == Waiting(m) \ {<<r, 1>>}
           f == [p \in Waiting(m)' |-> <<p[1], IF p[1] = r THEN p[2] + 1 ELSE p[2]>>]
<1>4. ASSUME NEW p \in Waiting(m)'
      PROVE  /\ f[p] \in T
             /\ p \in Replicas \X Nat
  <2>1. PICK s \in Replicas, i \in Nat : p = <<s, i>>
    BY DEF Waiting
  <2>2. i \in DOMAIN queue'[s] /\ queue'[s][i] = [msg |-> m, claimed |-> TRUE]
    BY <2>1 DEF Waiting
  <2>3. f[p] = <<s, IF s = r THEN i + 1 ELSE i>>
    BY <2>1
  <2>4. CASE s = r
    <3>1. i \in 1..(Len(q) - 1) /\ q[i + 1] = [msg |-> m, claimed |-> TRUE]
      BY <1>2, <1>3, <2>2, <2>4
    <3>2. i + 1 \in Nat /\ i + 1 \in DOMAIN queue[s] /\ queue[s][i + 1] = q[i + 1] /\ i + 1 # 1
      BY <1>1, <1>3, <2>4, <3>1
    <3>3. f[p] = <<s, i + 1>>
      BY <2>3, <2>4
    <3>4. <<s, i + 1>> \in Waiting(m)
      BY <3>1, <3>2 DEF Waiting
    <3>5. QED
      BY <2>1, <3>2, <3>3, <3>4
  <2>5. CASE s # r
    <3>1. <<s, i>> \in Waiting(m)
      BY <1>2, <2>2, <2>5 DEF Waiting
    <3>2. QED
      BY <2>1, <2>3, <2>5, <3>1
  <2>6. QED
    BY <2>4, <2>5
<1>5. f \in Injection(Waiting(m)', T)
  <2>1. f \in [Waiting(m)' -> T]
    BY <1>4
  <2>2. ASSUME NEW a \in Waiting(m)', NEW b \in Waiting(m)', f[a] = f[b]
        PROVE  a = b
    <3>1. a \in Replicas \X Nat /\ b \in Replicas \X Nat
      BY <1>4
    <3>2. /\ <<a[1], IF a[1] = r THEN a[2] + 1 ELSE a[2]>> = <<b[1], IF b[1] = r THEN b[2] + 1 ELSE b[2]>>
      BY <2>2
    <3>3. a[1] = b[1] /\ a[2] = b[2]
      BY <3>1, <3>2
    <3>4. QED
      BY <3>1, <3>3
  <2>3. QED
    BY <2>1, <2>2 DEF Injection, IsInjective
<1>6. IsFiniteSet(T) /\ Cardinality(T) \in Nat /\ Cardinality(T) <= Cardinality(Waiting(m))
  BY FewerFew
<1>7. /\ IsFiniteSet(Waiting(m)') /\ Cardinality(Waiting(m)') <= Cardinality(T)
      /\ Cardinality(Waiting(m)') \in Nat
  <2> HIDE DEF f, T
  <2>1. IsFiniteSet(Waiting(m)') /\ Cardinality(Waiting(m)') <= Cardinality(T)
    BY <1>5, <1>6, FS_Injection
  <2>2. QED
    BY <2>1, FS_CardinalityType
<1>8. ASSUME Head(queue[r]) = [msg |-> m, claimed |-> TRUE]
      PROVE  Cardinality(T) <= Cardinality(Waiting(m)) - 1
  <2>1. <<r, 1>> \in Waiting(m)
    BY <1>1, <1>3, <1>8 DEF Waiting
  <2>2. QED
    BY <2>1, OneLess
<1>9. Cardinality(Waiting(m)) \in Nat
  BY FS_CardinalityType
<1>10. QED
  BY <1>6, <1>7, <1>8, <1>9

\* A worker takes over the claim of the job it starts.
LEMMA PumpPaid ==
  ASSUME Known, NEW m \in Messages, Paid(m), NEW w \in Workers, Pump(w)
  PROVE  Paid(m)'
<1>1. PICK r \in Replicas : r = Host[w]
  BY ReplicaAssumption
<1>2. /\ TypeOK /\ inbound' = inbound /\ outbox' = outbox /\ drain' = drain
      /\ queue[r] # <<>> /\ queue' = [queue EXCEPT ![r] = Tail(@)]
  BY <1>1 DEF Known, Pump, rows
<1>3. /\ IsFiniteSet(Waiting(m)') /\ Cardinality(Waiting(m)') \in Nat
      /\ Cardinality(Waiting(m)') <= Cardinality(Waiting(m))
      /\ Head(queue[r]) = [msg |-> m, claimed |-> TRUE]
           => Cardinality(Waiting(m)') <= Cardinality(Waiting(m)) - 1
  BY <1>2, PumpWaiting DEF Paid
<1>4. PICK job \in Job : job = Head(queue[r])
  BY <1>2 DEF TypeOK
<1>5. PICK next : /\ task' = [task EXCEPT ![w] = next] /\ next.msg = job.msg
                  /\ next.pc = IF job.claimed THEN "limit" ELSE "claim"
  <2> DEFINE t == [Idle EXCEPT !.pc = IF job.claimed THEN "limit" ELSE "claim", !.msg = job.msg]
  <2>1. task' = [task EXCEPT ![w] = t]
    BY <1>1, <1>4 DEF Pump
  <2>2. t.msg = job.msg /\ t.pc = IF job.claimed THEN "limit" ELSE "claim"
    BY DEF Idle
  <2>3. QED
    BY <2>1, <2>2
<1>6. Drainers(m)' = Drainers(m)
  BY <1>2 DEF Drainers
<1>7. /\ Cardinality(Carriers(m)) \in Nat /\ Cardinality(Drainers(m)) \in Nat
      /\ Cardinality(Waiting(m)) \in Nat
      /\ outbox[m].attempts \in Nat /\ inbound[m].attempts \in Nat
  BY <1>2, FS_CardinalityType, BoundAssumption DEF Paid, TypeOK, OutboxRow, InboundRow
<1>8. CASE job = [msg |-> m, claimed |-> TRUE]
  <2>1. /\ IsFiniteSet(Carriers(m)') /\ Cardinality(Carriers(m)') <= Cardinality(Carriers(m)) + 1
        /\ Cardinality(Carriers(m)') \in Nat
    <3>1. Carriers(m)' \subseteq Carriers(m) \cup {w}
      BY <1>2, <1>5, CarriersAfter
    <3>2. QED
      BY <3>1, OneMore DEF Paid
  <2>2. Cardinality(Waiting(m)') <= Cardinality(Waiting(m)) - 1
    BY <1>3, <1>4, <1>8
  <2>3. Cardinality(Carriers(m)') + Cardinality(Waiting(m)')
          <= Cardinality(Carriers(m)) + Cardinality(Waiting(m))
    BY <1>3, <1>7, <2>1, <2>2
  <2>4. outbox[m].attempts + Cardinality(Carriers(m)') + Cardinality(Drainers(m)')
          + Cardinality(Waiting(m)') <= inbound[m].attempts
    BY <1>3, <1>6, <1>7, <2>1, <2>3 DEF Paid
  <2>5. QED
    BY <1>2, <1>3, <1>6, <2>1, <2>4 DEF Paid
<1>9. CASE job # [msg |-> m, claimed |-> TRUE]
  <2>1. next.msg # m \/ next.pc \notin Carrying
    BY <1>5, <1>9 DEF Job, Carrying
  <2>2. Carriers(m)' \subseteq Carriers(m)
    BY <1>2, <1>5, <2>1, CarriersAfter
  <2>3. /\ IsFiniteSet(Carriers(m)') /\ Cardinality(Carriers(m)') <= Cardinality(Carriers(m))
        /\ Cardinality(Carriers(m)') \in Nat
    BY <2>2, FewerFew DEF Paid
  <2>4. outbox[m].attempts + Cardinality(Carriers(m)') + Cardinality(Drainers(m)')
          + Cardinality(Waiting(m)') <= inbound[m].attempts
    BY <1>3, <1>6, <1>7, <2>3 DEF Paid
  <2>5. QED
    BY <1>2, <1>3, <1>6, <2>3, <2>4 DEF Paid
<1>10. QED
  BY <1>8, <1>9

\* Recovery counts a claim and holds it, or loses it at once.
LEMMA DrainPaid ==
  ASSUME Known, NEW m \in Messages, Paid(m), NEW r \in Replicas, DrainClaim(r)
  PROVE  Paid(m)'
<1>1. /\ TypeOK /\ inbound[m] \in InboundRow /\ inbound \in [Messages -> InboundRow]
      /\ drain \in [Replicas -> 0..MaxMessages]
      /\ outbox' = outbox /\ queue' = queue /\ task' = task
  BY DEF Known, TypeOK, DrainClaim
<1>2. PICK k \in Messages : /\ inbound' = [inbound EXCEPT ![k] = Claimed(@)]
                            /\ drain' = drain \/ drain' = [drain EXCEPT ![r] = k]
  BY DEF DrainClaim
<1>3. Carriers(m)' = Carriers(m) /\ Waiting(m)' = Waiting(m)
  BY <1>1 DEF Carriers, Waiting
<1>4. /\ Cardinality(Carriers(m)) \in Nat /\ Cardinality(Drainers(m)) \in Nat
      /\ Cardinality(Waiting(m)) \in Nat
      /\ outbox[m].attempts \in Nat /\ inbound[m].attempts \in Nat
  BY <1>1, FS_CardinalityType, BoundAssumption DEF Paid, TypeOK, OutboxRow, InboundRow
<1>5. CASE k = m
  <2>1. inbound'[m].attempts = inbound[m].attempts + 1 /\ inbound'[m].status = "processing"
    BY <1>1, <1>2, <1>5, ClaimColumns
  <2>2. Drainers(m)' \subseteq Drainers(m) \cup {r}
    BY <1>1, <1>2 DEF Drainers
  <2>3. /\ IsFiniteSet(Drainers(m)') /\ Cardinality(Drainers(m)') <= Cardinality(Drainers(m)) + 1
        /\ Cardinality(Drainers(m)') \in Nat
    BY <2>2, OneMore DEF Paid
  <2>4. QED
    BY <1>1, <1>3, <1>4, <2>1, <2>3 DEF Paid
<1>6. CASE k # m
  <2>1. Drainers(m)' \subseteq Drainers(m)
    BY <1>1, <1>2, <1>6 DEF Drainers
  <2>2. inbound'[m] = inbound[m]
    BY <1>1, <1>2, <1>6
  <2>3. QED
    BY <1>1, <1>3, <1>4, <2>1, <2>2, ClaimsGo DEF Paid
<1>7. QED
  BY <1>5, <1>6

\* ... and hands it to the queue.
LEMMA QueuePaid ==
  ASSUME Known, NEW m \in Messages, Paid(m), NEW r \in Replicas, DrainQueue(r)
  PROVE  Paid(m)'
<1>1. PICK k \in Messages : k = drain[r]
  BY BoundAssumption DEF Known, TypeOK, DrainQueue, Messages
<1>2. /\ TypeOK /\ drain \in [Replicas -> 0..MaxMessages] /\ [msg |-> k, claimed |-> TRUE] \in Job
      /\ Enqueue(r, [msg |-> k, claimed |-> TRUE]) /\ drain' = [drain EXCEPT ![r] = 0]
      /\ inbound' = inbound /\ outbox' = outbox /\ task' = task
  BY <1>1 DEF Known, TypeOK, DrainQueue, rows, Job
<1>3. Carriers(m)' = Carriers(m)
  BY <1>2 DEF Carriers
<1>4. 0 \notin Messages
  BY DEF Messages
<1>5. CASE k = m
  <2>1. Drainers(m)' \subseteq Drainers(m) \ {r} /\ r \in Drainers(m)
    BY <1>1, <1>2, <1>4, <1>5 DEF Drainers
  <2>2. /\ IsFiniteSet(Drainers(m)') /\ Cardinality(Drainers(m)') <= Cardinality(Drainers(m)) - 1
        /\ Cardinality(Drainers(m)') \in Nat
    BY <2>1, OneLess DEF Paid
  <2>3. Waiting(m)' \subseteq Waiting(m) \cup {<<r, Len(queue[r]) + 1>>}
    BY <1>2, EnqueueWaiting
  <2>4. /\ IsFiniteSet(Waiting(m)') /\ Cardinality(Waiting(m)') <= Cardinality(Waiting(m)) + 1
        /\ Cardinality(Waiting(m)') \in Nat
    BY <2>3, OneMore DEF Paid
  <2>5. /\ Cardinality(Carriers(m)) \in Nat /\ Cardinality(Drainers(m)) \in Nat
        /\ Cardinality(Waiting(m)) \in Nat
        /\ outbox[m].attempts \in Nat /\ inbound[m].attempts \in Nat
    BY <1>2, FS_CardinalityType, BoundAssumption DEF Paid, TypeOK, OutboxRow, InboundRow
  <2>6. QED
    BY <1>2, <1>3, <2>2, <2>4, <2>5 DEF Paid
<1>6. CASE k # m
  <2>1. [msg |-> k, claimed |-> TRUE] # [msg |-> m, claimed |-> TRUE]
    BY <1>6
  <2>2. Waiting(m)' \subseteq Waiting(m)
    BY <1>2, <2>1, EnqueueWaiting
  <2>3. Drainers(m)' \subseteq Drainers(m)
    BY <1>2, <1>4 DEF Drainers
  <2>4. inbound[m].attempts \in Nat
    BY <1>2, BoundAssumption DEF TypeOK, InboundRow
  <2>5. QED
    BY <1>2, <1>3, <2>2, <2>3, <2>4, ClaimsGo DEF Paid
<1>7. QED
  BY <1>5, <1>6

\* The other steps of a worker neither count a claim nor begin a delivery.
LEMMA RestOfWorkPaid ==
  ASSUME Known, NEW m \in Messages, Paid(m), NEW w \in Workers,
         \/ ConsumeUserLimit(w) \/ Deny(w) \/ Route(w) \/ Send(w) \/ MarkSent(w) \/ MarkUnknown(w)
         \/ MarkFailed(w) \/ Finish(w) \/ Audit(w) \/ Fail(w) \/ Throw(w)
  PROVE  Paid(m)'
<1>1. /\ TypeOK /\ task[w] \in Task /\ inbound[m] \in InboundRow /\ inbound \in [Messages -> InboundRow]
      /\ inbound[m].attempts \in Nat
  BY BoundAssumption DEF Known, TypeOK, InboundRow
<1>2. queue' = queue /\ drain' = drain
  BY DEF ConsumeUserLimit, Deny, Route, Send, SendAccepted, SendRejected, SendUncertain, MarkSent,
    MarkUnknown, MarkFailed, Finish, Audit, Fail, Throw
<1>3. outbox'[m].attempts = outbox[m].attempts
  <2>1. CASE Send(w)
    BY <2>1 DEF Send, SendAccepted, SendRejected, SendUncertain, rows
  <2>2. CASE ~Send(w)
    <3>1. UNCHANGED Reply!vars
      BY <1>1, <2>2, WorkStutters
    <3>2. QED
      BY <3>1 DEF Reply!vars
  <2>3. QED
    BY <2>1, <2>2
<1>4. OnError(task[w]).pc \notin Carrying
  BY <1>1, OnErrorDrops
<1>5. \A pc \in Place : To(w, pc).pc = pc /\ To(w, pc).msg = task[w].msg /\ To(w, pc) \in Task
  BY <1>1 DEF To, Task
<1>6. ASSUME NEW next, next.pc \notin Carrying,
             task' = [task EXCEPT ![w] = next] \/ Continue(w, next)
      PROVE  EndsOrKeeps(w)
  BY <1>4, <1>6 DEF Continue, EndsOrKeeps
<1>7. EndsOrKeeps(w)
  <2>1. CASE ConsumeUserLimit(w) \/ Route(w)
    <3>1. task[w].pc \in Carrying
      BY <2>1 DEF ConsumeUserLimit, Route, At, Carrying
    <3>2. QED
      BY <1>5, <2>1, <3>1 DEF ConsumeUserLimit, Route, Place, EndsOrKeeps
  <2>2. CASE Deny(w) \/ MarkFailed(w)
    <3>1. To(w, "audit").pc \notin Carrying /\ To(w, "fail").pc \notin Carrying
      BY <1>5 DEF Place, Carrying
    <3>2. QED
      BY <1>6, <2>2, <3>1 DEF Deny, MarkFailed
  <2>3. CASE Finish(w) \/ Audit(w) \/ Fail(w)
    <3>1. To(w, "audit").pc \notin Carrying /\ Idle.pc \notin Carrying
      BY <1>5 DEF Place, Carrying, Idle
    <3>2. QED
      BY <1>6, <2>3, <3>1 DEF Finish, Audit, Fail
  <2>4. CASE Throw(w)
    BY <1>4, <1>6, <2>4 DEF Throw
  <2>5. CASE MarkSent(w)
    <3>1. /\ [To(w, "finish") EXCEPT !.accepted = 0].pc \notin Carrying
          /\ To(w, "markUnknown").pc \notin Carrying
      BY <1>5 DEF Place, Carrying, Task
    <3>2. QED
      BY <1>6, <2>5, <3>1 DEF MarkSent
  <2>6. CASE MarkUnknown(w)
    <3>1. [To(w, "finish") EXCEPT !.unknown = TRUE, !.accepted = 0].pc \notin Carrying
      BY <1>5 DEF Place, Carrying, Task
    <3>2. QED
      BY <1>6, <2>6, <3>1 DEF MarkUnknown
  <2>7. CASE Send(w)
    <3>1. \A n : [To(w, "markSent") EXCEPT !.accepted = n].pc \notin Carrying
      BY <1>5 DEF Place, Carrying, Task
    <3>2. \A b : [To(w, "markFailed") EXCEPT !.permanent = b].pc \notin Carrying
      BY <1>5 DEF Place, Carrying, Task
    <3>3. To(w, "markUnknown").pc \notin Carrying
      BY <1>5 DEF Place, Carrying
    <3>4. PICK next : next.pc \notin Carrying /\ task' = [task EXCEPT ![w] = next]
      <4>1. CASE \E f \in Fates : SendAccepted(w, f)
        BY <3>1, <4>1 DEF SendAccepted
      <4>2. CASE \E permanent, opened \in BOOLEAN : SendRejected(w, permanent, opened)
        BY <3>2, <4>2 DEF SendRejected
      <4>3. CASE \E reached \in {"all", "opening", "none"}, f \in Fates : SendUncertain(w, reached, f)
        BY <3>3, <4>3 DEF SendUncertain
      <4>4. QED
        BY <2>7, <4>1, <4>2, <4>3 DEF Send
    <3>5. QED
      BY <1>6, <3>4
  <2>8. QED
    BY <2>1, <2>2, <2>3, <2>4, <2>5, <2>6, <2>7
<1>8. Counted(m)
  <2>1. CASE inbound'[m] = inbound[m]
    BY <1>1, <2>1 DEF Counted, Paid
  <2>2. CASE \/ inbound'[m] = SetInboundStatus(inbound[m], "ignored")
             \/ inbound'[m] = SetInboundStatus(inbound[m], "processed")
             \/ inbound'[m] = SetInboundStatus(inbound[m], "failed")
             \/ inbound'[m] = MarkInboundUndeliverable(inbound[m])
    BY <1>1, <2>2, ClaimColumns DEF Counted
  <2>3. CASE inbound' = inbound
    BY <2>1, <2>3
  <2>4. CASE Deny(w) \/ Finish(w) \/ Fail(w)
    BY <1>1, <2>1, <2>2, <2>4 DEF Deny, Finish, Fail
  <2>5. QED
    BY <2>3, <2>4 DEF ConsumeUserLimit, Route, Send, SendAccepted, SendRejected, SendUncertain, MarkSent,
      MarkUnknown, MarkFailed, Audit, Throw, rows
<1>9. QED
  BY <1>2, <1>3, <1>7, <1>8, WorkPaid

\* Webhooks, the end of a recovery that did not queue, the clock, the delivery
\* statuses and crashes only take claims away.
LEMMA RestPaid ==
  ASSUME Known, NEW m \in Messages, Paid(m),
         \/ \E r \in Replicas :
              \/ \E k \in Messages : ReceiveWebhook(r, k)
              \/ \E status \in {"failed", "ignored"} : DrainRelease(r, status)
              \/ DrainAbandon(r) \/ Crash(r)
         \/ \E k \in Messages :
              \/ GrowStale(k)
              \/ \E n \in 1..AttemptLimit, s \in StatusKinds, dropped \in BOOLEAN :
                   DeliveryStatus(k, n, s, dropped)
  PROVE  Paid(m)'
<1>1. /\ TypeOK /\ inbound[m] \in InboundRow /\ inbound \in [Messages -> InboundRow]
      /\ inbound[m].attempts \in Nat /\ 0 \notin Messages
      /\ drain \in [Replicas -> 0..MaxMessages] /\ queue \in [Replicas -> Seq(Job)]
  <2>1. TypeOK /\ 0 \notin Messages
    BY BoundAssumption DEF Known, Messages
  <2>2. inbound \in [Messages -> InboundRow]
    BY <2>1 DEF TypeOK
  <2>3. inbound[m] \in InboundRow /\ inbound[m].attempts \in Nat
    BY <2>2, BoundAssumption DEF InboundRow
  <2>4. drain \in [Replicas -> 0..MaxMessages] /\ queue \in [Replicas -> Seq(Job)]
    BY <2>1 DEF TypeOK
  <2>5. QED
    BY <2>1, <2>2, <2>3, <2>4
<1>2. ASSUME NEW r \in Replicas, NEW k \in Messages, ReceiveWebhook(r, k)
      PROVE  Paid(m)'
  <2>1. outbox' = outbox /\ task' = task /\ drain' = drain
    BY <1>2 DEF ReceiveWebhook
  <2>2. Waiting(m)' \subseteq Waiting(m)
    <3>1. CASE queue' = queue
      BY <3>1 DEF Waiting
    <3>2. CASE Enqueue(r, [msg |-> k, claimed |-> FALSE])
      <4>1. /\ [msg |-> k, claimed |-> FALSE] \in Job
            /\ [msg |-> k, claimed |-> FALSE] # [msg |-> m, claimed |-> TRUE]
        BY DEF Job
      <4>2. QED
        BY <1>1, <3>2, <4>1, EnqueueWaiting
    <3>3. QED
      BY <1>2, <3>1, <3>2 DEF ReceiveWebhook
  <2>3. Counted(m)
    <3>1. CASE inbound' = inbound
      BY <1>1, <3>1 DEF Counted, Paid
    <3>2. CASE inbound' = [inbound EXCEPT ![k] = InsertedInbound] /\ inbound[k].status = "none"
      <4>1. CASE k = m
        BY <1>1, <3>2, <4>1 DEF Counted, Paid, InsertedInbound
      <4>2. CASE k # m
        BY <1>1, <3>2, <4>2 DEF Counted, Paid
      <4>3. QED
        BY <4>1, <4>2
    <3>3. QED
      BY <1>2, <3>1, <3>2 DEF ReceiveWebhook
  <2>4. Carriers(m)' \subseteq Carriers(m) /\ Drainers(m)' \subseteq Drainers(m)
    BY <2>1 DEF Carriers, Drainers
  <2>5. QED
    BY <1>1, <2>1, <2>2, <2>3, <2>4, ClaimsGo DEF Counted
<1>3. ASSUME NEW r \in Replicas, NEW status \in {"failed", "ignored"}, DrainRelease(r, status)
      PROVE  Paid(m)'
  <2>1. outbox' = outbox /\ task' = task /\ queue' = queue /\ drain' = [drain EXCEPT ![r] = 0]
    BY <1>3 DEF DrainRelease
  <2>2. Counted(m)
    <3>1. inbound'[m] \in {inbound[m], SetInboundStatus(inbound[m], status)}
      BY <1>1, <1>3 DEF DrainRelease
    <3>2. QED
      BY <1>1, <3>1, ClaimColumns DEF Counted, Paid
  <2>3. /\ Carriers(m)' \subseteq Carriers(m) /\ Drainers(m)' \subseteq Drainers(m)
        /\ Waiting(m)' \subseteq Waiting(m)
    BY <1>1, <2>1 DEF Carriers, Drainers, Waiting
  <2>4. QED
    BY <1>1, <2>1, <2>2, <2>3, ClaimsGo DEF Counted
<1>4. ASSUME NEW r \in Replicas, DrainAbandon(r) \/ Crash(r)
      PROVE  Paid(m)'
  <2>1. inbound' = inbound /\ outbox' = outbox /\ drain' = [drain EXCEPT ![r] = 0]
    BY <1>4 DEF DrainAbandon, Crash, rows
  <2>2. Carriers(m)' \subseteq Carriers(m)
    BY <1>4 DEF DrainAbandon, Crash, Idle, Carriers
  <2>3. Waiting(m)' \subseteq Waiting(m)
    <3>1. CASE queue' = queue
      BY <3>1 DEF Waiting
    <3>2. CASE queue' = [queue EXCEPT ![r] = <<>>]
      BY <1>1, <3>2 DEF Waiting
    <3>3. QED
      BY <1>4, <3>1, <3>2 DEF DrainAbandon, Crash
  <2>4. Drainers(m)' \subseteq Drainers(m)
    BY <1>1, <2>1 DEF Drainers
  <2>5. Counted(m) /\ outbox'[m].attempts = outbox[m].attempts
    BY <1>1, <2>1 DEF Counted, Paid
  <2>6. QED
    BY <1>1, <2>2, <2>3, <2>4, <2>5, ClaimsGo DEF Counted
<1>5. ASSUME NEW k \in Messages, GrowStale(k)
      PROVE  Paid(m)'
  <2>1. outbox' = outbox /\ task' = task /\ queue' = queue /\ drain' = drain
    BY <1>5 DEF GrowStale, memory
  <2>2. inbound'[m].attempts = inbound[m].attempts /\ inbound'[m].status = inbound[m].status
    BY <1>1, <1>5 DEF GrowStale, InboundRow
  <2>3. Carriers(m)' = Carriers(m) /\ Drainers(m)' = Drainers(m) /\ Waiting(m)' = Waiting(m)
    BY <2>1 DEF Carriers, Drainers, Waiting
  <2>4. QED
    BY <1>1, <2>1, <2>2, <2>3, ClaimsGo DEF Paid
<1>6. ASSUME NEW k \in Messages, NEW n \in 1..AttemptLimit, NEW s \in StatusKinds,
             NEW dropped \in BOOLEAN, DeliveryStatus(k, n, s, dropped)
      PROVE  Paid(m)'
  <2>1. inbound' = inbound /\ task' = task /\ queue' = queue /\ drain' = drain
    BY <1>6 DEF DeliveryStatus, memory
  <2>2. outbox'[m].attempts = outbox[m].attempts
    <3>1. UNCHANGED Reply!vars
      BY <1>1, <1>6, EnvironmentStutters
    <3>2. QED
      BY <3>1 DEF Reply!vars
  <2>3. Carriers(m)' = Carriers(m) /\ Drainers(m)' = Drainers(m) /\ Waiting(m)' = Waiting(m)
    BY <2>1 DEF Carriers, Drainers, Waiting
  <2>4. QED
    BY <1>1, <2>1, <2>2, <2>3, ClaimsGo DEF Paid
<1>7. QED
  BY <1>2, <1>3, <1>4, <1>5, <1>6

AllPaid == \A m \in Messages : Paid(m)

LEMMA InitPaid == Init => AllPaid
<1> SUFFICES ASSUME Init, NEW m \in Messages PROVE Paid(m)
  BY DEF AllPaid
<1>1. /\ inbound[m].attempts = 0 /\ outbox[m].attempts = 0
  BY DEF Init, NoInbound, NoOutbox
<1>2. Carriers(m) = {} /\ Drainers(m) = {} /\ Waiting(m) = {}
  BY DEF Init, Carriers, Drainers, Waiting, Idle, Messages
<1>3. IsFiniteSet({}) /\ Cardinality({}) = 0
  BY FS_EmptySet
<1>4. QED
  BY <1>1, <1>2, <1>3 DEF Paid

LEMMA NextPaid ==
  ASSUME Known, FreshRows, AllPaid, [Next]_vars
  PROVE  AllPaid'
<1> SUFFICES ASSUME NEW m \in Messages PROVE Paid(m)'
  BY DEF AllPaid
<1>0. Paid(m)
  BY DEF AllPaid
<1>1. CASE UNCHANGED vars
  BY <1>0, <1>1 DEF vars, Paid, Carriers, Drainers, Waiting
<1>2. ASSUME NEW w \in Workers, Pump(w) \/ Work(w) \/ Throw(w)
      PROVE  Paid(m)'
  BY <1>0, <1>2, PumpPaid, ClaimPaid, ReservePaid, RestOfWorkPaid DEF Work
<1>3. ASSUME NEW r \in Replicas, DrainClaim(r) \/ DrainQueue(r)
      PROVE  Paid(m)'
  BY <1>0, <1>3, DrainPaid, QueuePaid
<1>4. QED
  BY <1>0, <1>1, <1>2, <1>3, RestPaid DEF Next

\* The two retry counters cannot drift apart: whichever workers, recovery loops
\* and replicas claim a message, each delivery is paid for by a claim of its own.
THEOREM ClaimsSafety ==
  Spec => []DeliveriesWithinClaims
<1>1. Init => Known /\ FreshRows /\ AllPaid
  BY KnownInit, ReplyInit, InitPaid
<1>2. Known /\ FreshRows /\ AllPaid /\ [Next]_vars => (Known /\ FreshRows /\ AllPaid)'
  <2>1. CASE UNCHANGED vars
    BY <2>1, KnownNext, NextPaid DEF vars, FreshRows
  <2>2. CASE Next
    BY <2>2, KnownNext, NextPaid, FreshKept DEF Known
  <2>3. QED
    BY <2>1, <2>2
<1>3. Known /\ AllPaid => DeliveriesWithinClaims
  <2> SUFFICES ASSUME Known, AllPaid, NEW m \in Messages
               PROVE  outbox[m].attempts <= inbound[m].attempts
    BY DEF DeliveriesWithinClaims
  <2>1. /\ Cardinality(Carriers(m)) \in Nat /\ Cardinality(Drainers(m)) \in Nat
        /\ Cardinality(Waiting(m)) \in Nat
        /\ outbox[m].attempts \in Nat /\ inbound[m].attempts \in Nat
    BY FS_CardinalityType, BoundAssumption DEF AllPaid, Paid, Known, TypeOK, OutboxRow, InboundRow
  <2>2. QED
    BY <2>1 DEF AllPaid, Paid
<1>4. QED
  BY <1>1, <1>2, <1>3, PTL DEF Spec

-----------------------------------------------------------------------------
(***************************************************************************)
(* A message is handled by one worker                                      *)
(***************************************************************************)

\* What is assumed of the clock and the database: no claim outlives its two
\* minutes while it is handled, and no call fails.
CalmEnvironment == ~SlowWorkers /\ MaxThrows = 0

Handlers(m) == {w \in Workers : Handling(w, m)}

\* One holder of the claim at most, and the row says that it is claimed; the
\* audit that follows the end of a message is the one work left after it.
Sole(m) ==
  /\ IsFiniteSet(Handlers(m)) /\ IsFiniteSet(Drainers(m)) /\ IsFiniteSet(Waiting(m))
  /\ Cardinality(Handlers(m)) + Cardinality(Drainers(m)) + Cardinality(Waiting(m)) <= 1
  /\ Drainers(m) # {} \/ Waiting(m) # {} => inbound[m].status = "processing" /\ ~inbound[m].stale
  /\ \A w \in Handlers(m) :
       \/ inbound[m].status = "processing" /\ ~inbound[m].stale
       \/ task[w].pc = "audit" /\ inbound[m].status \in {"processed", "ignored"}

\* A message nobody has claimed has no holder.
LEMMA Unheld ==
  ASSUME NEW m \in Messages, Sole(m),
         \/ inbound[m].status \in {"none", "received", "failed"}
         \/ inbound[m].status = "processing" /\ inbound[m].stale
  PROVE  Handlers(m) = {} /\ Drainers(m) = {} /\ Waiting(m) = {}
  BY DEF Sole

LEMMA Empty ==
  ASSUME NEW S, IsFiniteSet(S)
  PROVE  Cardinality(S) \in Nat /\ (S # {} => Cardinality(S) >= 1)
<1>1. Cardinality(S) \in Nat /\ (Cardinality(S) = 0 <=> S = {})
  BY FS_CardinalityType, FS_EmptySet
<1>2. QED
  BY <1>1

\* A holder is the only one.
LEMMA OnlyHolder ==
  ASSUME NEW m \in Messages, Sole(m)
  PROVE  /\ \A v, w \in Handlers(m) : v = w
         /\ Handlers(m) # {} => Drainers(m) = {} /\ Waiting(m) = {}
         /\ Drainers(m) # {} => Handlers(m) = {} /\ Waiting(m) = {}
         /\ Waiting(m) # {} => Handlers(m) = {} /\ Drainers(m) = {}
         /\ \A r, s \in Drainers(m) : r = s
<1>1. /\ Cardinality(Handlers(m)) \in Nat /\ Cardinality(Drainers(m)) \in Nat
      /\ Cardinality(Waiting(m)) \in Nat
      /\ Handlers(m) # {} => Cardinality(Handlers(m)) >= 1
      /\ Drainers(m) # {} => Cardinality(Drainers(m)) >= 1
      /\ Waiting(m) # {} => Cardinality(Waiting(m)) >= 1
      /\ Cardinality(Handlers(m)) + Cardinality(Drainers(m)) + Cardinality(Waiting(m)) <= 1
  BY Empty DEF Sole
<1>2. ASSUME NEW S, IsFiniteSet(S), Cardinality(S) <= 1
      PROVE  \A x, y \in S : x = y
  <2> SUFFICES ASSUME NEW x \in S, NEW y \in S, x # y PROVE FALSE
    OBVIOUS
  <2>1. IsFiniteSet(S \ {x}) /\ Cardinality(S \ {x}) = Cardinality(S) - 1 /\ Cardinality(S) \in Nat
    BY <1>2, FS_RemoveElement, FS_CardinalityType
  <2>2. y \in S \ {x}
    OBVIOUS
  <2>3. Cardinality(S \ {x}) >= 1
    BY <2>1, <2>2, Empty
  <2>4. QED
    BY <1>2, <2>1, <2>3
<1>3. \A v, w \in Handlers(m) : v = w
  BY <1>1, <1>2 DEF Sole
<1>4. \A r, s \in Drainers(m) : r = s
  BY <1>1, <1>2 DEF Sole
<1>5. QED
  BY <1>1, <1>3, <1>4

\* With one holder, or none, nothing is left to count.
LEMMA SoleOfSets ==
  ASSUME NEW H, NEW D, NEW W,
         \/ H = {} /\ D = {} /\ W = {}
         \/ (\E x : H \subseteq {x}) /\ D = {} /\ W = {}
         \/ (\E x : D \subseteq {x}) /\ H = {} /\ W = {}
         \/ (\E x : W \subseteq {x}) /\ H = {} /\ D = {}
  PROVE  /\ IsFiniteSet(H) /\ IsFiniteSet(D) /\ IsFiniteSet(W)
         /\ Cardinality(H) + Cardinality(D) + Cardinality(W) <= 1
<1>1. ASSUME NEW S, NEW x, S \subseteq {x}
      PROVE  IsFiniteSet(S) /\ Cardinality(S) \in {0, 1}
  <2>1. S = {} \/ S = {x}
    BY <1>1
  <2>2. IsFiniteSet({x}) /\ Cardinality({x}) = 1 /\ IsFiniteSet({}) /\ Cardinality({}) = 0
    BY FS_EmptySet, FS_Singleton
  <2>3. QED
    BY <2>1, <2>2
<1>2. IsFiniteSet({}) /\ Cardinality({}) = 0
  BY FS_EmptySet
<1>3. QED
  BY <1>1, <1>2

\* A step that only takes holders away.
LEMMA SoleGoes ==
  ASSUME NEW m \in Messages, Sole(m),
         Handlers(m)' \subseteq Handlers(m), Drainers(m)' \subseteq Drainers(m),
         Waiting(m)' \subseteq Waiting(m),
         inbound'[m].status = inbound[m].status, inbound'[m].stale = inbound[m].stale,
         \A w \in Handlers(m)' : task[w].pc = "audit" => task'[w].pc = "audit"
  PROVE  Sole(m)'
<1>1. /\ IsFiniteSet(Handlers(m)') /\ Cardinality(Handlers(m)') <= Cardinality(Handlers(m))
      /\ Cardinality(Handlers(m)') \in Nat /\ Cardinality(Handlers(m)) \in Nat
  BY FewerFew, FS_CardinalityType DEF Sole
<1>2. /\ IsFiniteSet(Drainers(m)') /\ Cardinality(Drainers(m)') <= Cardinality(Drainers(m))
      /\ Cardinality(Drainers(m)') \in Nat /\ Cardinality(Drainers(m)) \in Nat
  BY FewerFew, FS_CardinalityType DEF Sole
<1>3. /\ IsFiniteSet(Waiting(m)') /\ Cardinality(Waiting(m)') <= Cardinality(Waiting(m))
      /\ Cardinality(Waiting(m)') \in Nat /\ Cardinality(Waiting(m)) \in Nat
  BY FewerFew, FS_CardinalityType DEF Sole
<1>4. Cardinality(Handlers(m)') + Cardinality(Drainers(m)') + Cardinality(Waiting(m)') <= 1
  BY <1>1, <1>2, <1>3 DEF Sole
<1>5. QED
  BY <1>1, <1>2, <1>3, <1>4 DEF Sole

\* The worker's step, when no call fails.
LEMMA CalmContinue ==
  ASSUME CalmEnvironment, TypeOK, NEW w, NEW next, Continue(w, next)
  PROVE  task' = [task EXCEPT ![w] = next]
  BY DEF CalmEnvironment, Continue, TypeOK

\* A worker's step, seen through Handlers.
LEMMA HandlersAfter ==
  ASSUME TypeOK, NEW w \in Workers, NEW next, task' = [task EXCEPT ![w] = next], NEW m \in Messages
  PROVE  /\ Handlers(m)' \subseteq Handlers(m) \cup {w}
         /\ next.pc \in {"idle", "claim"} \/ next.msg # m => Handlers(m)' \subseteq Handlers(m) \ {w}
         /\ task'[w] = next /\ \A v \in Workers \ {w} : task'[v] = task[v]
<1>1. task'[w] = next /\ \A v \in Workers \ {w} : task'[v] = task[v]
  BY DEF TypeOK
<1>2. QED
  BY <1>1 DEF Handlers, Handling

\* A worker claims a message nobody holds.
LEMMA ClaimSole ==
  ASSUME CalmEnvironment, Known, NEW m \in Messages, Sole(m), NEW w \in Workers, ClaimInbound(w)
  PROVE  Sole(m)'
<1>0. PICK k \in Messages : k = task[w].msg
  BY DEF Known, TasksKnown, ClaimInbound, At
<1>1. /\ TypeOK /\ task[w] \in Task /\ k = task[w].msg /\ task[w].pc = "claim"
      /\ inbound \in [Messages -> InboundRow] /\ queue' = queue /\ drain' = drain
  BY <1>0 DEF Known, TypeOK, ClaimInbound, At
<1>2. Drainers(m)' = Drainers(m) /\ Waiting(m)' = Waiting(m) /\ w \notin Handlers(m)
  BY <1>1 DEF Drainers, Waiting, Handlers, Handling
<1>3. CASE inbound' = inbound /\ Continue(w, Idle)
  <2>1. task' = [task EXCEPT ![w] = Idle]
    BY <1>1, <1>3, CalmContinue
  <2>0. PICK next : next = Idle /\ next.pc = "idle"
    <3>1. Idle.pc = "idle"
      BY DEF Idle
    <3>2. QED
      BY <3>1
  <2>2. Handlers(m)' \subseteq Handlers(m)
    BY <1>1, <2>0, <2>1, HandlersAfter
  <2>3. \A v \in Handlers(m)' : task'[v] = task[v]
    BY <1>1, <1>2, <2>1, <2>2, HandlersAfter
  <2>4. QED
    BY <1>2, <1>3, <2>2, <2>3, SoleGoes
<1>4. CASE /\ ClaimInboundMatches(inbound[k]) /\ inbound' = [inbound EXCEPT ![k] = Claimed(@)]
           /\ Continue(w, To(w, "limit"))
  <2>1. task' = [task EXCEPT ![w] = To(w, "limit")] /\ To(w, "limit").msg = k
    BY <1>1, <1>4, CalmContinue DEF To, Task
  <2>2. CASE k = m
    <3>1. Handlers(m) = {} /\ Drainers(m) = {} /\ Waiting(m) = {}
      BY <1>4, <2>2, Unheld DEF ClaimInboundMatches
    <3>2. Handlers(m)' \subseteq {w}
      BY <1>1, <2>1, <3>1, HandlersAfter
    <3>3. inbound'[m].status = "processing" /\ ~inbound'[m].stale
      BY <1>1, <1>4, <2>2 DEF Claimed
    <3>4. /\ IsFiniteSet(Handlers(m)') /\ IsFiniteSet(Drainers(m)') /\ IsFiniteSet(Waiting(m)')
          /\ Cardinality(Handlers(m)') + Cardinality(Drainers(m)') + Cardinality(Waiting(m)') <= 1
      BY <1>2, <3>1, <3>2, SoleOfSets
    <3>5. QED
      BY <3>3, <3>4 DEF Sole
  <2>3. CASE k # m
    <3>1. Handlers(m)' \subseteq Handlers(m) \ {w}
      BY <1>1, <2>1, <2>3, HandlersAfter
    <3>2. \A v \in Handlers(m)' : task'[v] = task[v]
      BY <1>1, <2>1, <3>1, HandlersAfter
    <3>3. inbound'[m] = inbound[m]
      BY <1>1, <1>4, <2>3
    <3>4. QED
      BY <1>2, <3>1, <3>2, <3>3, SoleGoes
  <2>4. QED
    BY <2>2, <2>3
<1>5. QED
  BY <1>1, <1>3, <1>4 DEF ClaimInbound

\* A worker goes on with its message, or is done with it.
LEMMA StepSole ==
  ASSUME CalmEnvironment, Known, NEW m \in Messages, Sole(m), NEW w \in Workers,
         task[w].pc \notin {"idle", "claim"}, queue' = queue, drain' = drain,
         NEW next, task' = [task EXCEPT ![w] = next],
         next.pc = "idle" \/ next.msg = task[w].msg,
         \A j \in Messages : j # task[w].msg => inbound'[j] = inbound[j],
         \/ inbound' = inbound /\ task[w].pc # "audit"
         \/ next.pc = "idle"
         \/ next.pc = "audit" /\ inbound'[task[w].msg].status \in {"processed", "ignored"}
  PROVE  Sole(m)'
<1>0. PICK k \in Messages : k = task[w].msg
  BY DEF Known, TasksKnown
<1>1. TypeOK /\ inbound \in [Messages -> InboundRow] /\ k = task[w].msg
  BY <1>0 DEF Known, TypeOK
<1>2. Drainers(m)' = Drainers(m) /\ Waiting(m)' = Waiting(m)
  BY DEF Drainers, Waiting
<1>3. task'[w] = next /\ \A v \in Workers \ {w} : task'[v] = task[v]
  BY <1>1, HandlersAfter
<1>4. CASE k # m
  <2>1. Handlers(m)' \subseteq Handlers(m) \ {w}
    BY <1>1, <1>4, HandlersAfter
  <2>2. \A v \in Handlers(m)' : task'[v] = task[v]
    BY <1>3, <2>1
  <2>3. inbound'[m] = inbound[m]
    BY <1>1, <1>4
  <2>4. QED
    BY <1>2, <2>1, <2>2, <2>3, SoleGoes
<1>5. CASE k = m
  <2>1. w \in Handlers(m)
    BY <1>1, <1>5 DEF Handlers, Handling
  <2>2. Handlers(m) \subseteq {w} /\ Drainers(m) = {} /\ Waiting(m) = {}
    BY <2>1, OnlyHolder
  <2>3. Handlers(m)' \subseteq {w}
    BY <1>1, <2>2, HandlersAfter
  <2>4. /\ IsFiniteSet(Handlers(m)') /\ IsFiniteSet(Drainers(m)') /\ IsFiniteSet(Waiting(m)')
        /\ Cardinality(Handlers(m)') + Cardinality(Drainers(m)') + Cardinality(Waiting(m)') <= 1
    BY <1>2, <2>2, <2>3, SoleOfSets
  <2>5. CASE next.pc = "idle"
    <3>1. Handlers(m)' = {}
      BY <1>3, <2>3, <2>5 DEF Handlers, Handling
    <3>2. QED
      BY <1>2, <2>2, <2>4, <3>1 DEF Sole
  <2>6. CASE inbound' = inbound /\ task[w].pc # "audit"
    <3>1. inbound[m].status = "processing" /\ ~inbound[m].stale
      BY <2>1, <2>6 DEF Sole
    <3>2. QED
      BY <1>2, <2>2, <2>4, <2>6, <3>1 DEF Sole
  <2>7. CASE next.pc = "audit" /\ inbound'[m].status \in {"processed", "ignored"}
    BY <1>2, <1>3, <2>2, <2>3, <2>4, <2>7 DEF Sole
  <2>8. QED
    BY <1>1, <1>5, <2>5, <2>6, <2>7
<1>6. QED
  BY <1>4, <1>5

LEMMA WorkSole ==
  ASSUME CalmEnvironment, Known, NEW m \in Messages, Sole(m), NEW w \in Workers, Work(w)
  PROVE  Sole(m)'
<1>1. TypeOK /\ task[w] \in Task /\ inbound \in [Messages -> InboundRow]
  BY DEF Known, TypeOK
<1>2. CASE ClaimInbound(w)
  BY <1>2, ClaimSole
<1>3. PICK next : /\ task' = [task EXCEPT ![w] = next]
                  /\ next.pc = "idle" \/ next.msg = task[w].msg
  BY <1>1, WorkKeeps
<1>4. task'[w] = next
  BY <1>1, <1>3, HandlersAfter
<1>5. CASE ~ClaimInbound(w)
  <2>1. /\ task[w].pc \notin {"idle", "claim"} /\ queue' = queue /\ drain' = drain
    BY <1>5 DEF Work, ConsumeUserLimit, Deny, Route, ReserveOutbound, RetryOutbound, Send,
      SendAccepted, SendRejected, SendUncertain, MarkSent, MarkUnknown, MarkFailed, Finish, Audit,
      Fail, At
  <2>2. CASE Deny(w) \/ Finish(w)
    <3>1. To(w, "audit").pc = "audit" /\ Idle.pc = "idle"
      BY <1>1 DEF To, Task, Idle
    <3>2. next \in {To(w, "audit"), Idle}
      BY <1>1, <1>4, <2>2, CalmContinue, HandlersAfter DEF Deny, Finish
    <3>3. /\ inbound'[task[w].msg].status \in {"processed", "ignored"}
          /\ \A j \in Messages : j # task[w].msg => inbound'[j] = inbound[j]
      <4>1. PICK k \in Messages : k = task[w].msg
        BY <2>1 DEF Known, TasksKnown
      <4>2. inbound[k] \in InboundRow
        BY <1>1
      <4>3. \/ inbound' = [inbound EXCEPT ![k] = SetInboundStatus(inbound[k], "ignored")]
            \/ inbound' = [inbound EXCEPT ![k] = SetInboundStatus(inbound[k], "processed")]
        BY <2>2, <4>1 DEF Deny, Finish
      <4>4. QED
        BY <1>1, <4>1, <4>2, <4>3, ClaimColumns
    <3>4. QED
      BY <1>3, <2>1, <3>1, <3>2, <3>3, StepSole
  <2>3. CASE Fail(w)
    <3>1. next.pc = "idle"
      BY <1>1, <1>4, <2>3 DEF Fail, Idle, TypeOK
    <3>2. \A j \in Messages : j # task[w].msg => inbound'[j] = inbound[j]
      BY <1>1, <2>3 DEF Fail
    <3>3. QED
      BY <1>3, <2>1, <3>1, <3>2, StepSole
  <2>4. CASE Audit(w)
    <3>1. next.pc = "idle"
      BY <1>1, <1>4, <2>4, CalmContinue, HandlersAfter DEF Audit, Idle
    <3>2. inbound' = inbound
      BY <2>4 DEF Audit, rows
    <3>3. QED
      BY <1>3, <2>1, <3>1, <3>2, StepSole
  <2>5. CASE ~(Deny(w) \/ Finish(w) \/ Fail(w) \/ Audit(w))
    <3>1. inbound' = inbound /\ task[w].pc # "audit"
      BY <1>5, <2>5 DEF Work, ConsumeUserLimit, Route, ReserveOutbound, RetryOutbound, Send,
        SendAccepted, SendRejected, SendUncertain, MarkSent, MarkUnknown, MarkFailed, At, rows
    <3>2. QED
      BY <1>3, <2>1, <3>1, StepSole
  <2>6. QED
    BY <2>2, <2>3, <2>4, <2>5
<1>6. QED
  BY <1>2, <1>5

\* A job that is claimed already passes its claim to the worker.
LEMMA PumpSole ==
  ASSUME Known, NEW m \in Messages, Sole(m), NEW w \in Workers, Pump(w)
  PROVE  Sole(m)'
<1>1. PICK r \in Replicas : r = Host[w]
  BY ReplicaAssumption
<1>2. /\ TypeOK /\ inbound' = inbound /\ drain' = drain /\ task[w].pc = "idle"
      /\ queue[r] # <<>> /\ queue' = [queue EXCEPT ![r] = Tail(@)]
  BY <1>1 DEF Known, Pump, rows, At
<1>3. /\ IsFiniteSet(Waiting(m)') /\ Cardinality(Waiting(m)') \in Nat
      /\ Cardinality(Waiting(m)') <= Cardinality(Waiting(m))
      /\ Head(queue[r]) = [msg |-> m, claimed |-> TRUE]
           => Cardinality(Waiting(m)') <= Cardinality(Waiting(m)) - 1
  BY <1>2, PumpWaiting DEF Sole
<1>4. PICK job \in Job : job = Head(queue[r])
  BY <1>2 DEF TypeOK
<1>5. PICK next : /\ task' = [task EXCEPT ![w] = next] /\ next.msg = job.msg
                  /\ next.pc = IF job.claimed THEN "limit" ELSE "claim"
  <2> DEFINE t == [Idle EXCEPT !.pc = IF job.claimed THEN "limit" ELSE "claim", !.msg = job.msg]
  <2>1. task' = [task EXCEPT ![w] = t]
    BY <1>1, <1>4 DEF Pump
  <2>2. t.msg = job.msg /\ t.pc = IF job.claimed THEN "limit" ELSE "claim"
    BY DEF Idle
  <2>3. QED
    BY <2>1, <2>2
<1>6. Drainers(m)' = Drainers(m) /\ w \notin Handlers(m)
  BY <1>2 DEF Drainers, Handlers, Handling
<1>7. /\ Cardinality(Handlers(m)) \in Nat /\ Cardinality(Drainers(m)) \in Nat
      /\ Cardinality(Waiting(m)) \in Nat
      /\ Cardinality(Handlers(m)) + Cardinality(Drainers(m)) + Cardinality(Waiting(m)) <= 1
  BY FS_CardinalityType DEF Sole
<1>8. Waiting(m)' # {} => Waiting(m) # {}
  <2>1. Waiting(m)' # {} => Cardinality(Waiting(m)') >= 1
    BY <1>3, Empty
  <2>2. Waiting(m) = {} => Cardinality(Waiting(m)) = 0
    BY FS_EmptySet
  <2>3. QED
    BY <1>3, <2>1, <2>2
<1>9. CASE job = [msg |-> m, claimed |-> TRUE]
  <2>1. <<r, 1>> \in Waiting(m)
    <3>1. queue[r] \in Seq(Job) /\ queue[r] # <<>>
      BY <1>2 DEF TypeOK
    <3>2. 1 \in DOMAIN queue[r] /\ Head(queue[r]) = queue[r][1]
      BY <3>1
    <3>3. QED
      BY <1>4, <1>9, <3>2 DEF Waiting
  <2>2. Handlers(m) = {} /\ Drainers(m) = {} /\ inbound[m].status = "processing" /\ ~inbound[m].stale
    BY <2>1, OnlyHolder DEF Sole
  <2>3. Handlers(m)' \subseteq {w}
    BY <1>2, <1>5, <2>2, HandlersAfter
  <2>4. Cardinality(Waiting(m)') = 0
    <3>1. Cardinality(Waiting(m)') <= Cardinality(Waiting(m)) - 1
      BY <1>3, <1>4, <1>9
    <3>2. QED
      BY <1>3, <1>7, <3>1
  <2>5. Waiting(m)' = {}
    BY <1>3, <2>4, Empty
  <2>6. /\ IsFiniteSet(Handlers(m)') /\ IsFiniteSet(Drainers(m)') /\ IsFiniteSet(Waiting(m)')
        /\ Cardinality(Handlers(m)') + Cardinality(Drainers(m)') + Cardinality(Waiting(m)') <= 1
    BY <1>6, <2>2, <2>3, <2>5, SoleOfSets
  <2>7. QED
    BY <1>2, <2>2, <2>6 DEF Sole
<1>10. CASE job # [msg |-> m, claimed |-> TRUE]
  <2>1. next.msg # m \/ next.pc \in {"idle", "claim"}
    BY <1>5, <1>10 DEF Job
  <2>2. Handlers(m)' \subseteq Handlers(m)
    <3>1. next.pc \in {"idle", "claim"} \/ next.msg # m => Handlers(m)' \subseteq Handlers(m) \ {w}
      BY <1>2, <1>5, HandlersAfter
    <3>2. QED
      BY <2>1, <3>1
  <2>3. /\ IsFiniteSet(Handlers(m)') /\ Cardinality(Handlers(m)') <= Cardinality(Handlers(m))
        /\ Cardinality(Handlers(m)') \in Nat
    BY <2>2, FewerFew DEF Sole
  <2>4. Cardinality(Handlers(m)') + Cardinality(Drainers(m)') + Cardinality(Waiting(m)') <= 1
    BY <1>3, <1>6, <1>7, <2>3
  <2>5. \A v \in Handlers(m)' : v \in Handlers(m) /\ task'[v] = task[v]
    BY <1>2, <1>5, <1>6, <2>2, HandlersAfter
  <2>6. QED
    BY <1>2, <1>3, <1>6, <1>8, <2>3, <2>4, <2>5 DEF Sole
<1>11. QED
  BY <1>9, <1>10

\* Recovery takes over a message nobody holds.
LEMMA DrainSole ==
  ASSUME CalmEnvironment, Known, NEW m \in Messages, Sole(m), NEW r \in Replicas, DrainClaim(r)
  PROVE  Sole(m)'
<1>1. /\ TypeOK /\ inbound \in [Messages -> InboundRow] /\ drain \in [Replicas -> 0..MaxMessages]
      /\ queue' = queue /\ task' = task /\ throws \in Nat /\ ~(throws < MaxThrows)
  BY DEF Known, TypeOK, DrainClaim, CalmEnvironment
<1>2. PICK k \in Messages : /\ ClaimNextMatches(inbound[k])
                            /\ inbound' = [inbound EXCEPT ![k] = Claimed(@)]
                            /\ drain' = [drain EXCEPT ![r] = k]
  BY <1>1 DEF DrainClaim
<1>3. Handlers(m)' = Handlers(m) /\ Waiting(m)' = Waiting(m)
  BY <1>1 DEF Handlers, Handling, Waiting
<1>4. CASE k = m
  <2>1. Handlers(m) = {} /\ Drainers(m) = {} /\ Waiting(m) = {}
    BY <1>2, <1>4, Unheld DEF ClaimNextMatches
  <2>2. Drainers(m)' \subseteq {r}
    BY <1>1, <1>2, <2>1 DEF Drainers
  <2>3. inbound'[m].status = "processing" /\ ~inbound'[m].stale
    BY <1>1, <1>2, <1>4 DEF Claimed
  <2>4. /\ IsFiniteSet(Handlers(m)') /\ IsFiniteSet(Drainers(m)') /\ IsFiniteSet(Waiting(m)')
        /\ Cardinality(Handlers(m)') + Cardinality(Drainers(m)') + Cardinality(Waiting(m)') <= 1
    BY <1>3, <2>1, <2>2, SoleOfSets
  <2>5. QED
    BY <2>3, <2>4 DEF Sole
<1>5. CASE k # m
  <2>1. Drainers(m)' \subseteq Drainers(m) /\ inbound'[m] = inbound[m]
    BY <1>1, <1>2, <1>5 DEF Drainers
  <2>2. QED
    BY <1>1, <1>3, <2>1, SoleGoes
<1>6. QED
  BY <1>4, <1>5

\* ... and the queue takes it over from recovery.
LEMMA QueueSole ==
  ASSUME Known, NEW m \in Messages, Sole(m), NEW r \in Replicas, DrainQueue(r)
  PROVE  Sole(m)'
<1>0. TypeOK
  BY DEF Known
<1>1. PICK k \in Messages : k = drain[r]
  BY <1>0, BoundAssumption DEF TypeOK, DrainQueue, Messages
<1>2. /\ drain \in [Replicas -> 0..MaxMessages] /\ [msg |-> k, claimed |-> TRUE] \in Job
      /\ Enqueue(r, [msg |-> k, claimed |-> TRUE]) /\ drain' = [drain EXCEPT ![r] = 0]
      /\ inbound' = inbound /\ task' = task
  BY <1>0, <1>1 DEF TypeOK, DrainQueue, rows, Job
<1>3. Handlers(m)' = Handlers(m)
  BY <1>2 DEF Handlers, Handling
<1>4. 0 \notin Messages
  BY DEF Messages
<1>5. Drainers(m)' \subseteq Drainers(m) \ {r}
  BY <1>2, <1>4 DEF Drainers
<1>6. CASE k = m
  <2>1. r \in Drainers(m)
    BY <1>1, <1>6 DEF Drainers
  <2>2. /\ Drainers(m) \subseteq {r} /\ Handlers(m) = {} /\ Waiting(m) = {}
        /\ inbound[m].status = "processing" /\ ~inbound[m].stale
    BY <2>1, OnlyHolder DEF Sole
  <2>3. Waiting(m)' \subseteq {<<r, Len(queue[r]) + 1>>}
    BY <1>0, <1>2, <2>2, EnqueueWaiting
  <2>4. /\ IsFiniteSet(Handlers(m)') /\ IsFiniteSet(Drainers(m)') /\ IsFiniteSet(Waiting(m)')
        /\ Cardinality(Handlers(m)') + Cardinality(Drainers(m)') + Cardinality(Waiting(m)') <= 1
    <3>1. Drainers(m)' = {} /\ Handlers(m)' = {}
      BY <1>3, <1>5, <2>2
    <3>2. QED
      BY <2>3, <3>1, SoleOfSets
  <2>5. QED
    BY <1>2, <1>3, <2>2, <2>4 DEF Sole
<1>7. CASE k # m
  <2>1. [msg |-> k, claimed |-> TRUE] # [msg |-> m, claimed |-> TRUE]
    BY <1>7
  <2>2. Waiting(m)' \subseteq Waiting(m)
    BY <1>0, <1>2, <2>1, EnqueueWaiting
  <2>3. QED
    BY <1>2, <1>3, <1>5, <2>2, SoleGoes
<1>8. QED
  BY <1>6, <1>7

LEMMA RestSole ==
  ASSUME CalmEnvironment, Known, NEW m \in Messages, Sole(m),
         \/ \E r \in Replicas :
              \/ \E k \in Messages : ReceiveWebhook(r, k)
              \/ \E status \in {"failed", "ignored"} : DrainRelease(r, status)
              \/ DrainAbandon(r) \/ Crash(r)
         \/ \E k \in Messages :
              \/ GrowStale(k)
              \/ \E n \in 1..AttemptLimit, s \in StatusKinds, dropped \in BOOLEAN :
                   DeliveryStatus(k, n, s, dropped)
  PROVE  Sole(m)'
<1>1. /\ TypeOK /\ inbound \in [Messages -> InboundRow] /\ 0 \notin Messages
      /\ drain \in [Replicas -> 0..MaxMessages] /\ queue \in [Replicas -> Seq(Job)]
      /\ throws \in Nat /\ ~(throws < MaxThrows)
  BY DEF Known, TypeOK, Messages, CalmEnvironment
<1>2. ASSUME NEW r \in Replicas, NEW k \in Messages, ReceiveWebhook(r, k)
      PROVE  Sole(m)'
  <2>1. Handlers(m)' = Handlers(m) /\ Drainers(m)' = Drainers(m) /\ task' = task
    BY <1>2 DEF ReceiveWebhook, Handlers, Handling, Drainers
  <2>2. Waiting(m)' \subseteq Waiting(m)
    <3>1. CASE queue' = queue
      BY <3>1 DEF Waiting
    <3>2. CASE Enqueue(r, [msg |-> k, claimed |-> FALSE])
      <4>1. /\ [msg |-> k, claimed |-> FALSE] \in Job
            /\ [msg |-> k, claimed |-> FALSE] # [msg |-> m, claimed |-> TRUE]
        BY DEF Job
      <4>2. QED
        BY <1>1, <3>2, <4>1, EnqueueWaiting
    <3>3. QED
      BY <1>2, <3>1, <3>2 DEF ReceiveWebhook
  <2>3. CASE inbound'[m] = inbound[m]
    BY <2>1, <2>2, <2>3, SoleGoes
  <2>4. CASE inbound[m].status = "none"
    <3>1. Handlers(m) = {} /\ Drainers(m) = {} /\ Waiting(m) = {}
      BY <2>4, Unheld
    <3>2. Handlers(m)' = {} /\ Drainers(m)' = {} /\ Waiting(m)' = {}
      BY <2>1, <2>2, <3>1
    <3>3. /\ IsFiniteSet(Handlers(m)') /\ IsFiniteSet(Drainers(m)') /\ IsFiniteSet(Waiting(m)')
          /\ Cardinality(Handlers(m)') + Cardinality(Drainers(m)') + Cardinality(Waiting(m)') <= 1
      BY <3>2, SoleOfSets
    <3>4. QED
      BY <3>2, <3>3 DEF Sole
  <2>5. inbound'[m] = inbound[m] \/ inbound[m].status = "none"
    BY <1>1, <1>2 DEF ReceiveWebhook
  <2>6. QED
    BY <2>3, <2>4, <2>5
<1>3. ASSUME NEW r \in Replicas, NEW status \in {"failed", "ignored"}, DrainRelease(r, status)
      PROVE  Sole(m)'
  <2>1. /\ Handlers(m)' = Handlers(m) /\ Waiting(m)' = Waiting(m) /\ task' = task
        /\ Drainers(m)' \subseteq Drainers(m) \ {r}
    BY <1>1, <1>3 DEF DrainRelease, Handlers, Handling, Waiting, Drainers
  <2>2. CASE drain[r] = m
    <3>1. Drainers(m) \subseteq {r} /\ Handlers(m) = {} /\ Waiting(m) = {}
      <4>1. r \in Drainers(m)
        BY <2>2 DEF Drainers
      <4>2. QED
        BY <4>1, OnlyHolder
    <3>2. Handlers(m)' = {} /\ Drainers(m)' = {} /\ Waiting(m)' = {}
      BY <2>1, <3>1
    <3>3. /\ IsFiniteSet(Handlers(m)') /\ IsFiniteSet(Drainers(m)') /\ IsFiniteSet(Waiting(m)')
          /\ Cardinality(Handlers(m)') + Cardinality(Drainers(m)') + Cardinality(Waiting(m)') <= 1
      BY <3>2, SoleOfSets
    <3>4. QED
      BY <3>2, <3>3 DEF Sole
  <2>3. CASE drain[r] # m
    <3>1. inbound'[m] = inbound[m]
      BY <1>1, <1>3, <2>3 DEF DrainRelease
    <3>2. QED
      BY <2>1, <3>1, SoleGoes
  <2>4. QED
    BY <2>2, <2>3
<1>4. ASSUME NEW r \in Replicas, DrainAbandon(r)
      PROVE  FALSE
  BY <1>1, <1>4 DEF DrainAbandon
<1>5. ASSUME NEW r \in Replicas, Crash(r)
      PROVE  Sole(m)'
  <2>1. Handlers(m)' \subseteq Handlers(m) /\ \A w \in Handlers(m)' : task'[w] = task[w]
    BY <1>5 DEF Crash, Handlers, Handling, Idle
  <2>2. Waiting(m)' \subseteq Waiting(m) /\ Drainers(m)' \subseteq Drainers(m) /\ inbound' = inbound
    BY <1>1, <1>5 DEF Crash, Waiting, Drainers, rows
  <2>3. QED
    BY <2>1, <2>2, SoleGoes
<1>6. ASSUME NEW k \in Messages, GrowStale(k)
      PROVE  Sole(m)'
  <2>1. /\ Handlers(m)' = Handlers(m) /\ Drainers(m)' = Drainers(m) /\ Waiting(m)' = Waiting(m)
        /\ task' = task
    BY <1>6 DEF GrowStale, memory, Handlers, Handling, Drainers, Waiting
  <2>2. CASE k = m
    <3>1. ~Held(m)
      BY <1>6, <2>2 DEF GrowStale, CalmEnvironment
    <3>2. Handlers(m) = {} /\ Drainers(m) = {} /\ Waiting(m) = {}
      BY <3>1 DEF Held, Handlers, Handling, Drainers, Waiting
    <3>3. QED
      BY <2>1, <3>2 DEF Sole
  <2>3. CASE k # m
    <3>1. inbound'[m] = inbound[m]
      BY <1>1, <1>6, <2>3 DEF GrowStale
    <3>2. QED
      BY <2>1, <3>1, SoleGoes
  <2>4. QED
    BY <2>2, <2>3
<1>7. ASSUME NEW k \in Messages, NEW n \in 1..AttemptLimit, NEW s \in StatusKinds,
             NEW dropped \in BOOLEAN, DeliveryStatus(k, n, s, dropped)
      PROVE  Sole(m)'
  <2>1. /\ Handlers(m)' = Handlers(m) /\ Drainers(m)' = Drainers(m) /\ Waiting(m)' = Waiting(m)
        /\ task' = task /\ inbound' = inbound
    BY <1>7 DEF DeliveryStatus, memory, Handlers, Handling, Drainers, Waiting
  <2>2. QED
    BY <2>1, SoleGoes
<1>8. QED
  BY <1>2, <1>3, <1>4, <1>5, <1>6, <1>7

AllSole == \A m \in Messages : Sole(m)

LEMMA InitSole == Init => AllSole
<1> SUFFICES ASSUME Init, NEW m \in Messages PROVE Sole(m)
  BY DEF AllSole
<1>1. Handlers(m) = {} /\ Drainers(m) = {} /\ Waiting(m) = {}
  BY DEF Init, Handlers, Handling, Drainers, Waiting, Idle, Messages
<1>2. IsFiniteSet({}) /\ Cardinality({}) = 0
  BY FS_EmptySet
<1>3. QED
  BY <1>1, <1>2 DEF Sole

LEMMA NextSole ==
  ASSUME CalmEnvironment, Known, AllSole, [Next]_vars
  PROVE  AllSole'
<1> SUFFICES ASSUME NEW m \in Messages PROVE Sole(m)'
  BY DEF AllSole
<1>0. Sole(m) /\ TypeOK /\ throws \in Nat /\ ~(throws < MaxThrows)
  BY DEF AllSole, Known, TypeOK, CalmEnvironment
<1>1. CASE UNCHANGED vars
  BY <1>0, <1>1 DEF vars, Sole, Handlers, Handling, Drainers, Waiting
<1>2. ASSUME NEW w \in Workers, Pump(w) \/ Work(w) \/ Throw(w)
      PROVE  Sole(m)'
  BY <1>0, <1>2, PumpSole, WorkSole DEF Throw
<1>3. ASSUME NEW r \in Replicas, DrainClaim(r) \/ DrainQueue(r)
      PROVE  Sole(m)'
  BY <1>0, <1>3, DrainSole, QueueSole
<1>4. QED
  BY <1>0, <1>1, <1>2, <1>3, RestSole DEF Next

LEMMA SoleExcludes == Known /\ AllSole => ExclusiveHandling
<1> SUFFICES ASSUME AllSole, NEW m \in Messages, NEW v \in Workers, NEW w \in Workers,
                    Handling(v, m), Handling(w, m)
             PROVE  v = w
  BY DEF ExclusiveHandling
<1>1. v \in Handlers(m) /\ w \in Handlers(m)
  BY DEF Handlers
<1>2. QED
  BY <1>1, OnlyHolder DEF AllSole

\* Claims, queues, recovery loops and crashes hand a message from one holder to
\* the next and never to two: its handling is exclusive.
THEOREM ExclusiveSafety ==
  ASSUME CalmEnvironment
  PROVE  Spec => []ExclusiveHandling
<1>1. Init => Known /\ AllSole
  BY KnownInit, InitSole
<1>2. Known /\ AllSole /\ [Next]_vars => (Known /\ AllSole)'
  BY KnownNext, NextSole
<1>3. Known /\ AllSole => ExclusiveHandling
  BY SoleExcludes
<1>4. QED
  BY <1>1, <1>2, <1>3, PTL DEF Spec

\* A first delivery under way still has its reservation, and no id in it.
FirstOpen(m) ==
  /\ outbox[m].status = "none" <=> outbox[m].attempts = 0
  /\ \A w \in Workers : task[w].msg = m /\ task[w].pc \in {"send", "markSent"} /\ outbox[m].attempts = 1
       => outbox[m].status = "sending" /\ outbox[m].external = 0

\* A step that leaves the row of m alone, and sends nothing new.
LEMMA FirstKept ==
  ASSUME NEW m \in Messages, FirstOpen(m),
         outbox'[m].status = outbox[m].status, outbox'[m].attempts = outbox[m].attempts,
         outbox'[m].external = outbox[m].external,
         \A w \in Workers : task'[w].msg = m /\ task'[w].pc \in {"send", "markSent"}
           => task[w].msg = m /\ task[w].pc \in {"send", "markSent"}
  PROVE  FirstOpen(m)'
  BY DEF FirstOpen

\* A worker writes the row of the message it alone handles.
LEMMA WriteFirst ==
  ASSUME Known, NEW m \in Messages, FirstOpen(m), Sole(m), NEW w \in Workers, task[w].msg = m,
         task[w].pc \notin {"idle", "claim"},
         NEW next, task' = [task EXCEPT ![w] = next],
         (outbox'[m].status = "none" <=> outbox'[m].attempts = 0),
         \/ next.pc \notin {"send", "markSent"}
         \/ outbox'[m].attempts # 1
         \/ outbox'[m].status = "sending" /\ outbox'[m].external = 0
  PROVE  FirstOpen(m)'
<1>1. task'[w] = next /\ \A v \in Workers \ {w} : task'[v] = task[v]
  BY DEF Known, TypeOK
<1>2. w \in Handlers(m)
  BY DEF Handlers, Handling
<1>3. \A v \in Workers \ {w} : ~(task[v].msg = m /\ task[v].pc \in {"send", "markSent"})
  <2> SUFFICES ASSUME NEW v \in Workers \ {w}, task[v].msg = m, task[v].pc \in {"send", "markSent"}
               PROVE  FALSE
    OBVIOUS
  <2>1. v \in Handlers(m)
    BY DEF Handlers, Handling
  <2>2. QED
    BY <1>2, <2>1, OnlyHolder
<1>4. QED
  BY <1>1, <1>3 DEF FirstOpen

\* What the statements leave in the third column.
LEMMA ColumnsKept ==
  ASSUME NEW row \in OutboxRow, row.attempts = 0 <=> row.status = "none"
  PROVE  /\ \A id \in Nat : MarkOutboundSent(row, id).status = "sent"
         /\ MarkOutboundUnknown(row).status = "none" <=> MarkOutboundUnknown(row).attempts = 0
         /\ MarkOutboundFailed(row).status = "none" <=> MarkOutboundFailed(row).attempts = 0
         /\ \A n, s : n # 0 /\ row.external = 0 => UpdateOutboundStatus(row, n, s) = row
         /\ \A n \in Nat \ {0}, s \in StatusKinds :
              /\ UpdateOutboundStatus(row, n, s).status = "none"
                   <=> UpdateOutboundStatus(row, n, s).attempts = 0
              /\ UpdateOutboundStatus(row, n, s).external = row.external
<1>1. \A id \in Nat : MarkOutboundSent(row, id).status = "sent"
  BY ColumnsAfter
<1>2. MarkOutboundUnknown(row).status = "none" <=> MarkOutboundUnknown(row).attempts = 0
  BY DEF MarkOutboundUnknown, OutboxRow
<1>3. MarkOutboundFailed(row).status = "none" <=> MarkOutboundFailed(row).attempts = 0
  BY DEF MarkOutboundFailed, OutboxRow
<1>4. \A n, s : n # 0 /\ row.external = 0 => UpdateOutboundStatus(row, n, s) = row
  BY DEF UpdateOutboundStatus
<1>5. \A n \in Nat \ {0}, s \in StatusKinds :
              /\ UpdateOutboundStatus(row, n, s).status = "none"
                   <=> UpdateOutboundStatus(row, n, s).attempts = 0
              /\ UpdateOutboundStatus(row, n, s).external = row.external
  <2> SUFFICES ASSUME NEW n \in Nat \ {0}, NEW s \in StatusKinds
               PROVE  /\ UpdateOutboundStatus(row, n, s).status = "none"
                           <=> UpdateOutboundStatus(row, n, s).attempts = 0
                      /\ UpdateOutboundStatus(row, n, s).external = row.external
    OBVIOUS
  <2>1. UpdateOutboundStatus(row, n, s) \in {row, [row EXCEPT !.status = s]}
    BY DEF UpdateOutboundStatus
  <2>2. CASE UpdateOutboundStatus(row, n, s) = row
    BY <2>2
  <2>3. CASE UpdateOutboundStatus(row, n, s) = [row EXCEPT !.status = s] /\ row.status # "none"
    BY <2>3, SwitchAssumption DEF OutboxRow
  <2>4. row.status = "none" => UpdateOutboundStatus(row, n, s) = row
    BY SwitchAssumption DEF UpdateOutboundStatus, StatusAppliesFrom
  <2>5. QED
    BY <2>1, <2>2, <2>3, <2>4
<1>6. QED
  BY <1>1, <1>2, <1>3, <1>4, <1>5

LEMMA WorkFirst ==
  ASSUME CalmEnvironment, Known, NEW m \in Messages, FirstOpen(m), Sole(m), NEW w \in Workers, Work(w)
  PROVE  FirstOpen(m)'
<1>1. /\ TypeOK /\ task[w] \in Task /\ outbox[m] \in OutboxRow /\ outbox \in [Messages -> OutboxRow]
      /\ outbox[m].attempts \in Nat /\ task[w].accepted \in Nat
  BY BoundAssumption DEF Known, TypeOK, OutboxRow, Task
<1>2. PICK next : /\ task' = [task EXCEPT ![w] = next]
                  /\ next.pc = "idle" \/ next.msg = task[w].msg
  BY <1>1, WorkKeeps
<1>3. task'[w] = next /\ \A v \in Workers \ {w} : task'[v] = task[v]
  BY <1>1, <1>2, HandlersAfter
<1>4. task[w].pc # "idle"
  BY <1>1, WorkKeeps
<1>5. CASE task[w].msg # m
  <2>1. outbox'[m] = outbox[m]
    BY <1>1, <1>5 DEF Work, ClaimInbound, ConsumeUserLimit, Deny, Route, ReserveOutbound,
      RetryOutbound, Send, SendAccepted, SendRejected, SendUncertain, MarkSent, MarkUnknown,
      MarkFailed, Finish, Audit, Fail, rows
  <2>2. \A v \in Workers : task'[v].msg = m /\ task'[v].pc \in {"send", "markSent"}
           => task[v].msg = m /\ task[v].pc \in {"send", "markSent"}
    BY <1>2, <1>3, <1>5
  <2>3. QED
    BY <2>1, <2>2, FirstKept
<1>6. CASE task[w].msg = m /\ outbox' = outbox
           /\ (next.pc \notin {"send", "markSent"} \/ task[w].pc = "send")
  <2>1. \A v \in Workers : task'[v].msg = m /\ task'[v].pc \in {"send", "markSent"}
           => task[v].msg = m /\ task[v].pc \in {"send", "markSent"}
    BY <1>3, <1>6
  <2>2. QED
    BY <1>6, <2>1, FirstKept
<1>7. CASE task[w].msg = m /\ (ReserveOutbound(w) \/ RetryOutbound(w)) /\ outbox' # outbox
  <2>1. \/ outbox[m].status = "none" /\ outbox' = [outbox EXCEPT ![m] = ReservedOutbox]
        \/ outbox[m].status = "failed" /\ outbox' = [outbox EXCEPT ![m] = RetriedOutbox(outbox[m])]
    BY <1>7 DEF ReserveOutbound, RetryOutbound, RetryMatches
  <2>2. task[w].pc \notin {"idle", "claim"}
    BY <1>7 DEF ReserveOutbound, RetryOutbound, At
  <2>3. CASE outbox[m].status = "none" /\ outbox' = [outbox EXCEPT ![m] = ReservedOutbox]
    <3>1. outbox'[m].status = "sending" /\ outbox'[m].attempts = 1 /\ outbox'[m].external = 0
      BY <1>1, <2>3 DEF ReservedOutbox
    <3>2. outbox'[m].status = "none" <=> outbox'[m].attempts = 0
      BY <3>1
    <3>3. QED
      BY <1>2, <1>7, <2>2, <3>1, <3>2, WriteFirst
  <2>4. CASE outbox[m].status = "failed" /\ outbox' = [outbox EXCEPT ![m] = RetriedOutbox(outbox[m])]
    <3>1. outbox'[m].status = "sending" /\ outbox'[m].attempts = outbox[m].attempts + 1
      BY <1>1, <2>4 DEF RetriedOutbox
    <3>2. outbox[m].attempts # 0
      BY <2>4 DEF FirstOpen
    <3>3. outbox'[m].attempts # 1 /\ outbox'[m].attempts # 0
      BY <1>1, <3>1, <3>2
    <3>4. QED
      BY <1>2, <1>7, <2>2, <3>1, <3>3, WriteFirst
  <2>5. QED
    BY <2>1, <2>3, <2>4
<1>8. CASE task[w].msg = m /\ (MarkSent(w) \/ MarkUnknown(w) \/ MarkFailed(w))
  <2>1. task[w].pc \notin {"idle", "claim"}
    BY <1>8 DEF MarkSent, MarkUnknown, MarkFailed, At
  <2>2. next.pc \notin {"send", "markSent"}
    <3>1. /\ [To(w, "finish") EXCEPT !.accepted = 0].pc = "finish"
          /\ [To(w, "finish") EXCEPT !.unknown = TRUE, !.accepted = 0].pc = "finish"
          /\ To(w, "markUnknown").pc = "markUnknown" /\ To(w, "fail").pc = "fail"
      BY <1>1 DEF To, Task
    <3>a. ASSUME NEW t, Continue(w, t) PROVE next = t
      BY <1>1, <1>3, <3>a, CalmContinue, HandlersAfter
    <3>2. CASE MarkSent(w)
      <4>1. \/ Continue(w, [To(w, "finish") EXCEPT !.accepted = 0])
            \/ Continue(w, To(w, "markUnknown"))
        BY <3>2 DEF MarkSent
      <4>2. \/ next = [To(w, "finish") EXCEPT !.accepted = 0]
            \/ next = To(w, "markUnknown")
        BY <3>a, <4>1
      <4>3. QED
        BY <3>1, <4>2
    <3>3. CASE MarkUnknown(w)
      <4>1. Continue(w, [To(w, "finish") EXCEPT !.unknown = TRUE, !.accepted = 0])
        BY <3>3 DEF MarkUnknown
      <4>2. QED
        BY <3>1, <3>a, <4>1
    <3>4. CASE MarkFailed(w)
      BY <1>1, <1>3, <3>1, <3>4, CalmContinue, HandlersAfter DEF MarkFailed
    <3>5. QED
      BY <1>8, <3>2, <3>3, <3>4
  <2>3. \/ outbox'[m] = outbox[m] \/ outbox'[m] = MarkOutboundUnknown(outbox[m])
        \/ outbox'[m] = MarkOutboundFailed(outbox[m])
        \/ MarkSentMatches(outbox[m]) /\ \E id \in Nat : outbox'[m] = MarkOutboundSent(outbox[m], id)
    BY <1>1, <1>8 DEF MarkSent, MarkUnknown, MarkFailed
  <2>4. outbox'[m].status = "none" <=> outbox'[m].attempts = 0
    <3>1. outbox[m].attempts = 0 <=> outbox[m].status = "none"
      BY DEF FirstOpen
    <3>2. CASE MarkSentMatches(outbox[m]) /\ \E id \in Nat : outbox'[m] = MarkOutboundSent(outbox[m], id)
      BY <1>1, <3>1, <3>2, ColumnsAfter DEF MarkSentMatches
    <3>3. CASE outbox'[m] = MarkOutboundUnknown(outbox[m])
      BY <1>1, <3>1, <3>3, ColumnsKept
    <3>4. CASE outbox'[m] = MarkOutboundFailed(outbox[m])
      BY <1>1, <3>1, <3>4, ColumnsKept
    <3>5. QED
      BY <2>3, <3>1, <3>2, <3>3, <3>4
  <2>5. QED
    BY <1>2, <1>8, <2>1, <2>2, <2>4, WriteFirst
<1>9. ASSUME ~(MarkSent(w) \/ MarkUnknown(w) \/ MarkFailed(w)),
             ~(ReserveOutbound(w) \/ RetryOutbound(w)) \/ outbox' = outbox
      PROVE  outbox' = outbox /\ (next.pc \notin {"send", "markSent"} \/ task[w].pc = "send")
  <2>1. outbox' = outbox
    BY <1>9 DEF Work, ClaimInbound, ConsumeUserLimit, Deny, Route,
      Send, SendAccepted, SendRejected, SendUncertain, Finish, Audit, Fail, rows
  <2>2. Idle.pc = "idle" /\ \A pc : To(w, pc).pc = pc
    BY <1>1 DEF Idle, To, Task
  <2>3. CASE Send(w)
    BY <2>1, <2>3 DEF Send, SendAccepted, SendRejected, SendUncertain, At
  <2>4. CASE ClaimInbound(w)
    BY <1>1, <1>3, <2>1, <2>2, <2>4, CalmContinue, HandlersAfter DEF ClaimInbound
  <2>5. CASE ConsumeUserLimit(w) \/ Route(w)
    BY <1>1, <1>3, <2>1, <2>2, <2>5, HandlersAfter DEF ConsumeUserLimit, Route
  <2>6. CASE Deny(w) \/ Finish(w) \/ Audit(w)
    BY <1>1, <1>3, <2>1, <2>2, <2>6, CalmContinue, HandlersAfter DEF Deny, Finish, Audit
  <2>7. CASE Fail(w)
    BY <1>1, <1>3, <2>1, <2>2, <2>7 DEF Fail, TypeOK
  <2>8. CASE ReserveOutbound(w) \/ RetryOutbound(w)
    <3>1. Continue(w, To(w, "retry")) \/ Continue(w, To(w, "finish")) \/ Continue(w, To(w, "markUnknown"))
      <4>1. CASE ReserveOutbound(w)
        <5>1. outbox[task[w].msg].status # "none"
          <6>1. task[w].msg \in Messages
            BY <1>4 DEF Known, TasksKnown
          <6>2. QED
            BY <1>1, <2>1, <4>1, <6>1 DEF ReserveOutbound, ReservedOutbox
        <5>2. QED
          BY <4>1, <5>1 DEF ReserveOutbound, NotReserved
      <4>2. CASE RetryOutbound(w)
        <5>1. ~RetryMatches(outbox[task[w].msg])
          <6>1. task[w].msg \in Messages
            BY <1>4 DEF Known, TasksKnown
          <6>2. QED
            BY <1>1, <2>1, <4>2, <6>1 DEF RetryOutbound, RetriedOutbox, RetryMatches
        <5>2. QED
          BY <4>2, <5>1 DEF RetryOutbound, NotReserved
      <4>3. QED
        BY <2>8, <4>1, <4>2
    <3>2. QED
      BY <1>1, <1>3, <2>1, <2>2, <3>1, CalmContinue, HandlersAfter
  <2>9. QED
    BY <1>9, <2>3, <2>4, <2>5, <2>6, <2>7, <2>8 DEF Work
<1>10. QED
  BY <1>5, <1>6, <1>7, <1>8, <1>9

AllFirstOpen == \A m \in Messages : FirstOpen(m)

LEMMA NextFirst ==
  ASSUME CalmEnvironment, Known, AllSole, AllFirstOpen, [Next]_vars
  PROVE  AllFirstOpen'
<1> SUFFICES ASSUME NEW m \in Messages PROVE FirstOpen(m)'
  BY DEF AllFirstOpen
<1>0. /\ FirstOpen(m) /\ Sole(m) /\ TypeOK /\ throws \in Nat /\ ~(throws < MaxThrows)
      /\ outbox \in [Messages -> OutboxRow] /\ outbox[m] \in OutboxRow
  BY DEF AllFirstOpen, AllSole, Known, TypeOK, CalmEnvironment
<1>1. CASE UNCHANGED vars
  BY <1>0, <1>1 DEF vars, FirstOpen
<1>2. ASSUME NEW w \in Workers, Work(w) \/ Throw(w)
      PROVE  FirstOpen(m)'
  BY <1>0, <1>2, WorkFirst DEF Throw
<1>3. CASE outbox' = outbox /\ \A w \in Workers : task'[w].pc \in {"send", "markSent"} => task'[w] = task[w]
  BY <1>0, <1>3, FirstKept
<1>4. ASSUME NEW w \in Workers, Pump(w)
      PROVE  FirstOpen(m)'
  BY <1>0, <1>3, <1>4 DEF Pump, rows, Idle, TypeOK
<1>5. ASSUME NEW r \in Replicas,
             \/ \E k \in Messages : ReceiveWebhook(r, k)
             \/ DrainClaim(r) \/ DrainQueue(r)
             \/ \E status \in {"failed", "ignored"} : DrainRelease(r, status)
             \/ DrainAbandon(r) \/ Crash(r)
      PROVE  FirstOpen(m)'
  <2>1. CASE Crash(r)
    <3>1. outbox' = outbox /\ task' = [w \in Workers |-> IF Host[w] = r THEN Idle ELSE task[w]]
      BY <2>1 DEF Crash, rows
    <3>2. Idle.pc = "idle"
      BY DEF Idle
    <3>3. QED
      BY <1>3, <3>1, <3>2
  <2>2. CASE ~Crash(r)
    <3>1. outbox' = outbox /\ task' = task
      BY <1>5, <2>2 DEF ReceiveWebhook, DrainClaim, DrainQueue, DrainRelease, DrainAbandon, rows
    <3>2. QED
      BY <1>3, <3>1
  <2>3. QED
    BY <2>1, <2>2
<1>6. ASSUME NEW k \in Messages, GrowStale(k)
      PROVE  FirstOpen(m)'
  BY <1>3, <1>6 DEF GrowStale, memory
<1>7. ASSUME NEW k \in Messages, NEW n \in 1..AttemptLimit, NEW s \in StatusKinds,
             NEW dropped \in BOOLEAN, DeliveryStatus(k, n, s, dropped)
      PROVE  FirstOpen(m)'
  <2>1. task' = task
    BY <1>7 DEF DeliveryStatus, memory
  <2>2. outbox'[m] \in {outbox[m], UpdateOutboundStatus(outbox[m], n, s)}
    BY <1>0, <1>7 DEF DeliveryStatus
  <2>3. n \in Nat \ {0}
    BY BoundAssumption
  <2>4. CASE outbox'[m] = outbox[m]
    BY <1>0, <2>1, <2>4, FirstKept
  <2>5. CASE outbox'[m] = UpdateOutboundStatus(outbox[m], n, s) /\ outbox'[m] # outbox[m]
    <3>1. outbox[m].attempts = 0 <=> outbox[m].status = "none"
      BY <1>0 DEF FirstOpen
    <3>2. outbox[m].external # 0
      BY <1>0, <2>3, <2>5, <3>1, ColumnsKept
    <3>3. /\ outbox'[m].status = "none" <=> outbox'[m].attempts = 0
          /\ outbox'[m].attempts = outbox[m].attempts
      BY <1>0, <2>3, <2>5, <3>1, ColumnsKept, ColumnsAfter
    <3>4. QED
      BY <1>0, <2>1, <3>2, <3>3 DEF FirstOpen
  <2>6. QED
    BY <2>2, <2>4, <2>5
<1>8. QED
  BY <1>1, <1>2, <1>4, <1>5, <1>6, <1>7 DEF Next

\* The id of the first delivery is always stored: nothing closes its reservation
\* between the send and markOutboundSent.
THEOREM FirstDeliverySafety ==
  ASSUME CalmEnvironment
  PROVE  Spec => []FirstDeliveryRecorded
<1>1. Init => Known /\ AllSole /\ AllFirstOpen
  <2>1. Init => AllFirstOpen
    BY DEF Init, NoOutbox, Idle, AllFirstOpen, FirstOpen
  <2>2. QED
    BY <2>1, KnownInit, InitSole
<1>2. Known /\ AllSole /\ AllFirstOpen /\ [Next]_vars => (Known /\ AllSole /\ AllFirstOpen)'
  BY KnownNext, NextSole, NextFirst
<1>3. Known /\ AllFirstOpen => FirstDeliveryRecorded
  BY DEF Known, TasksKnown, AllFirstOpen, FirstOpen, FirstDeliveryRecorded
<1>4. QED
  BY <1>1, <1>2, <1>3, PTL DEF Spec
=============================================================================
